------------------------------- MODULE Catalog -------------------------------
(***************************************************************************)
(* The endpoint catalog: what each endpoint leaf declares                  *)
(* (endpoints/<provider>/<name>.py), the rosters declared beside their     *)
(* feeders, what a declaration must satisfy to be constructed              *)
(* (endpoints/shared/base.py, request_shape.py, sync_mode.py), the two     *)
(* registries (endpoints/registry.py, roster/registry.py) and how a shape  *)
(* becomes a driver (orchestrator/shape_resolution.py).                    *)
(*                                                                         *)
(* No variables: the modules that run endpoints take their declarations    *)
(* from here.  Of a declaration, what decides behaviour is kept: the sync  *)
(* mode and storage, the column rows are routed by, how pages are walked   *)
(* and at which size, which records the provider returns for a window      *)
(* (each leaf's spec builder and the rule it states), the request shape,   *)
(* the completeness check, the fixed unit width.  URLs, parameter names,   *)
(* response models and the lookback and cutoff (configured) are left out.  *)
(***************************************************************************)
EXTENDS Integers, Sequences, FiniteSets

Geotab == "geotab"
Motive == "motive"
Samsara == "samsara"
Providers == {Geotab, Motive, Samsara}

\* StorageKind, the modes' names and the columns a row is routed by.
StorageKinds == {"single", "date_partitioned", "append_log"}
Modes == {"snapshot", "watermark", "feed"}
NoColumn == "none"

\* What a window selects at the provider: the records whose anchor lies in it,
\* the records that overlap it, the records that overlap its company-local days,
\* one aggregate row per subject for the whole of it.
Retrievals == {"listing", "feed", "anchored", "overlap", "local_overlap",
               "report"}

\* How a page decoder finds the next page: after the last id of this one, by
\* page number, by the provider's cursor, by the cursor over vehicles that nest
\* their readings, or never; a feed goes on from toVersion.
Decoders == {"seek", "offset", "cursor", "series", "single", "feed"}

\* What a decoder adds to a record that does not carry it, off the sent request.
Stamps == {"nothing", "window", "member"}

Minute == 60
Day == 24 * 60 * Minute

-----------------------------------------------------------------------------
(* Request shapes.                                                         *)

RosterKey(provider, name) == [provider |-> provider, name |-> name]

NoRoster == RosterKey("none", "none")

Shape(kind) == [kind |-> kind, roster |-> NoRoster, batchSize |-> 1,
                values |-> <<>>, resultsLimit |-> 0, floor |-> 0]

SingleFetch == Shape("single")
RosterFanOut(key) == [Shape("fan_out") EXCEPT !.roster = key]
BatchedRosterFanOut(key, size) ==
    [Shape("batched") EXCEPT !.roster = key, !.batchSize = size]
ParamSweep(values) == [Shape("sweep") EXCEPT !.values = values]
BisectedWindowFetch(limit, floor) ==
    [Shape("bisected") EXCEPT !.resultsLimit = limit, !.floor = floor]

NeedsRoster(shape) == shape.kind \in {"fan_out", "batched"}

\* What the shapes' own constructors refuse: an empty batch, an empty sweep and
\* a sweep that names a value twice.
ValidShape(shape) ==
    /\ shape.kind = "batched" => shape.batchSize >= 1
    /\ shape.kind = "sweep" =>
          /\ shape.values # <<>>
          /\ \A i, j \in DOMAIN shape.values :
                shape.values[i] = shape.values[j] => i = j

-----------------------------------------------------------------------------
(* The declarations, by kind.                                              *)

Snapshot(provider, name, decoder, limit) ==
    [provider |-> provider, name |-> name, mode |-> "snapshot",
     storage |-> "single", column |-> NoColumn, unitDays |-> 0,
     decoder |-> decoder, limit |-> limit, retrieval |-> "listing",
     pad |-> 0, stamp |-> "nothing", shape |-> SingleFetch, check |-> FALSE]

Watermarked(provider, name, column, decoder, limit, retrieval) ==
    [Snapshot(provider, name, decoder, limit) EXCEPT
        !.mode = "watermark", !.storage = "date_partitioned",
        !.column = column, !.retrieval = retrieval]

\* A report: its rows carry no time of their own, are stamped with the window
\* that was asked for, and cannot be added up, so units are one day wide.
Report(provider, name, decoder, limit) ==
    [Watermarked(provider, name, "window_start", decoder, limit, "report") EXCEPT
        !.stamp = "window", !.unitDays = 1]

\* A GeoTab GetFeed stream.
Feed(name, column, limit) ==
    [Snapshot(Geotab, name, "feed", limit) EXCEPT
        !.mode = "feed", !.storage = "append_log", !.column = column,
        !.retrieval = "feed"]

\* The records-per-page of a Motive listing is configured; this is its default.
RecordsPerPage == 100

-----------------------------------------------------------------------------
(* GeoTab.                                                                 *)

GeotabAnnotationLogs == Feed("annotation_logs", "date_time", 50000)
GeotabAudits == Feed("audits", "date_time", 50000)
GeotabDriverChanges == Feed("driver_changes", "date_time", 50000)
GeotabDutyStatusLogs == Feed("duty_status_logs", "date_time", 50000)
GeotabDvirLogs == Feed("dvir_logs", "date_time", 50000)
GeotabFaultData == Feed("fault_data", "date_time", 50000)
GeotabFillUps == Feed("fill_ups", "date_time", 10000)
GeotabFuelAndEnergyUsed == Feed("fuel_and_energy_used", "date_time", 50000)
GeotabFuelTaxDetails == Feed("fuel_tax_details", "enter_time", 50000)
GeotabLogRecords == Feed("log_records", "date_time", 50000)
GeotabMediaFiles == Feed("media_files", "from_date", 50000)
GeotabShipmentLogs == Feed("shipment_logs", "date_time", 50000)
GeotabStatusData == Feed("status_data", "date_time", 50000)
GeotabTextMessages == Feed("text_messages", "sent", 50000)

\* The two complete listings are checked against GetCountOf.
GeotabDevices ==
    [Snapshot(Geotab, "devices", "seek", 5000) EXCEPT !.check = TRUE]
GeotabUsers ==
    [Snapshot(Geotab, "users", "seek", 5000) EXCEPT !.check = TRUE]

GeotabTrips ==
    Watermarked(Geotab, "trips", "stop", "seek", 5000, "anchored")

\* ExceptionEvent cannot be sorted by id: one capped page per window, halved
\* while it is full.
GeotabExceptionEvents ==
    [Watermarked(Geotab, "exception_events", "active_from", "single", 5000,
                 "overlap") EXCEPT
        !.shape = BisectedWindowFetch(5000, Minute)]

-----------------------------------------------------------------------------
(* Motive.                                                                 *)

MotiveVehicleIds == RosterKey(Motive, "vehicle_ids")

MotiveGroups == Snapshot(Motive, "groups", "offset", RecordsPerPage)
MotiveUsers == Snapshot(Motive, "users", "offset", RecordsPerPage)
MotiveVehicles == Snapshot(Motive, "vehicles", "offset", RecordsPerPage)
MotiveDrivingPeriods ==
    Watermarked(Motive, "driving_periods", "start_time", "offset", 100,
                "anchored")
\* Retrieved by company-local days, so asked for a day more on both sides.
MotiveIdleEvents ==
    [Watermarked(Motive, "idle_events", "start_time", "offset", 100,
                 "local_overlap") EXCEPT !.pad = 1]
MotiveVehicleLocations ==
    [Watermarked(Motive, "vehicle_locations", "located_at", "single", 0,
                 "anchored") EXCEPT !.shape = RosterFanOut(MotiveVehicleIds)]
MotiveDriverIdleRollups ==
    Report(Motive, "driver_idle_rollups", "offset", RecordsPerPage)
MotiveVehicleUtilizations ==
    Report(Motive, "vehicle_utilizations", "offset", RecordsPerPage)

-----------------------------------------------------------------------------
(* Samsara.                                                                *)

SamsaraVehicleIds == RosterKey(Samsara, "vehicle_ids")

SamsaraAddresses == Snapshot(Samsara, "addresses", "cursor", 512)
SamsaraVehicles == Snapshot(Samsara, "vehicles", "cursor", 512)
SamsaraDrivers ==
    [Snapshot(Samsara, "drivers", "cursor", 512) EXCEPT
        !.shape = ParamSweep(<<"active", "deactivated">>)]
SamsaraEngineStates ==
    Watermarked(Samsara, "engine_states", "time", "series", 512, "anchored")
SamsaraGpsReadings ==
    Watermarked(Samsara, "gps_readings", "time", "series", 512, "anchored")
SamsaraOdometerReadings ==
    Watermarked(Samsara, "odometer_readings", "time", "series", 512, "anchored")
SamsaraIdlingEvents ==
    Watermarked(Samsara, "idling_events", "start_time", "cursor", 200,
                "anchored")
SamsaraDriverVehicleAssignments ==
    Watermarked(Samsara, "driver_vehicle_assignments", "start_time", "cursor",
                50, "overlap")
SamsaraAssetLocations ==
    [Watermarked(Samsara, "asset_locations", "happened_at_time", "cursor", 512,
                 "anchored") EXCEPT
        !.shape = BatchedRosterFanOut(SamsaraVehicleIds, 50)]
SamsaraTrips ==
    [Watermarked(Samsara, "trips", "start_time", "single", 0, "overlap") EXCEPT
        !.shape = RosterFanOut(SamsaraVehicleIds), !.stamp = "member"]
SamsaraDriverFuelEnergyReports ==
    Report(Samsara, "driver_fuel_energy_reports", "cursor", 100)
SamsaraVehicleFuelEnergyReports ==
    Report(Samsara, "vehicle_fuel_energy_reports", "cursor", 100)

-----------------------------------------------------------------------------
(* The registries.                                                         *)

\* Every leaf module's definition, in no particular order.
Definitions ==
    {GeotabAnnotationLogs, GeotabAudits, GeotabDevices, GeotabDriverChanges,
     GeotabDutyStatusLogs, GeotabDvirLogs, GeotabExceptionEvents,
     GeotabFaultData, GeotabFillUps, GeotabFuelAndEnergyUsed,
     GeotabFuelTaxDetails, GeotabLogRecords, GeotabMediaFiles,
     GeotabShipmentLogs, GeotabStatusData, GeotabTextMessages, GeotabTrips,
     GeotabUsers,
     MotiveDriverIdleRollups, MotiveDrivingPeriods, MotiveGroups,
     MotiveIdleEvents, MotiveUsers, MotiveVehicleLocations,
     MotiveVehicleUtilizations, MotiveVehicles,
     SamsaraAddresses, SamsaraAssetLocations, SamsaraDriverFuelEnergyReports,
     SamsaraDriverVehicleAssignments, SamsaraDrivers, SamsaraEngineStates,
     SamsaraGpsReadings, SamsaraIdlingEvents, SamsaraOdometerReadings,
     SamsaraTrips, SamsaraVehicleFuelEnergyReports, SamsaraVehicles}

\* EndpointRegistry: at most one definition of a provider and a name.
NoDuplicate(definitions) ==
    \A d, e \in definitions :
        d.provider = e.provider /\ d.name = e.name => d = e

Registered(provider, name) ==
    \E d \in Definitions : d.provider = provider /\ d.name = name

Get(provider, name) ==
    CHOOSE d \in Definitions : d.provider = provider /\ d.name = name

\* The rosters, found beside the endpoint that feeds each.
RosterDefinitions ==
    {[key |-> key, source |-> "vehicles", maxAge |-> Day, evictionThreshold |-> 3]
        : key \in {MotiveVehicleIds, SamsaraVehicleIds}}

GetRoster(key) == CHOOSE r \in RosterDefinitions : r.key = key

\* The rosters an endpoint's rows feed.
SourcedBy(provider, name) ==
    {r \in RosterDefinitions : r.key.provider = provider /\ r.source = name}

\* Who feeds a roster, and who reads one.
IsFeeder(d) == SourcedBy(d.provider, d.name) # {}
IsConsumer(d) == NeedsRoster(d.shape)

-----------------------------------------------------------------------------
(* EndpointDefinition.__post_init__.                                       *)

ValidStoragePairing(d) ==
    /\ d.mode = "snapshot" => d.storage = "single"
    /\ d.mode = "feed" <=> d.storage = "append_log"

ValidEventTime(d) ==
    IF d.mode = "snapshot" THEN d.column = NoColumn
    ELSE d.mode = "watermark" \/ d.storage \in {"date_partitioned", "append_log"}
             => d.column # NoColumn

ValidRequestShape(d) ==
    /\ NeedsRoster(d.shape) => d.shape.roster.provider = d.provider
    /\ d.shape.kind = "bisected" =>
          d.mode = "watermark" /\ d.storage = "date_partitioned"
    /\ d.shape.kind = "sweep" => d.mode = "snapshot"

ValidCompletenessCheck(d) ==
    d.check => d.mode = "snapshot" /\ d.shape.kind = "single"

\* WatermarkMode refuses a unit of no days; 0 stands here for none declared.
ValidUnit(d) == d.unitDays # 0 => d.mode = "watermark" /\ d.unitDays >= 1

Constructible(d) ==
    /\ ValidStoragePairing(d) /\ ValidEventTime(d)
    /\ ValidShape(d.shape) /\ ValidRequestShape(d)
    /\ ValidCompletenessCheck(d) /\ ValidUnit(d)

\* The driver a shape resolves to.
DriverOf(d) ==
    CASE d.shape.kind = "single"   -> "single"
      [] d.shape.kind = "bisected" -> "bisecting"
      [] OTHER                     -> "fan_out"

-----------------------------------------------------------------------------
(* What the modules that use the catalog rely on, evaluated by every run of *)
(* theirs: each leaf constructs and the registries accept it; a roster that *)
(* is read is declared, and fed by a listing; and what construction does    *)
(* not check but every leaf keeps: a report's unit is one day; only a       *)
(* capped page walked alone is bisected, at the limit it is asked with; a   *)
(* listing that is counted afterwards is sought by id; numbered pages are   *)
(* walked alone; rows are given the member asked for where one is asked for *)
(* at a time.                                                               *)
ASSUME CatalogSound ==
    /\ \A d \in Definitions :
          /\ Constructible(d)
          /\ d.decoder \in Decoders /\ d.retrieval \in Retrievals
          /\ d.stamp \in Stamps
          /\ IsConsumer(d) => d.shape.roster \in {r.key : r \in RosterDefinitions}
          /\ d.retrieval = "report" <=> d.stamp = "window"
          /\ d.stamp = "window" => d.unitDays = 1
          /\ d.retrieval = "local_overlap" => d.pad >= 1
          /\ d.pad \in Nat
          /\ d.check => d.decoder = "seek"
          /\ d.decoder = "offset" => d.shape.kind = "single"
          /\ d.stamp = "member" => d.shape.kind = "fan_out"
          /\ d.shape.kind = "bisected" =>
                /\ d.decoder = "single" /\ d.limit = d.shape.resultsLimit
                /\ d.retrieval \in {"anchored", "overlap"}
    /\ NoDuplicate(Definitions) /\ Cardinality(Definitions) = 38
    /\ \A r \in RosterDefinitions :
          /\ Registered(r.key.provider, r.source)
          /\ Get(r.key.provider, r.source).mode = "snapshot"
          /\ ~IsConsumer(Get(r.key.provider, r.source))
=============================================================================
