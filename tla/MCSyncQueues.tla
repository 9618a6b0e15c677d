---------------------------- MODULE MCSyncQueues ----------------------------
(* SyncQueues on small instances. *)
EXTENDS SyncQueues

\* Section by section: two providers with feeders and consumers, one of them
\* alone, a misspelt endpoint, an endpoint named twice, nothing selected.
With(motive, geotab, samsara) ==
    (Motive :> motive) @@ (Geotab :> geotab) @@ (Samsara :> samsara)
Section(endpoints, credential) ==
    [endpoints |-> endpoints, credential |-> credential]

SmallDocuments ==
    {With(Section(<<"vehicle_locations", "vehicles", "groups">>, "missing"),
          Section(<<"users", "trips">>, "literal"), Absent),
     With(Absent, Section(<<>>, "literal"),
          Section(<<"trips", "vehicles", "drivers">>, "literal")),
     With(Section(<<"vehicles">>, "literal"), Section(<<"trips">>, "null"), Absent),
     With(Absent, Absent, Section(<<"tripz">>, "literal")),
     With(Section(<<"groups", "groups">>, "literal"), Absent, Absent),
     With(Section(<<>>, "missing"), Absent, Absent)}

SmallEnvironments == {{}, {Motive, Geotab}}

File(stamp, sound, version) ==
    [stamp |-> stamp, wal |-> FALSE, sound |-> sound, version |-> version,
     schema |-> 1..version]

\* No file yet, an older release's, a newer one's, a corrupt one, another
\* application's, and another's that never set an application id.
SmallFiles ==
    {File("none", TRUE, 0), File("fleetpull", TRUE, 1), File("fleetpull", TRUE, 4),
     File("fleetpull", FALSE, 1), File("other", TRUE, 2),
     [File("none", TRUE, 0) EXCEPT !.schema = {0}]}
=============================================================================
