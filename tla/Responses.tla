------------------------------ MODULE Responses ------------------------------
(***************************************************************************)
(* What an answer of a provider means to the client: the classifiers of    *)
(* GeoTab (network/classifiers/geotab.py) and of the two key-authenticated *)
(* providers (motive.py and samsara.py, which agree), the body check the   *)
(* transport adds to a success (network/client/transport.py), and how the  *)
(* Authenticate call reads its own answer (network/auth/authenticate.py).  *)
(*                                                                         *)
(* GeoTab reports its errors in the body of an HTTP 200; the others report *)
(* theirs in the status.  An answer is a status and what its body holds.   *)
(***************************************************************************)
EXTENDS Integers

\* Statuses, one of each arm of the classifiers and one between the arms.
Statuses == {200, 302, 401, 403, 404, 429, 500, 503}

\* The GeoTab exception types the classifier knows, and one it does not.
Exceptions == {"OverLimitException", "InvalidUserException",
               "DbUnavailableException", "OtherException"}

\* Bodies: no JSON (a load balancer's page); JSON with a result; with neither
\* result nor error; with an error without data.type; or with a typed error,
\* which decides also when a result is next to it.
Bodies == {"html", "result", "neither", "untyped"} \cup Exceptions

Answers == [status : Statuses, body : Bodies]

\* ResponseCategory, and what the transport makes of an unparseable success.
Categories == {"SUCCESS", "TRANSIENT", "RATE_LIMITED", "AUTH_FAILURE", "FATAL"}

ServerError(answer) == answer.status >= 500

\* The error envelope: an unknown or missing type is fatal, never guessed.
ErrorCategory(body) ==
    CASE body = "OverLimitException" -> "RATE_LIMITED"
      [] body = "InvalidUserException" -> "AUTH_FAILURE"
      [] body = "DbUnavailableException" -> "TRANSIENT"
      [] OTHER -> "FATAL"

\* Faulty variant: whatever is not understood is taken for a dead session.
GeotabCategoryGuessing(answer) ==
    CASE ServerError(answer) -> "TRANSIENT"
      [] ~ServerError(answer) /\ answer.body \in {"OtherException", "untyped"} ->
            "AUTH_FAILURE"
      [] ~ServerError(answer) /\ answer.body = "result" -> "SUCCESS"
      [] OTHER -> ErrorCategory(answer.body)

\* GeoTab: the server-error floor, then the envelope whatever the status.
GeotabCategory(answer) ==
    CASE ServerError(answer) -> "TRANSIENT"
      [] ~ServerError(answer) /\ answer.body = "result" -> "SUCCESS"
      [] OTHER -> ErrorCategory(answer.body)

\* Motive and Samsara: the status alone.
KeyCategory(answer) ==
    CASE answer.status \in 200 .. 299 -> "SUCCESS"
      [] answer.status = 429 -> "RATE_LIMITED"
      [] answer.status \in {401, 403} -> "AUTH_FAILURE"
      [] ServerError(answer) -> "TRANSIENT"
      [] OTHER -> "FATAL"

\* The transport parses the body of a success that its classifier did not, and
\* raises ProviderResponseError, as a fatal answer does, when it is not JSON.
Checked(category, answer) ==
    IF category = "SUCCESS" /\ answer.body = "html" THEN "FATAL" ELSE category

\* Authenticate wants exactly a 200 with a result; everything else raises
\* AuthenticationError or ProviderResponseError.
Authenticates(answer) == answer.status = 200 /\ answer.body = "result"
=============================================================================
