---------------------------- MODULE ProviderErrors ----------------------------
(***************************************************************************)
(* What an answer of GitHub, Sentry or Jira means when it is not the answer *)
(* hoped for: the exception a connector raises for it (connectors/          *)
(* github_http_base.py, sentry_http.py, jira_http.py), the category the     *)
(* exception carries (connectors/errors.py), and the failure code a tool    *)
(* reports for it (tools/adapters.py, tools/models.py).                     *)
(*                                                                         *)
(* A response is [kind, status, limited, sound]: the request timed out, the *)
(* transport failed, or an HTTP status came back, perhaps with rate-limit   *)
(* headers, over a body that is or is not what the response model accepts.  *)
(* Exceptions are named by their class, without the provider's prefix.      *)
(***************************************************************************)
EXTENDS Integers, TLC

CONSTANT None

Http(status, limited, sound) ==
  [kind |-> "http", status |-> status, limited |-> limited, sound |-> sound]
TimedOut == [kind |-> "timeout", status |-> 0, limited |-> FALSE, sound |-> FALSE]
Unreachable == [kind |-> "transport", status |-> 0, limited |-> FALSE, sound |-> FALSE]
Answer == Http(200, FALSE, TRUE)

StatusError ==
  (401 :> "unauthorized") @@ (403 :> "forbidden") @@ (404 :> "not_found")
    @@ (429 :> "rate_limited")

(* The transport's exceptions come before any status, a body that cannot be *)
(* read after it.                                                          *)
ErrorBut(special, r) ==
  CASE r.kind = "timeout" -> "timeout"
    [] r.kind = "transport" -> "upstream_unavailable"
    [] special # None -> special
    [] r.status \in DOMAIN StatusError -> StatusError[r.status]
    [] r.status \in 500..599 -> "upstream_unavailable"
    [] r.status \notin 200..299 \/ ~r.sound -> "invalid_response"
    [] OTHER -> None

SentryError(r) == ErrorBut(None, r)
JiraError(r) == ErrorBut(None, r)

(* GitHub also answers 403 to a client that has used up its allowance.      *)
GitHubError(r) ==
  ErrorBut(CASE r.status = 403 /\ r.limited -> "rate_limited"
             [] r.status = 422 -> "unprocessable_entity"
             [] OTHER -> None, r)

(* Exceptions that share another's category.                               *)
Category(error) ==
  CASE error \in {"unprocessable_entity", "deploy_not_found"} -> "not_found"
    [] error = "release_missing_commit" -> "invalid_response"
    [] error \in {"invalid_deployment_reference", "unsupported_signal", "invalid_issue_key"} ->
         "invalid_request"
    [] OTHER -> error

FailureCode(error) ==
  CASE error = "connector_unavailable" -> "capability_unavailable"
    [] error = "fixture_not_found" -> "not_found"
    [] OTHER -> Category(error)
=============================================================================
