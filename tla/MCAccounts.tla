------------------------------ MODULE MCAccounts ------------------------------
(***************************************************************************)
(* Two people at two addresses, two spellings of one of their emails, and  *)
(* the seeded account. One scene is the limiter's, one is two accounts'    *)
(* over one provider, three exercise the routes and what they open, and    *)
(* one is the workspace page's.                                            *)
(***************************************************************************)
EXTENDS Accounts

MCHostOf == [b \in Browsers |-> IF b = "ann" THEN "h1" ELSE "h2"]
MCAccountOf == [e \in Emails |-> IF e = "Ann@x" THEN "ann@x" ELSE e]
Limits == {"ann", "time", "extraction"}
TwoAccounts == {"ann", "bob", "ann@x", "Ann@x", "bob@x", "github", "context"}
Demonstration == {"ann", "ann@x", "demo@x", "github", "jira",
                  "merge", "live_merge", "projects", "follow_up"}
Opening == {"ann", "ann@x", "github", "sentry", "scan"}
Asking == {"ann", "ann@x", "github", "sentry", "jira", "investigation"}
Workspace == {"ann", "ann@x", "workspace", "github"}
MCScenes == {Limits, TwoAccounts, Demonstration, Opening, Asking, Workspace}
=============================================================================
