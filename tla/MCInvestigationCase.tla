------------------------ MODULE MCInvestigationCase ------------------------
(* Small instances of InvestigationCase for TLC.                           *)
EXTENDS InvestigationCase, TLC

CONSTANTS w1, w2, api1, api2, f1, f2

(* One API process with two requests in flight, or two with one each.      *)
SharedLoop == w1 :> api1 @@ w2 :> api1

NoFaults == {}
ShutdownAndCounters == {"shutdown", "count_lost", "count_landed"}
AllButCountLanded == FaultKind \ {"count_landed"}
=============================================================================
