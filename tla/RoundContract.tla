--------------------------- MODULE RoundContract ---------------------------
(***************************************************************************)
(* What the workflow service relies on when it awaits investigate(): how   *)
(* a case's memory may move during one turn, and that the turn ends.       *)
(* AdaptiveRounds is shown to implement it.                                *)
(***************************************************************************)
EXTENDS CaseMemory

VARIABLES memory, open

Init == memory \in Memory /\ open = TRUE

(* A round that closes the turn is one that taught nothing.                *)
Round ==
  /\ open
  /\ memory' \in Memory
  /\ RoundMoves(memory, memory')
  /\ open' \in BOOLEAN
  /\ ~open' => memory'.facts = memory.facts

Close == open /\ open' = FALSE /\ UNCHANGED memory

Spec == Init /\ [][Round \/ Close]_<<memory, open>> /\ WF_<<memory, open>>(Round \/ Close)
=============================================================================
