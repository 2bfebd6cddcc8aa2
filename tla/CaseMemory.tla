----------------------------- MODULE CaseMemory ----------------------------
(***************************************************************************)
(* The part of a case's state that one planning round moves: the rounds    *)
(* completed, the tool calls left, the facts known.  Shared by the loop    *)
(* that runs the rounds and by the service that persists them.             *)
(***************************************************************************)
EXTENDS Naturals

CONSTANTS
  Fact,                \* fact types the sources can support
  Budget,              \* DEFAULT_TOOL_CALL_BUDGET, for the whole case
  MaxPlanningRounds    \* MAX_PLANNING_ROUNDS, for the whole case

ASSUME MemoryAssumption == Budget \in Nat /\ MaxPlanningRounds \in Nat \ {0}

Memory == [rounds : 0..MaxPlanningRounds, remaining : 0..Budget, facts : SUBSET Fact]

EmptyMemory == [rounds |-> 0, remaining |-> Budget, facts |-> {}]

(* A further round is possible.                                            *)
CanPlan(m) == m.rounds < MaxPlanningRounds /\ m.remaining > 0

(* One completed round: it is numbered next, it costs at least one call    *)
(* and no more than were left, and facts are never lost.                   *)
RoundMoves(m, n) ==
  /\ CanPlan(m)
  /\ n.rounds = m.rounds + 1
  /\ n.remaining < m.remaining
  /\ m.facts \subseteq n.facts
=============================================================================
