--------------------------- MODULE AdaptiveRounds --------------------------
(***************************************************************************)
(* AdaptiveInvestigationRuntime.investigate (investigations/replanning.py): *)
(* plan a few steps, run them with what is left of the case's budget, look *)
(* at what was learned, plan again.  The executor of PlanExecution runs    *)
(* inside each round.  A follow-up starts where the case's earlier rounds  *)
(* ended: with their count, evidence, missing information and budget.      *)
(***************************************************************************)
EXTENDS PlanExecution

CONSTANTS
  MaxPlanningRounds,      \* MAX_PLANNING_ROUNDS
  MaxNoProgressRounds     \* MAX_NO_PROGRESS_ROUNDS

ASSUME RoundsAssumption ==
  MaxPlanningRounds \in Nat \ {0} /\ MaxNoProgressRounds \in Nat \ {0}

VARIABLES
  initial,       \* the arguments of investigate(): rounds, budget, evidence, missing
  rounds,        \* the PlanningRounds completed by this call
  known,         \* evidence after the completed rounds
  knownFacts,    \* facts after the completed rounds
  gaps,          \* missing_information after the completed rounds
  remaining,     \* tool calls left
  idle,          \* no_progress_rounds
  stage,         \* where the coroutine is
  reason         \* continuation_reason

roundVars == <<initial, rounds, known, knownFacts, gaps, remaining, idle, stage, reason>>
allVars == <<execVars, roundVars>>

RoundNumber == initial.rounds + Len(rounds) + 1

(* A first turn starts from nothing; each earlier round has cost a call.   *)
Arguments ==
  {a \in [rounds : 0..MaxPlanningRounds, budget : 0..MaxToolCalls,
          evidence : SUBSET Evidence, missing : SUBSET (StepId \X FailureCode)] :
     /\ a.budget <= MaxToolCalls - a.rounds
     /\ a.rounds = 0 => a.budget = MaxToolCalls /\ a.evidence = {} /\ a.missing = {}}

RoundsInit ==
  /\ initial \in Arguments
  /\ rounds = <<>>
  /\ known = initial.evidence
  /\ knownFacts = DeriveFacts(initial.evidence)
  /\ gaps = initial.missing
  /\ remaining = initial.budget
  /\ idle = 0
  /\ stage = "loop"
  /\ reason = "in_progress"
  /\ \E p \in Plans : StartExecution(p, 0, {})

Return(why) ==
  /\ stage' = "returned"
  /\ reason' = why
  /\ UNCHANGED <<execVars, initial, rounds, known, knownFacts, gaps, remaining, idle>>

RoundsExhausted ==
  /\ stage = "loop"
  /\ RoundNumber > MaxPlanningRounds
  /\ Return("max_planning_rounds")

(* Faulty variant: the last call is never used.                            *)
BudgetNearlyExhausted ==
  /\ stage = "loop"
  /\ RoundNumber <= MaxPlanningRounds
  /\ remaining <= 1
  /\ Return("tool_call_budget_exhausted")

BudgetExhausted ==
  /\ stage = "loop"
  /\ RoundNumber <= MaxPlanningRounds
  /\ remaining = 0
  /\ Return("tool_call_budget_exhausted")

(* Faulty variant: a round is planned with nothing left to run it.         *)
AskPlannerUnpaid ==
  /\ stage = "loop"
  /\ RoundNumber <= MaxPlanningRounds
  /\ stage' = "planning"
  /\ UNCHANGED <<execVars, initial, rounds, known, knownFacts, gaps, remaining, idle, reason>>

AskPlanner ==
  /\ stage = "loop"
  /\ RoundNumber <= MaxPlanningRounds
  /\ remaining > 0
  /\ stage' = "planning"
  /\ UNCHANGED <<execVars, initial, rounds, known, knownFacts, gaps, remaining, idle, reason>>

PlannerFails == stage = "planning" /\ Return("planner_failure")

(* More steps than MAX_ADAPTIVE_PLAN_STEPS, or refused by PlanValidator.   *)
PlanRejected == stage = "planning" /\ Return("plan_validation_failure")

(* What the round's executor is given.  Faulty variant: the evidence the   *)
(* turn started with.                                                      *)
ForgetfulRound == [max |-> remaining, evidence |-> initial.evidence]
RoundInput == [max |-> remaining, evidence |-> known]

(* The accepted plan is saved (on_round_planned) and handed to the executor. *)
PlanAccepted(p) ==
  /\ stage = "planning"
  /\ stage' = "executing"
  /\ plan' = p
  /\ position' = 1
  /\ step' = [s \in StepId |-> Pending]
  /\ outputs' = [s \in StepId |-> {}]
  /\ evidence' = RoundInput.evidence
  /\ facts' = DeriveFacts(RoundInput.evidence)
  /\ missing' = {}
  /\ budget' = [max |-> RoundInput.max, used |-> 0]
  /\ termination' = "completed"
  /\ phase' = "deciding"
  /\ UNCHANGED <<initial, rounds, known, knownFacts, gaps, remaining, idle, reason>>

Execute == stage = "executing" /\ ExecutorStep /\ UNCHANGED roundVars

(* _merge_missing_information.                                             *)
MergedGaps == gaps \cup missing

(* The round's results are merged and saved (on_round_completed); a round  *)
(* that taught nothing ends the investigation.                             *)
RoundCompleted ==
  LET round == [number |-> RoundNumber, spent |-> budget.used,
                evidence_delta |-> evidence \ known, fact_delta |-> facts \ knownFacts,
                failed |-> missing]
  IN
  /\ stage = "executing"
  /\ phase = "returned"
  /\ rounds' = Append(rounds, round)
  /\ known' = evidence
  /\ knownFacts' = facts
  /\ gaps' = MergedGaps
  /\ remaining' = Remaining
  /\ idle' = IF round.evidence_delta = {} /\ round.fact_delta = {} THEN idle + 1 ELSE 0
  /\ IF idle' >= MaxNoProgressRounds
       THEN stage' = "returned" /\ reason' = "no_progress"
       ELSE stage' = "loop" /\ UNCHANGED reason
  /\ UNCHANGED <<execVars, initial>>

(* A save in either callback fails, the planner or a tool raises something *)
(* unexpected, or the task is cancelled at an await: the exception leaves  *)
(* investigate() and its local state is lost.                              *)
RoundRaises ==
  /\ \/ stage = "planning"
     \/ stage = "executing" /\ phase \in {"returned", "raised"}
  /\ stage' = "raised"
  /\ UNCHANGED <<execVars, initial, rounds, known, knownFacts, gaps, remaining, idle, reason>>

RoundsNext ==
  \/ RoundsExhausted
  \/ BudgetExhausted
  \/ AskPlanner
  \/ PlannerFails
  \/ PlanRejected
  \/ \E p \in Plans : PlanAccepted(p)
  \/ Execute
  \/ RoundCompleted
  \/ RoundRaises

(* The planner's and the tools' clients have timeouts and the event loop   *)
(* runs a coroutine that can continue.                                     *)
RoundsSpec == RoundsInit /\ [][RoundsNext]_allVars /\ WF_allVars(RoundsNext)

-----------------------------------------------------------------------------

(* Every piece of evidence is credited to exactly one round or to the      *)
(* case's past, and the facts are those of the evidence.                   *)
EvidenceIsCreditedOnce ==
  /\ known = initial.evidence \cup UNION {rounds[i].evidence_delta : i \in DOMAIN rounds}
  /\ \A i \in DOMAIN rounds :
       /\ rounds[i].evidence_delta \cap initial.evidence = {}
       /\ \A j \in DOMAIN rounds :
            i # j => rounds[i].evidence_delta \cap rounds[j].evidence_delta = {}
  /\ knownFacts = DeriveFacts(known)

(* The reason reported is the true one, and it is the first that applied:  *)
(* all rounds but the last one taught something, and the last one taught   *)
(* nothing exactly when the reason says so.                                *)
StopReasonIsTrue ==
  LET taught(i) == rounds[i].evidence_delta # {} IN
  /\ \A i \in 1..(Len(rounds) - 1) : taught(i)
  /\ stage = "returned" =>
       /\ reason = "no_progress" <=> rounds # <<>> /\ ~taught(Len(rounds))
       /\ reason = "tool_call_budget_exhausted" => remaining = 0
       /\ reason = "max_planning_rounds" => initial.rounds + Len(rounds) >= MaxPlanningRounds
       /\ reason \in {"planner_failure", "plan_validation_failure"} => remaining > 0

(* The loop implements what the workflow service relies on: every round    *)
(* costs a call, no call is granted back, no fact is lost, the case's      *)
(* round limit holds across turns, and the turn ends.                      *)
Contract == INSTANCE RoundContract WITH
  Fact <- DeriveFacts(Evidence), Budget <- MaxToolCalls,
  memory <- [rounds |-> initial.rounds + Len(rounds), remaining |-> remaining,
             facts |-> knownFacts],
  open <- stage \notin {"returned", "raised"}

RoundsMeetContract == Contract!Spec
=============================================================================
