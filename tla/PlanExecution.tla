--------------------------- MODULE PlanExecution ---------------------------
(***************************************************************************)
(* AgentExecutor (investigations/execution.py): one validated plan is run  *)
(* step by step, in the validator's topological order, under a tool-call   *)
(* budget.  Every physical attempt costs one call.  A transient failure is *)
(* retried while attempts and budget last; any other failure is recorded   *)
(* as missing information.  A step runs only if every dependency succeeded *)
(* and every output it references is available.                            *)
(*                                                                         *)
(* The tools answer in their own time, so each call is two actions: the    *)
(* dispatch, which charges the budget, and the answer.  An unexpected      *)
(* exception or a cancellation can arrive wherever the code awaits.        *)
(***************************************************************************)
EXTENDS Integers, Sequences, FiniteSets, Functions

CONSTANTS
  StepId,            \* planner-chosen step identifiers
  Field,             \* output fields a later step may reference
  Plans,             \* validated plans the planner may propose
  Evidence,          \* evidence identifiers the sources can return
  FailureCode,       \* ToolFailureCode
  RetryableCode,     \* ToolFailure.retryable
  DeriveFacts(_),    \* derive_facts: the facts a set of evidence supports
  MaxAttempts,       \* RetryPolicy.max_attempts
  MaxToolCalls       \* the largest ExecutionBudget

None == "none"

Terminal == {"succeeded", "failed", "blocked"}

StepsOf(p) == {p.order[i] : i \in DOMAIN p.order}

(* What PlanValidator.validate leaves true of an accepted plan.            *)
ValidPlan(p) ==
  /\ p.order \in Seq(StepId)
  /\ p.order # <<>>
  /\ \A i, j \in DOMAIN p.order : p.order[i] = p.order[j] => i = j
  /\ p.depends_on \in [StepId -> SUBSET StepId]
  /\ p.references \in [StepId -> SUBSET (StepId \X Field)]
  /\ \A i \in DOMAIN p.order :
       \A d \in p.depends_on[p.order[i]] : \E j \in 1..(i - 1) : p.order[j] = d
  /\ \A s \in StepsOf(p) : \A r \in p.references[s] : r[1] \in p.depends_on[s]

(* InvestigationIdentifier: a string of at most 128 ASCII characters.       *)
ASSUME StepAssumption == IsFiniteSet(StepId)
ASSUME PlanAssumption == \A p \in Plans : ValidPlan(p)
ASSUME CodeAssumption == RetryableCode \subseteq FailureCode /\ None \notin FailureCode
ASSUME AttemptsAssumption == MaxAttempts \in Nat \ {0} /\ MaxToolCalls \in Nat
ASSUME FactsAssumption == \A E, F \in SUBSET Evidence :
                            E \subseteq F => DeriveFacts(E) \subseteq DeriveFacts(F)

VARIABLES
  plan,         \* the validated plan
  position,     \* index in plan.order of the step being decided or run
  step,         \* step_states: status, attempts, failure, block_reason
  outputs,      \* runtime_outputs: the fields each step made available
  evidence,     \* evidence collected so far, initial evidence included
  facts,        \* facts derived from it
  missing,      \* missing_information, by the step and code of its identifier
  budget,       \* BudgetState
  termination,  \* ExecutionTerminationReason
  phase         \* where the coroutine is suspended

execVars == <<plan, position, step, outputs, evidence, facts, missing,
              budget, termination, phase>>

Pending == [status |-> "pending", attempts |-> 0, failure |-> None, reason |-> None]
Blocked(why) == [Pending EXCEPT !.status = "blocked", !.reason = why]

Remaining == budget.max - budget.used
Current == plan.order[position]
Deciding == phase = "deciding" /\ position <= Len(plan.order)

StartExecution(p, max, known) ==
  /\ plan = p
  /\ position = 1
  /\ step = [s \in StepId |-> Pending]
  /\ outputs = [s \in StepId |-> {}]
  /\ evidence = known
  /\ facts = DeriveFacts(known)
  /\ missing = {}
  /\ budget = [max |-> max, used |-> 0]
  /\ termination = "completed"
  /\ phase = "deciding"

(* Faulty variant, by which a property is seen to fail: the blocking of    *)
(* what remains starts one step late.                                      *)
StepsAfter(i) == {plan.order[k] : k \in (i + 1)..Len(plan.order)}

(* The steps of the plan from index i on.                                  *)
StepsFrom(i) == {plan.order[k] : k \in i..Len(plan.order)}

BlockForBudget(i) ==
  [s \in StepId |-> IF s \in StepsFrom(i) THEN Blocked("budget_exhausted") ELSE step[s]]

DependenciesSucceeded(s) == \A d \in plan.depends_on[s] : step[d].status = "succeeded"
OutputsAvailable(s) == \A r \in plan.references[s] : r[2] \in outputs[r[1]]

(* The budget is looked at before the dependencies: with nothing left every *)
(* remaining step is blocked for budget, whatever became of what it needs. *)
StopOnExhaustedBudget ==
  /\ Deciding
  /\ Remaining = 0
  /\ step' = BlockForBudget(position)
  /\ termination' = "budget_exhausted"
  /\ phase' = "returned"
  /\ UNCHANGED <<plan, position, outputs, evidence, facts, missing, budget>>

BlockStep(why) ==
  /\ step' = [step EXCEPT ![Current] = Blocked(why)]
  /\ position' = position + 1
  /\ UNCHANGED <<plan, outputs, evidence, facts, missing, budget, termination, phase>>

BlockOnDependency ==
  /\ Deciding
  /\ Remaining > 0
  /\ ~DependenciesSucceeded(Current)
  /\ BlockStep("dependency_failed")

BlockOnOutput ==
  /\ Deciding
  /\ Remaining > 0
  /\ DependenciesSucceeded(Current)
  /\ ~OutputsAvailable(Current)
  /\ BlockStep("runtime_output_unavailable")

(* Faulty variant: whether the outputs are there is not looked at.         *)
CanInvokeBlindly == Deciding /\ Remaining > 0 /\ DependenciesSucceeded(Current)

CanInvoke ==
  /\ Deciding
  /\ Remaining > 0
  /\ DependenciesSucceeded(Current)
  /\ OutputsAvailable(Current)

(* definition.validate_arguments raises: values that came from another     *)
(* step's output can break a rule the plan's static check could not see.   *)
RejectArguments ==
  /\ CanInvoke
  /\ plan.references[Current] # {}
  /\ phase' = "raised"
  /\ UNCHANGED <<plan, position, step, outputs, evidence, facts, missing,
                 budget, termination>>

(* Faulty variant: a retry is not charged.                                 *)
DispatchFreeRetry ==
  /\ step' = [step EXCEPT ![Current].status = "running", ![Current].attempts = @ + 1]
  /\ budget' = [budget EXCEPT !.used = IF phase = "backoff" THEN @ ELSE @ + 1]
  /\ phase' = "invoking"
  /\ UNCHANGED <<plan, position, outputs, evidence, facts, missing, termination>>

(* consume_attempt, then the await on the tool.                            *)
Dispatch ==
  /\ step' = [step EXCEPT ![Current].status = "running", ![Current].attempts = @ + 1]
  /\ budget' = [budget EXCEPT !.used = @ + 1]
  /\ phase' = "invoking"
  /\ UNCHANGED <<plan, position, outputs, evidence, facts, missing, termination>>

StartStep == CanInvoke /\ Dispatch

(* Faulty variant: a retry is neither counted nor charged.                 *)
RetryUncounted ==
  /\ phase = "backoff"
  /\ phase' = "invoking"
  /\ UNCHANGED <<plan, position, step, outputs, evidence, facts, missing,
                 budget, termination>>

RetryAfterBackoff == phase = "backoff" /\ Dispatch

(* _merge_evidence, derive_facts when it grew, _runtime_outputs.           *)
Succeed(found, fields) ==
  /\ phase = "invoking"
  /\ evidence' = evidence \cup found
  /\ facts' = IF evidence' # evidence THEN DeriveFacts(evidence') ELSE facts
  /\ outputs' = [outputs EXCEPT ![Current] = fields]
  /\ step' = [step EXCEPT ![Current].status = "succeeded"]
  /\ position' = position + 1
  /\ phase' = "deciding"
  /\ UNCHANGED <<plan, missing, budget, termination>>

(* A field is published only when the evidence agrees on one value for it, *)
(* so an observed result may publish any of its fields or none.            *)
ToolObserved ==
  \E found \in (SUBSET Evidence) \ {{}}, fields \in SUBSET Field : Succeed(found, fields)

ToolEmpty == Succeed({}, {})

CanRetry(code) == code \in RetryableCode /\ step[Current].attempts < MaxAttempts

ToolFailedTransiently(code) ==
  /\ phase = "invoking"
  /\ CanRetry(code)
  /\ Remaining > 0
  /\ phase' = "backoff"
  /\ UNCHANGED <<plan, position, step, outputs, evidence, facts, missing,
                 budget, termination>>

FailCurrent(steps, code) ==
  [steps EXCEPT ![Current].status = "failed", ![Current].failure = code]

ToolFailed(code) ==
  /\ phase = "invoking"
  /\ ~CanRetry(code)
  /\ step' = FailCurrent(step, code)
  /\ missing' = missing \cup {<<Current, code>>}
  /\ position' = position + 1
  /\ phase' = "deciding"
  /\ UNCHANGED <<plan, outputs, evidence, facts, budget, termination>>

(* The failure could be retried but the failed attempt was the last call.  *)
ToolFailedOnLastCall(code) ==
  /\ phase = "invoking"
  /\ CanRetry(code)
  /\ Remaining = 0
  /\ step' = FailCurrent(BlockForBudget(position + 1), code)
  /\ missing' = missing \cup {<<Current, code>>}
  /\ termination' = "budget_exhausted"
  /\ phase' = "returned"
  /\ UNCHANGED <<plan, position, outputs, evidence, facts, budget>>

(* An exception the tool adapter does not translate, or CancelledError, at *)
(* one of the two awaits.                                                  *)
Raise ==
  /\ phase \in {"invoking", "backoff"}
  /\ phase' = "raised"
  /\ UNCHANGED <<plan, position, step, outputs, evidence, facts, missing,
                 budget, termination>>

ReturnState ==
  /\ phase = "deciding"
  /\ position > Len(plan.order)
  /\ phase' = "returned"
  /\ UNCHANGED <<plan, position, step, outputs, evidence, facts, missing,
                 budget, termination>>

ToolAnswers ==
  \/ ToolObserved
  \/ ToolEmpty
  \/ \E code \in FailureCode :
       \/ ToolFailedTransiently(code)
       \/ ToolFailed(code)
       \/ ToolFailedOnLastCall(code)

ExecutorStep ==
  \/ StopOnExhaustedBudget
  \/ BlockOnDependency
  \/ BlockOnOutput
  \/ RejectArguments
  \/ StartStep
  \/ RetryAfterBackoff
  \/ ToolAnswers
  \/ Raise
  \/ ReturnState

-----------------------------------------------------------------------------

(* Every call made is an attempt of some step and is charged exactly once, *)
(* and the budget is never overdrawn, whatever mix of retries and failures *)
(* the tools produce (BudgetState.consume_attempt would raise).            *)
AttemptsChargedOnce ==
  /\ SumFunction([s \in StepId |-> step[s].attempts]) = budget.used
  /\ budget.used <= budget.max

(* A tool is only ever called when all the step's dependencies succeeded   *)
(* and published what the step reads; a step that could not run was never  *)
(* charged.                                                                *)
OnlyReadyStepsRun ==
  \A s \in StepsOf(plan) :
    /\ step[s].attempts > 0 => DependenciesSucceeded(s) /\ OutputsAvailable(s)
    /\ step[s].status = "blocked" => step[s].attempts = 0

(* What the returned InvestigationExecutionState says of the plan: each    *)
(* step has ended; exactly the failed steps are reported missing, under    *)
(* the code they failed with; a dependency is blamed only if it did not    *)
(* succeed; and a step is cut off for budget only when none is left.       *)
ReturnedStateAccounts ==
  phase = "returned" =>
    /\ \A s \in StepsOf(plan) : step[s].status \in Terminal
    /\ missing = {<<s, step[s].failure>> :
                    s \in {t \in StepsOf(plan) : step[t].status = "failed"}}
    /\ \A s \in StepsOf(plan) :
         /\ step[s].reason = "dependency_failed" => ~DependenciesSucceeded(s)
         /\ step[s].reason = "budget_exhausted" => Remaining = 0

=============================================================================
