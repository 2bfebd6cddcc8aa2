------------------------ MODULE PlanningLoop_proofs ------------------------
(***************************************************************************)
(* Proofs about the planning loop: the validator of PlanValidation, the    *)
(* executor of PlanExecution, the round of PlanProposals in which one plan *)
(* is proposed, validated and run, and the rounds of AdaptiveRounds.  They *)
(* hold for any set of step identifiers, any plans, whatever the planner   *)
(* answers, any tools and sources, any retry policy, any limits on rounds  *)
(* and calls, and whatever an earlier turn left.                           *)
(***************************************************************************)
EXTENDS AdaptiveRounds, PlanProposals, FiniteSums, TLAPS

-----------------------------------------------------------------------------
(* The executor: its inductive invariant.                                  *)

Status == {"pending", "running"} \cup Terminal
BlockReason == {"dependency_failed", "runtime_output_unavailable", "budget_exhausted"}

StepState == [status : Status, attempts : Nat, failure : FailureCode \cup {None},
              reason : BlockReason \cup {None}]

Indices == DOMAIN plan.order

(* A valid plan, or the empty one there is before a plan was accepted.     *)
SoundPlan(p) ==
  /\ p.order \in Seq(StepId)
  /\ \A i, j \in DOMAIN p.order : p.order[i] = p.order[j] => i = j
  /\ p.depends_on \in [StepId -> SUBSET StepId]
  /\ p.references \in [StepId -> SUBSET (StepId \X Field)]
  /\ \A i \in DOMAIN p.order :
       \A d \in p.depends_on[p.order[i]] : \E j \in 1..(i - 1) : p.order[j] = d
  /\ \A i \in DOMAIN p.order :
       \A r \in p.references[p.order[i]] : r[1] \in p.depends_on[p.order[i]]

ExecTypes ==
  /\ SoundPlan(plan)
  /\ position \in 1..(Len(plan.order) + 1)
  /\ step \in [StepId -> StepState]
  /\ outputs \in [StepId -> SUBSET Field]
  /\ budget \in [max : Nat, used : Nat]
  /\ budget.used <= budget.max
  /\ phase \in {"asking", "deciding", "invoking", "backoff", "returned", "raised"}

(* The plan is run strictly in its order: what was decided is settled and  *)
(* what comes later is untouched, until the executor returns.              *)
InOrder(k) ==
  LET this == step[plan.order[k]] IN
  /\ k < position \/ phase = "returned" => this.status \in Terminal
  /\ k > position /\ phase # "returned" => this = Pending
  /\ k = position /\ phase \in {"asking", "deciding"} => this = Pending
  /\ k = position /\ phase \in {"invoking", "backoff"} =>
       this.status = "running" /\ this.attempts > 0

(* What a step's record says of it is true.                                *)
RecordTrue(k) ==
  LET s == plan.order[k]  this == step[s] IN
  /\ this.attempts > 0 => DependenciesSucceeded(s) /\ OutputsAvailable(s)
  /\ this.reason # None => this.status = "blocked"
  /\ this.status = "blocked" => this.attempts = 0
  /\ this.reason = "dependency_failed" => ~DependenciesSucceeded(s)
  /\ this.reason = "budget_exhausted" => Remaining = 0 /\ phase = "returned"
  /\ this.status = "failed" => this.failure \in FailureCode

FailuresAreMissing ==
  missing = {<<s, step[s].failure>> : s \in {t \in StepsOf(plan) : step[t].status = "failed"}}

ExecInv ==
  /\ ExecTypes
  /\ phase \in {"invoking", "backoff"} => position \in Indices
  /\ phase = "backoff" => Remaining > 0
  /\ \A k \in Indices : InOrder(k) /\ RecordTrue(k)
  /\ FailuresAreMissing

-----------------------------------------------------------------------------
(* What the steps of the executor share.                                   *)

(* The steps of a plan and their places in it.                             *)
LEMMA Positions ==
  ASSUME ExecTypes
  PROVE  /\ Indices = 1..Len(plan.order) /\ Len(plan.order) \in Nat /\ position \in Nat
         /\ \A k \in Indices : k \in Nat /\ plan.order[k] \in StepId
                               /\ step[plan.order[k]] \in StepState
                               /\ plan.order[k] \in StepsOf(plan)
         /\ \A j, k \in Indices : plan.order[j] = plan.order[k] => j = k
         /\ \A s \in StepsOf(plan) : \E k \in Indices : s = plan.order[k]
         /\ position \notin Indices => position = Len(plan.order) + 1
BY DEF ExecTypes, SoundPlan, Indices, StepsOf

(* Whether a step is ready depends on earlier steps only.                  *)
LEMMA ReadinessIsSettled ==
  ASSUME ExecTypes, NEW k \in Indices, UNCHANGED plan,
         \A j \in Indices : j < k => /\ step'[plan.order[j]] = step[plan.order[j]]
                                     /\ outputs'[plan.order[j]] = outputs[plan.order[j]]
  PROVE  /\ DependenciesSucceeded(plan.order[k])' <=> DependenciesSucceeded(plan.order[k])
         /\ OutputsAvailable(plan.order[k])' <=> OutputsAvailable(plan.order[k])
<1> DEFINE s == plan.order[k]
<1>1. \A d \in plan.depends_on[s] : step'[d] = step[d] /\ outputs'[d] = outputs[d]
  <2> SUFFICES ASSUME NEW d \in plan.depends_on[s]
               PROVE  step'[d] = step[d] /\ outputs'[d] = outputs[d]
    OBVIOUS
  <2>1. PICK j \in 1..(k - 1) : plan.order[j] = d
    BY DEF ExecTypes, SoundPlan, Indices
  <2>2. j \in Indices /\ j < k
    BY Positions
  <2> QED BY <2>1, <2>2
<1>2. \A r \in plan.references[s] : outputs'[r[1]] = outputs[r[1]]
  BY <1>1 DEF ExecTypes, SoundPlan, Indices
<1> QED BY <1>1, <1>2 DEF DependenciesSucceeded, OutputsAvailable

(* A record that stays, with those before it, stays true.                  *)
LEMMA RecordStays ==
  ASSUME ExecInv, NEW k \in Indices, UNCHANGED plan, phase # "returned",
         \A j \in Indices : j < k => /\ step'[plan.order[j]] = step[plan.order[j]]
                                     /\ outputs'[plan.order[j]] = outputs[plan.order[j]],
         step'[plan.order[k]] = step[plan.order[k]]
  PROVE  RecordTrue(k)'
<1>1. /\ DependenciesSucceeded(plan.order[k])' <=> DependenciesSucceeded(plan.order[k])
      /\ OutputsAvailable(plan.order[k])' <=> OutputsAvailable(plan.order[k])
  BY ReadinessIsSettled DEF ExecInv
<1>2. RecordTrue(k)
  BY DEF ExecInv
<1> QED BY <1>1, <1>2 DEF RecordTrue

(* A record nothing has happened to says nothing.                          *)
LEMMA UntouchedRecordTrue ==
  ASSUME NEW k, UNCHANGED plan, step'[plan.order[k]] = Pending
  PROVE  RecordTrue(k)'
BY DEF RecordTrue, Pending, None

(* Nothing has failed that had not, and nothing is newly missing.          *)
LEMMA NothingFails ==
  ASSUME ExecInv, UNCHANGED <<plan, missing>>,
         \A k \in Indices : LET s == plan.order[k] IN
           /\ step'[s].status = "failed" <=> step[s].status = "failed"
           /\ step[s].status = "failed" => step'[s].failure = step[s].failure
  PROVE  FailuresAreMissing'
<1>1. \A s \in StepsOf(plan) :
           /\ step'[s].status = "failed" <=> step[s].status = "failed"
           /\ step[s].status = "failed" => step'[s].failure = step[s].failure
  BY Positions DEF ExecInv
<1>2. {t \in StepsOf(plan) : step'[t].status = "failed"}
      = {t \in StepsOf(plan) : step[t].status = "failed"}
  BY <1>1
<1> QED BY <1>1, <1>2 DEF ExecInv, FailuresAreMissing

(* What a blocked step's record holds.                                     *)
LEMMA BlockedValue ==
  ASSUME NEW why \in BlockReason
  PROVE  /\ Blocked(why) \in StepState
         /\ Blocked(why).status = "blocked" /\ Blocked(why).attempts = 0
         /\ Blocked(why).reason = why
BY DEF Blocked, Pending, StepState, Status, BlockReason, Terminal, None

(* The record of a step that is called, and called again.                  *)
Dispatched(r) == [r EXCEPT !.status = "running", !.attempts = @ + 1]

(* A call changes a record's status and counts one attempt more.           *)
LEMMA DispatchedValue ==
  ASSUME NEW r \in StepState
  PROVE  /\ Dispatched(r) \in StepState
         /\ Dispatched(r).status = "running" /\ Dispatched(r).attempts = r.attempts + 1
         /\ Dispatched(r).reason = r.reason /\ Dispatched(r).failure = r.failure
<1>1. r.attempts + 1 \in Nat
  BY DEF StepState
<1> QED BY <1>1 DEF StepState, Status, Dispatched

(* The budget is found exhausted: the current step and all later ones are  *)
(* blocked.                                                                *)
LEMMA StopOnExhaustedBudgetKeepsExecInv ==
  ASSUME ExecInv, StopOnExhaustedBudget PROVE ExecInv'
<1>1. position \in Indices /\ UNCHANGED <<plan, position, outputs, missing, budget>>
      /\ phase' = "returned" /\ phase = "deciding" /\ Remaining = 0
  BY Positions DEF StopOnExhaustedBudget, Deciding, ExecInv
<1>2. \A k \in Indices : step'[plan.order[k]] =
        IF k >= position THEN Blocked("budget_exhausted") ELSE step[plan.order[k]]
  BY <1>1, Positions DEF StopOnExhaustedBudget, BlockForBudget, StepsFrom, ExecInv
<1>3. "budget_exhausted" \in BlockReason
  BY DEF BlockReason
<1>4. ExecTypes'
  <2>1. step' \in [StepId -> StepState]
    BY <1>3, BlockedValue DEF ExecInv, ExecTypes, StopOnExhaustedBudget, BlockForBudget
  <2> QED BY <1>1, <2>1 DEF ExecInv, ExecTypes
<1>5. ASSUME NEW k \in Indices PROVE InOrder(k)'
  <2>1. step'[plan.order[k]].status \in Terminal
    BY <1>1, <1>2, <1>3, BlockedValue, Positions DEF ExecInv, InOrder, Terminal
  <2> QED BY <1>1, <2>1 DEF InOrder
<1>6. ASSUME NEW k \in Indices PROVE RecordTrue(k)'
  <2>1. CASE k >= position
    BY <1>1, <1>2, <1>3, <2>1, BlockedValue DEF RecordTrue, Remaining
  <2>2. CASE k < position
    BY <1>1, <1>2, <2>2, Positions, RecordStays DEF ExecInv
  <2> QED BY <1>1, <2>1, <2>2, Positions DEF ExecInv
<1>7. FailuresAreMissing'
  <2>1. \A k \in Indices : k >= position => step[plan.order[k]] = Pending
    BY <1>1, Positions DEF ExecInv, InOrder
  <2> QED BY <1>1, <1>2, <1>3, <2>1, BlockedValue, NothingFails DEF Pending
<1>8. Indices' = Indices
  BY <1>1 DEF Indices
<1> QED BY <1>1, <1>4, <1>5, <1>6, <1>7, <1>8 DEF ExecInv

(* The current step has been decided and the next one comes up.            *)
LEMMA DecidedKeepsExecInv ==
  ASSUME ExecInv, NEW c \in Indices, c = position, phase # "returned",
         UNCHANGED <<plan, budget>>, position' = position + 1, phase' = "deciding",
         NEW record \in StepState, step' = [step EXCEPT ![plan.order[c]] = record],
         outputs' \in [StepId -> SUBSET Field],
         \A s \in StepId : s # plan.order[c] => outputs'[s] = outputs[s],
         record.status \in Terminal, RecordTrue(c)', FailuresAreMissing'
  PROVE  ExecInv'
<1>1. /\ plan.order[c] \in StepId /\ Indices' = Indices
      /\ \A k \in Indices : plan.order[k] = plan.order[c] <=> k = position
  BY Positions DEF ExecInv, Indices
<1>2. \A k \in Indices :
        /\ k # position => /\ step'[plan.order[k]] = step[plan.order[k]]
                           /\ outputs'[plan.order[k]] = outputs[plan.order[k]]
        /\ k = position => step'[plan.order[k]] = record
  BY <1>1, Positions DEF ExecInv, ExecTypes
<1>3. ExecTypes'
  <2>1. position' \in 1..(Len(plan.order) + 1)
    BY Positions DEF ExecInv
  <2>2. step' \in [StepId -> StepState]
    BY <1>1 DEF ExecInv, ExecTypes
  <2> QED BY <2>1, <2>2 DEF ExecInv, ExecTypes
<1>4. ASSUME NEW k \in Indices PROVE InOrder(k)'
  BY <1>2, Positions DEF ExecInv, InOrder
<1>5. ASSUME NEW k \in Indices PROVE RecordTrue(k)'
  <2>1. CASE k < position
    BY <1>2, <2>1, Positions, RecordStays DEF ExecInv
  <2>2. CASE k = c
    BY <2>2
  <2>3. CASE k > position
    BY <1>2, <2>3, Positions, UntouchedRecordTrue DEF ExecInv, InOrder
  <2> QED BY <2>1, <2>2, <2>3, Positions DEF ExecInv
<1> QED BY <1>1, <1>3, <1>4, <1>5 DEF ExecInv

(* A step is blocked for want of what it depends on or reads.              *)
LEMMA BlockStepKeepsExecInv ==
  ASSUME ExecInv, Deciding, NEW why \in BlockReason, BlockStep(why),
         why = "dependency_failed" => ~DependenciesSucceeded(Current),
         why # "budget_exhausted"
  PROVE  ExecInv'
<1>1. PICK c \in Indices : c = position /\ phase = "deciding"
  BY Positions DEF ExecInv, Deciding
<1> DEFINE s == plan.order[c]
<1>2. /\ UNCHANGED <<plan, outputs, missing, budget, phase>>
      /\ step' = [step EXCEPT ![s] = Blocked(why)] /\ position' = position + 1
  BY <1>1 DEF BlockStep, Current
<1>3. /\ s \in StepId /\ step[s] = Pending
      /\ \A k \in Indices : plan.order[k] = s <=> k = position
  BY <1>1, Positions DEF ExecInv, InOrder
<1>4. \A k \in Indices : step'[plan.order[k]] =
        IF k = position THEN Blocked(why) ELSE step[plan.order[k]]
  BY <1>2, <1>3, Positions DEF ExecInv, ExecTypes
<1>5. FailuresAreMissing'
  BY <1>1, <1>2, <1>3, <1>4, BlockedValue, NothingFails DEF Pending
<1>6. RecordTrue(c)'
  <2>1. DependenciesSucceeded(plan.order[c])' <=> DependenciesSucceeded(plan.order[c])
    BY <1>1, <1>2, <1>4, ReadinessIsSettled, Positions DEF ExecInv
  <2>2. step'[plan.order[c]] = Blocked(why)
    BY <1>1, <1>4
  <2> QED BY <1>1, <1>2, <2>1, <2>2, BlockedValue DEF Current, RecordTrue
<1>7. Blocked(why).status \in Terminal /\ Blocked(why) \in StepState
  BY BlockedValue DEF Terminal
<1>8. outputs' \in [StepId -> SUBSET Field]
  BY <1>2 DEF ExecInv, ExecTypes
<1> QED BY <1>1, <1>2, <1>5, <1>6, <1>7, <1>8, DecidedKeepsExecInv

(* A tool is called, for the first time or again.                          *)
LEMMA DispatchKeepsExecInv ==
  ASSUME ExecInv, StartStep \/ RetryAfterBackoff
  PROVE  ExecInv'
<1>1. PICK c \in Indices : c = position /\ phase \in {"deciding", "backoff"} /\ Dispatch
  BY Positions DEF ExecInv, StartStep, CanInvoke, Deciding, RetryAfterBackoff
<1> DEFINE s == plan.order[c]
           record == Dispatched(step[s])
<1>2. /\ UNCHANGED <<plan, position, outputs, missing>> /\ phase' = "invoking"
      /\ step' = [step EXCEPT ![s] = record]
      /\ budget' = [budget EXCEPT !.used = @ + 1]
  BY <1>1 DEF Dispatch, Current, Dispatched
<1>3. /\ s \in StepId /\ step[s] \in StepState
      /\ \A k \in Indices : plan.order[k] = s <=> k = position
  BY <1>1, Positions DEF ExecInv
<1>4. record \in StepState /\ record.status = "running" /\ record.attempts > 0
      /\ record.reason = step[s].reason /\ record.failure = step[s].failure
  <2>1. step[s].attempts \in Nat
    BY <1>3 DEF StepState
  <2> QED BY <1>3, <2>1, DispatchedValue
<1> HIDE DEF record
<1>5. step[s].status \in {"pending", "running"} /\ step[s].reason = None
  BY <1>1 DEF ExecInv, InOrder, RecordTrue, Pending
<1>6. \A k \in Indices : step'[plan.order[k]] =
        IF k = position THEN record ELSE step[plan.order[k]]
  BY <1>2, <1>3, Positions DEF ExecInv, ExecTypes
<1>7. Remaining > 0 /\ DependenciesSucceeded(s) /\ OutputsAvailable(s)
  <2>1. CASE phase = "deciding"
    BY <1>1, <2>1 DEF StartStep, RetryAfterBackoff, CanInvoke, Current
  <2>2. CASE phase = "backoff"
    BY <1>1, <2>2 DEF ExecInv, InOrder, RecordTrue
  <2> QED BY <1>1, <2>1, <2>2
<1>8. ExecTypes'
  <2>1. step' \in [StepId -> StepState]
    BY <1>2, <1>3, <1>4 DEF ExecInv, ExecTypes
  <2>2. budget' \in [max : Nat, used : Nat] /\ budget'.used <= budget'.max
    BY <1>1, <1>2, <1>7 DEF ExecInv, ExecTypes, Remaining
  <2> QED BY <1>2, <2>1, <2>2 DEF ExecInv, ExecTypes
<1>9. ASSUME NEW k \in Indices PROVE InOrder(k)'
  <2>1. InOrder(k) /\ phase # "returned"
    BY <1>1 DEF ExecInv
  <2>2. k < position => step'[plan.order[k]] = step[plan.order[k]]
    BY <1>6, Positions DEF ExecInv
  <2>3. k > position => step'[plan.order[k]] = step[plan.order[k]]
    BY <1>6, Positions DEF ExecInv
  <2>4. k = position => step'[plan.order[k]] = record
    BY <1>6
  <2> QED BY <1>2, <1>4, <2>1, <2>2, <2>3, <2>4, Positions DEF ExecInv, InOrder
<1>10. ASSUME NEW k \in Indices PROVE RecordTrue(k)'
  <2>1. CASE k < position
    BY <1>1, <1>2, <1>6, <2>1, Positions, RecordStays DEF ExecInv
  <2>2. CASE k = position
    <3>1. /\ DependenciesSucceeded(s)' <=> DependenciesSucceeded(s)
          /\ OutputsAvailable(s)' <=> OutputsAvailable(s)
      BY <1>1, <1>2, <1>6, ReadinessIsSettled, Positions DEF ExecInv
    <3>2. step'[s] = record
      BY <1>1, <1>6
    <3> QED BY <1>1, <1>2, <1>4, <1>5, <1>7, <2>2, <3>1, <3>2 DEF RecordTrue, BlockReason, None
  <2>3. CASE k > position
    BY <1>1, <1>2, <1>6, <2>3, Positions, UntouchedRecordTrue DEF ExecInv, InOrder
  <2> QED BY <2>1, <2>2, <2>3, Positions DEF ExecInv
<1>11. FailuresAreMissing'
  BY <1>1, <1>2, <1>4, <1>5, <1>6, NothingFails
<1>12. Indices' = Indices /\ position' \in Indices
  BY <1>1, <1>2 DEF Indices
<1> QED BY <1>2, <1>8, <1>9, <1>10, <1>11, <1>12 DEF ExecInv

(* What is running has been attempted, was ready, and has no reason yet.   *)
LEMMA RunningRecord ==
  ASSUME ExecInv, phase = "invoking", NEW c \in Indices, c = position
  PROVE  LET s == plan.order[c] IN
         /\ s \in StepId /\ step[s] \in StepState
         /\ step[s].status = "running" /\ step[s].attempts > 0 /\ step[s].reason = None
         /\ DependenciesSucceeded(s) /\ OutputsAvailable(s)
BY Positions DEF ExecInv, InOrder, RecordTrue

(* A tool answered, with evidence or without.                              *)
LEMMA SucceedKeepsExecInv ==
  ASSUME ExecInv, NEW found, NEW fields \in SUBSET Field, Succeed(found, fields)
  PROVE  ExecInv'
<1>1. PICK c \in Indices : c = position /\ phase = "invoking"
  BY DEF ExecInv, Succeed
<1> DEFINE s == plan.order[c]
           record == [step[s] EXCEPT !.status = "succeeded"]
<1>2. /\ UNCHANGED <<plan, missing, budget>> /\ phase' = "deciding"
      /\ position' = position + 1
      /\ step' = [step EXCEPT ![s] = record]
      /\ outputs' = [outputs EXCEPT ![s] = fields]
  BY <1>1 DEF Succeed, Current
<1>3. /\ s \in StepId /\ step[s] \in StepState
      /\ step[s].status = "running" /\ step[s].attempts > 0 /\ step[s].reason = None
      /\ DependenciesSucceeded(s) /\ OutputsAvailable(s)
  BY <1>1, RunningRecord
<1>4. /\ record \in StepState /\ record.status = "succeeded" /\ record.reason = None
  BY <1>3 DEF StepState, Status, Terminal
<1> HIDE DEF record
<1>5. \A k \in Indices :
        /\ step'[plan.order[k]] = IF k = position THEN record ELSE step[plan.order[k]]
        /\ k # position => outputs'[plan.order[k]] = outputs[plan.order[k]]
  BY <1>1, <1>2, Positions DEF ExecInv, ExecTypes
<1>6. RecordTrue(c)'
  <2>1. /\ DependenciesSucceeded(s)' <=> DependenciesSucceeded(s)
        /\ OutputsAvailable(s)' <=> OutputsAvailable(s)
    BY <1>1, <1>2, <1>5, ReadinessIsSettled, Positions DEF ExecInv
  <2>2. step'[s] = record
    BY <1>1, <1>5
  <2> QED BY <1>1, <1>2, <1>3, <1>4, <2>1, <2>2 DEF RecordTrue, None
<1>7. FailuresAreMissing'
  BY <1>1, <1>2, <1>3, <1>4, <1>5, NothingFails
<1>8. /\ outputs' \in [StepId -> SUBSET Field]
      /\ \A t \in StepId : t # s => outputs'[t] = outputs[t]
  BY <1>2 DEF ExecInv, ExecTypes
<1>9. record.status \in Terminal /\ phase # "returned"
  BY <1>1, <1>4 DEF Terminal
<1> QED BY <1>1, <1>2, <1>4, <1>6, <1>7, <1>8, <1>9, DecidedKeepsExecInv

(* The failed step joins the failed ones.                                  *)
LEMMA OneFails ==
  ASSUME ExecInv, NEW c \in Indices, NEW code, UNCHANGED plan,
         missing' = missing \cup {<<plan.order[c], code>>},
         step[plan.order[c]].status # "failed",
         \A k \in Indices : k # c => LET s == plan.order[k] IN
           /\ step'[s].status = "failed" <=> step[s].status = "failed"
           /\ step[s].status = "failed" => step'[s].failure = step[s].failure,
         step'[plan.order[c]].status = "failed", step'[plan.order[c]].failure = code
  PROVE  FailuresAreMissing'
<1> DEFINE s == plan.order[c]
<1>1. \A t \in StepsOf(plan) : t # s =>
           /\ step'[t].status = "failed" <=> step[t].status = "failed"
           /\ step[t].status = "failed" => step'[t].failure = step[t].failure
  BY Positions DEF ExecInv
<1>2. s \in StepsOf(plan)
  BY Positions DEF ExecInv
<1>3. {t \in StepsOf(plan) : step'[t].status = "failed"}
      = {t \in StepsOf(plan) : step[t].status = "failed"} \cup {s}
  BY <1>1, <1>2
<1>4. missing = {<<t, step[t].failure>> : t \in {u \in StepsOf(plan) : step[u].status = "failed"}}
  BY DEF ExecInv, FailuresAreMissing
<1>5. missing' = {<<t, step'[t].failure>> :
                    t \in {u \in StepsOf(plan) : step[u].status = "failed"} \cup {s}}
  BY <1>1, <1>4
<1> QED BY <1>3, <1>5 DEF FailuresAreMissing

(* A tool failed and is not called again.                                  *)
LEMMA ToolFailedKeepsExecInv ==
  ASSUME ExecInv, NEW code \in FailureCode, ToolFailed(code)
  PROVE  ExecInv'
<1>1. PICK c \in Indices : c = position /\ phase = "invoking"
  BY DEF ExecInv, ToolFailed
<1> DEFINE s == plan.order[c]
           record == [step[s] EXCEPT !.status = "failed", !.failure = code]
<1>2. /\ UNCHANGED <<plan, outputs, budget>> /\ phase' = "deciding"
      /\ position' = position + 1
      /\ missing' = missing \cup {<<s, code>>}
      /\ step' = [step EXCEPT ![s] = record]
  BY <1>1 DEF ToolFailed, FailCurrent, Current
<1>3. /\ s \in StepId /\ step[s] \in StepState
      /\ step[s].status = "running" /\ step[s].attempts > 0 /\ step[s].reason = None
      /\ DependenciesSucceeded(s) /\ OutputsAvailable(s)
  BY <1>1, RunningRecord
<1>4. /\ record \in StepState /\ record.status = "failed" /\ record.reason = None
      /\ record.failure = code
  BY <1>3 DEF StepState, Status, Terminal
<1> HIDE DEF record
<1>5. \A k \in Indices :
        step'[plan.order[k]] = IF k = position THEN record ELSE step[plan.order[k]]
  BY <1>1, <1>2, Positions DEF ExecInv, ExecTypes
<1>6. RecordTrue(c)'
  <2>1. /\ DependenciesSucceeded(s)' <=> DependenciesSucceeded(s)
        /\ OutputsAvailable(s)' <=> OutputsAvailable(s)
    BY <1>1, <1>2, <1>5, ReadinessIsSettled, Positions DEF ExecInv
  <2>2. step'[s] = record
    BY <1>1, <1>5
  <2> QED BY <1>1, <1>2, <1>3, <1>4, <2>1, <2>2 DEF RecordTrue, None
<1>7. FailuresAreMissing'
  BY <1>1, <1>2, <1>3, <1>4, <1>5, OneFails
<1>8. /\ outputs' \in [StepId -> SUBSET Field]
      /\ \A t \in StepId : t # s => outputs'[t] = outputs[t]
  BY <1>2 DEF ExecInv, ExecTypes
<1>9. record.status \in Terminal /\ phase # "returned"
  BY <1>1, <1>4 DEF Terminal
<1> QED BY <1>1, <1>2, <1>4, <1>6, <1>7, <1>8, <1>9, DecidedKeepsExecInv

(* A tool failed on the last call there was: what comes after is blocked.  *)
LEMMA ToolFailedOnLastCallKeepsExecInv ==
  ASSUME ExecInv, NEW code \in FailureCode, ToolFailedOnLastCall(code)
  PROVE  ExecInv'
<1>1. PICK c \in Indices : c = position /\ phase = "invoking" /\ Remaining = 0
  BY DEF ExecInv, ToolFailedOnLastCall
<1> DEFINE s == plan.order[c]
           record == [step[s] EXCEPT !.status = "failed", !.failure = code]
<1>2. /\ UNCHANGED <<plan, position, outputs, budget>> /\ phase' = "returned"
      /\ missing' = missing \cup {<<s, code>>}
      /\ step' = FailCurrent(BlockForBudget(position + 1), code)
  BY <1>1 DEF ToolFailedOnLastCall, Current
<1>3. /\ s \in StepId /\ step[s] \in StepState
      /\ step[s].status = "running" /\ step[s].attempts > 0 /\ step[s].reason = None
      /\ DependenciesSucceeded(s) /\ OutputsAvailable(s)
  BY <1>1, RunningRecord
<1>4. /\ record \in StepState /\ record.status = "failed" /\ record.reason = None
      /\ record.failure = code
  BY <1>3 DEF StepState, Status, Terminal
<1>5. \A k \in Indices : plan.order[k] \in StepsFrom(position + 1) <=> k > position
  BY <1>1, Positions DEF ExecInv, StepsFrom
<1>6. BlockForBudget(position + 1) \in [StepId -> StepState]
  <2>1. Blocked("budget_exhausted") \in StepState
    BY BlockedValue DEF BlockReason
  <2> QED BY <2>1 DEF BlockForBudget, ExecInv, ExecTypes
<1>7. BlockForBudget(position + 1)[s] = step[s]
  BY <1>1, <1>3, <1>5, Positions DEF BlockForBudget, ExecInv
<1>8. step' = [BlockForBudget(position + 1) EXCEPT ![s] = record]
  BY <1>1, <1>2, <1>7 DEF FailCurrent, Current
<1> HIDE DEF record
<1>9. \A k \in Indices : step'[plan.order[k]] =
        IF k < position THEN step[plan.order[k]]
        ELSE IF k = position THEN record ELSE Blocked("budget_exhausted")
  <2> SUFFICES ASSUME NEW k \in Indices
               PROVE step'[plan.order[k]] =
                       IF k < position THEN step[plan.order[k]]
                       ELSE IF k = position THEN record ELSE Blocked("budget_exhausted")
    OBVIOUS
  <2>1. plan.order[k] \in StepId /\ (plan.order[k] = s <=> k = position)
    BY <1>1, Positions DEF ExecInv
  <2>2. BlockForBudget(position + 1)[plan.order[k]] =
          IF k > position THEN Blocked("budget_exhausted") ELSE step[plan.order[k]]
    BY <1>5, <2>1 DEF BlockForBudget
  <2> QED BY <1>6, <1>8, <2>1, <2>2, <1>3, Positions DEF ExecInv
<1>10. ExecTypes'
  <2>1. step' \in [StepId -> StepState]
    BY <1>3, <1>4, <1>6, <1>8
  <2> QED BY <1>2, <2>1 DEF ExecInv, ExecTypes
<1>11. "budget_exhausted" \in BlockReason
  BY DEF BlockReason
<1>12. ASSUME NEW k \in Indices PROVE InOrder(k)'
  <2>1. step'[plan.order[k]].status \in Terminal
    BY <1>1, <1>4, <1>9, <1>11, BlockedValue, Positions DEF ExecInv, InOrder, Terminal
  <2> QED BY <1>2, <2>1 DEF InOrder
<1>13. ASSUME NEW k \in Indices PROVE RecordTrue(k)'
  <2>1. CASE k < position
    BY <1>1, <1>2, <1>9, <2>1, Positions, RecordStays DEF ExecInv
  <2>2. CASE k = position
    <3>1. /\ DependenciesSucceeded(s)' <=> DependenciesSucceeded(s)
          /\ OutputsAvailable(s)' <=> OutputsAvailable(s)
      BY <1>1, <1>2, <1>9, ReadinessIsSettled, Positions DEF ExecInv
    <3>2. step'[s] = record
      BY <1>1, <1>9, Positions DEF ExecInv
    <3> QED BY <1>1, <1>2, <1>3, <1>4, <2>2, <3>1, <3>2 DEF RecordTrue, None
  <2>3. CASE k > position
    <3>1. step'[plan.order[k]] = Blocked("budget_exhausted")
      BY <1>9, <2>3, Positions DEF ExecInv
    <3> QED BY <1>1, <1>2, <1>11, <3>1, BlockedValue DEF RecordTrue, Remaining
  <2> QED BY <2>1, <2>2, <2>3, Positions DEF ExecInv
<1>14. FailuresAreMissing'
  <2>1. \A k \in Indices : k > position => step[plan.order[k]] = Pending
    BY <1>1 DEF ExecInv, InOrder
  <2>2. \A k \in Indices : k # c =>
          /\ step'[plan.order[k]].status = "failed" <=> step[plan.order[k]].status = "failed"
          /\ step[plan.order[k]].status = "failed" =>
               step'[plan.order[k]].failure = step[plan.order[k]].failure
    BY <1>1, <1>9, <1>11, <2>1, BlockedValue, Positions DEF Pending, ExecInv
  <2>3. step'[s] = record
    BY <1>1, <1>9, Positions DEF ExecInv
  <2> QED BY <1>2, <1>3, <1>4, <2>2, <2>3, OneFails
<1>15. Indices' = Indices
  BY <1>2 DEF Indices
<1> QED BY <1>2, <1>10, <1>12, <1>13, <1>14, <1>15 DEF ExecInv

(* The coroutine moves on and nothing else does.                           *)
LEMMA PhaseKeepsExecInv ==
  ASSUME ExecInv, UNCHANGED <<plan, position, step, outputs, missing, budget>>,
         \/ phase' = "raised" /\ phase # "returned"
         \/ phase = "invoking" /\ phase' = "backoff" /\ Remaining > 0
         \/ phase = "deciding" /\ position > Len(plan.order) /\ phase' = "returned"
  PROVE  ExecInv'
<1>1. ExecTypes' /\ Indices' = Indices /\ Remaining' = Remaining /\ phase # "returned"
  BY DEF ExecInv, ExecTypes, Indices, Remaining
<1>2. ASSUME NEW k \in Indices PROVE InOrder(k)'
  BY Positions DEF ExecInv, InOrder
<1>3. ASSUME NEW k \in Indices PROVE RecordTrue(k)'
  BY <1>1, RecordStays DEF ExecInv
<1>4. FailuresAreMissing'
  BY NothingFails
<1>5. phase' \in {"invoking", "backoff"} => position' \in Indices'
  BY <1>1 DEF ExecInv
<1> QED BY <1>1, <1>2, <1>3, <1>4, <1>5 DEF ExecInv

(* Every step of the executor keeps its invariant.                         *)
LEMMA ExecutorKeepsExecInv ==
  ASSUME ExecInv, ExecutorStep
  PROVE  ExecInv'
<1>1. CASE StopOnExhaustedBudget
  BY <1>1, StopOnExhaustedBudgetKeepsExecInv
<1>2. CASE BlockOnDependency
  BY <1>2, BlockStepKeepsExecInv DEF BlockOnDependency, BlockReason
<1>3. CASE BlockOnOutput
  BY <1>3, BlockStepKeepsExecInv DEF BlockOnOutput, BlockReason
<1>4. CASE RejectArguments
  BY <1>4, PhaseKeepsExecInv DEF RejectArguments, CanInvoke, Deciding
<1>5. CASE StartStep \/ RetryAfterBackoff
  BY <1>5, DispatchKeepsExecInv
<1>6. CASE ToolObserved \/ ToolEmpty
  BY <1>6, SucceedKeepsExecInv DEF ToolObserved, ToolEmpty
<1>7. CASE \E code \in FailureCode : ToolFailedTransiently(code)
  BY <1>7, PhaseKeepsExecInv DEF ToolFailedTransiently
<1>8. CASE \E code \in FailureCode : ToolFailed(code)
  BY <1>8, ToolFailedKeepsExecInv
<1>9. CASE \E code \in FailureCode : ToolFailedOnLastCall(code)
  BY <1>9, ToolFailedOnLastCallKeepsExecInv
<1>10. CASE Raise
  BY <1>10, PhaseKeepsExecInv DEF Raise
<1>11. CASE ReturnState
  BY <1>11, PhaseKeepsExecInv DEF ReturnState
<1> QED
  BY <1>1, <1>2, <1>3, <1>4, <1>5, <1>6, <1>7, <1>8, <1>9, <1>10, <1>11
     DEF ExecutorStep, ToolAnswers

-----------------------------------------------------------------------------
(* The calls made and the budget charged.                                  *)

Attempts == [s \in StepId |-> step[s].attempts]

(* Attempts are numbers.                                                   *)
LEMMA AttemptsTypes ==
  ASSUME ExecInv PROVE Attempts \in [StepId -> Nat]
BY DEF ExecInv, ExecTypes, StepState, Attempts

(* A dispatch is one attempt more of one step, any other step none.        *)
LEMMA AttemptsChange ==
  ASSUME ExecInv, ExecutorStep
  PROVE  \/ Attempts' = Attempts /\ UNCHANGED budget
         \/ /\ \E s \in StepId : Attempts' = [Attempts EXCEPT ![s] = Attempts[s] + 1]
            /\ budget'.used = budget.used + 1
<1> USE DEF ExecInv, ExecTypes
<1>1. CASE StopOnExhaustedBudget
  <2>1. \A s \in StepsFrom(position) : step[s] = Pending
    BY <1>1, Positions DEF StopOnExhaustedBudget, Deciding, StepsFrom, InOrder
  <2>2. \A s \in StepId : step'[s].attempts = step[s].attempts
    BY <1>1, <2>1, BlockedValue
       DEF StopOnExhaustedBudget, BlockForBudget, Pending, BlockReason
  <2> QED BY <1>1, <2>2 DEF StopOnExhaustedBudget, Attempts
<1>2. ASSUME NEW why \in BlockReason, Deciding, BlockStep(why)
      PROVE  Attempts' = Attempts /\ UNCHANGED budget
  <2>1. Current \in StepId /\ step[Current] = Pending
    BY <1>2, Positions DEF Deciding, Current, InOrder
  <2>2. \A s \in StepId : step'[s].attempts = step[s].attempts
    BY <1>2, <2>1, BlockedValue DEF BlockStep, Pending
  <2> QED BY <1>2, <2>2 DEF BlockStep, Attempts
<1>3. CASE StartStep \/ RetryAfterBackoff
  <2>1. position \in Indices /\ Dispatch
    BY <1>3, Positions DEF StartStep, CanInvoke, Deciding, RetryAfterBackoff
  <2>2. Current \in StepId
    BY <2>1, Positions DEF Current
  <2>3. \A s \in StepId :
          step'[s].attempts = IF s = Current THEN step[s].attempts + 1 ELSE step[s].attempts
    BY <2>1, <2>2, DispatchedValue DEF Dispatch, Dispatched
  <2>4. Attempts' = [Attempts EXCEPT ![Current] = Attempts[Current] + 1]
    BY <2>2, <2>3 DEF Attempts
  <2>5. budget'.used = budget.used + 1
    BY <2>1 DEF Dispatch
  <2> QED BY <2>2, <2>4, <2>5
<1>4. ASSUME NEW found, NEW fields, Succeed(found, fields)
      PROVE  Attempts' = Attempts /\ UNCHANGED budget
  <2>1. \A s \in StepId : step'[s].attempts = step[s].attempts
    BY <1>4 DEF Succeed, StepState
  <2> QED BY <1>4, <2>1 DEF Succeed, Attempts
<1>5. ASSUME NEW code, ToolFailed(code)
      PROVE  Attempts' = Attempts /\ UNCHANGED budget
  <2>1. \A s \in StepId : step'[s].attempts = step[s].attempts
    BY <1>5 DEF ToolFailed, FailCurrent, StepState
  <2> QED BY <1>5, <2>1 DEF ToolFailed, Attempts
<1>6. ASSUME NEW code, ToolFailedOnLastCall(code)
      PROVE  Attempts' = Attempts /\ UNCHANGED budget
  <2>1. \A s \in StepsFrom(position + 1) : step[s] = Pending
    BY <1>6, Positions DEF ToolFailedOnLastCall, StepsFrom, InOrder
  <2>2. \A s \in StepId : BlockForBudget(position + 1)[s].attempts = step[s].attempts
    BY <2>1, BlockedValue DEF BlockForBudget, Pending, BlockReason
  <2>3. BlockForBudget(position + 1) \in [StepId -> StepState]
    BY BlockedValue DEF BlockForBudget, BlockReason
  <2>4. \A s \in StepId : step'[s].attempts = BlockForBudget(position + 1)[s].attempts
    BY <1>6, <2>3 DEF ToolFailedOnLastCall, FailCurrent, StepState
  <2> QED BY <1>6, <2>2, <2>4 DEF ToolFailedOnLastCall, Attempts
<1>7. CASE \/ RejectArguments \/ Raise \/ ReturnState
           \/ \E code \in FailureCode : ToolFailedTransiently(code)
  BY <1>7 DEF RejectArguments, Raise, ReturnState, ToolFailedTransiently, Attempts
<1>8. CASE BlockOnDependency \/ BlockOnOutput
  BY <1>2, <1>8 DEF BlockOnDependency, BlockOnOutput, BlockReason
<1>9. CASE ToolObserved \/ ToolEmpty
  BY <1>4, <1>9 DEF ToolObserved, ToolEmpty
<1> QED
  BY <1>1, <1>3, <1>5, <1>6, <1>7, <1>8, <1>9 DEF ExecutorStep, ToolAnswers

(* What is charged stays the number of attempts.                           *)
LEMMA ChargeStep ==
  ASSUME ExecInv, ExecutorStep, SumFunction(Attempts) = budget.used
  PROVE  SumFunction(Attempts') = budget'.used
<1>1. CASE Attempts' = Attempts /\ UNCHANGED budget
  BY <1>1
<1>2. ASSUME NEW s \in StepId, Attempts' = [Attempts EXCEPT ![s] = Attempts[s] + 1],
             budget'.used = budget.used + 1
      PROVE  SumFunction(Attempts') = budget'.used
  <2>1. Countable(Attempts, StepId) /\ DOMAIN Attempts = StepId /\ DOMAIN Attempts' = StepId
    BY AttemptsTypes, StepAssumption DEF Countable, Attempts
  <2>2. Attempts'[s] = Attempts[s] + 1 /\ \A t \in StepId : t # s => Attempts'[t] = Attempts[t]
    BY <1>2, <2>1
  <2>3. SumFunctionOnSet(Attempts', StepId) = SumFunctionOnSet(Attempts, StepId) + 1
    BY <2>1, <2>2, SumIncrements
  <2> QED BY <1>2, <2>1, <2>3 DEF SumFunction
<1> QED BY <1>1, <1>2, AttemptsChange

-----------------------------------------------------------------------------
(* What is known of the executor's state follows from the invariant.       *)
LEMMA ReadyFromInvariant == ASSUME ExecInv PROVE OnlyReadyStepsRun
<1>1. \A k \in Indices : RecordTrue(k)
  BY DEF ExecInv
<1> QED BY <1>1, Positions DEF ExecInv, OnlyReadyStepsRun, RecordTrue

(* What a returned state says of the plan, likewise.                       *)
LEMMA AccountsFromInvariant == ASSUME ExecInv PROVE ReturnedStateAccounts
<1> SUFFICES ASSUME phase = "returned"
             PROVE  /\ \A s \in StepsOf(plan) : step[s].status \in Terminal
                    /\ FailuresAreMissing
                    /\ \A s \in StepsOf(plan) :
                         /\ step[s].reason = "dependency_failed" => ~DependenciesSucceeded(s)
                         /\ step[s].reason = "budget_exhausted" => Remaining = 0
  BY DEF ReturnedStateAccounts, FailuresAreMissing
<1>1. \A k \in Indices : InOrder(k) /\ RecordTrue(k)
  BY DEF ExecInv
<1>2. \A k \in Indices : LET s == plan.order[k] IN
        /\ step[s].status \in Terminal
        /\ step[s].reason = "dependency_failed" => ~DependenciesSucceeded(s)
        /\ step[s].reason = "budget_exhausted" => Remaining = 0
  BY <1>1 DEF InOrder, RecordTrue
<1> QED BY <1>2, Positions DEF ExecInv

-----------------------------------------------------------------------------
(* One round: the planner's answer and the execution of what it proposed.  *)

(* Until there is an accepted plan there is the empty one, unstarted.      *)
RoundInv ==
  /\ ExecInv
  /\ SumFunction(Attempts) = budget.used
  /\ phase = "asking" =>
       /\ plan = NoPlan /\ position = 1 /\ step = [s \in StepId |-> Pending]
       /\ missing = {} /\ budget.used = 0

(* The empty plan is a sound one.                                          *)
LEMMA NoPlanIsSound == SoundPlan(NoPlan)
BY DEF SoundPlan, NoPlan

(* The record every step begins with.                                      *)
LEMMA PendingValue == Pending \in StepState
BY DEF Pending, StepState, Status, None

(* A plan on which nothing has begun.                                      *)
Fresh ==
  /\ SoundPlan(plan) /\ position = 1 /\ step = [s \in StepId |-> Pending] /\ missing = {}
  /\ outputs \in [StepId -> SUBSET Field]
  /\ budget \in [max : Nat, used : Nat] /\ budget.used = 0
  /\ \/ phase \in {"asking", "deciding"}
     \/ phase = "returned" /\ plan.order = <<>>

(* It satisfies the executor's invariant.                                  *)
LEMMA FreshPlan == Fresh => ExecInv
<1> SUFFICES ASSUME Fresh PROVE ExecInv
  OBVIOUS
<1> USE DEF Fresh
<1>1. \A k \in Indices : k \in Nat /\ k >= 1 /\ plan.order[k] \in StepId
  BY DEF SoundPlan, Indices
<1>2. plan.order = <<>> => Indices = {}
  BY DEF Indices
<1>3. ASSUME NEW k \in Indices PROVE InOrder(k) /\ RecordTrue(k)
  BY <1>1, <1>2 DEF InOrder, RecordTrue, Pending, None
<1>4. ExecTypes
  <2>1. Len(plan.order) \in Nat
    BY DEF SoundPlan
  <2> QED BY <2>1, PendingValue DEF ExecTypes
<1>5. FailuresAreMissing
  <2>1. \A s \in StepsOf(plan) : step[s].status # "failed"
    BY <1>1 DEF StepsOf, Indices, Pending
  <2> QED BY <2>1 DEF FailuresAreMissing
<1> QED BY <1>3, <1>4, <1>5 DEF ExecInv

(* So it does after a step that leaves it so.                              *)
LEMMA FreshPlanNext == Fresh' => ExecInv'
BY FreshPlan, PTL

(* A round begins in its invariant.                                        *)
LEMMA InitRoundInv == Init => RoundInv
<1> SUFFICES ASSUME Init PROVE RoundInv
  OBVIOUS
<1>1. ExecInv
  BY NoPlanIsSound, FreshPlan DEF Init, Fresh
<1>2. Attempts = [s \in StepId |-> 0]
  BY DEF Init, Attempts, Pending
<1>3. SumFunction(Attempts) = 0
  <2>1. DOMAIN Attempts = StepId /\ \A s \in StepId : Attempts[s] = 0
    BY <1>2
  <2> QED BY <2>1, StepAssumption, SumOfZeros DEF SumFunction
<1> QED BY <1>1, <1>3 DEF Init, RoundInv

(* Either the planner's answer is not run, or an accepted plan is.         *)
LEMMA AnswerOutcome ==
  ASSUME PlannerAnswers
  PROVE  /\ phase = "asking"
         /\ UNCHANGED <<position, step, outputs, missing>>
         /\ \/ phase' = "returned" /\ UNCHANGED <<plan, budget>>
            \/ /\ phase' = "deciding" /\ plan' \in Plans
               /\ \E max \in 0..MaxToolCalls : budget' = [budget EXCEPT !.max = max]
BY DEF PlannerAnswers, NotRun, Accepted

(* Every step of the round keeps it.                                       *)
LEMMA RoundStep ==
  ASSUME RoundInv, [Next]_vars
  PROVE  RoundInv'
<1>1. CASE PlannerAnswers
  <2>1. /\ phase = "asking" /\ UNCHANGED <<position, step, outputs, missing>>
        /\ \/ phase' = "returned" /\ UNCHANGED <<plan, budget>>
           \/ /\ phase' = "deciding" /\ plan' \in Plans
              /\ \E max \in 0..MaxToolCalls : budget' = [budget EXCEPT !.max = max]
    BY <1>1, AnswerOutcome
  <2>2. /\ plan = NoPlan /\ position = 1 /\ step = [s \in StepId |-> Pending]
        /\ missing = {} /\ budget.used = 0
    BY <2>1 DEF RoundInv
  <2>3. budget' \in [max : Nat, used : Nat] /\ budget'.used = 0
    BY <2>1, <2>2, AttemptsAssumption DEF RoundInv, ExecInv, ExecTypes
  <2>4. SoundPlan(plan')
    BY <2>1, <2>2, NoPlanIsSound, PlanAssumption DEF SoundPlan, ValidPlan, StepsOf
  <2>5. outputs' \in [StepId -> SUBSET Field]
    BY <2>1 DEF RoundInv, ExecInv, ExecTypes
  <2>6. ExecInv'
    BY <2>1, <2>2, <2>3, <2>4, <2>5, FreshPlanNext DEF NoPlan, Fresh
  <2>7. Attempts' = Attempts
    BY <2>1 DEF Attempts
  <2> QED BY <2>1, <2>2, <2>3, <2>6, <2>7 DEF RoundInv
<1>2. CASE ExecutorStep
  <2>1. ExecInv'
    BY <1>2, ExecutorKeepsExecInv DEF RoundInv
  <2>2. SumFunction(Attempts') = budget'.used
    BY <1>2, ChargeStep DEF RoundInv
  <2>3. phase' # "asking"
    BY <1>2 DEF ExecutorStep, StopOnExhaustedBudget, BlockOnDependency, BlockOnOutput,
         BlockStep, Deciding, RejectArguments, StartStep, RetryAfterBackoff, Dispatch, ToolAnswers,
         ToolObserved, ToolEmpty, Succeed, ToolFailedTransiently, ToolFailed,
         ToolFailedOnLastCall, Raise, ReturnState
  <2> QED BY <2>1, <2>2, <2>3 DEF RoundInv
<1>3. CASE UNCHANGED vars
  <2>1. UNCHANGED <<plan, position, step, outputs, missing, budget, phase>>
    BY <1>3 DEF vars, execVars
  <2> QED BY <2>1 DEF RoundInv, ExecInv, ExecTypes, InOrder, RecordTrue, FailuresAreMissing,
           Attempts, Indices, Remaining, DependenciesSucceeded, OutputsAvailable, StepsOf
<1> QED BY <1>1, <1>2, <1>3 DEF Next

(* The round's inductive invariant.                                        *)
THEOREM RoundInvariant == Spec => []RoundInv
<1> QED BY InitRoundInv, RoundStep, PTL DEF Spec

(* Whatever the planner proposes and the tools answer, a tool is only ever *)
(* called when all that the step needs is there.                           *)
THEOREM ReadyStepsRun == Spec => []OnlyReadyStepsRun
<1>1. RoundInv => OnlyReadyStepsRun
  BY ReadyFromInvariant DEF RoundInv
<1> QED BY <1>1, RoundInvariant, PTL

(* Every call is an attempt of some step and is charged exactly once, and  *)
(* no budget is overdrawn.                                                 *)
THEOREM CallsAreCharged == Spec => []AttemptsChargedOnce
<1>1. RoundInv => AttemptsChargedOnce
  BY DEF RoundInv, ExecInv, ExecTypes, Attempts, AttemptsChargedOnce
<1> QED BY <1>1, RoundInvariant, PTL

(* The state that the executor returns accounts for every step of the plan. *)
THEOREM ReturnedStatesAccount == Spec => []ReturnedStateAccounts
<1>1. RoundInv => ReturnedStateAccounts
  BY AccountsFromInvariant DEF RoundInv
<1> QED BY <1>1, RoundInvariant, PTL

-----------------------------------------------------------------------------
(* The validator's order of a plan: Kahn's algorithm comes to an end.       *)

Ready(p, order) == {id \in Ids(p) \ ToSet(order) : Awaited(p, id) \subseteq ToSet(order)}

\* One turn of the loop, where h tells what becomes of a longer order.
Further(p, h, order) ==
  IF Ready(p, order) = {} THEN order ELSE h[Append(order, EarliestOf(p, Ready(p, order)))]

IsOrdering(p, h) == h = [order \in Seq(Ids(p)) |-> Further(p, h, order)]

\* The order is what solves the recursion of the loop.
LEMMA OrderIsChosen ==
  ASSUME NEW p
  PROVE  TopologicalOrder(p) = (CHOOSE h : IsOrdering(p, h))[<<>>]
<1>1. TopologicalOrder(p) =
        (CHOOSE h : h = [order \in Seq(Ids(p)) |->
           LET ready == {id \in Ids(p) \ ToSet(order) : Awaited(p, id) \subseteq ToSet(order)}
           IN IF ready = {} THEN order ELSE h[Append(order, EarliestOf(p, ready))]])[<<>>]
  BY DEF TopologicalOrder
<1> QED BY <1>1 DEF IsOrdering, Further, Ready

\* What the loop needs of the plan.
Orderable(p) ==
  /\ IsFiniteSet(Ids(p))
  /\ \A ready \in SUBSET Ids(p) : ready # {} => EarliestOf(p, ready) \in ready

Left(p, order) == Cardinality(Ids(p) \ ToSet(order))

\* How much is left can be counted.
LEMMA LeftIsNumber ==
  ASSUME NEW p, Orderable(p)
  PROVE  \A order : Left(p, order) \in Nat
<1>1. \A order : IsFiniteSet(Ids(p)) /\ Ids(p) \ ToSet(order) \in SUBSET Ids(p)
  BY DEF Orderable
<1> QED BY <1>1, FS_Subset, FS_CardinalityType DEF Left

\* One step more is ordered.
LEMMA OrderGrows ==
  ASSUME NEW p, Orderable(p), NEW order \in Seq(Ids(p)), Ready(p, order) # {},
         NEW id, id = EarliestOf(p, Ready(p, order)), NEW longer, longer = Append(order, id)
  PROVE  /\ id \in Ready(p, order) /\ longer \in Seq(Ids(p))
         /\ ToSet(longer) = ToSet(order) \cup {id}
         /\ Left(p, longer) \in Nat /\ Left(p, order) \in Nat /\ Left(p, longer) < Left(p, order)
<1>1. Ready(p, order) \in SUBSET Ids(p)
  BY DEF Ready
<1>2. id \in Ready(p, order)
  BY <1>1 DEF Orderable
<1>3. id \in Ids(p) /\ id \notin ToSet(order)
  BY <1>2 DEF Ready
<1>4. longer \in Seq(Ids(p))
  BY <1>3
<1>5. ToSet(longer) = ToSet(order) \cup {id}
  <2>1. /\ Len(order) \in Nat /\ Len(longer) = Len(order) + 1 /\ longer[Len(order) + 1] = id
        /\ \A i \in 1..Len(order) : longer[i] = order[i]
    BY <1>3
  <2>2. /\ \A i : i \in DOMAIN order <=> i \in 1..Len(order)
        /\ \A i : i \in DOMAIN longer <=> i \in 1..(Len(order) + 1)
    BY <1>4, <2>1
  <2>3. \A i : i \in 1..(Len(order) + 1) <=> i \in 1..Len(order) \/ i = Len(order) + 1
    BY <2>1
  <2> QED BY <2>1, <2>2, <2>3 DEF ToSet
<1>6. PICK S : S = Ids(p) \ ToSet(order)
  OBVIOUS
<1>7. IsFiniteSet(S) /\ Ids(p) \ ToSet(longer) = S \ {id} /\ id \in S
  <2>1. IsFiniteSet(Ids(p)) /\ S \in SUBSET Ids(p)
    BY <1>6 DEF Orderable
  <2>2. IsFiniteSet(S)
    BY <2>1, FS_Subset
  <2> QED BY <1>3, <1>5, <1>6, <2>2
<1>8. Cardinality(S \ {id}) = Cardinality(S) - 1 /\ Cardinality(S) \in Nat /\ Cardinality(S \ {id}) \in Nat
  BY <1>7, FS_RemoveElement, FS_CardinalityType
<1>9. Left(p, order) = Cardinality(S) /\ Left(p, longer) = Cardinality(S \ {id})
  BY <1>6, <1>7 DEF Left
<1>10. Left(p, longer) \in Nat /\ Left(p, order) \in Nat /\ Left(p, longer) < Left(p, order)
  BY <1>8, <1>9
<1> QED BY <1>2, <1>4, <1>5, <1>10

\* What the loop comes to where no more than n steps are left.
OrdersUpTo(p, n, h) ==
  /\ h = [order \in Seq(Ids(p)) |-> h[order]]
  /\ \A order \in Seq(Ids(p)) : Left(p, order) <= n => h[order] = Further(p, h, order)

\* The recursion has a solution for every number of steps left.
LEMMA OrderUpTo ==
  ASSUME NEW p, Orderable(p), NEW n \in Nat
  PROVE  \E h : OrdersUpTo(p, n, h)
<1> DEFINE Missing == {k \in Nat : ~\E h : OrdersUpTo(p, k, h)}
<1>1. SUFFICES ASSUME Missing # {} PROVE FALSE
  OBVIOUS
<1>2. PICK k \in Missing : \A m \in Missing : k <= m
  <2>1. Missing \in SUBSET Nat
    OBVIOUS
  <2> HIDE DEF Missing
  <2> QED BY <1>1, <2>1, LeastNumber
<1>3. PICK h : /\ h = [order \in Seq(Ids(p)) |-> h[order]]
               /\ \A order \in Seq(Ids(p)) : Left(p, order) < k => h[order] = Further(p, h, order)
  <2>1. CASE k = 0
    <3>1. PICK h : h = [order \in Seq(Ids(p)) |-> order]
      OBVIOUS
    <3>2. h = [order \in Seq(Ids(p)) |-> h[order]]
      BY <3>1
    <3>3. \A order \in Seq(Ids(p)) : ~(Left(p, order) < k)
      BY <2>1, LeftIsNumber
    <3> QED BY <3>2, <3>3
  <2>2. CASE k # 0
    <3>1. k - 1 \in Nat /\ ~(k <= k - 1)
      BY <2>2
    <3>2. k - 1 \notin Missing
      BY <1>2, <3>1
    <3>3. PICK h : OrdersUpTo(p, k - 1, h)
      BY <3>1, <3>2
    <3>4. \A order \in Seq(Ids(p)) : Left(p, order) < k => Left(p, order) <= k - 1
      BY LeftIsNumber
    <3> QED BY <3>3, <3>4 DEF OrdersUpTo
  <2> QED BY <2>1, <2>2
<1>4. PICK g : g = [order \in Seq(Ids(p)) |->
                      IF Left(p, order) < k THEN h[order] ELSE Further(p, h, order)]
  OBVIOUS
<1>5. g = [order \in Seq(Ids(p)) |-> g[order]]
  BY <1>4
<1>6. ASSUME NEW order \in Seq(Ids(p)), Left(p, order) <= k
      PROVE  g[order] = Further(p, g, order)
  <2>1. Left(p, order) \in Nat
    BY LeftIsNumber
  <2>2. g[order] = Further(p, h, order)
    BY <1>3, <1>4
  <2>3. CASE Ready(p, order) = {}
    BY <2>2, <2>3 DEF Further
  <2>4. CASE Ready(p, order) # {}
    <3>1. PICK id, longer : id = EarliestOf(p, Ready(p, order)) /\ longer = Append(order, id)
      OBVIOUS
    <3>2. longer \in Seq(Ids(p)) /\ Left(p, longer) < Left(p, order) /\ Left(p, longer) \in Nat
      BY <2>4, <3>1, OrderGrows
    <3>3. Left(p, longer) < k
      BY <1>2, <1>6, <2>1, <3>2
    <3>4. g[longer] = h[longer]
      BY <1>4, <3>2, <3>3
    <3> QED BY <2>2, <2>4, <3>1, <3>4 DEF Further
  <2> QED BY <2>3, <2>4
<1>7. OrdersUpTo(p, k, g)
  BY <1>5, <1>6 DEF OrdersUpTo
<1> QED BY <1>2, <1>7

\* So it has one for the whole plan.
LEMMA OrderExists ==
  ASSUME NEW p, Orderable(p)
  PROVE  \E h : /\ TopologicalOrder(p) = h[<<>>]
                /\ \A order \in Seq(Ids(p)) : h[order] = Further(p, h, order)
<1>1. Cardinality(Ids(p)) \in Nat
  BY FS_CardinalityType DEF Orderable
<1>2. PICK h : OrdersUpTo(p, Cardinality(Ids(p)), h)
  BY <1>1, OrderUpTo
<1>3. \A order \in Seq(Ids(p)) : Left(p, order) <= Cardinality(Ids(p))
  <2>1. \A order : IsFiniteSet(Ids(p)) /\ Ids(p) \ ToSet(order) \in SUBSET Ids(p)
    BY DEF Orderable
  <2> QED BY <2>1, FS_Subset DEF Left
<1>4. IsOrdering(p, h)
  BY <1>2, <1>3 DEF OrdersUpTo, IsOrdering
<1>5. PICK g : IsOrdering(p, g) /\ g = CHOOSE f : IsOrdering(p, f)
  BY <1>4
<1>6. \A order \in Seq(Ids(p)) : g[order] = Further(p, g, order)
  BY <1>5 DEF IsOrdering
<1> QED BY <1>5, <1>6, OrderIsChosen
-----------------------------------------------------------------------------
(* What the order is.                                                      *)

\* The steps of an order before its i-th.
Before(order, i) == {order[j] : j \in 1..(i - 1)}

\* Steps appear once, after those they wait for, and no step that could have
\* been taken was listed before the one that was.
Ordered(p, order) ==
  /\ order \in Seq(Ids(p))
  /\ \A i, j \in 1..Len(order) : order[i] = order[j] => i = j
  /\ \A i \in 1..Len(order) : Awaited(p, order[i]) \subseteq Before(order, i)
  /\ \A i \in 1..Len(order) : \A id \in Ids(p) \ Before(order, i) :
       Awaited(p, id) \subseteq Before(order, i) => Position(p, order[i]) <= Position(p, id)

\* The loop takes the step that was listed first.
TakesFirst(p) ==
  \A ready \in SUBSET Ids(p) : ready # {} =>
    /\ EarliestOf(p, ready) \in ready
    /\ \A id \in ready : Position(p, EarliestOf(p, ready)) <= Position(p, id)

\* A turn of the loop keeps the order one.
LEMMA OrderedGrows ==
  ASSUME NEW p, TakesFirst(p), NEW order, Ordered(p, order), Ready(p, order) # {},
         NEW id, id = EarliestOf(p, Ready(p, order)), NEW longer, longer = Append(order, id)
  PROVE  Ordered(p, longer)
<1>1. Ready(p, order) \in SUBSET Ids(p)
  BY DEF Ready
<1>2. id \in Ready(p, order) /\ \A other \in Ready(p, order) : Position(p, id) <= Position(p, other)
  BY <1>1 DEF TakesFirst
<1>3. id \in Ids(p) /\ id \notin ToSet(order) /\ Awaited(p, id) \subseteq ToSet(order)
  BY <1>2 DEF Ready
<1>4. order \in Seq(Ids(p)) /\ Len(order) \in Nat
  BY DEF Ordered
<1>5. PICK n : n = Len(order)
  OBVIOUS
<1>6. /\ n \in Nat /\ longer \in Seq(Ids(p)) /\ Len(longer) = n + 1 /\ longer[n + 1] = id
      /\ \A i \in 1..n : longer[i] = order[i]
      /\ \A i \in 1..(n + 1) : i \in 1..n \/ i = n + 1
  BY <1>3, <1>4, <1>5
<1>7. /\ \A i \in 1..n : Before(longer, i) = Before(order, i)
      /\ Before(longer, n + 1) = ToSet(order)
  <2>1. \A i \in 1..n : \A j \in 1..(i - 1) : j \in 1..n
    BY <1>6
  <2>2. \A i \in 1..n : Before(longer, i) = Before(order, i)
    BY <1>6, <2>1 DEF Before
  <2>3. \A j : j \in DOMAIN order <=> j \in 1..((n + 1) - 1)
    BY <1>4, <1>5
  <2>4. \A j \in 1..((n + 1) - 1) : longer[j] = order[j]
    BY <1>6
  <2>5. Before(longer, n + 1) = ToSet(order)
    BY <2>3, <2>4 DEF Before, ToSet
  <2> QED BY <2>2, <2>5
<1>8. \A i \in 1..n : order[i] \in ToSet(order)
  BY <1>4, <1>5 DEF ToSet
<1>9. \A i, j \in 1..(n + 1) : longer[i] = longer[j] => i = j
  <2>1. \A i, j \in 1..n : longer[i] = longer[j] => i = j
    BY <1>5, <1>6 DEF Ordered
  <2>2. \A i \in 1..n : longer[i] # longer[n + 1]
    BY <1>3, <1>6, <1>8
  <2> QED BY <1>6, <2>1, <2>2
<1>10. \A i \in 1..(n + 1) : Awaited(p, longer[i]) \subseteq Before(longer, i)
  <2>1. \A i \in 1..n : Awaited(p, longer[i]) \subseteq Before(longer, i)
    BY <1>5, <1>6, <1>7 DEF Ordered
  <2> QED BY <1>3, <1>6, <1>7, <2>1
<1>11. \A i \in 1..(n + 1) : \A other \in Ids(p) \ Before(longer, i) :
         Awaited(p, other) \subseteq Before(longer, i) => Position(p, longer[i]) <= Position(p, other)
  <2>1. ASSUME NEW i \in 1..n, NEW other \in Ids(p) \ Before(longer, i),
               Awaited(p, other) \subseteq Before(longer, i)
        PROVE  Position(p, longer[i]) <= Position(p, other)
    BY <1>5, <1>6, <1>7, <2>1 DEF Ordered
  <2>2. ASSUME NEW other \in Ids(p) \ Before(longer, n + 1),
               Awaited(p, other) \subseteq Before(longer, n + 1)
        PROVE  Position(p, longer[n + 1]) <= Position(p, other)
    BY <1>2, <1>6, <1>7, <2>2 DEF Ready
  <2> QED BY <1>6, <2>1, <2>2
<1> QED BY <1>6, <1>9, <1>10, <1>11 DEF Ordered

\* Nothing can be added to the order.
Complete(p, order) == Ordered(p, order) /\ Ready(p, order) = {}

\* The loop ends with such an order, to which nothing can be added.
LEMMA OrderIsComplete ==
  ASSUME NEW p, IsFiniteSet(Ids(p)), TakesFirst(p)
  PROVE  Complete(p, TopologicalOrder(p))
<1>1. Orderable(p)
  BY DEF Orderable, TakesFirst
<1>2. PICK h : /\ TopologicalOrder(p) = h[<<>>]
               /\ \A order \in Seq(Ids(p)) : h[order] = Further(p, h, order)
  BY <1>1, OrderExists
<1> DEFINE Wrong == {k \in Nat : \E order : Ordered(p, order) /\ Left(p, order) = k
                                            /\ ~Complete(p, h[order])}
<1>3. Wrong = {}
  <2>1. SUFFICES ASSUME Wrong # {} PROVE FALSE
    OBVIOUS
  <2>2. PICK k \in Wrong : \A m \in Wrong : k <= m
    <3>1. Wrong \in SUBSET Nat
      OBVIOUS
    <3> HIDE DEF Wrong
    <3> QED BY <2>1, <3>1, LeastNumber
  <2>3. PICK order : Ordered(p, order) /\ Left(p, order) = k /\ ~Complete(p, h[order])
    BY <2>2
  <2>4. order \in Seq(Ids(p))
    BY <2>3 DEF Ordered
  <2>5. h[order] = Further(p, h, order)
    BY <1>2, <2>4
  <2>6. CASE Ready(p, order) = {}
    BY <2>3, <2>5, <2>6 DEF Further, Complete
  <2>7. CASE Ready(p, order) # {}
    <3>1. PICK id, longer : id = EarliestOf(p, Ready(p, order)) /\ longer = Append(order, id)
      OBVIOUS
    <3>2. Left(p, longer) \in Nat /\ Left(p, longer) < k
      BY <1>1, <2>3, <2>4, <2>7, <3>1, OrderGrows
    <3>3. Ordered(p, longer)
      BY <2>3, <2>7, <3>1, OrderedGrows
    <3>4. h[order] = h[longer]
      BY <2>5, <2>7, <3>1 DEF Further
    <3>5. ~Complete(p, h[longer])
      BY <2>3, <3>4
    <3>6. Left(p, longer) \in Wrong
      BY <3>2, <3>3, <3>5
    <3>7. k <= Left(p, longer)
      BY <2>2, <3>6
    <3> QED BY <2>2, <3>2, <3>7
  <2> QED BY <2>6, <2>7
<1>4. Ordered(p, <<>>)
  <2>1. <<>> \in Seq(Ids(p)) /\ Len(<<>>) = 0 /\ \A i : i \notin 1..0
    OBVIOUS
  <2> QED BY <2>1 DEF Ordered
<1>5. Left(p, <<>>) \in Nat
  BY <1>1, LeftIsNumber
<1>6. Complete(p, h[<<>>])
  BY <1>3, <1>4, <1>5
<1> QED BY <1>2, <1>6

-----------------------------------------------------------------------------
(* A plan's lists.                                                         *)

\* Where the steps of a plan are.
LEMMA PlanIndices ==
  ASSUME NEW p, IsPlan(p)
  PROVE  Len(p) \in Nat /\ \A i : i \in DOMAIN p <=> i \in 1..Len(p)
<1>1. PICK T : p \in Seq(T)
  BY DEF IsPlan
<1> QED BY <1>1

\* A plan names finitely many steps.
LEMMA IdsAreFinite ==
  ASSUME NEW p, IsPlan(p)
  PROVE  IsFiniteSet(Ids(p)) /\ Ids(p) \subseteq StepId
<1>1. Len(p) \in Nat /\ \A i : i \in DOMAIN p <=> i \in 1..Len(p)
  BY PlanIndices
<1>2. PICK f : f = [i \in 1..Len(p) |-> p[i].id]
  OBVIOUS
<1>3. f \in Surjection(1..Len(p), Ids(p))
  BY <1>1, <1>2 DEF Surjection, Ids
<1>4. IsFiniteSet(1..Len(p))
  BY <1>1, FS_Interval
<1>5. IsFiniteSet(Ids(p))
  BY <1>3, <1>4, FS_Surjection
<1>6. \A i \in DOMAIN p : p[i].id \in StepId
  BY DEF IsPlan, ToSet
<1> QED BY <1>5, <1>6 DEF Ids

\* The position of an identifier is the last one it is given.
LEMMA PositionIsLast ==
  ASSUME NEW p, IsPlan(p), NEW id \in Ids(p)
  PROVE  /\ Position(p, id) \in DOMAIN p /\ p[Position(p, id)].id = id
         /\ \A i \in DOMAIN p : p[i].id = id => i <= Position(p, id)
<1>1. Len(p) \in Nat /\ \A i : i \in DOMAIN p <=> i \in 1..Len(p)
  BY PlanIndices
<1>2. PICK S : S = {i \in DOMAIN p : p[i].id = id}
  OBVIOUS
<1>3. S \in SUBSET (1..Len(p)) /\ S # {}
  BY <1>1, <1>2 DEF Ids
<1>4. \E i \in S : \A j \in S : j <= i
  BY <1>1, <1>3, FirstAndLast
<1>5. \E i \in S : \A j \in S : i >= j
  BY <1>1, <1>3, <1>4
<1>6. Max(S) \in S /\ \A j \in S : Max(S) >= j
  BY <1>5 DEF Max
<1>7. Position(p, id) = Max(S)
  BY <1>2 DEF Position
<1>8. \A j \in S : j <= Max(S)
  BY <1>1, <1>3, <1>6
<1> QED BY <1>2, <1>6, <1>7, <1>8

\* Among ready steps there is an earliest.
LEMMA EarliestIsFirst ==
  ASSUME NEW p, IsPlan(p)
  PROVE  TakesFirst(p)
<1>1. SUFFICES ASSUME NEW ready \in SUBSET Ids(p), ready # {}
               PROVE  /\ EarliestOf(p, ready) \in ready
                      /\ \A id \in ready : Position(p, EarliestOf(p, ready)) <= Position(p, id)
  BY DEF TakesFirst
<1>2. PICK S : S = {Position(p, id) : id \in ready}
  OBVIOUS
<1>3. \A id \in ready : Position(p, id) \in 1..Len(p)
  BY PositionIsLast, PlanIndices
<1>4. S \in SUBSET Nat /\ S # {}
  BY <1>1, <1>2, <1>3
<1>5. PICK n \in S : \A m \in S : n <= m
  BY <1>4, LeastNumber
<1>6. \E id \in ready : \A other \in ready : Position(p, id) <= Position(p, other)
  BY <1>2, <1>5
<1> QED BY <1>6 DEF EarliestOf

\* So any plan is ordered as far as it can be.
LEMMA PlanIsOrdered ==
  ASSUME NEW p, IsPlan(p)
  PROVE  Complete(p, TopologicalOrder(p))
BY IdsAreFinite, EarliestIsFirst, OrderIsComplete

-----------------------------------------------------------------------------
(* The order leaves something out exactly when there is a cycle.            *)

\* What the order does not hold waits for something it does not hold.
LEMMA LeftOutWaits ==
  ASSUME NEW p, NEW order, Complete(p, order), NEW id \in Ids(p) \ ToSet(order)
  PROVE  Awaited(p, id) \cap (Ids(p) \ ToSet(order)) # {}
<1>1. id \notin Ready(p, order)
  BY DEF Complete
<1>2. ~(Awaited(p, id) \subseteq ToSet(order))
  BY <1>1 DEF Ready
<1>3. Awaited(p, id) \subseteq Ids(p)
  BY DEF Awaited
<1> QED BY <1>2, <1>3

\* Steps that each wait for another of them are never ordered.
LEMMA OnCycleIsLeftOut ==
  ASSUME NEW p, NEW order, Ordered(p, order), NEW S \in SUBSET Ids(p),
         \A id \in S : Awaited(p, id) \cap S # {}
  PROVE  S \cap ToSet(order) = {}
<1>1. SUFFICES ASSUME S \cap ToSet(order) # {} PROVE FALSE
  OBVIOUS
<1>2. Len(order) \in Nat /\ \A i : i \in DOMAIN order <=> i \in 1..Len(order)
  BY DEF Ordered
<1>3. PICK At : At = {i \in 1..Len(order) : order[i] \in S}
  OBVIOUS
<1>4. At \in SUBSET Nat /\ At # {}
  BY <1>1, <1>2, <1>3 DEF ToSet
<1>5. PICK i \in At : \A j \in At : i <= j
  BY <1>4, LeastNumber
<1>6. PICK other \in S : other \in Awaited(p, order[i])
  BY <1>3, <1>5
<1>7. other \in Before(order, i)
  BY <1>3, <1>5, <1>6 DEF Ordered
<1>8. PICK j \in 1..(i - 1) : order[j] = other
  BY <1>7 DEF Before
<1>9. i \in 1..Len(order) /\ j \in 1..Len(order) /\ ~(i <= j)
  BY <1>2, <1>3, <1>5, <1>8
<1> QED BY <1>3, <1>5, <1>6, <1>8, <1>9

\* The order is short exactly when the graph is cyclic.
LEMMA CycleIsSeen ==
  ASSUME NEW p, IsPlan(p)
  PROVE  /\ Len(TopologicalOrder(p)) # Cardinality(Ids(p)) <=> Cyclic(p)
         /\ ~Cyclic(p) => ToSet(TopologicalOrder(p)) = Ids(p)
<1>1. PICK order : order = TopologicalOrder(p)
  OBVIOUS
<1>2. Complete(p, order)
  BY <1>1, PlanIsOrdered
<1>3. Ordered(p, order)
  BY <1>2 DEF Complete
<1>4. order \in Seq(Ids(p)) /\ Len(order) \in Nat /\ \A i : i \in DOMAIN order <=> i \in 1..Len(order)
  BY <1>3 DEF Ordered
<1>5. PICK f : f = [i \in 1..Len(order) |-> order[i]]
  OBVIOUS
<1>6. \A i \in 1..Len(order) : order[i] \in Ids(p)
  BY <1>4
<1>7. f \in Injection(1..Len(order), Ids(p))
  BY <1>3, <1>5, <1>6 DEF Injection, IsInjective, Ordered
<1>8. Cardinality(1..Len(order)) = Cardinality(Ids(p)) <=> f \in Surjection(1..Len(order), Ids(p))
  BY <1>7, IdsAreFinite, FS_Injection
<1>9. Cardinality(1..Len(order)) = Len(order)
  <2>1. 1 \in Int /\ Len(order) \in Int /\ (Len(order) + 1 = 1 => Len(order) = 0)
    BY <1>4
  <2>2. Cardinality(1..Len(order)) = IF 1 > Len(order) THEN 0 ELSE Len(order) - 1 + 1
    BY <2>1, FS_Interval
  <2> QED BY <1>4, <2>2
<1>10. f \in Surjection(1..Len(order), Ids(p)) <=> ToSet(order) = Ids(p)
  <2>1. \A id : id \in ToSet(order) <=> \E i \in 1..Len(order) : order[i] = id
    BY <1>4 DEF ToSet
  <2>2. f \in [1..Len(order) -> Ids(p)]
    BY <1>5, <1>6
  <2>3. f \in Surjection(1..Len(order), Ids(p)) <=> \A id \in Ids(p) : \E i \in 1..Len(order) : order[i] = id
    BY <1>5, <2>2 DEF Surjection
  <2> QED BY <1>6, <2>1, <2>3
<1>11. Cyclic(p) <=> ToSet(order) # Ids(p)
  <2>1. ASSUME Cyclic(p) PROVE ToSet(order) # Ids(p)
    <3>1. PICK S \in SUBSET Ids(p) : S # {} /\ \A id \in S : Awaited(p, id) \cap S # {}
      BY <2>1 DEF Cyclic
    <3>2. S \cap ToSet(order) = {}
      BY <1>3, <3>1, OnCycleIsLeftOut
    <3> QED BY <3>1, <3>2
  <2>2. ASSUME ToSet(order) # Ids(p) PROVE Cyclic(p)
    <3>1. PICK S : S = Ids(p) \ ToSet(order)
      OBVIOUS
    <3>2. ToSet(order) \subseteq Ids(p)
      BY <1>4, <1>6 DEF ToSet
    <3>3. S \in SUBSET Ids(p) /\ S # {}
      BY <2>2, <3>1, <3>2
    <3>4. \A id \in S : Awaited(p, id) \cap S # {}
      BY <1>2, <3>1, LeftOutWaits
    <3> QED BY <3>3, <3>4 DEF Cyclic
  <2> QED BY <2>1, <2>2
<1> QED BY <1>1, <1>8, <1>9, <1>10, <1>11

-----------------------------------------------------------------------------
(* The validator finds fault with the plans that are not sound, no other.   *)

Distinct(p) == \A i, j \in DOMAIN p : p[i].id = p[j].id => i = j

\* Counting the identifiers tells whether one is repeated.
LEMMA DistinctIsCounted ==
  ASSUME NEW p, IsPlan(p)
  PROVE  Cardinality(Ids(p)) = Len(p) <=> Distinct(p)
<1>1. Len(p) \in Nat /\ \A i : i \in DOMAIN p <=> i \in 1..Len(p)
  BY PlanIndices
<1>2. PICK f : f = [i \in 1..Len(p) |-> p[i].id]
  OBVIOUS
<1>3. f \in Surjection(1..Len(p), Ids(p))
  BY <1>1, <1>2 DEF Surjection, Ids
<1>4. IsFiniteSet(1..Len(p)) /\ Cardinality(1..Len(p)) = Len(p)
  <2>1. 1 \in Int /\ Len(p) \in Int
    BY <1>1
  <2>2. /\ IsFiniteSet(1..Len(p))
        /\ Cardinality(1..Len(p)) = IF 1 > Len(p) THEN 0 ELSE Len(p) - 1 + 1
    BY <2>1, FS_Interval
  <2> QED BY <1>1, <2>2
<1>5. Cardinality(Ids(p)) = Len(p) <=> f \in Injection(1..Len(p), Ids(p))
  BY <1>3, <1>4, FS_Surjection
<1>6. f \in [1..Len(p) -> Ids(p)]
  BY <1>3 DEF Surjection
<1>7. f \in Injection(1..Len(p), Ids(p)) <=> \A i, j \in 1..Len(p) : f[i] = f[j] => i = j
  BY <1>2, <1>6 DEF Injection, IsInjective
<1> QED BY <1>1, <1>2, <1>5, <1>7 DEF Distinct

\* A failure is reported on its condition, under its code.
LEMMA WhenFails ==
  \A condition \in BOOLEAN : \A code, id :
    /\ When(condition, code, id) = {} <=> ~condition
    /\ \A f \in When(condition, code, id) : f[1] = code
<1>1. ASSUME NEW condition \in BOOLEAN, NEW code, NEW id
      PROVE  When(condition, code, id) = {} <=> ~condition
  BY DEF When
<1>2. ASSUME NEW condition \in BOOLEAN, NEW code, NEW id, NEW f \in When(condition, code, id)
      PROVE  f[1] = code
  <2>1. f = <<code, id>>
    BY <1>2 DEF When
  <2> QED BY <2>1
<1> QED BY <1>1, <1>2

\* Each check of the validator passes what it is there to pass, and only the
\* check for cycles reports one.
LEMMA IdentifiersPass ==
  ASSUME NEW p, IsPlan(p), FitsSchema(p)
  PROVE  /\ IdentifierFailures(p) = {} <=> Distinct(p)
         /\ \A f \in IdentifierFailures(p) : f[1] # "cycle_detected"
<1>1. Len(p) \in Nat /\ \A i : i \in DOMAIN p <=> i \in 1..Len(p)
  BY PlanIndices
<1>2. PICK Again : Again = {j \in DOMAIN p : \E k \in 1..(j - 1) : p[k].id = p[j].id}
  OBVIOUS
<1>3. Again = {} <=> Distinct(p)
  <2>1. ASSUME Again # {} PROVE ~Distinct(p)
    <3>0. PICK j \in DOMAIN p : \E k \in 1..(j - 1) : p[k].id = p[j].id
      BY <1>2, <2>1
    <3>1. PICK k \in 1..(j - 1) : p[k].id = p[j].id
      BY <3>0
    <3>2. k \in DOMAIN p /\ k # j
      BY <1>1, <3>1
    <3> QED BY <3>1, <3>2 DEF Distinct
  <2>2. ASSUME ~Distinct(p) PROVE Again # {}
    <3>1. PICK i \in DOMAIN p, j \in DOMAIN p : p[i].id = p[j].id /\ i # j
      BY <2>2 DEF Distinct
    <3>2. i \in 1..(j - 1) \/ j \in 1..(i - 1)
      BY <1>1, <3>1
    <3> QED BY <1>2, <3>1, <3>2
  <2> QED BY <2>1, <2>2
<1>4. ~(Len(p) > MaxPlanSteps)
  <2>1. Len(p) \in 1..MaxPlanSteps
    BY DEF FitsSchema
  <2> QED BY <2>1, SizeAssumption
<1>5. IdentifierFailures(p) = {<<"duplicate_step_id", p[i].id>> : i \in Again}
  BY <1>2, <1>4 DEF IdentifierFailures, When
<1>6. IdentifierFailures(p) = {} <=> Distinct(p)
  BY <1>3, <1>5
<1>7. ASSUME NEW f \in IdentifierFailures(p) PROVE f[1] # "cycle_detected"
  <2>1. PICK i \in Again : f = <<"duplicate_step_id", p[i].id>>
    BY <1>5, <1>7
  <2> QED BY <2>1
<1> QED BY <1>6, <1>7

\* The check for cycles.
LEMMA CyclePasses ==
  ASSUME NEW p, IsPlan(p)
  PROVE  /\ CycleFailures(p) = {} <=> ~Cyclic(p)
         /\ (\E f \in CycleFailures(p) : f[1] = "cycle_detected") <=> Cyclic(p)
<1>1. Len(TopologicalOrder(p)) # Cardinality(Ids(p)) <=> Cyclic(p)
  BY CycleIsSeen
<1>2. CASE Cyclic(p)
  BY <1>1, <1>2 DEF CycleFailures, When
<1>3. CASE ~Cyclic(p)
  BY <1>1, <1>3 DEF CycleFailures, When
<1> QED BY <1>2, <1>3

\* A step uses a tool it may use, and waits for other steps of its plan.
Placed(p, s) ==
  s.tool \in AllowedTools \cap DOMAIN Tools /\ ToSet(s.depends_on) \subseteq Ids(p) \ {s.id}

\* The checks of tools and dependencies.
LEMMA StepPasses ==
  ASSUME NEW p, NEW s
  PROVE  /\ ToolFailures(s) \cup DependencyFailures(p, s) = {} <=> Placed(p, s)
         /\ \A f \in ToolFailures(s) \cup DependencyFailures(p, s) : f[1] # "cycle_detected"
<1>1. ToolFailures(s) = {} <=> s.tool \in AllowedTools \cap DOMAIN Tools
  BY DEF ToolFailures, When
<1>2. DependencyFailures(p, s) = {} <=> ToSet(s.depends_on) \subseteq Ids(p) \ {s.id}
  BY DEF DependencyFailures, When
<1>3. \A f \in ToolFailures(s) : f[1] # "cycle_detected"
  BY DEF ToolFailures, When
<1>4. \A f \in DependencyFailures(p, s) : f[1] # "cycle_detected"
  BY DEF DependencyFailures, When
<1> QED BY <1>1, <1>2, <1>3, <1>4 DEF Placed

-----------------------------------------------------------------------------
(* What a step is given.                                                   *)

\* The checks of arguments report no cycle.
LEMMA CallsNeverCycle ==
  ASSUME NEW p, NEW s, NEW f \in CallFailures(p, s)
  PROVE  f[1] # "cycle_detected"
<1>1. \A reference, destination : \A g \in ReferenceFailures(p, s, reference, destination) :
        g[1] # "cycle_detected"
  BY DEF ReferenceFailures, When
<1>2. \A a, tool : \A g \in ArgumentFailures(p, s, a, tool) : g[1] # "cycle_detected"
  BY <1>1 DEF ArgumentFailures, When
<1> QED BY <1>2 DEF CallFailures, When

\* Where every step has a name of its own and a tool it may use.
Settled(p) == IsPlan(p) /\ Distinct(p) /\ \A s \in ToSet(p) : Placed(p, s)

\* There, an identifier stands for the tool of its step.
LEMMA DefinitionIsTool ==
  ASSUME NEW p, Settled(p), NEW i \in DOMAIN p
  PROVE  /\ Definition(p, p[i].id) = <<Tools[p[i].tool]>>
         /\ StepNamed(p, p[i].id) = p[i]
<1>1. i \in Nat
  BY PlanIndices DEF Settled
<1>2. p[i].tool \in DOMAIN Tools
  BY DEF Settled, Placed, ToSet
<1>3. PICK places : places = {k \in DOMAIN p : p[k].id = p[i].id /\ p[k].tool \in DOMAIN Tools}
  OBVIOUS
<1>4. places = {i}
  BY <1>2, <1>3 DEF Settled, Distinct
<1>5. Min(places) = i
  BY <1>1, <1>4 DEF Min
<1>6. Definition(p, p[i].id) = <<Tools[p[i].tool]>>
  BY <1>3, <1>4, <1>5 DEF Definition
<1>7. StepNamed(p, p[i].id) = p[i]
  BY DEF StepNamed, Settled, Distinct
<1> QED BY <1>6, <1>7

\* There, an argument passes when it serves.
LEMMA ArgumentPasses ==
  ASSUME NEW p, Settled(p), NEW s \in ToSet(p), NEW a
  PROVE  ArgumentFailures(p, s, a, Tools[s.tool]) = {} <=>
           a.name \in DOMAIN Tools[s.tool].inputs /\ Serves(p, s, a)
<1>1. PICK type : type = Tools[s.tool].inputs[a.name].type
  OBVIOUS
<1>2. CASE a.name \notin DOMAIN Tools[s.tool].inputs
  BY <1>2 DEF ArgumentFailures
<1>3. CASE a.name \in DOMAIN Tools[s.tool].inputs /\ IsLiteral(a.value)
  BY <1>3, WhenFails DEF ArgumentFailures, Serves
<1>4. CASE a.name \in DOMAIN Tools[s.tool].inputs /\ ~IsLiteral(a.value)
  <2>1. ArgumentFailures(p, s, a, Tools[s.tool]) = ReferenceFailures(p, s, a.value, type)
    BY <1>1, <1>4 DEF ArgumentFailures
  <2>2. Serves(p, s, a) <=>
          /\ a.value.step \in ToSet(s.depends_on)
          /\ LET source == Tools[StepNamed(p, a.value.step).tool] IN
             a.value.field \in DOMAIN source.outputs
               /\ Compatible(source.outputs[a.value.field], type)
    BY <1>1, <1>4 DEF Serves
  <2>3. CASE a.value.step \notin Ids(p)
    <3>1. a.value.step \notin ToSet(s.depends_on)
      BY <2>3 DEF Settled, Placed
    <3> QED BY <1>4, <2>1, <2>2, <2>3, <3>1 DEF ReferenceFailures
  <2>4. CASE a.value.step \in Ids(p)
    <3>1. PICK i \in DOMAIN p : p[i].id = a.value.step
      BY <2>4 DEF Ids
    <3>2. PICK source : source = Tools[p[i].tool]
      OBVIOUS
    <3>3. Definition(p, a.value.step) = <<source>> /\ StepNamed(p, a.value.step) = p[i]
      BY <3>1, <3>2, DefinitionIsTool
    <3>4. ReferenceFailures(p, s, a.value, type) =
            When(a.value.step \notin ToSet(s.depends_on), "missing_reference_dependency", s.id)
              \cup IF a.value.field \notin DOMAIN source.outputs
                   THEN {<<"unknown_output_field", s.id>>}
                   ELSE When(~Compatible(source.outputs[a.value.field], type),
                             "reference_type_mismatch", s.id)
      BY <2>4, <3>3 DEF ReferenceFailures
    <3>5. ReferenceFailures(p, s, a.value, type) = {} <=>
            /\ a.value.step \in ToSet(s.depends_on)
            /\ a.value.field \in DOMAIN source.outputs
            /\ Compatible(source.outputs[a.value.field], type)
      BY <3>4 DEF When
    <3> QED BY <1>4, <2>1, <2>2, <3>2, <3>3, <3>5
  <2> QED BY <2>3, <2>4
<1> QED BY <1>2, <1>3, <1>4

\* What the tool of a step asks for is there, and fits.
Supplied(p, s) ==
  /\ \A name \in DOMAIN Tools[s.tool].inputs :
       Tools[s.tool].inputs[name].required => \E a \in ToSet(s.arguments) : a.name = name
  /\ \A a \in ToSet(s.arguments) : a.name \in DOMAIN Tools[s.tool].inputs /\ Serves(p, s, a)
  /\ (\A a \in ToSet(s.arguments) : IsLiteral(a.value)) => Coherent(s.tool, s.arguments)

\* There, a call passes when it is supplied.
LEMMA CallPasses ==
  ASSUME NEW p, Settled(p), NEW s \in ToSet(p)
  PROVE  CallFailures(p, s) = {} <=> Supplied(p, s)
<1>1. PICK i \in DOMAIN p : p[i] = s
  BY DEF ToSet
<1>2. PICK tool : tool = Tools[s.tool]
  OBVIOUS
<1>3. Definition(p, s.id) = <<tool>>
  BY <1>1, <1>2, DefinitionIsTool
<1>4. PICK wrong : wrong = UNION {ArgumentFailures(p, s, a, tool) : a \in ToSet(s.arguments)}
  OBVIOUS
<1>5. wrong = {} <=> \A a \in ToSet(s.arguments) : a.name \in DOMAIN tool.inputs /\ Serves(p, s, a)
  <2>1. wrong = {} <=> \A a \in ToSet(s.arguments) : ArgumentFailures(p, s, a, tool) = {}
    BY <1>4
  <2>2. \A a : ArgumentFailures(p, s, a, tool) = {} <=>
                 a.name \in DOMAIN tool.inputs /\ Serves(p, s, a)
    BY <1>2, ArgumentPasses
  <2> QED BY <2>1, <2>2
<1>6. Required(tool) \subseteq Given(s) <=>
        \A name \in DOMAIN tool.inputs :
          tool.inputs[name].required => \E a \in ToSet(s.arguments) : a.name = name
  <2>1. \A name : name \in Given(s) <=> \E a \in ToSet(s.arguments) : a.name = name
    BY DEF Given, ToSet
  <2>2. \A name : name \in Required(tool) <=> name \in DOMAIN tool.inputs /\ tool.inputs[name].required
    BY DEF Required
  <2> QED BY <2>1, <2>2
<1>7. PICK given, literal \in BOOLEAN : given = (Required(tool) \subseteq Given(s))
         /\ literal = (\A a \in ToSet(s.arguments) : IsLiteral(a.value))
  OBVIOUS
<1>8. CallFailures(p, s) =
        When(~given, "missing_required_argument", s.id) \cup wrong
          \cup When(literal /\ ~LiteralsSatisfy(tool, s), "invalid_literal_argument", s.id)
  <2>1. <<tool>> # <<>> /\ <<tool>>[1] = tool
    OBVIOUS
  <2>2. CallFailures(p, s) =
          When(~Required(tool) \subseteq Given(s), "missing_required_argument", s.id)
            \cup (UNION {ArgumentFailures(p, s, a, tool) : a \in ToSet(s.arguments)})
            \cup When((\A a \in ToSet(s.arguments) : IsLiteral(a.value)) /\ ~LiteralsSatisfy(tool, s),
                      "invalid_literal_argument", s.id)
    BY <1>3, <2>1 DEF CallFailures
  <2> QED BY <1>4, <1>7, <2>2 DEF When
<1>9. CallFailures(p, s) = {} <=> given /\ wrong = {} /\ (literal => LiteralsSatisfy(tool, s))
  BY <1>8 DEF When
<1>10. ASSUME given, wrong = {}, literal
       PROVE  LiteralsSatisfy(tool, s) <=> Coherent(s.tool, s.arguments)
  <2>1. \A a \in ToSet(s.arguments) :
          a.name \in DOMAIN tool.inputs /\ LiteralFits(a.value, tool.inputs[a.name].type)
    BY <1>2, <1>5, <1>7, <1>10 DEF Serves
  <2>2. \A k \in DOMAIN s.arguments : s.arguments[k] \in ToSet(s.arguments)
    BY DEF ToSet
  <2>3. Given(s) \subseteq DOMAIN tool.inputs
    BY <2>1, <2>2 DEF Given
  <2> QED BY <1>7, <1>10, <2>1, <2>2, <2>3 DEF LiteralsSatisfy
<1>11. Supplied(p, s) <=> given /\ wrong = {} /\ (literal => Coherent(s.tool, s.arguments))
  BY <1>2, <1>5, <1>6, <1>7 DEF Supplied
<1> QED BY <1>9, <1>10, <1>11

\* The checks together.
LEMMA SoundPlansPass ==
  ASSUME NEW p, IsPlan(p), FitsSchema(p)
  PROVE  /\ Failures(p) = {} <=> Sound(p)
         /\ (\E f \in Failures(p) : f[1] = "cycle_detected") <=> Cyclic(p)
<1>1. PICK OfSteps : OfSteps = UNION {ToolFailures(s) \cup DependencyFailures(p, s) \cup CallFailures(p, s)
                                        : s \in ToSet(p)}
  OBVIOUS
<1>2. Failures(p) = IdentifierFailures(p) \cup CycleFailures(p) \cup OfSteps
  BY <1>1 DEF Failures
<1>3. OfSteps = {} <=> \A s \in ToSet(p) : ToolFailures(s) \cup DependencyFailures(p, s) = {}
                                             /\ CallFailures(p, s) = {}
  BY <1>1
<1>4. OfSteps = {} <=> \A s \in ToSet(p) : Placed(p, s) /\ CallFailures(p, s) = {}
  BY <1>3, StepPasses
<1>5. \A f \in OfSteps : f[1] # "cycle_detected"
  <2>1. ASSUME NEW f \in OfSteps PROVE f[1] # "cycle_detected"
    <3>1. PICK s \in ToSet(p) : f \in ToolFailures(s) \cup DependencyFailures(p, s) \cup CallFailures(p, s)
      BY <1>1, <2>1
    <3> QED BY <3>1, StepPasses, CallsNeverCycle
  <2> QED BY <2>1
<1>6. Failures(p) = {} <=>
        Distinct(p) /\ ~Cyclic(p) /\ \A s \in ToSet(p) : Placed(p, s) /\ CallFailures(p, s) = {}
  BY <1>2, <1>4, IdentifiersPass, CyclePasses
<1>7. ASSUME Distinct(p), \A s \in ToSet(p) : Placed(p, s)
      PROVE  \A s \in ToSet(p) : CallFailures(p, s) = {} <=> Supplied(p, s)
  BY <1>7, CallPasses DEF Settled
<1>8. Sound(p) <=> /\ Cardinality(Ids(p)) = Len(p) /\ \A s \in ToSet(p) : Placed(p, s)
                   /\ ~Cyclic(p) /\ \A s \in ToSet(p) : Supplied(p, s)
  BY DEF Sound, Placed, Supplied
<1>9. Failures(p) = {} <=> Sound(p)
  BY <1>6, <1>7, <1>8, DistinctIsCounted
<1>10. (\E f \in Failures(p) : f[1] = "cycle_detected") <=> Cyclic(p)
  BY <1>2, <1>5, IdentifiersPass, CyclePasses
<1> QED BY <1>9, <1>10

-----------------------------------------------------------------------------
(* A sound plan is run whole, in an order in which it can be run.           *)

\* Where identifiers are distinct, one finds its step.
LEMMA StepIsFound ==
  ASSUME NEW p, IsPlan(p), Distinct(p), NEW i \in DOMAIN p
  PROVE  /\ \A k \in DOMAIN p : p[k].id = p[i].id <=> k = i
         /\ p[i].id \in Ids(p) /\ p[i] \in ToSet(p)
         /\ Position(p, p[i].id) = i
         /\ Awaited(p, p[i].id) = ToSet(p[i].depends_on) \cap (Ids(p) \ {p[i].id})
<1>1. \A k \in DOMAIN p : p[k].id = p[i].id <=> k = i
  BY DEF Distinct
<1>2. p[i].id \in Ids(p) /\ p[i] \in ToSet(p)
  BY DEF Ids, ToSet
<1>3. Position(p, p[i].id) = i
  BY <1>1, <1>2, PositionIsLast
<1>4. {j \in DOMAIN p : p[j].id = p[i].id} = {i}
  BY <1>1
<1>5. UNION {ToSet(p[k].depends_on) : k \in {i}} = ToSet(p[i].depends_on)
  OBVIOUS
<1>6. Awaited(p, p[i].id) = ToSet(p[i].depends_on) \cap (Ids(p) \ {p[i].id})
  BY <1>4, <1>5 DEF Awaited
<1> QED BY <1>1, <1>2, <1>3, <1>6

\* All the order needs to be of a plan: every step once, after what it waits
\* for, and what could have come earlier was listed later.
LEMMA OrderServes ==
  ASSUME NEW p, IsPlan(p), Sound(p), NEW order, order = TopologicalOrder(p)
  PROVE  /\ Settled(p)
         /\ Ordered(p, order) /\ Len(order) \in Nat /\ Len(order) = Len(p)
         /\ \A i : i \in DOMAIN order <=> i \in 1..Len(order)
         /\ \A id : id \in Ids(p) <=> \E i \in 1..Len(order) : order[i] = id
<1>1. ~Cyclic(p) /\ Cardinality(Ids(p)) = Len(p) /\ \A s \in ToSet(p) : Placed(p, s)
  BY DEF Sound, Placed
<1>2. Settled(p)
  BY <1>1, DistinctIsCounted DEF Settled
<1>3. Len(order) = Len(p) /\ ToSet(order) = Ids(p)
  BY <1>1, CycleIsSeen
<1>4. Ordered(p, order)
  BY PlanIsOrdered DEF Complete
<1>5. Len(order) \in Nat /\ \A i : i \in DOMAIN order <=> i \in 1..Len(order)
  BY <1>4 DEF Ordered
<1>6. \A id : id \in ToSet(order) <=> \E i \in 1..Len(order) : order[i] = id
  BY <1>5 DEF ToSet
<1> QED BY <1>2, <1>3, <1>4, <1>5, <1>6

\* What a step depends on comes before it.
LEMMA DependenciesComeFirst ==
  ASSUME NEW p, IsPlan(p), Sound(p), NEW order, order = TopologicalOrder(p),
         NEW i \in 1..Len(order), NEW k \in DOMAIN p, p[k].id = order[i],
         NEW d \in ToSet(p[k].depends_on)
  PROVE  d \in Before(order, i)
<1>1. Settled(p) /\ Ordered(p, order)
  BY OrderServes
<1>2. p[k] \in ToSet(p) /\ Awaited(p, order[i]) = ToSet(p[k].depends_on) \cap (Ids(p) \ {order[i]})
  BY <1>1, StepIsFound DEF Settled
<1>3. d \in Ids(p) \ {order[i]}
  BY <1>1, <1>2 DEF Settled, Placed
<1> QED BY <1>1, <1>2, <1>3 DEF Ordered

\* A step that was listed earlier but runs later had to wait.
LEMMA PlannersOrderIsKept ==
  ASSUME NEW p, IsPlan(p), Sound(p), NEW order, order = TopologicalOrder(p),
         NEW i \in DOMAIN p, NEW j \in DOMAIN p, i < j, Precedes(order, p[j].id, p[i].id)
  PROVE  \E d \in ToSet(p[i].depends_on) : ~Precedes(order, d, p[j].id)
<1>1. SUFFICES ASSUME \A d \in ToSet(p[i].depends_on) : Precedes(order, d, p[j].id)
               PROVE  FALSE
  OBVIOUS
<1>2. /\ Settled(p) /\ Ordered(p, order) /\ Len(order) \in Nat
      /\ \A n : n \in DOMAIN order <=> n \in 1..Len(order)
  BY OrderServes
<1>3. PICK late \in DOMAIN order : order[late] = p[i].id /\ \E n \in 1..(late - 1) : order[n] = p[j].id
  BY DEF Precedes
<1>4. PICK early \in 1..(late - 1) : order[early] = p[j].id
  BY <1>3
<1>5. early \in 1..Len(order) /\ late \in 1..Len(order) /\ early < late
  BY <1>2, <1>3, <1>4
<1>6. \A m, n \in 1..Len(order) : order[m] = order[n] => m = n
  BY <1>2 DEF Ordered
<1>7. /\ p[i].id \in Ids(p) /\ Position(p, p[i].id) = i /\ Position(p, p[j].id) = j
      /\ Awaited(p, p[i].id) \subseteq ToSet(p[i].depends_on)
  BY <1>2, StepIsFound DEF Settled
<1>8. \A d \in ToSet(p[i].depends_on) : d \in Before(order, early)
  <2>1. SUFFICES ASSUME NEW d \in ToSet(p[i].depends_on) PROVE d \in Before(order, early)
    OBVIOUS
  <2>2. PICK n \in DOMAIN order : order[n] = p[j].id /\ \E m \in 1..(n - 1) : order[m] = d
    BY <1>1 DEF Precedes
  <2>3. n = early
    BY <1>2, <1>4, <1>5, <1>6, <2>2
  <2> QED BY <2>2, <2>3 DEF Before
<1>9. p[i].id \notin Before(order, early)
  <2>1. \A n \in 1..(early - 1) : n \in 1..Len(order) /\ n # late
    BY <1>2, <1>5
  <2> QED BY <1>3, <1>5, <1>6, <2>1 DEF Before
<1>10. Position(p, order[early]) <= Position(p, p[i].id)
  BY <1>2, <1>5, <1>7, <1>8, <1>9 DEF Ordered
<1>11. i \in Nat /\ j \in Nat
  BY <1>2, PlanIndices DEF Settled
<1> QED BY <1>4, <1>7, <1>10, <1>11

\* What the executor is told of a step.
LEMMA ValidatedStep ==
  ASSUME NEW p, IsPlan(p), Sound(p), NEW id \in StepId
  PROVE  /\ \A d \in Validated(p).depends_on[id] :
              \E i \in DOMAIN p : p[i].id = id /\ d \in ToSet(p[i].depends_on)
         /\ \A r \in Validated(p).references[id] :
              r \in StepId \X Field /\ r[1] \in Validated(p).depends_on[id]
<1>1. PICK deps : deps = [s \in StepId |->
                           UNION {ToSet(p[i].depends_on) : i \in {k \in DOMAIN p : p[k].id = s}}]
  OBVIOUS
<1>2. PICK refs : refs = [s \in StepId |->
        {<<a.value.step, a.value.field>> :
           a \in {b \in UNION {ToSet(p[i].arguments) : i \in {k \in DOMAIN p : p[k].id = s}} :
                    ~IsLiteral(b.value)}}]
  OBVIOUS
<1>3. Validated(p).depends_on = deps /\ Validated(p).references = refs
  BY <1>1, <1>2 DEF Validated
<1>4. \A d : d \in deps[id] <=> \E i \in DOMAIN p : p[i].id = id /\ d \in ToSet(p[i].depends_on)
  BY <1>1
<1>5. ASSUME NEW r \in refs[id] PROVE r \in StepId \X Field /\ r[1] \in deps[id]
  <2>0. PICK i \in DOMAIN p :
          /\ p[i].id = id
          /\ \E a \in ToSet(p[i].arguments) :
               ~IsLiteral(a.value) /\ r = <<a.value.step, a.value.field>>
    BY <1>2, <1>5
  <2>1. PICK a \in ToSet(p[i].arguments) :
          ~IsLiteral(a.value) /\ r = <<a.value.step, a.value.field>>
    BY <2>0
  <2>2. p[i] \in ToSet(p)
    BY DEF ToSet
  <2>3. Serves(p, p[i], a)
    BY <2>2 DEF Sound
  <2>4. /\ a.value.step \in ToSet(p[i].depends_on)
        /\ a.value.field \in DOMAIN Tools[StepNamed(p, a.value.step).tool].outputs
    BY <2>1, <2>3 DEF Serves
  <2>5. a.value.step \in Ids(p) /\ Ids(p) \subseteq StepId
    BY <2>2, <2>4, IdsAreFinite DEF Sound
  <2>6. PICK k \in DOMAIN p : p[k].id = a.value.step
    BY <2>5 DEF Ids
  <2>7. Settled(p)
    BY OrderServes
  <2>8. StepNamed(p, a.value.step) = p[k] /\ p[k].tool \in DOMAIN Tools
    BY <2>6, <2>7, DefinitionIsTool DEF Settled, Placed, ToSet
  <2>9. a.value.field \in Field
    BY <2>4, <2>8, ToolsAssumption
  <2> QED BY <1>4, <2>0, <2>1, <2>4, <2>5, <2>9
<1> QED BY <1>3, <1>4, <1>5

\* What the executor is given is a valid plan.
LEMMA SoundPlansAreRunnable ==
  ASSUME NEW p, IsPlan(p), Sound(p), FitsSchema(p)
  PROVE  /\ ValidPlan(Validated(p))
         /\ StepsOf(Validated(p)) = Ids(p) /\ Len(Validated(p).order) = Len(p)
<1>1. PICK v, order : v = Validated(p) /\ order = TopologicalOrder(p)
  OBVIOUS
<1>2. v.order = order
  BY <1>1 DEF Validated
<1>3. /\ Settled(p) /\ Ordered(p, order) /\ Len(order) \in Nat /\ Len(order) = Len(p)
      /\ \A i : i \in DOMAIN order <=> i \in 1..Len(order)
      /\ \A id : id \in Ids(p) <=> \E i \in 1..Len(order) : order[i] = id
  BY <1>1, OrderServes
<1>4. order \in Seq(StepId) /\ order # <<>>
  <2>1. order \in Seq(Ids(p)) /\ Ids(p) \subseteq StepId
    BY <1>3, IdsAreFinite DEF Ordered
  <2>2. Len(p) \in 1..MaxPlanSteps
    BY DEF FitsSchema
  <2>3. order # <<>>
    BY <1>3, <2>2, SizeAssumption
  <2>4. order \in Seq(StepId)
    BY <2>1
  <2> QED BY <2>3, <2>4
<1>5. \A i, j \in DOMAIN order : order[i] = order[j] => i = j
  BY <1>3 DEF Ordered
<1>6. v.depends_on \in [StepId -> SUBSET StepId]
  <2>1. v.depends_on = [id \in StepId |-> v.depends_on[id]]
    BY <1>1 DEF Validated
  <2>2. ASSUME NEW id \in StepId, NEW d \in v.depends_on[id] PROVE d \in StepId
    <3>1. PICK i \in DOMAIN p : d \in ToSet(p[i].depends_on)
      BY <1>1, <2>2, ValidatedStep
    <3>2. p[i] \in ToSet(p)
      BY DEF ToSet
    <3> QED BY <1>3, <3>1, <3>2, IdsAreFinite DEF Settled, Placed
  <2>3. \A id \in StepId : v.depends_on[id] \in SUBSET StepId
    BY <2>2
  <2> HIDE DEF Validated
  <2> QED BY <2>1, <2>3
<1>7. v.references \in [StepId -> SUBSET (StepId \X Field)]
  <2>1. v.references = [id \in StepId |-> v.references[id]]
    BY <1>1 DEF Validated
  <2>2. \A id \in StepId : v.references[id] \in SUBSET (StepId \X Field)
    BY <1>1, ValidatedStep
  <2> QED BY <2>1, <2>2
<1>8. ASSUME NEW i \in DOMAIN order, NEW d \in v.depends_on[order[i]]
      PROVE  \E j \in 1..(i - 1) : order[j] = d
  <2>1. order[i] \in StepId /\ i \in 1..Len(order)
    BY <1>3, <1>4
  <2>2. PICK k \in DOMAIN p : p[k].id = order[i] /\ d \in ToSet(p[k].depends_on)
    BY <1>1, <1>8, <2>1, ValidatedStep
  <2>3. order = TopologicalOrder(p) /\ i \in 1..Len(order) /\ p[k].id = order[i]
        /\ d \in ToSet(p[k].depends_on)
    BY <1>1, <2>1, <2>2
  <2>4. d \in Before(order, i)
    BY <2>3, DependenciesComeFirst
  <2> QED BY <2>4 DEF Before
<1>9. ASSUME NEW s \in StepsOf(v), NEW r \in v.references[s] PROVE r[1] \in v.depends_on[s]
  <2>1. s \in StepId
    BY <1>2, <1>3, <1>4 DEF StepsOf
  <2> QED BY <1>1, <1>9, <2>1, ValidatedStep
<1>10. StepsOf(v) = Ids(p)
  BY <1>2, <1>3 DEF StepsOf
<1>11. ValidPlan(v)
  BY <1>2, <1>4, <1>5, <1>6, <1>7, <1>8, <1>9 DEF ValidPlan
<1> QED BY <1>1, <1>2, <1>3, <1>10, <1>11

\* The planner's answer is a plan that fits the schema.
Proposed == answer.output.parsed # <<>> /\ IsPlan(Proposal) /\ FitsSchema(Proposal)

(* What the verdict says is true of the answer.                            *)
VerdictInv ==
  /\ answer \in Answers
  /\ phase = "asking" => verdict = None /\ failures = {}
  /\ verdict = "accepted" =>
       /\ Proposed /\ Failures(Proposal) = {} /\ failures = {}
       /\ phase # "returned" => plan = Validated(Proposal)
  /\ verdict = "rejected" => Proposed /\ failures = Failures(Proposal) /\ failures # {}

\* What the service hands on is what was parsed from the model's answer.
LEMMA TypedPlan ==
  ASSUME NEW provider, NEW output, M!Typed(provider, output).value # <<>>
  PROVE  output.parsed # <<>> /\ M!Typed(provider, output).value[1] = output.parsed[1]
<1>1. \A category : M!Failed(category).value = <<>>
  BY DEF M!Failed
<1>2. M!Generated(output.parsed[1]).value[1] = output.parsed[1]
  BY DEF M!Generated
<1>3. M!OpenAITyped(output).value # <<>> =>
        output.parsed # <<>> /\ M!OpenAITyped(output).value[1] = output.parsed[1]
  BY <1>1, <1>2 DEF M!OpenAITyped
<1>4. M!GroqTyped(output).value # <<>> =>
        output.parsed # <<>> /\ M!GroqTyped(output).value[1] = output.parsed[1]
  BY <1>1, <1>2 DEF M!GroqTyped
<1>5. M!GeminiTyped(output).value # <<>> =>
        output.parsed # <<>> /\ M!GeminiTyped(output).value[1] = output.parsed[1]
  BY <1>1, <1>4 DEF M!GeminiTyped
<1>6. \/ M!Typed(provider, output) = M!OpenAITyped(output)
      \/ M!Typed(provider, output) = M!GeminiTyped(output)
      \/ M!Typed(provider, output) = M!GroqTyped(output)
  BY DEF M!Typed
<1> QED BY <1>3, <1>4, <1>5, <1>6

\* A round begins without a verdict.
LEMMA VerdictInit == Init => VerdictInv
BY DEF Init, VerdictInv, None

\* Once it runs, no plan is replaced.
LEMMA ExecutorKeepsPlan ==
  ASSUME ExecutorStep
  PROVE  plan' = plan /\ phase # "asking" /\ phase # "returned" /\ phase' # "asking"
BY DEF ExecutorStep, CanInvoke, StopOnExhaustedBudget, BlockOnDependency, BlockOnOutput,
     BlockStep, Deciding, RejectArguments, StartStep, RetryAfterBackoff, Dispatch, ToolAnswers,
     ToolObserved, ToolEmpty, Succeed, ToolFailedTransiently, ToolFailed,
     ToolFailedOnLastCall, Raise, ReturnState

\* Every step of the round keeps the verdict true.
LEMMA VerdictStep ==
  ASSUME VerdictInv, [Next]_vars
  PROVE  VerdictInv'
<1>1. CASE PlannerAnswers
  <2>1. phase = "asking" /\ verdict = None /\ failures = {} /\ answer \in Answers
    BY <1>1 DEF VerdictInv, PlannerAnswers
  <2>2. PICK typed, p : typed = M!Typed(answer.provider, answer.output) /\ p = typed.value[1]
    OBVIOUS
  <2>3. answer' = answer /\ phase' # "asking"
    BY <1>1 DEF PlannerAnswers, NotRun, Accepted
  <2>4. CASE verdict' \notin {"accepted", "rejected"}
    BY <2>1, <2>3, <2>4 DEF VerdictInv
  <2>5. CASE verdict' \in {"accepted", "rejected"}
    <3>1. /\ typed.value # <<>> /\ FitsSchema(p)
          /\ \/ verdict' = "rejected" /\ failures' = Failures(p) /\ Failures(p) # {}
             \/ /\ verdict' = "accepted" /\ failures' = failures /\ Failures(p) = {}
                /\ phase' = "returned" \/ plan' = Validated(p)
      BY <1>1, <2>2, <2>5 DEF PlannerAnswers, NotRun, Accepted
    <3>2. answer.output.parsed # <<>> /\ p = Proposal
      BY <2>2, <3>1, TypedPlan DEF Proposal
    <3>3. IsPlan(p)
      BY <2>1, <3>2, AnswersAssumption DEF Proposal
    <3>4. Proposal' = Proposal
      BY <2>3 DEF Proposal
    <3>5. Proposed'
      BY <2>3, <3>1, <3>2, <3>3, <3>4 DEF Proposed
    <3> QED BY <2>1, <2>3, <3>1, <3>2, <3>4, <3>5 DEF VerdictInv
  <2> QED BY <2>4, <2>5
<1>2. CASE ExecutorStep /\ UNCHANGED <<answer, verdict, failures>>
  <2>1. plan' = plan /\ phase # "asking" /\ phase # "returned" /\ phase' # "asking"
    BY <1>2, ExecutorKeepsPlan
  <2> QED BY <1>2, <2>1 DEF VerdictInv, Proposed, Proposal
<1>3. CASE UNCHANGED vars
  BY <1>3 DEF vars, execVars, VerdictInv, Proposed, Proposal
<1> QED BY <1>1, <1>2, <1>3 DEF Next

(* A plan is accepted when the validator finds nothing wrong with it and is *)
(* rejected for what it finds, and an accepted plan is the one that runs.   *)
THEOREM VerdictHolds == Spec => []VerdictInv
BY VerdictInit, VerdictStep, PTL DEF Spec

(* Whatever is proposed: an accepted plan is run whole, every step once and *)
(* after all it waits for, in the planner's order but for steps that had to *)
(* wait (_topological_order).                                              *)
THEOREM AcceptedPlansRun == Spec => []AcceptedPlansAreRunnable
<1>1. ASSUME VerdictInv PROVE AcceptedPlansAreRunnable
  <2>1. SUFFICES ASSUME verdict = "accepted"
                 PROVE  LET p == Proposal  validated == Validated(p) IN
                        /\ ValidPlan(validated)
                        /\ StepsOf(validated) = Ids(p) /\ Len(validated.order) = Len(p)
                        /\ \A i, j \in DOMAIN p :
                             i < j /\ Precedes(validated.order, p[j].id, p[i].id) =>
                               \E d \in ToSet(p[i].depends_on) : ~Precedes(validated.order, d, p[j].id)
                        /\ phase # "returned" => plan = validated
    BY DEF AcceptedPlansAreRunnable
  <2>2. PICK p, validated : p = Proposal /\ validated = Validated(p)
    OBVIOUS
  <2>3. /\ IsPlan(p) /\ FitsSchema(p) /\ Failures(p) = {}
        /\ phase # "returned" => plan = validated
    BY <1>1, <2>1, <2>2 DEF VerdictInv, Proposed
  <2>4. Sound(p)
    BY <2>3, SoundPlansPass
  <2>5. ValidPlan(validated) /\ StepsOf(validated) = Ids(p) /\ Len(validated.order) = Len(p)
    BY <2>2, <2>3, <2>4, SoundPlansAreRunnable
  <2>6. validated.order = TopologicalOrder(p)
    BY <2>2 DEF Validated
  <2>7. \A i, j \in DOMAIN p :
          i < j /\ Precedes(validated.order, p[j].id, p[i].id) =>
            \E d \in ToSet(p[i].depends_on) : ~Precedes(validated.order, d, p[j].id)
    BY <2>3, <2>4, <2>6, PlannersOrderIsKept
  <2> QED BY <2>2, <2>3, <2>5, <2>7
<1> QED BY <1>1, VerdictHolds, PTL

(* Whatever is proposed, the validator accepts the sound plans and no other, *)
(* and reports a cycle exactly when there is one.                          *)
THEOREM VerdictsAreExact == Spec => []ValidationIsExact
<1>1. ASSUME VerdictInv PROVE ValidationIsExact
  <2>1. SUFFICES ASSUME verdict \in {"accepted", "rejected"}
                 PROVE  /\ (verdict = "accepted") = Sound(Proposal)
                        /\ (\E f \in failures : f[1] = "cycle_detected") = Cyclic(Proposal)
    BY DEF ValidationIsExact
  <2>2. IsPlan(Proposal) /\ FitsSchema(Proposal) /\ failures = Failures(Proposal)
    BY <1>1, <2>1 DEF VerdictInv, Proposed
  <2>3. verdict = "accepted" <=> Failures(Proposal) = {}
    BY <1>1, <2>1 DEF VerdictInv
  <2>4. /\ Failures(Proposal) = {} <=> Sound(Proposal)
        /\ (\E f \in Failures(Proposal) : f[1] = "cycle_detected") <=> Cyclic(Proposal)
    BY <2>2, SoundPlansPass
  <2>5. Sound(Proposal) \in BOOLEAN /\ Cyclic(Proposal) \in BOOLEAN
    BY DEF Sound, Cyclic
  <2> QED BY <2>2, <2>3, <2>4, <2>5
<1> QED BY <1>1, VerdictHolds, PTL

-----------------------------------------------------------------------------
(* The rounds.                                                             *)

(* All that the sources can support, and the places of the coroutine.      *)
KnownFact == DeriveFacts(Evidence)

Stage == {"loop", "planning", "executing", "returned", "raised"}

-----------------------------------------------------------------------------
(* What the executor adds to a round.                                      *)

(* The facts are those of the evidence, a call has been made once anything *)
(* was decided, and the evidence the round began with is still there.      *)
RoundRuns(max, given) ==
  /\ plan.order # <<>>
  /\ given \subseteq evidence /\ evidence \subseteq Evidence
  /\ facts = DeriveFacts(evidence)
  /\ budget.max = max
  /\ budget.used = 0 => phase = "deciding" /\ position = 1

(* The first step of a plan needs nothing: it runs if a call is left.      *)
LEMMA FirstStepRuns ==
  ASSUME ExecInv, plan.order # <<>>, position = 1, Remaining > 0, phase = "deciding",
         ExecutorStep
  PROVE  StartStep
<1>1. 1 \in Indices /\ Current = plan.order[1] /\ Current \in StepId
  BY Positions DEF ExecInv, ExecTypes, SoundPlan, Current
<1>2. plan.depends_on[Current] = {}
  BY <1>1 DEF ExecInv, ExecTypes, SoundPlan, Indices
<1>3. plan.references[Current] = {}
  BY <1>1, <1>2 DEF ExecInv, ExecTypes, SoundPlan, Indices
<1>4. DependenciesSucceeded(Current) /\ OutputsAvailable(Current)
  BY <1>2, <1>3 DEF DependenciesSucceeded, OutputsAvailable
<1>5. position <= Len(plan.order)
  BY <1>1 DEF ExecInv, ExecTypes, SoundPlan, Indices
<1> QED
  BY <1>3, <1>4, <1>5 DEF ExecutorStep, StopOnExhaustedBudget, BlockOnDependency, BlockOnOutput,
     RejectArguments, StartStep, RetryAfterBackoff, ToolAnswers, ToolObserved, ToolEmpty,
     Succeed, ToolFailedTransiently, ToolFailed, ToolFailedOnLastCall, Raise, ReturnState,
     ExecInv, ExecTypes

(* How a step of the executor changes evidence and facts.                  *)
LEMMA EvidenceStep ==
  ASSUME ExecutorStep
  PROVE  \/ UNCHANGED <<evidence, facts>>
         \/ /\ \E found \in SUBSET Evidence : evidence' = evidence \cup found
            /\ facts' = IF evidence' # evidence THEN DeriveFacts(evidence') ELSE facts
BY DEF ExecutorStep, StopOnExhaustedBudget, BlockOnDependency, BlockOnOutput, BlockStep,
   RejectArguments, StartStep, RetryAfterBackoff, Dispatch, ToolAnswers, ToolObserved, ToolEmpty,
   Succeed, ToolFailedTransiently, ToolFailed, ToolFailedOnLastCall, Raise, ReturnState

(* The executor keeps what it adds to a round.                             *)
LEMMA RoundRunsOn ==
  ASSUME ExecInv, NEW max \in Nat, max > 0, NEW given, RoundRuns(max, given), ExecutorStep
  PROVE  RoundRuns(max, given)'
<1>1. plan' = plan /\ budget'.max = budget.max
  BY DEF ExecutorStep, StopOnExhaustedBudget, BlockOnDependency, BlockOnOutput, BlockStep,
     RejectArguments, StartStep, RetryAfterBackoff, Dispatch, ToolAnswers, ToolObserved, ToolEmpty,
     Succeed, ToolFailedTransiently, ToolFailed, ToolFailedOnLastCall, Raise, ReturnState,
     ExecInv, ExecTypes
<1>2. given \subseteq evidence' /\ evidence' \subseteq Evidence /\ facts' = DeriveFacts(evidence')
  BY EvidenceStep DEF RoundRuns
<1>3. budget'.used # 0
  <2>1. CASE budget.used = 0
    <3>1. StartStep
      BY <2>1, FirstStepRuns DEF RoundRuns, Remaining, ExecInv, ExecTypes
    <3> QED BY <2>1, <3>1 DEF StartStep, Dispatch, ExecInv, ExecTypes
  <2>2. CASE budget.used # 0
    BY <2>2, AttemptsChange DEF ExecInv, ExecTypes
  <2> QED BY <2>1, <2>2
<1> QED BY <1>1, <1>2, <1>3 DEF RoundRuns

-----------------------------------------------------------------------------
(* The loop's inductive invariant.                                         *)

(* The case's rounds so far.                                               *)
Completed == initial.rounds + Len(rounds)

(* PlanningRound.                                                          *)
RoundRecord ==
  [number : Nat, spent : Nat, evidence_delta : SUBSET Evidence,
   fact_delta : SUBSET KnownFact, failed : SUBSET (StepId \X FailureCode)]

LoopTypes ==
  /\ initial \in Arguments
  /\ rounds \in Seq(RoundRecord)
  /\ Completed <= MaxPlanningRounds
  /\ known \subseteq Evidence
  /\ knownFacts = DeriveFacts(known)
  /\ remaining \in 0..MaxToolCalls
  /\ idle \in Nat
  /\ stage \in Stage

(* Every piece of evidence is in the case's past or in one round's delta.  *)
Credits ==
  /\ known = initial.evidence \cup UNION {rounds[i].evidence_delta : i \in DOMAIN rounds}
  /\ \A i \in DOMAIN rounds :
       /\ rounds[i].evidence_delta \cap initial.evidence = {}
       /\ \A j \in DOMAIN rounds :
            i # j => rounds[i].evidence_delta \cap rounds[j].evidence_delta = {}

RoundsInv ==
  /\ LoopTypes
  /\ ExecInv
  /\ Credits
  /\ stage \in {"planning", "executing"} => remaining > 0 /\ Completed < MaxPlanningRounds
  /\ stage = "executing" => RoundRuns(remaining, known)

(* What investigate() is called with.                                      *)
LEMMA ArgumentTypes ==
  ASSUME initial \in Arguments
  PROVE  /\ initial.rounds \in 0..MaxPlanningRounds /\ initial.budget \in 0..MaxToolCalls
         /\ initial.evidence \subseteq Evidence
BY DEF Arguments

(* Missing information names a step and a code of failure.                 *)
LEMMA MissingTypes ==
  ASSUME ExecInv PROVE missing \subseteq StepId \X FailureCode
<1>1. \A s \in StepsOf(plan) : step[s].status = "failed" => step[s].failure \in FailureCode
  BY Positions DEF ExecInv, RecordTrue
<1>2. StepsOf(plan) \subseteq StepId
  BY Positions DEF ExecInv
<1> QED BY <1>1, <1>2 DEF ExecInv, FailuresAreMissing

(* A turn begins in its invariant.                                         *)
LEMMA RoundsInitInv ==
  RoundsInit => RoundsInv
<1> SUFFICES ASSUME RoundsInit PROVE RoundsInv
  OBVIOUS
<1>1. LoopTypes
  BY ArgumentTypes, RoundsAssumption DEF RoundsInit, LoopTypes, Completed, Stage
<1>2. PICK p \in Plans : StartExecution(p, 0, {})
  BY DEF RoundsInit
<1>3. ExecInv
  <2>1. SoundPlan(plan)
    BY <1>2, PlanAssumption DEF StartExecution, SoundPlan, ValidPlan, StepsOf
  <2> QED BY <1>2, <2>1, FreshPlan DEF StartExecution, Fresh
<1>4. Credits
  BY DEF RoundsInit, Credits
<1> QED BY <1>1, <1>3, <1>4 DEF RoundsInit, RoundsInv

(* A plan is accepted: its execution begins on what is known.              *)
LEMMA AcceptedStarts ==
  ASSUME RoundsInv, NEW p \in Plans, PlanAccepted(p)
  PROVE  ExecInv' /\ RoundRuns(remaining, known)'
<1>1. SoundPlan(p) /\ p.order # <<>>
  BY PlanAssumption DEF SoundPlan, ValidPlan, StepsOf
<1>2. budget' = [max |-> remaining, used |-> 0] /\ remaining \in Nat
  BY DEF PlanAccepted, RoundInput, RoundsInv, LoopTypes
<1>3. ExecInv'
  BY <1>1, <1>2, FreshPlanNext DEF PlanAccepted, Fresh
<1>4. RoundRuns(remaining, known)'
  BY <1>1, <1>2 DEF PlanAccepted, RoundInput, RoundRuns, RoundsInv, LoopTypes
<1> QED BY <1>3, <1>4

(* What a completed round adds to what is known.                           *)
LEMMA CompletedRound ==
  ASSUME RoundsInv, RoundCompleted
  PROVE  /\ known \subseteq known' /\ known' \subseteq Evidence
         /\ knownFacts' = DeriveFacts(known') /\ knownFacts \subseteq knownFacts'
         /\ remaining' \in 0..MaxToolCalls /\ remaining' < remaining
         /\ \E round \in RoundRecord :
              /\ rounds' = Append(rounds, round)
              /\ round.evidence_delta = known' \ known
              /\ round.fact_delta = knownFacts' \ knownFacts
              /\ idle' = IF known' = known THEN idle + 1 ELSE 0
<1> DEFINE round == [number |-> RoundNumber, spent |-> budget.used,
                     evidence_delta |-> evidence \ known, fact_delta |-> facts \ knownFacts,
                     failed |-> missing]
<1>1. /\ stage = "executing" /\ phase = "returned" /\ rounds' = Append(rounds, round)
      /\ known' = evidence /\ knownFacts' = facts /\ remaining' = Remaining
      /\ idle' = IF round.evidence_delta = {} /\ round.fact_delta = {} THEN idle + 1 ELSE 0
  BY DEF RoundCompleted
<1>2. /\ known \subseteq evidence /\ evidence \subseteq Evidence
      /\ facts = DeriveFacts(evidence) /\ budget.max = remaining
      /\ remaining \in 0..MaxToolCalls /\ remaining > 0
      /\ budget.used \in Nat /\ budget.used # 0 /\ budget.used <= remaining
  BY <1>1 DEF RoundsInv, LoopTypes, RoundRuns, ExecInv, ExecTypes
<1>3. remaining' \in 0..MaxToolCalls /\ remaining' < remaining
  BY <1>1, <1>2, AttemptsAssumption DEF Remaining
<1>4. knownFacts = DeriveFacts(known) /\ known \subseteq Evidence
  BY DEF RoundsInv, LoopTypes
<1>5. knownFacts \subseteq facts /\ facts \subseteq KnownFact
  BY <1>2, <1>4, FactsAssumption DEF KnownFact
<1>6. RoundNumber \in Nat
  BY ArgumentTypes, RoundsAssumption DEF RoundsInv, LoopTypes, RoundNumber
<1>7. round \in RoundRecord
  BY <1>2, <1>5, <1>6, MissingTypes DEF RoundsInv, RoundRecord
<1>8. idle' = IF known' = known THEN idle + 1 ELSE 0
  <2>1. evidence = known => facts = knownFacts
    BY <1>2, <1>4
  <2>2. evidence \ known = {} <=> evidence = known
    BY <1>2
  <2> QED BY <1>1, <2>1, <2>2
<1> QED BY <1>1, <1>2, <1>3, <1>5, <1>7, <1>8

(* What appending does to a sequence.                                      *)
LEMMA Appended ==
  ASSUME NEW S, NEW s \in Seq(S), NEW x \in S
  PROVE  /\ Append(s, x) \in Seq(S) /\ Len(Append(s, x)) = Len(s) + 1
         /\ Append(s, x)[Len(s) + 1] = x
         /\ \A i \in DOMAIN s : Append(s, x)[i] = s[i]
         /\ DOMAIN Append(s, x) = DOMAIN s \cup {Len(s) + 1}
         /\ Len(s) + 1 \notin DOMAIN s /\ Len(s) \in Nat /\ DOMAIN s = 1..Len(s)
OBVIOUS

(* A completed round takes its delta from what was not known before.       *)
LEMMA CreditsStep ==
  ASSUME RoundsInv, RoundCompleted
  PROVE  Credits'
<1>1. PICK round \in RoundRecord :
        /\ rounds' = Append(rounds, round)
        /\ round.evidence_delta = known' \ known
  BY CompletedRound
<1>2. known \subseteq known' /\ initial' = initial
  BY CompletedRound DEF RoundCompleted
<1> DEFINE n == Len(rounds) + 1
<1>3. /\ DOMAIN rounds' = DOMAIN rounds \cup {n} /\ n \notin DOMAIN rounds
      /\ rounds'[n] = round
      /\ \A i \in DOMAIN rounds : rounds'[i] = rounds[i]
  BY <1>1, Appended DEF RoundsInv, LoopTypes
<1> HIDE DEF n
<1>4. Credits
  BY DEF RoundsInv
<1>5. known' = initial'.evidence \cup UNION {rounds'[i].evidence_delta : i \in DOMAIN rounds'}
  <2>1. {rounds'[i].evidence_delta : i \in DOMAIN rounds'}
        = {rounds[i].evidence_delta : i \in DOMAIN rounds} \cup {round.evidence_delta}
    BY <1>3
  <2>2. known' = known \cup round.evidence_delta
    BY <1>1, <1>2
  <2> QED BY <1>2, <1>4, <2>1, <2>2 DEF Credits
<1>6. \A i \in DOMAIN rounds : rounds[i].evidence_delta \subseteq known
  BY <1>4 DEF Credits
<1>7. initial.evidence \subseteq known
  BY <1>4 DEF Credits
<1>8. \A i \in DOMAIN rounds' :
       /\ rounds'[i].evidence_delta \cap initial'.evidence = {}
       /\ \A j \in DOMAIN rounds' :
            i # j => rounds'[i].evidence_delta \cap rounds'[j].evidence_delta = {}
  BY <1>1, <1>2, <1>3, <1>4, <1>6, <1>7 DEF Credits
<1> QED BY <1>5, <1>8 DEF Credits

(* The executor's state is left alone.                                     *)
LEMMA ExecutorIdle ==
  ASSUME ExecInv, UNCHANGED execVars PROVE ExecInv'
BY DEF execVars, ExecInv, ExecTypes, InOrder, RecordTrue, FailuresAreMissing, Indices,
   Remaining, DependenciesSucceeded, OutputsAvailable, StepsOf

(* The loop stops.                                                         *)
LEMMA ReturnKeepsRounds ==
  ASSUME RoundsInv, NEW why, Return(why) PROVE RoundsInv'
BY ExecutorIdle DEF Return, RoundsInv, LoopTypes, Credits, Completed, Stage

(* Every step of the loop keeps its invariant.                             *)
LEMMA RoundsStep ==
  ASSUME RoundsInv, [RoundsNext]_allVars
  PROVE  RoundsInv'
<1> USE DEF RoundsInv
<1>1. CASE RoundsExhausted \/ BudgetExhausted \/ PlannerFails \/ PlanRejected
  BY <1>1, ReturnKeepsRounds
     DEF RoundsExhausted, BudgetExhausted, PlannerFails, PlanRejected
<1>2. CASE AskPlanner
  <2>1. Completed' < MaxPlanningRounds
    BY <1>2, ArgumentTypes, RoundsAssumption DEF AskPlanner, RoundNumber, LoopTypes, Completed
  <2> QED BY <1>2, <2>1, ExecutorIdle
       DEF AskPlanner, LoopTypes, Completed, Credits, Stage
<1>3. ASSUME NEW p \in Plans, PlanAccepted(p) PROVE RoundsInv'
  BY <1>3, AcceptedStarts DEF PlanAccepted, LoopTypes, Credits, Completed, Stage
<1>4. CASE Execute
  <2>1. ExecInv' /\ RoundRuns(remaining, known)'
    <3>1. remaining \in Nat /\ remaining > 0
      BY <1>4 DEF Execute, LoopTypes
    <3>2. ASSUME NEW max, NEW given, max = remaining, given = known
          PROVE RoundRuns(max, given)'
      BY <1>4, <3>1, <3>2, RoundRunsOn DEF Execute
    <3> QED BY <1>4, <3>2, ExecutorKeepsExecInv DEF Execute, roundVars, RoundRuns
  <2> QED BY <1>4, <2>1 DEF Execute, roundVars, LoopTypes, Credits, Completed
<1>5. CASE RoundCompleted
  <2>1. /\ known' \subseteq Evidence /\ knownFacts' = DeriveFacts(known')
        /\ remaining' \in 0..MaxToolCalls /\ idle' \in Nat
    BY CompletedRound, <1>5 DEF LoopTypes
  <2>2. rounds' \in Seq(RoundRecord) /\ Len(rounds') = Len(rounds) + 1
    BY CompletedRound, <1>5, Appended DEF LoopTypes
  <2>3. Completed' <= MaxPlanningRounds
    BY <1>5, <2>2, ArgumentTypes, RoundsAssumption DEF RoundCompleted, LoopTypes, Completed
  <2>4. stage' \in {"loop", "returned"} /\ initial' = initial
    BY <1>5 DEF RoundCompleted
  <2>5. ExecInv'
    BY <1>5, ExecutorIdle DEF RoundCompleted
  <2> QED BY <1>5, <2>1, <2>2, <2>3, <2>4, <2>5, CreditsStep DEF LoopTypes, Stage
<1>6. CASE RoundRaises
  BY <1>6, ExecutorIdle DEF RoundRaises, LoopTypes, Credits, Completed, Stage
<1>7. CASE UNCHANGED allVars
  BY <1>7, ExecutorIdle
     DEF allVars, roundVars, execVars, LoopTypes, Credits, Completed, RoundRuns
<1> QED BY <1>1, <1>2, <1>3, <1>4, <1>5, <1>6, <1>7 DEF RoundsNext

(* The loop's inductive invariant.                                         *)
THEOREM RoundsInvariant == RoundsSpec => []RoundsInv
<1> QED BY RoundsInitInv, RoundsStep, PTL DEF RoundsSpec

(* Every piece of evidence is credited to exactly one round or to the      *)
(* case's past, and the facts are those of the evidence.                   *)
THEOREM EvidenceIsCredited == RoundsSpec => []EvidenceIsCreditedOnce
<1>1. RoundsInv => EvidenceIsCreditedOnce
  BY DEF RoundsInv, LoopTypes, Credits, EvidenceIsCreditedOnce
<1> QED BY <1>1, RoundsInvariant, PTL

-----------------------------------------------------------------------------
(* Why the loop stops.                                                     *)

Taught(i) == rounds[i].evidence_delta # {}

(* The loop goes on only while every round taught something.               *)
ReasonInv ==
  /\ RoundsInv
  /\ StopReasonIsTrue
  /\ stage # "returned" => idle = 0 /\ \A i \in DOMAIN rounds : Taught(i)

(* Nothing was taught yet and nothing is reported.                         *)
LEMMA RoundsInitReason == RoundsInit => ReasonInv
<1> SUFFICES ASSUME RoundsInit PROVE ReasonInv
  OBVIOUS
<1>1. rounds = <<>> /\ stage = "loop" /\ idle = 0
  BY DEF RoundsInit
<1> QED BY <1>1, RoundsInitInv DEF ReasonInv, StopReasonIsTrue

(* A reason other than a lack of progress is given while every round       *)
(* taught something.                                                       *)
LEMMA ReturnKeepsReason ==
  ASSUME ReasonInv, NEW why, Return(why), stage # "returned",
         why # "no_progress",
         why = "tool_call_budget_exhausted" => remaining = 0,
         why = "max_planning_rounds" => Completed >= MaxPlanningRounds,
         why \in {"planner_failure", "plan_validation_failure"} => remaining > 0
  PROVE  StopReasonIsTrue'
<1>1. /\ UNCHANGED <<rounds, remaining, initial>> /\ reason' = why /\ stage' = "returned"
  BY DEF Return
<1>2. \A i \in DOMAIN rounds : rounds[i].evidence_delta # {}
  BY DEF ReasonInv, Taught
<1>3. rounds \in Seq(RoundRecord)
  BY DEF ReasonInv, RoundsInv, LoopTypes
<1>4. rounds # <<>> => Len(rounds) \in DOMAIN rounds
  BY <1>3
<1>5. \A i \in 1..(Len(rounds) - 1) : i \in DOMAIN rounds
  BY <1>3
<1> QED BY <1>1, <1>2, <1>4, <1>5 DEF StopReasonIsTrue, Completed

(* Every step of the loop keeps its reasons true.                          *)
LEMMA ReasonStep ==
  ASSUME MaxNoProgressRounds = 1, ReasonInv, [RoundsNext]_allVars
  PROVE  ReasonInv'
<1>i. RoundsInv /\ RoundsInv'
  BY RoundsStep DEF ReasonInv
<1>t. rounds \in Seq(RoundRecord) /\ remaining \in Nat /\ Completed \in Nat
  BY <1>i, ArgumentTypes, RoundsAssumption DEF RoundsInv, LoopTypes, Completed
<1>1. CASE RoundsExhausted
  <2>1. Completed >= MaxPlanningRounds
    BY <1>1, <1>t, RoundsAssumption DEF RoundsExhausted, RoundNumber, Completed
  <2> QED BY <1>1, <1>i, <2>1, ReturnKeepsReason DEF RoundsExhausted, Return, ReasonInv
<1>2. CASE BudgetExhausted
  BY <1>2, <1>i, ReturnKeepsReason DEF BudgetExhausted, Return, ReasonInv
<1>3. CASE PlannerFails \/ PlanRejected
  <2>1. remaining > 0
    BY <1>3, <1>i DEF PlannerFails, PlanRejected, RoundsInv
  <2> QED BY <1>3, <1>i, <2>1, ReturnKeepsReason DEF PlannerFails, PlanRejected, Return, ReasonInv
<1>4. CASE \/ AskPlanner \/ \E p \in Plans : PlanAccepted(p)
           \/ Execute \/ RoundRaises \/ UNCHANGED allVars
  <2>1. UNCHANGED <<rounds, initial, remaining, idle, reason>>
    BY <1>4 DEF AskPlanner, PlanAccepted, Execute, RoundRaises, allVars, roundVars
  <2>2. stage' = "returned" => stage = "returned"
    BY <1>4 DEF AskPlanner, PlanAccepted, Execute, RoundRaises, allVars, roundVars
  <2>3. stage = "returned" => stage' = "returned"
    BY <1>4 DEF AskPlanner, PlanAccepted, Execute, RoundRaises, allVars, roundVars
  <2> QED BY <1>i, <2>1, <2>2, <2>3 DEF ReasonInv, StopReasonIsTrue, Taught
<1>5. CASE RoundCompleted
  <2>1. PICK round \in RoundRecord :
          /\ rounds' = Append(rounds, round)
          /\ round.evidence_delta = known' \ known
          /\ idle' = IF known' = known THEN idle + 1 ELSE 0
    BY <1>5, <1>i, CompletedRound
  <2>2. known \subseteq known'
    BY <1>5, <1>i, CompletedRound
  <2> DEFINE n == Len(rounds) + 1
  <2>3. /\ n \in Nat /\ Len(rounds') = n /\ rounds'[n] = round
        /\ DOMAIN rounds = 1..(n - 1) /\ DOMAIN rounds' = 1..n
        /\ \A i \in DOMAIN rounds : rounds'[i] = rounds[i]
    BY <1>t, <2>1, Appended
  <2>4. idle = 0 /\ \A i \in 1..(n - 1) : rounds'[i].evidence_delta # {}
    BY <1>5, <2>3 DEF ReasonInv, RoundCompleted, Taught
  <2>5. round.evidence_delta = {} <=> known' = known
    BY <2>1, <2>2
  <2>6. IF known' = known THEN stage' = "returned" /\ reason' = "no_progress"
                          ELSE stage' = "loop" /\ idle' = 0
    BY <1>5, <2>1, <2>4 DEF RoundCompleted
  <2>7. rounds' # <<>>
    BY <2>1, <1>t
  <2> HIDE DEF n
  <2> QED BY <1>i, <2>3, <2>4, <2>5, <2>6, <2>7 DEF ReasonInv, StopReasonIsTrue, Taught
<1> QED BY <1>1, <1>2, <1>3, <1>4, <1>5 DEF RoundsNext

(* With the code's limit of one round without progress, the reason that a  *)
(* turn reports is the true one and the first that applied.                *)
THEOREM ReasonIsTrue ==
  ASSUME MaxNoProgressRounds = 1
  PROVE  RoundsSpec => []StopReasonIsTrue
<1>1. RoundsInit => ReasonInv
  BY RoundsInitReason
<1>2. ReasonInv /\ [RoundsNext]_allVars => ReasonInv'
  BY ReasonStep
<1>3. ReasonInv => StopReasonIsTrue
  BY DEF ReasonInv
<1> QED BY <1>1, <1>2, <1>3, PTL DEF RoundsSpec

-----------------------------------------------------------------------------
(* The loop does what the workflow service relies on, but for the turn's   *)
(* end, which needs fairness.                                              *)

CaseState == [rounds |-> Completed, remaining |-> remaining, facts |-> knownFacts]
IsOpen == stage \notin {"returned", "raised"}

Remembered == CaseState \in Contract!Memory

(* A case's memory is one the contract speaks of.                          *)
LEMMA MemoryTypes == RoundsInv => Remembered
<1> USE DEF Remembered
<1> SUFFICES ASSUME RoundsInv PROVE CaseState \in Contract!Memory
  OBVIOUS
<1>1. Completed \in 0..MaxPlanningRounds
  BY ArgumentTypes, RoundsAssumption DEF RoundsInv, LoopTypes, Completed
<1>2. knownFacts \subseteq DeriveFacts(Evidence)
  BY FactsAssumption DEF RoundsInv, LoopTypes
<1> QED BY <1>1, <1>2 DEF RoundsInv, LoopTypes, CaseState, Contract!Memory

(* So it is after a step.                                                  *)
LEMMA MemoryTypesNext == RoundsInv' => Remembered'
BY MemoryTypes, PTL

(* A turn begins as the contract says.                                     *)
LEMMA ContractInit == RoundsInit => Contract!Init
<1> SUFFICES ASSUME RoundsInit PROVE Contract!Init
  OBVIOUS
<1>1. CaseState \in Contract!Memory
  BY RoundsInitInv, MemoryTypes DEF Remembered
<1> QED BY <1>1 DEF Contract!Init, RoundsInit, CaseState, Completed

(* Every step of the loop is a round, the turn's close, or no step.        *)
LEMMA ContractStep ==
  ASSUME RoundsInv, RoundsInv', [RoundsNext]_allVars
  PROVE  [Contract!Round \/ Contract!Close]_<<CaseState, IsOpen>>
<1>1. CASE RoundsExhausted \/ BudgetExhausted \/ PlannerFails \/ PlanRejected \/ RoundRaises
  <2>1. IsOpen /\ ~IsOpen' /\ UNCHANGED <<initial, rounds, remaining, knownFacts>>
    BY <1>1 DEF RoundsExhausted, BudgetExhausted, PlannerFails, PlanRejected, RoundRaises,
       Return, IsOpen
  <2>2. Contract!Close
    BY <2>1 DEF Contract!Close, IsOpen, CaseState, Completed
  <2> QED BY <2>2
<1>2. CASE AskPlanner \/ (\E p \in Plans : PlanAccepted(p)) \/ Execute \/ UNCHANGED allVars
  <2>1. UNCHANGED <<initial, rounds, remaining, knownFacts>>
    BY <1>2 DEF AskPlanner, PlanAccepted, Execute, allVars, roundVars
  <2>2. UNCHANGED IsOpen
    BY <1>2 DEF AskPlanner, PlanAccepted, Execute, allVars, roundVars, IsOpen
  <2> QED BY <2>1, <2>2 DEF CaseState, Completed
<1>3. CASE RoundCompleted
  <2>1. IsOpen /\ initial' = initial
    BY <1>3 DEF RoundCompleted, IsOpen
  <2>2. PICK round \in RoundRecord :
          /\ rounds' = Append(rounds, round)
          /\ round.evidence_delta = known' \ known
          /\ round.fact_delta = knownFacts' \ knownFacts
          /\ idle' = IF known' = known THEN idle + 1 ELSE 0
    BY <1>3, CompletedRound
  <2>3. Completed' = Completed + 1
    BY <2>1, <2>2, Appended, ArgumentTypes DEF RoundsInv, LoopTypes, Completed
  <2>4. remaining' < remaining /\ knownFacts \subseteq knownFacts'
    BY <1>3, CompletedRound
  <2>5. remaining > 0 /\ Completed < MaxPlanningRounds
    BY <1>3 DEF RoundsInv, RoundCompleted
  <2>6. Contract!RoundMoves(CaseState, CaseState')
    BY <2>3, <2>4, <2>5 DEF Contract!RoundMoves, Contract!CanPlan, CaseState
  <2>7. ~IsOpen' => knownFacts' = knownFacts
    <3>1. SUFFICES ASSUME ~IsOpen' PROVE known' = known
      BY DEF RoundsInv, LoopTypes
    <3>2. idle' >= MaxNoProgressRounds
      BY <1>3, <3>1 DEF RoundCompleted, IsOpen
    <3> QED BY <2>2, <3>2, RoundsAssumption
  <2>8. CaseState' \in Contract!Memory
    BY MemoryTypesNext DEF Remembered, Contract!Memory
  <2>9. Contract!Round
    BY <2>1, <2>6, <2>7, <2>8 DEF Contract!Round, CaseState, IsOpen, Completed
  <2> QED BY <2>9
<1> QED BY <1>1, <1>2, <1>3 DEF RoundsNext

(* A turn moves a case's memory only as the service relies on: every       *)
(* round is numbered next and costs a call, no call is granted back, no    *)
(* fact is lost, and a round that ends the turn taught nothing.            *)
THEOREM RoundsKeepContract ==
  RoundsSpec => Contract!Init /\ [][Contract!Round \/ Contract!Close]_<<CaseState, IsOpen>>
<1>1. RoundsInit => Contract!Init
  BY ContractInit
<1>2. RoundsInv /\ RoundsInv' /\ [RoundsNext]_allVars
        => [Contract!Round \/ Contract!Close]_<<CaseState, IsOpen>>
  BY ContractStep
<1> QED BY <1>1, <1>2, RoundsInvariant, PTL DEF RoundsSpec
============================================================================
