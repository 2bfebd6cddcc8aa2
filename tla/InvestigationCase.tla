------------------------- MODULE InvestigationCase -------------------------
(***************************************************************************)
(* One investigation case from its creation through its follow-ups: the    *)
(* durable row (database/postgres_run_repository.py), the endpoints that   *)
(* create and reopen it (api/v1/connector_router.py), the background task  *)
(* that works on it (workflows/investigation.py), the registry that owns   *)
(* the task (runtime/live_run_tasks.py) and the fact-recurrence counters   *)
(* (database/postgres_fact_recurrence_repository.py).                      *)
(*                                                                         *)
(* A worker is one request and the background task it starts.  The workers *)
(* of one process share an event loop: between two awaits a worker runs    *)
(* alone in its process, but other processes share only the database.      *)
(* Repository calls are synchronous, so an await is a planner, model or    *)
(* tool call; nothing else suspends a task.                                *)
(***************************************************************************)
EXTENDS CaseMemory, Integers, Sequences, FiniteSets

CONSTANTS
  Worker, Process, ProcessOf,   \* requests in flight and the process of each
  MaxFollowUps,                 \* MAX_FOLLOW_UPS_PER_CASE
  Faults                        \* what may go wrong, a subset of FaultKind

(* save_*, count_*: a commit that fails, or that lands although the client *)
(* is told it failed, of the run and of a recurrence counter.              *)
FaultKind ==
  {"save_lost", "save_landed", "count_lost", "count_landed", "shutdown", "crash"}

ASSUME CaseAssumption ==
  /\ ProcessOf \in [Worker -> Process]
  /\ MaxFollowUps \in Nat
  /\ Faults \subseteq FaultKind

VARIABLES
  row,        \* the stored run, or Absent
  task,       \* each worker's coroutine
  stopping,   \* processes in lifespan shutdown
  calls,      \* tool calls made for this case so far
  counted     \* increments of each recurrence counter by this case

vars == <<row, task, stopping, calls, counted>>

RunStatus == {"pending", "running", "completed", "failed", "cancelled"}
TerminalStatus == {"completed", "failed", "cancelled"}

(* InvestigationRuntimeSnapshot; planned is a round saved before it ran.   *)
Snapshot(m, planned) == [kept |-> TRUE, memory |-> m, planned |-> planned]
NoState == [kept |-> FALSE, memory |-> EmptyMemory, planned |-> FALSE]

Absent == [status |-> "absent", follow_ups |-> 0, results |-> <<>>,
           recorded |-> {}, state |-> NoState]
PendingRun == [Absent EXCEPT !.status = "pending"]

(* An answer is identified by the turn that gave it and who worked on it.  *)
Answer == [turn : 0..MaxFollowUps, by : Worker]

Section == {"reopening", "recording", "failing", "cancelling", "saving_cancel"}
Awaiting == {"planning", "executing", "executed", "stalled", "hypothesizing", "diagnosing"}
ProgramCounter == {"idle", "scheduled"} \cup Section \cup Awaiting

IdleTask == [pc |-> "idle", copy |-> Absent, memory |-> EmptyMemory,
             tried |-> {}, noted |-> {}]

-----------------------------------------------------------------------------
(* PostgresRunRepository.save                                              *)

(* Faulty variant, by which the properties are seen to fail: a late        *)
(* failure may overwrite an answered case.                                 *)
LaxRunTransitions ==
  [pending |-> {"running", "cancelled"},
   running |-> {"completed", "failed", "cancelled"},
   completed |-> {"failed"}, failed |-> {}, cancelled |-> {}]

AllowedRunTransitions ==
  [pending |-> {"running", "cancelled"},
   running |-> {"completed", "failed", "cancelled"},
   completed |-> {}, failed |-> {}, cancelled |-> {}]

(* _validate_investigation_reopen.                                         *)
ReopenIsValid(stored, run) ==
  /\ run.follow_ups = stored.follow_ups + 1
  /\ stored.follow_ups < MaxFollowUps

(* _insert_pending_run and _update_existing_run.  A status that does not   *)
(* change is checked against nothing else unless it is terminal, and a     *)
(* terminal run is never saved twice with the same timestamps.             *)
Accepts(stored, run) ==
  IF stored.status = "absent" THEN run.status = "pending"
  ELSE IF stored.status = run.status THEN run.status \notin TerminalStatus
  ELSE IF stored.status = "completed" /\ run.status = "running"
       THEN ReopenIsValid(stored, run)
  ELSE run.status \in AllowedRunTransitions[stored.status]

Stored(run) == Accepts(row, run) /\ row' = run

SaveRaises(run) ==
  \/ ~Accepts(row, run) /\ UNCHANGED row
  \/ "save_lost" \in Faults /\ UNCHANGED row
  \/ "save_landed" \in Faults /\ Stored(run)

Become(w, t) == task' = [task EXCEPT ![w] = t]

(* One save by worker w, which goes on as `saved` or, if save raises, as   *)
(* `raised`.                                                               *)
Save(w, run, saved, raised) ==
  /\ \/ Stored(run) /\ Become(w, saved)
     \/ SaveRaises(run) /\ Become(w, raised)
  /\ UNCHANGED <<stopping, calls, counted>>

-----------------------------------------------------------------------------

HasLoop(w) ==
  \A v \in Worker \ {w} : ProcessOf[v] = ProcessOf[w] => task[v].pc \notin Section

At(w, where) == task[w].pc = where /\ HasLoop(w)

Serving(w) == At(w, "idle") /\ ProcessOf[w] \notin stopping

Goto(w, where) == [task[w] EXCEPT !.pc = where]

(* No model call without facts: the turn then ends in one synchronous run. *)
Concluding(m) == IF m.facts # {} THEN "hypothesizing" ELSE "recording"
NextRound(m) == IF CanPlan(m) THEN "planning" ELSE Concluding(m)

(* POST /investigations: create_persisted_run, then task_registry.start.   *)
CreateRun(w) ==
  /\ Serving(w)
  /\ row.status = "absent"
  /\ Save(w, PendingRun, [IdleTask EXCEPT !.pc = "scheduled", !.copy = PendingRun], IdleTask)

(* POST /investigations/{run_id}/follow-up reads the run...                *)
ReadForFollowUp(w) ==
  /\ Serving(w)
  /\ row.status = "completed"
  /\ Become(w, [IdleTask EXCEPT !.pc = "reopening", !.copy = row])
  /\ UNCHANGED <<row, stopping, calls, counted>>

(* ...and reopen_for_follow_up saves the copy it read, moved to running.   *)
Reopen(w) ==
  LET reopened == [task[w].copy EXCEPT !.status = "running", !.follow_ups = @ + 1]
  IN  /\ At(w, "reopening")
      /\ Save(w, reopened, [IdleTask EXCEPT !.pc = "scheduled", !.copy = reopened], IdleTask)

(* What a turn starts from.  Faulty variant: every turn is a new case.     *)
ForgottenState(run) == Snapshot(EmptyMemory, FALSE)
StateToResume(run) ==
  IF run.status = "pending" THEN Snapshot(EmptyMemory, FALSE) ELSE run.state

(* The task's first step.  This save is outside the try block: if it       *)
(* raises, the task ends and the row stays as it is.                       *)
Begin(w) ==
  LET state == StateToResume(task[w].copy)
      running == [task[w].copy EXCEPT !.status = "running", !.state = state]
  IN  /\ At(w, "scheduled")
      /\ Save(w, running,
              [IdleTask EXCEPT !.pc = NextRound(state.memory), !.copy = running,
                               !.memory = state.memory],
              IdleTask)

(* The planner fails or its plan is rejected: no further round.            *)
StopPlanning(w) ==
  /\ At(w, "planning")
  /\ Become(w, Goto(w, Concluding(task[w].memory)))
  /\ UNCHANGED <<row, stopping, calls, counted>>

SaveRound(w, planned, next) ==
  Save(w, [task[w].copy EXCEPT !.state = Snapshot(task[w].memory, planned)],
       Goto(w, next), Goto(w, "failing"))

(* save_planned_round                                                      *)
PlanRound(w) == At(w, "planning") /\ SaveRound(w, TRUE, "executing")

(* The executor's calls of one round, the last still unanswered.  A round  *)
(* that brings no new fact may be one that brings no evidence either.      *)
CallTools(w) ==
  \E m \in Memory :
    /\ At(w, "executing")
    /\ RoundMoves(task[w].memory, m)
    /\ \E next \in {"executed", "stalled"} :
         /\ next = "stalled" => m.facts = task[w].memory.facts
         /\ Become(w, [Goto(w, next) EXCEPT !.memory = m])
    /\ calls' = calls + (task[w].memory.remaining - m.remaining)
    /\ UNCHANGED <<row, stopping, counted>>

(* save_completed_round                                                    *)
CompleteRound(w) ==
  \/ At(w, "executed") /\ SaveRound(w, FALSE, NextRound(task[w].memory))
  \/ At(w, "stalled") /\ SaveRound(w, FALSE, Concluding(task[w].memory))

(* Accepted hypotheses are diagnosed; none, or a failed generation, is not. *)
Hypothesize(w) ==
  /\ At(w, "hypothesizing")
  /\ \E next \in {"diagnosing", "recording"} : Become(w, Goto(w, next))
  /\ UNCHANGED <<row, stopping, calls, counted>>

Diagnose(w) ==
  /\ At(w, "diagnosing")
  /\ Become(w, Goto(w, "recording"))
  /\ UNCHANGED <<row, stopping, calls, counted>>

(* Faulty variant: the exception ends the task.                            *)
RaiseUnhandled(w) ==
  /\ \E where \in Awaiting : At(w, where)
  /\ Become(w, IdleTask)
  /\ UNCHANGED <<row, stopping, calls, counted>>

(* Any exception the code does not expect while a call is awaited.         *)
RaiseUnexpected(w) ==
  /\ \E where \in Awaiting : At(w, where)
  /\ Become(w, Goto(w, "failing"))
  /\ UNCHANGED <<row, stopping, calls, counted>>

(* _record_fact_recurrence: one transaction per fact type that is new to   *)
(* the case; a counter that reports an error is passed over.  Faulty       *)
(* variant: new to the turn.                                               *)
ToRecordThisTurn(w) == task[w].memory.facts \ task[w].tried
ToRecord(w) == task[w].memory.facts \ (task[w].copy.recorded \cup task[w].tried)

Increment(f) == counted' = [counted EXCEPT ![f] = @ + 1]

RecordFact(w) ==
  \E f \in ToRecord(w) :
    /\ At(w, "recording")
    /\ \/ /\ Become(w, [task[w] EXCEPT !.tried = @ \cup {f}, !.noted = @ \cup {f}])
          /\ Increment(f)
       \/ /\ Become(w, [task[w] EXCEPT !.tried = @ \cup {f}])
          /\ \/ "count_lost" \in Faults /\ UNCHANGED counted
             \/ "count_landed" \in Faults /\ Increment(f)
    /\ UNCHANGED <<row, stopping, calls>>

NewAnswer(w) == [turn |-> task[w].copy.follow_ups, by |-> w]

(* Faulty variants: the answer replaces the thread, or the state saved is  *)
(* the one the turn started from.                                          *)
CompletedAfresh(w) ==
  [task[w].copy EXCEPT !.status = "completed",
     !.state = Snapshot(task[w].memory, FALSE),
     !.results = <<NewAnswer(w)>>,
     !.recorded = @ \cup task[w].noted]
CompletedUnsaved(w) ==
  [task[w].copy EXCEPT !.status = "completed",
     !.results = Append(@, NewAnswer(w)),
     !.recorded = @ \cup task[w].noted]

Completed(w) ==
  [task[w].copy EXCEPT !.status = "completed",
     !.state = Snapshot(task[w].memory, FALSE),
     !.results = Append(@, NewAnswer(w)),
     !.recorded = @ \cup task[w].noted]

(* The end of _complete_adaptive_run.                                      *)
CompleteRun(w) ==
  /\ At(w, "recording")
  /\ ToRecord(w) = {}
  /\ Save(w, Completed(w), IdleTask, Goto(w, "failing"))

(* _fail: the results so far are kept, the state is dropped.  If this save *)
(* raises too, the router swallows the exception.                          *)
FailRun(w) ==
  /\ At(w, "failing")
  /\ Save(w, [task[w].copy EXCEPT !.status = "failed", !.state = NoState], IdleTask, IdleTask)

(* _cancel reads the latest row...                                         *)
ReadForCancel(w) ==
  /\ At(w, "cancelling")
  /\ \/ Become(w, [Goto(w, "saving_cancel") EXCEPT !.copy = row])
     \/ "save_lost" \in Faults /\ Become(w, IdleTask)
  /\ UNCHANGED <<row, stopping, calls, counted>>

(* ...and saves it as cancelled.                                           *)
CancelRun(w) ==
  /\ At(w, "saving_cancel")
  /\ Save(w, [task[w].copy EXCEPT !.status = "cancelled"], IdleTask, IdleTask)

(* LiveRunTaskRegistry.shutdown: a task at an await gets CancelledError    *)
(* there; one that has not taken its first step never runs at all.  Faulty *)
(* variant: the coroutine does not handle its cancellation.                *)
InterruptedSilently(t) == IdleTask
Interrupted(t) ==
  IF t.pc \in Awaiting THEN [t EXCEPT !.pc = "cancelling"] ELSE IdleTask

Shutdown(p) ==
  /\ "shutdown" \in Faults
  /\ p \notin stopping
  /\ \A w \in Worker : ProcessOf[w] = p => task[w].pc \notin Section
  /\ stopping' = stopping \cup {p}
  /\ task' = [w \in Worker |-> IF ProcessOf[w] = p THEN Interrupted(task[w]) ELSE task[w]]
  /\ UNCHANGED <<row, calls, counted>>

Restart(p) ==
  /\ p \in stopping
  /\ \A w \in Worker : ProcessOf[w] = p => task[w] = IdleTask
  /\ stopping' = stopping \ {p}
  /\ UNCHANGED <<row, task, calls, counted>>

(* The process dies, wherever its tasks are, and is started again.         *)
Crash(p) ==
  /\ "crash" \in Faults
  /\ stopping' = stopping \ {p}
  /\ task' = [w \in Worker |-> IF ProcessOf[w] = p THEN IdleTask ELSE task[w]]
  /\ UNCHANGED <<row, calls, counted>>

-----------------------------------------------------------------------------
Init ==
  /\ row = Absent
  /\ task = [w \in Worker |-> IdleTask]
  /\ stopping = {}
  /\ calls = 0
  /\ counted = [f \in Fact |-> 0]

(* What a worker does once its request has been taken up.                  *)
Progress(w) ==
  \/ Reopen(w)
  \/ Begin(w)
  \/ StopPlanning(w)
  \/ PlanRound(w)
  \/ CallTools(w)
  \/ CompleteRound(w)
  \/ Hypothesize(w)
  \/ Diagnose(w)
  \/ RaiseUnexpected(w)
  \/ RecordFact(w)
  \/ CompleteRun(w)
  \/ FailRun(w)
  \/ ReadForCancel(w)
  \/ CancelRun(w)

Next ==
  \/ \E w \in Worker : CreateRun(w) \/ ReadForFollowUp(w) \/ Progress(w)
  \/ \E p \in Process : Shutdown(p) \/ Restart(p) \/ Crash(p)

Spec == Init /\ [][Next]_vars

(* The event loop runs every task that can continue, and every await ends: *)
(* the HTTP clients of the planner, the models and the tools have timeouts. *)
FairSpec == Spec /\ \A w \in Worker : WF_vars(Progress(w))

-----------------------------------------------------------------------------
Run == [status : RunStatus \cup {"absent"}, follow_ups : Nat, results : Seq(Answer),
        recorded : SUBSET Fact,
        state : [kept : BOOLEAN, memory : Memory, planned : BOOLEAN]]

(* Type correctness of the durable state and of the tasks.                 *)
TypeOK ==
  /\ row \in Run
  /\ task \in [Worker -> [pc : ProgramCounter, copy : Run, memory : Memory,
                          tried : SUBSET Fact, noted : SUBSET Fact]]
  /\ stopping \subseteq Process
  /\ calls \in Nat
  /\ counted \in [Fact -> Nat]

(* A worker that holds a copy of the run it may still save.                *)
Holds(w) == task[w].pc # "idle"

InSync(w) ==
  /\ task[w].copy.follow_ups = row.follow_ups
  /\ task[w].copy.results = row.results
  /\ task[w].copy.recorded = row.recorded

OneWriter == \A v, w \in Worker : Holds(v) /\ Holds(w) => v = w

(* No two tasks of a process ever work on the case at once, and what the   *)
(* one that does holds is not stale: its next save can only extend what is *)
(* stored, never roll it back.                                             *)
OneCurrentWriter ==
  /\ OneWriter
  /\ \A w \in Worker : Holds(w) /\ row.status \in {"pending", "running"} => InSync(w)

(* ADR-033: the calls of all turns together stay within the budget of the  *)
(* case, and a completed case has accounted for every call that was made,  *)
(* also if saves failed or landed unnoticed on the way.                    *)
CallsWithinBudget ==
  /\ calls <= Budget
  /\ row.status = "completed" => calls + row.state.memory.remaining = Budget

(* ADR-033: a case increments each recurrence counter at most once in its  *)
(* life, and the completed row knows which.                                *)
CountedOncePerCase ==
  /\ \A f \in Fact : counted[f] <= 1
  /\ row.status = "completed" => row.recorded = {f \in Fact : counted[f] = 1}

(* Every turn that ends well leaves exactly one answer, in order, and a    *)
(* turn in progress or abandoned leaves the earlier ones.                  *)
EveryTurnAnswered ==
  /\ Len(row.results) = row.follow_ups + (IF row.status = "completed" THEN 1 ELSE 0)
  /\ \A i \in DOMAIN row.results : row.results[i].turn = i - 1

(* A completed case shows no round that was planned and did not run, and   *)
(* its facts include all that it reported as recurring.                    *)
CompletedCaseIsWhole ==
  row.status = "completed" =>
    /\ row.state.kept /\ ~row.state.planned
    /\ row.recorded \subseteq row.state.memory.facts

(* The limit on reopening is kept with any number of processes: a copy     *)
(* that would exceed it was read from a run that can no longer change.     *)
LimitKept ==
  /\ row.follow_ups <= MaxFollowUps
  /\ \A w \in Worker :
       /\ task[w].copy.follow_ups <= MaxFollowUps
       /\ task[w].pc = "reopening" /\ task[w].copy.follow_ups = MaxFollowUps =>
            row.status = "completed" /\ row.follow_ups = MaxFollowUps

Working == Awaiting \cup {"recording"}

(* What a task's place in the code says of the row and of its own copy.    *)
WriterInv(w) ==
  /\ task[w].pc = "reopening" => row.status = "completed" /\ task[w].copy = row
  /\ task[w].pc = "scheduled" =>
       /\ row.status \in {"pending", "running"}
       /\ task[w].copy = row
       /\ calls + StateToResume(row).memory.remaining = Budget
       /\ row.recorded \subseteq StateToResume(row).memory.facts
  /\ task[w].pc \in Working =>
       /\ row.status = "running"
       /\ task[w].copy.status = "running"
       /\ InSync(w)
       /\ calls + task[w].memory.remaining = Budget
       /\ task[w].memory.remaining <= row.state.memory.remaining
       /\ task[w].copy.recorded \cup task[w].noted \subseteq task[w].memory.facts
  /\ task[w].pc = "failing" =>
       /\ row.status \in {"running", "completed"}
       /\ row.status = "running" => InSync(w)
  /\ task[w].pc = "cancelling" => row.status = "running" /\ InSync(w)
  /\ task[w].pc = "saving_cancel" => row.status = "running" /\ task[w].copy = row

RowInv ==
  /\ row.status = "absent" => row = Absent
  /\ row.status = "pending" => row = PendingRun
  /\ row.status \in {"absent", "pending"} => calls = 0
  /\ CallsWithinBudget
  /\ EveryTurnAnswered
  /\ CompletedCaseIsWhole

(* The inductive invariant of a case served by one process: at most one    *)
(* task holds a copy of it, and the copy fits the row.                     *)
CaseInv ==
  /\ TypeOK
  /\ LimitKept
  /\ OneWriter
  /\ \A w \in Worker : WriterInv(w)
  /\ RowInv

(* ADR-033: results is append-only; no answer is removed or replaced.      *)
ResultsAppendOnly ==
  [][/\ Len(row.results) <= Len(row'.results)
     /\ \A i \in DOMAIN row.results : row'.results[i] = row.results[i]]_vars

(* The row seen by readers behaves as the ledger the ADR promises.  A      *)
(* failed run has dropped its state and with it whatever budget was left.  *)
Ledger == INSTANCE CaseLedger WITH
  status <- row.status, answers <- row.results, follow_ups <- row.follow_ups,
  left <- IF row.status = "failed" THEN 0 ELSE row.state.memory.remaining

CaseIsALedger == Ledger!Spec

(* In a process that is not shut down, and whose saves do not fail, every  *)
(* case that was started reaches a terminal status.                        *)
StartedCaseEnds ==
  [](stopping = {}) =>
    (row.status \in {"pending", "running"} ~> row.status \in TerminalStatus)

(* A turn that has begun ends in a terminal status even if its process is  *)
(* shut down: the cancelled task still writes its last snapshot.           *)
BegunTurnEnds ==
  \A w \in Worker :
    task[w].pc \in Awaiting \cup {"cancelling"} ~> row.status \in TerminalStatus
=============================================================================
