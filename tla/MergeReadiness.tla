--------------------------- MODULE MergeReadiness ---------------------------
(***************************************************************************)
(* One merge-readiness run (workflows/merge_readiness.py): three steps, the *)
(* run saved before and after each, as the request's own work or as a      *)
(* background task, while readers poll the stored run                      *)
(* (database/postgres_run_repository.py).                                  *)
(*                                                                         *)
(* Every save runs in a worker thread that the coroutine awaits            *)
(* (asyncio.to_thread).  Cancelling the coroutine does not stop the thread. *)
(* A reader takes the run and then its steps, in two statements that do    *)
(* not share a snapshot (READ COMMITTED).                                  *)
(***************************************************************************)
EXTENDS Integers, Sequences, FiniteSets

CONSTANTS
  Reader,     \* pollers of GET /v1/runs/{run_id}
  Faults      \* what may go wrong, a subset of FaultKind

(* A commit that fails, or that lands although the client is told it       *)
(* failed; the lifespan cancels background tasks; the process dies.        *)
FaultKind == {"save_lost", "save_landed", "shutdown", "crash"}

ASSUME FaultsAssumption == Faults \subseteq FaultKind

VARIABLES
  row,        \* the stored run and its steps
  task,       \* the coroutine of the workflow
  thread,     \* the worker thread of the save that is awaited
  confirmed,  \* _confirmed_run_ids holds this run
  answer,     \* the HTTP response to the request that started the run
  reading,    \* the run a reader has read, its steps not yet
  view        \* what each reader has last been shown

vars == <<row, task, thread, confirmed, answer, reading, view>>

(* No merge-readiness run or step is ever cancelled.                       *)
RunStatus == {"absent", "pending", "running", "completed", "failed"}
StepStatus == {"pending", "running", "completed", "failed"}
Terminal == {"completed", "failed"}
Source == {"github", "jira"}

Absent == [status |-> "absent", steps |-> <<>>, facts |-> {}]
PendingRun == [Absent EXCEPT !.status = "pending"]

(* fetch_github_facts, fetch_jira_facts, evaluate_merge_readiness.         *)
StepCount == 3

(* ALLOWED_RUN_TRANSITIONS and ALLOWED_STEP_TRANSITIONS are the same table. *)
AllowedTransitions ==
  [pending |-> {"running", "cancelled"}, running |-> Terminal \cup {"cancelled"},
   completed |-> {}, failed |-> {}]

-----------------------------------------------------------------------------
(* PostgresRunRepository.save: the run's row, then its steps.              *)
AcceptsRun(run) ==
  IF row.status = "absent" THEN run.status = "pending" /\ run.steps = <<>>
  ELSE IF run.status # row.status THEN run.status \in AllowedTransitions[row.status]
  ELSE row.status \in Terminal => run.facts = row.facts

(* _save_steps: none removed or replaced, each moved forward if at all,    *)
(* and a new one pending.                                                  *)
AcceptsSteps(run) ==
  /\ Len(row.steps) <= Len(run.steps)
  /\ \A i \in DOMAIN run.steps :
       IF i > Len(row.steps) THEN run.steps[i] = "pending"
       ELSE \/ run.steps[i] = row.steps[i]
            \/ run.steps[i] \in AllowedTransitions[row.steps[i]]

Accepts(run) == AcceptsRun(run) /\ AcceptsSteps(run)

(* A reader of an older run and newer steps.  Faulty variant, by which the *)
(* properties are seen to fail: newer run, older steps.                    *)
ReadStepsFirst(seen) == [row EXCEPT !.steps = seen.steps]
ReadStepsSecond(seen) == [seen EXCEPT !.steps = row.steps]

NoSave == [state |-> "none", run |-> Absent]
IdleTask == [pc |-> "idle", live |-> FALSE, run |-> Absent, reply |-> 0]
NoAnswer == [code |-> 0, claims |-> FALSE]

-----------------------------------------------------------------------------
(* _save: the run goes to a worker thread, the coroutine waits for it.     *)
SaveAndAwait(run, reply) ==
  /\ thread' = [state |-> "saving", run |-> run]
  /\ task' = [task EXCEPT !.pc = "saving", !.run = run, !.reply = reply]
  /\ UNCHANGED <<row, confirmed, answer, reading, view>>

(* The worker thread.                                                      *)
ThreadSaves ==
  /\ thread.state = "saving"
  /\ \/ /\ Accepts(thread.run)
        /\ row' = thread.run
        /\ \/ thread' = [thread EXCEPT !.state = "saved"] /\ confirmed' = TRUE
           \/ /\ "save_landed" \in Faults
              /\ thread' = [thread EXCEPT !.state = "failed"] /\ UNCHANGED confirmed
     \/ /\ \/ "save_lost" \in Faults /\ thread' = [thread EXCEPT !.state = "failed"]
           \/ ~Accepts(thread.run) /\ thread' = [thread EXCEPT !.state = "conflict"]
        /\ UNCHANGED <<row, confirmed>>
  /\ UNCHANGED <<task, answer, reading, view>>

Saved == task.pc = "saving" /\ thread.state = "saved"

(* POST /pull-request-merge-readiness, or -runs for a background task.     *)
CreateRun ==
  /\ task.pc = "idle"
  /\ row.status = "absent"
  /\ \E live \in BOOLEAN : 
       task' = [task EXCEPT !.pc = "saving", !.live = live, !.run = PendingRun]
  /\ thread' = [state |-> "saving", run |-> PendingRun]
  /\ UNCHANGED <<row, confirmed, answer, reading, view>>

(* 202 Accepted: the background task is created, and has not run yet.      *)
AcceptRequest ==
  /\ Saved
  /\ task.run.status = "pending" /\ task.live
  /\ answer' = [code |-> 202, claims |-> TRUE]
  /\ task' = [task EXCEPT !.pc = "scheduled"]
  /\ thread' = NoSave
  /\ UNCHANGED <<row, confirmed, reading, view>>

StartRun ==
  /\ \/ Saved /\ task.run.status = "pending" /\ ~task.live
     \/ task.pc = "scheduled"
  /\ SaveAndAwait([task.run EXCEPT !.status = "running"], 0)

LastStep == task.run.steps[Len(task.run.steps)]
AtStep(status) == task.run.steps # <<>> /\ LastStep = status
WithLastStep(status) == [task.run EXCEPT !.steps[Len(task.run.steps)] = status]

(* _start_step: the step is saved pending and then running.                *)
AddStep ==
  /\ Saved
  /\ task.run.status = "running"
  /\ task.run.steps = <<>> \/ AtStep("completed")
  /\ SaveAndAwait([task.run EXCEPT !.steps = Append(@, "pending")], 0)

StartStep ==
  /\ Saved
  /\ AtStep("pending")
  /\ SaveAndAwait(WithLastStep("running"), 0)

(* Faulty variant: the work is begun before the step is stored as running. *)
WorkingAhead(n) == Saved /\ AtStep("pending") /\ Len(task.run.steps) = n
Working(n) == Saved /\ AtStep("running") /\ Len(task.run.steps) = n

Fetch(where) ==
  /\ task' = [task EXCEPT !.pc = where]
  /\ thread' = NoSave
  /\ UNCHANGED <<row, confirmed, answer, reading, view>>

CallGitHub == Working(1) /\ Fetch("github")

(* Jira is asked only about the issue the pull request names, if any.      *)
CallJira == Working(2) /\ "github" \in task.run.facts /\ Fetch("jira")

(* _complete_step, with what was found; a connector that is unavailable    *)
(* leaves its facts out.                                                   *)
CompleteStep(found) ==
  SaveAndAwait([WithLastStep("completed") EXCEPT !.facts = @ \cup found], 0)

NothingToAskJira == Working(2) /\ CompleteStep({})

ConnectorAnswers ==
  \E source \in Source :
    /\ task.pc = source
    /\ \E found \in {{}, {source}} : CompleteStep(found)

(* _fail_step_and_run: step and run fail in one save.  Faulty variants:    *)
(* only one of them fails.                                                 *)
FailRunOnly(code) == SaveAndAwait([task.run EXCEPT !.status = "failed"], code)
FailStepOnly(code) == SaveAndAwait(WithLastStep("failed"), code)
FailStepAndRun(code) ==
  SaveAndAwait([WithLastStep("failed") EXCEPT !.status = "failed"], code)

(* FixtureNotFoundError is raised again after the save, anything else is   *)
(* the run's own failure.                                                  *)
ConnectorFails ==
  /\ task.pc \in Source
  /\ \E code \in {404, 500} : FailStepAndRun(code)

PolicyFails == Working(3) /\ FailStepAndRun(500)

(* The last step and the run are completed in one save.                    *)
CompleteRun ==
  /\ Working(3)
  /\ SaveAndAwait([WithLastStep("completed") EXCEPT !.status = "completed"], 200)

(* The workflow returns or raises what the terminal save allows it to say. *)
(* A background task has nobody to tell.  Faulty variant: the failed save  *)
(* of a terminal run is answered as if it had been made.                   *)
Reply(code, claims) ==
  /\ task' = [task EXCEPT !.pc = "ended"]
  /\ thread' = NoSave
  /\ answer' = IF task.live /\ answer # NoAnswer THEN answer
               ELSE [code |-> code, claims |-> claims]
  /\ UNCHANGED <<row, confirmed, reading, view>>

Finish == Saved /\ task.run.status \in Terminal /\ Reply(task.reply, TRUE)

(* run_persistence_error_handler, run_state_conflict_handler: the run is   *)
(* named if this repository has saved it before.                           *)
SaveFailedUnnoticed ==
  /\ task.pc = "saving"
  /\ thread.state \in {"failed", "conflict"}
  /\ IF task.reply = 0 THEN Reply(503, confirmed) ELSE Reply(task.reply, TRUE)
SaveFailed ==
  /\ task.pc = "saving"
  /\ thread.state \in {"failed", "conflict"}
  /\ Reply(IF thread.state = "conflict" THEN 409 ELSE 503, confirmed)

(* LiveRunTaskRegistry.shutdown.  A save in flight goes on by itself.      *)
Cancel ==
  /\ "shutdown" \in Faults
  /\ task.live /\ answer # NoAnswer
  /\ task.pc \notin {"ended", "stopped"}
  /\ task' = [task EXCEPT !.pc = "stopped"]
  /\ UNCHANGED <<row, thread, confirmed, answer, reading, view>>

Crash ==
  /\ "crash" \in Faults
  /\ task.pc # "idle"
  /\ task' = [task EXCEPT !.pc = "stopped"]
  /\ thread' = NoSave
  /\ confirmed' = FALSE
  /\ UNCHANGED <<row, answer, reading, view>>

-----------------------------------------------------------------------------
(* PostgresRunRepository.get, by a poller: the run...                      *)
ReadRun(r) ==
  /\ row.status # "absent"
  /\ reading[r].status = "absent"
  /\ reading' = [reading EXCEPT ![r] = row]
  /\ UNCHANGED <<row, task, thread, confirmed, answer, view>>

(* ...and its steps.                                                       *)
ReadSteps(r) ==
  /\ reading[r].status # "absent"
  /\ view' = [view EXCEPT ![r] = ReadStepsSecond(reading[r])]
  /\ reading' = [reading EXCEPT ![r] = Absent]
  /\ UNCHANGED <<row, task, thread, confirmed, answer>>

-----------------------------------------------------------------------------
Init ==
  /\ row = Absent
  /\ task = IdleTask
  /\ thread = NoSave
  /\ confirmed = FALSE
  /\ answer = NoAnswer
  /\ reading = [r \in Reader |-> Absent]
  /\ view = [r \in Reader |-> Absent]

Workflow ==
  \/ AcceptRequest
  \/ StartRun
  \/ AddStep
  \/ StartStep
  \/ CallGitHub
  \/ CallJira
  \/ NothingToAskJira
  \/ ConnectorAnswers
  \/ ConnectorFails
  \/ PolicyFails
  \/ CompleteRun
  \/ Finish
  \/ SaveFailed

Next ==
  \/ CreateRun
  \/ Workflow
  \/ ThreadSaves
  \/ Cancel
  \/ Crash
  \/ \E r \in Reader : ReadRun(r) \/ ReadSteps(r)

Spec == Init /\ [][Next]_vars

(* The event loop runs a coroutine that can continue, a worker thread ends *)
(* its transaction, and the connectors' HTTP clients have timeouts.        *)
FairSpec == Spec /\ WF_vars(Workflow) /\ WF_vars(ThreadSaves)

-----------------------------------------------------------------------------
Run == [status : RunStatus, steps : Seq(StepStatus), facts : SUBSET Source]

(* Type correctness of the stored run, of the task and of the readers.     *)
TypeOK ==
  /\ row \in Run
  /\ task \in [pc : {"idle", "scheduled", "saving", "ended", "stopped"} \cup Source,
               live : BOOLEAN, run : Run, reply : {0, 200, 404, 500}]
  /\ thread \in [state : {"none", "saving", "saved", "failed", "conflict"}, run : Run]
  /\ confirmed \in BOOLEAN
  /\ answer \in [code : {0, 200, 202, 404, 409, 500, 503}, claims : BOOLEAN]
  /\ reading \in [Reader -> Run]
  /\ view \in [Reader -> Run]

(* What one save leaves: steps run one at a time and in order, the run     *)
(* ends together with its last step, and facts come from completed steps.  *)
Whole(run) ==
  /\ run.status \in {"absent", "pending"} => run.steps = <<>> /\ run.facts = {}
  /\ run.status = "running" =>
       /\ Len(run.steps) <= StepCount
       /\ \A i \in DOMAIN run.steps :
            run.steps[i] = "completed" \/ (i = Len(run.steps) /\ run.steps[i] # "failed")
       /\ Len(run.steps) = StepCount => run.steps[StepCount] # "completed"
  /\ run.status = "failed" =>
       /\ Len(run.steps) \in 1..StepCount
       /\ \A i \in DOMAIN run.steps :
            run.steps[i] = IF i = Len(run.steps) THEN "failed" ELSE "completed"
  /\ run.status = "completed" =>
       run.steps = [i \in 1..StepCount |-> "completed"]
  /\ "github" \in run.facts => run.steps # <<>> /\ run.steps[1] = "completed"
  /\ "jira" \in run.facts =>
       "github" \in run.facts /\ Len(run.steps) >= 2 /\ run.steps[2] = "completed"

(* ADR-004: terminal step and run state cannot split across commits; what  *)
(* is stored is always one of the workflow's own checkpoints, whatever     *)
(* saves fail, land unnoticed or outlive their task.                       *)
StoredRunIsWhole == Whole(row)

(* The workflow never meets a conflict of its own making: each checkpoint  *)
(* is one the repository accepts after those before it.                    *)
NoSaveConflicts == thread.state # "conflict"

(* ADR-004: 200 needs a committed completed run, 500 a committed failed    *)
(* one, and a response never names a run that was not committed.           *)
AnswersAreCommitted ==
  /\ answer.code = 200 => row.status = "completed"
  /\ answer.code \in {404, 500} => row.status = "failed"
  /\ answer.claims => row.status # "absent"

(* ADR-004: a step is stored as running before its external call is made.  *)
CallsAreVisible ==
  task.pc \in Source =>
    /\ row = task.run
    /\ AtStep("running")
    /\ Len(row.steps) = (IF task.pc = "github" THEN 1 ELSE 2)

(* A page stops polling at a terminal snapshot: what it shows then is the  *)
(* run as it is stored for good, although run and steps are read apart.    *)
TerminalViewIsTrue ==
  \A r \in Reader : view[r].status \in Terminal => view[r] = row

(* A stored step is never removed or set back, and a run that has ended    *)
(* never changes, whoever saves it.                                        *)
StepsOnlyAdvance ==
  [][/\ \A i \in DOMAIN row.steps :
          /\ i \in DOMAIN row'.steps
          /\ \/ row'.steps[i] = row.steps[i]
             \/ row'.steps[i] \in AllowedTransitions[row.steps[i]]
     /\ row.status \in Terminal => row' = row]_vars

(* Unless its process stops or a save fails, a run that was stored ends.   *)
RunEnds ==
  [](task.pc # "stopped" /\ thread.state # "failed") =>
    (row.status = "pending" ~> row.status \in Terminal)

=============================================================================
