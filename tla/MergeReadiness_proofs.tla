----------------------- MODULE MergeReadiness_proofs -----------------------
(***************************************************************************)
(* Proofs about the merge-readiness workflow: of MergeReadiness, how its    *)
(* run is stored and read, for any number of readers and any faults; and of *)
(* MergeEvidence, how the run's facts, its decision and what is said of it  *)
(* come about, for any pull requests, page sizes, answers and outputs.      *)
(***************************************************************************)
EXTENDS MergeReadiness, MergeEvidence, FiniteSums, SequenceTheorems, TLAPS

-----------------------------------------------------------------------------
(* MergeReadiness.                                                         *)
(* The coroutine may go on from what it has saved.                         *)
Ready == Saved \/ task.pc \in Source \cup {"scheduled"}

(* What the workflow will answer once the run is saved.                    *)
ReplyFits(run, reply) ==
  /\ run.status = "completed" => reply = 200
  /\ run.status = "failed" => reply \in {404, 500}

(* A save under way is one that the repository accepts, of the run the     *)
(* coroutine waits for, unless that has been cancelled.                    *)
SaveInv ==
  thread.state = "saving" =>
    /\ task.pc \in {"saving", "stopped"}
    /\ task.pc = "saving" => thread.run = task.run
    /\ row.status \notin Terminal
    /\ Accepts(thread.run)
    /\ Whole(thread.run)

RunInv ==
  /\ Whole(row)
  /\ Ready => row = task.run
  /\ task.pc = "scheduled" => row.status = "pending"
  /\ task.pc = "jira" => "github" \in row.facts
  /\ SaveInv
  /\ NoSaveConflicts
  /\ task.pc = "saving" => ReplyFits(task.run, task.reply)

AnswerInv == (confirmed => row.status # "absent") /\ AnswersAreCommitted

ReaderInv ==
  \A r \in Reader : /\ reading[r].status \in Terminal => reading[r] = row
                    /\ view[r].status \in Terminal => view[r] = row

MergeInv == TypeOK /\ RunInv /\ CallsAreVisible /\ AnswerInv /\ ReaderInv

-----------------------------------------------------------------------------
(* A run with one more step.                                               *)
LEMMA AppendedStep ==
  ASSUME NEW run \in Run, NEW status \in StepStatus,
         NEW new, new = [run EXCEPT !.steps = Append(@, status)]
  PROVE  /\ new \in Run
         /\ new.status = run.status /\ new.facts = run.facts
         /\ Len(new.steps) = Len(run.steps) + 1
         /\ \A i \in 1..Len(run.steps) : new.steps[i] = run.steps[i]
         /\ new.steps[Len(run.steps) + 1] = status
<1>1. run.steps \in Seq(StepStatus)
  BY DEF Run
<1>2. Append(run.steps, status) \in Seq(StepStatus)
  BY <1>1
<1>3. /\ new.steps = Append(run.steps, status)
      /\ new.status = run.status /\ new.facts = run.facts
  BY DEF Run
<1>4. new \in Run
  BY <1>2 DEF Run
<1> QED BY <1>1, <1>3, <1>4

(* A run whose last step has changed.                                      *)
LEMMA ReplacedStep ==
  ASSUME NEW run \in Run, run.steps # <<>>, NEW status \in StepStatus,
         NEW new, new = [run EXCEPT !.steps[Len(run.steps)] = status]
  PROVE  /\ new \in Run
         /\ new.status = run.status /\ new.facts = run.facts
         /\ Len(run.steps) \in Nat \ {0}
         /\ Len(new.steps) = Len(run.steps)
         /\ \A i \in 1..Len(run.steps) :
              new.steps[i] = IF i = Len(run.steps) THEN status ELSE run.steps[i]
<1> DEFINE steps == [run.steps EXCEPT ![Len(run.steps)] = status]
<1>1. run.steps \in Seq(StepStatus) /\ Len(run.steps) \in Nat \ {0}
  BY DEF Run
<1>2. steps \in Seq(StepStatus) /\ Len(steps) = Len(run.steps)
  BY <1>1
<1>3. \A i \in 1..Len(run.steps) :
        steps[i] = IF i = Len(run.steps) THEN status ELSE run.steps[i]
  BY <1>1
<1>4. new.steps = steps /\ new.status = run.status /\ new.facts = run.facts
  BY DEF Run
<1> HIDE DEF steps
<1>5. new = [run EXCEPT !.steps = steps]
  BY DEF Run, steps
<1>6. new \in Run
  BY <1>2, <1>5 DEF Run
<1> QED BY <1>1, <1>2, <1>3, <1>4, <1>6

(* How many steps there may be.                                            *)
LEMMA Counting ==
  ASSUME NEW n \in Nat, n <= StepCount
  PROVE  /\ n # 0 => n \in 1..StepCount
         /\ n # StepCount => n < StepCount
         /\ n < StepCount => n + 1 <= StepCount
BY DEF StepCount

(* The run before it is stored and when it is created is well typed.       *)
LEMMA ValueTypes == Absent \in Run /\ PendingRun \in Run
<1>1. Absent \in Run
  BY DEF Absent, Run, RunStatus
<1> QED BY <1>1 DEF PendingRun, Absent, Run, RunStatus

(* A save that the repository accepts keeps a run that is stored, and      *)
(* leaves one that has ended alone.                                        *)
LEMMA AcceptedRuns ==
  ASSUME row \in Run, NEW run \in Run, Accepts(run)
  PROVE  run.status # "absent"
BY DEF Accepts, AcceptsRun, Run, RunStatus, AllowedTransitions, Terminal

-----------------------------------------------------------------------------
(* The save of a well-formed next checkpoint keeps the invariant.          *)
LEMMA CheckpointStep ==
  ASSUME MergeInv, NEW run \in Run, Whole(run), Accepts(run), row.status \notin Terminal,
         NEW reply \in {0, 200, 404, 500}, ReplyFits(run, reply), NEW live \in BOOLEAN,
         task' = [pc |-> "saving", live |-> live, run |-> run, reply |-> reply],
         thread' = [state |-> "saving", run |-> run],
         UNCHANGED <<row, confirmed, answer, reading, view>>
  PROVE  MergeInv'
<1>1. /\ task'.pc = "saving" /\ task'.run = run /\ task'.reply = reply
      /\ thread'.state = "saving" /\ thread'.run = run
  OBVIOUS
<1>2. TypeOK'
  BY DEF MergeInv, TypeOK
<1>3. Accepts(run)'
  BY DEF Accepts, AcceptsRun, AcceptsSteps
<1>4. Whole(run)' /\ Whole(row)' /\ ReplyFits(run, reply)'
  BY DEF MergeInv, Whole, RunInv, ReplyFits
<1>5. SaveInv'
  BY <1>1, <1>3, <1>4 DEF SaveInv, Accepts, AcceptsRun, AcceptsSteps, Whole
<1>6. RunInv'
  BY <1>1, <1>4, <1>5 DEF RunInv, Ready, Saved, NoSaveConflicts, ReplyFits, Source
<1>7. CallsAreVisible'
  BY <1>1 DEF CallsAreVisible, Source
<1>8. AnswerInv' /\ ReaderInv'
  BY DEF MergeInv, AnswerInv, AnswersAreCommitted, ReaderInv
<1> QED BY <1>2, <1>6, <1>7, <1>8 DEF MergeInv

(* The same for a save by the running workflow.                            *)
LEMMA SaveAndAwaitStep ==
  ASSUME MergeInv, NEW run \in Run, Whole(run), Accepts(run), row.status \notin Terminal,
         NEW reply \in {0, 200, 404, 500}, ReplyFits(run, reply), SaveAndAwait(run, reply)
  PROVE  MergeInv'
<1>1. task' = [pc |-> "saving", live |-> task.live, run |-> run, reply |-> reply]
      /\ task.live \in BOOLEAN
  BY DEF SaveAndAwait, MergeInv, TypeOK
<1>2. /\ thread' = [state |-> "saving", run |-> run]
      /\ UNCHANGED <<row, confirmed, answer, reading, view>>
  BY DEF SaveAndAwait
<1> QED BY <1>1, <1>2, CheckpointStep

(* A run whose last step has not ended is running.                         *)
LEMMA Underway ==
  ASSUME MergeInv, Ready, NEW status \in {"pending", "running"}, AtStep(status)
  PROVE  /\ row = task.run /\ row \in Run /\ row.steps # <<>>
         /\ row.status = "running"
         /\ Len(row.steps) \in 1..StepCount
         /\ row.steps[Len(row.steps)] = status
         /\ \A i \in 1..Len(row.steps) : i # Len(row.steps) => row.steps[i] = "completed"
<1>1. row = task.run /\ row \in Run /\ row.steps # <<>> /\ Whole(row)
      /\ row.steps \in Seq(StepStatus) /\ row.steps[Len(row.steps)] = status
      /\ row.status \in RunStatus
  BY DEF MergeInv, RunInv, AtStep, LastStep, TypeOK, Run
<1>2. Len(row.steps) \in Nat \ {0} /\ DOMAIN row.steps = 1..Len(row.steps)
  BY <1>1
<1>3. row.status = "running"
  BY <1>1, <1>2 DEF Whole, RunStatus, StepCount
<1>4. \A i \in 1..Len(row.steps) : row.steps[i] = "completed" \/ i = Len(row.steps)
  BY <1>1, <1>2, <1>3 DEF Whole
<1>5. Len(row.steps) <= StepCount
  BY <1>1, <1>3 DEF Whole
<1>6. Len(row.steps) \in 1..StepCount
  BY <1>2, <1>5, Counting
<1> QED BY <1>1, <1>3, <1>4, <1>6

(* The repository accepts a run that goes on, whose last step moves on.    *)
LEMMA AcceptedStep ==
  ASSUME MergeInv, Ready, NEW old \in {"pending", "running"}, AtStep(old),
         NEW status \in AllowedTransitions[old], NEW run \in Run,
         run.status \in {"running", "completed", "failed"},
         Len(run.steps) = Len(row.steps),
         \A i \in 1..Len(row.steps) :
           run.steps[i] = IF i = Len(row.steps) THEN status ELSE row.steps[i]
  PROVE  Accepts(run)
<1>1. /\ row \in Run /\ row.status = "running" /\ Len(row.steps) \in Nat
      /\ row.steps[Len(row.steps)] = old
  BY Underway DEF StepCount
<1>2. DOMAIN run.steps = 1..Len(row.steps)
  BY DEF Run
<1>3. AcceptsRun(run)
  BY <1>1 DEF AcceptsRun, AllowedTransitions, Terminal
<1>4. AcceptsSteps(run)
  BY <1>1, <1>2 DEF AcceptsSteps
<1> QED BY <1>3, <1>4 DEF Accepts

-----------------------------------------------------------------------------
(* The actions that save, one by one.                                      *)
LEMMA CreateStep == MergeInv /\ CreateRun => MergeInv'
<1> SUFFICES ASSUME MergeInv, CreateRun PROVE MergeInv'
  OBVIOUS
<1>1. /\ PendingRun \in Run /\ PendingRun.status = "pending"
      /\ PendingRun.steps = <<>> /\ PendingRun.facts = {}
  BY ValueTypes DEF PendingRun, Absent
<1>2. Whole(PendingRun) /\ ReplyFits(PendingRun, task.reply)
  BY <1>1 DEF Whole, ReplyFits
<1>3. row.status = "absent" /\ row.steps = <<>>
  BY DEF CreateRun, MergeInv, RunInv, Whole
<1>4. Accepts(PendingRun)
  BY <1>1, <1>3 DEF Accepts, AcceptsRun, AcceptsSteps
<1>5. PICK live \in BOOLEAN :
        task' = [task EXCEPT !.pc = "saving", !.live = live, !.run = PendingRun]
  BY DEF CreateRun
<1>6. /\ task' = [pc |-> "saving", live |-> live, run |-> PendingRun, reply |-> task.reply]
      /\ task.reply \in {0, 200, 404, 500}
  BY <1>5 DEF MergeInv, TypeOK
<1>7. /\ thread' = [state |-> "saving", run |-> PendingRun]
      /\ UNCHANGED <<row, confirmed, answer, reading, view>>
      /\ row.status \notin Terminal
  BY <1>3 DEF CreateRun, Terminal
<1> QED BY <1>1, <1>2, <1>4, <1>6, <1>7, CheckpointStep

(* A pending run, without steps, becomes running.                          *)
LEMMA StartRunStep == MergeInv /\ StartRun => MergeInv'
<1> SUFFICES ASSUME MergeInv, StartRun PROVE MergeInv'
  OBVIOUS
<1> DEFINE new == [task.run EXCEPT !.status = "running"]
<1>1. row = task.run /\ row.status = "pending" /\ row \in Run /\ Whole(row)
  BY DEF StartRun, MergeInv, RunInv, Ready, TypeOK
<1>2. row.steps = <<>> /\ row.facts = {}
  BY <1>1 DEF Whole
<1>3. new \in Run /\ new.status = "running" /\ new.steps = <<>> /\ new.facts = {}
  BY <1>1, <1>2 DEF Run, RunStatus
<1>4. SaveAndAwait(new, 0)
  BY DEF StartRun
<1> HIDE DEF new
<1>5. Whole(new) /\ ReplyFits(new, 0)
  BY <1>3 DEF Whole, ReplyFits, StepCount
<1>6. Accepts(new)
  BY <1>1, <1>2, <1>3 DEF Accepts, AcceptsRun, AcceptsSteps, AllowedTransitions, Terminal
<1> QED BY <1>1, <1>3, <1>4, <1>5, <1>6, SaveAndAwaitStep DEF Terminal

(* A new step comes after steps that are all completed.                    *)
LEMMA AddStepStep == MergeInv /\ AddStep => MergeInv'
<1> SUFFICES ASSUME MergeInv, AddStep PROVE MergeInv'
  OBVIOUS
<1> DEFINE new == [task.run EXCEPT !.steps = Append(@, "pending")]
<1>1. /\ row = task.run /\ row.status = "running" /\ row \in Run /\ Whole(row)
      /\ row.steps = <<>> \/ row.steps[Len(row.steps)] = "completed"
  BY DEF AddStep, MergeInv, RunInv, Ready, TypeOK, AtStep, LastStep
<1>2. /\ Len(row.steps) \in Nat /\ DOMAIN row.steps = 1..Len(row.steps)
      /\ row.steps = <<>> => Len(row.steps) = 0
  BY <1>1 DEF Run
<1>3. /\ Len(row.steps) < StepCount
      /\ \A i \in 1..Len(row.steps) : row.steps[i] = "completed"
  <2>1. \A i \in 1..Len(row.steps) : row.steps[i] = "completed" \/ i = Len(row.steps)
    BY <1>1, <1>2 DEF Whole
  <2>2. /\ Len(row.steps) <= StepCount
        /\ Len(row.steps) = StepCount => row.steps[StepCount] # "completed"
    BY <1>1 DEF Whole
  <2>3. Len(row.steps) # StepCount
    BY <1>1, <1>2, <2>2 DEF StepCount
  <2>4. Len(row.steps) < StepCount
    BY <1>2, <2>2, <2>3, Counting
  <2> QED BY <1>1, <1>2, <2>1, <2>4
<1>4. /\ new \in Run /\ new.status = "running" /\ new.facts = row.facts
      /\ Len(new.steps) = Len(row.steps) + 1
      /\ \A i \in 1..Len(row.steps) : new.steps[i] = row.steps[i]
      /\ new.steps[Len(row.steps) + 1] = "pending"
  BY <1>1, AppendedStep DEF StepStatus
<1>5. SaveAndAwait(new, 0)
  BY DEF AddStep
<1> HIDE DEF new
<1>6. DOMAIN new.steps = 1..(Len(row.steps) + 1) /\ new.steps # <<>>
  BY <1>2, <1>4 DEF Run
<1>7. "github" \in row.facts => Len(row.steps) >= 1 /\ row.steps[1] = "completed"
  BY <1>1, <1>2 DEF Whole
<1>8. "jira" \in row.facts =>
        "github" \in row.facts /\ Len(row.steps) >= 2 /\ row.steps[2] = "completed"
  BY <1>1 DEF Whole
<1>9. Whole(new)
  BY <1>2, <1>3, <1>4, <1>6, <1>7, <1>8 DEF Whole, StepCount
<1>10. AcceptsRun(new)
  BY <1>1, <1>4 DEF AcceptsRun, Terminal
<1>11. AcceptsSteps(new)
  BY <1>2, <1>4, <1>6 DEF AcceptsSteps
<1> QED BY <1>1, <1>4, <1>5, <1>9, <1>10, <1>11, SaveAndAwaitStep
        DEF Terminal, ReplyFits, Accepts

(* A run whose last step has moved on stays a checkpoint, if the run and   *)
(* its facts fit the step.                                                 *)
LEMMA MovedOn ==
  ASSUME MergeInv, Ready, NEW old \in {"pending", "running"}, AtStep(old),
         NEW status \in AllowedTransitions[old], NEW run \in Run,
         Len(run.steps) = Len(row.steps),
         \A i \in 1..Len(row.steps) :
           run.steps[i] = IF i = Len(row.steps) THEN status ELSE row.steps[i],
         \/ run.status = "running" /\ status \in {"running", "completed"}
              /\ (Len(row.steps) = StepCount => status = "running")
         \/ run.status = "failed" /\ status = "failed"
         \/ run.status = "completed" /\ status = "completed" /\ Len(row.steps) = StepCount,
         \A source \in Source : source \in run.facts =>
           \/ source \in row.facts
           \/ /\ status = "completed"
              /\ Len(row.steps) = (IF source = "github" THEN 1 ELSE 2)
              /\ source = "jira" => "github" \in row.facts,
         row.facts \subseteq run.facts
  PROVE  Whole(run) /\ Accepts(run)
<1>1. /\ row \in Run /\ row.status = "running" /\ row.steps # <<>>
      /\ Len(row.steps) \in 1..StepCount
      /\ row.steps[Len(row.steps)] = old
      /\ \A i \in 1..Len(row.steps) : i # Len(row.steps) => row.steps[i] = "completed"
  BY Underway
<1>2. Whole(row)
  BY DEF MergeInv, RunInv
<1>3. run.steps \in Seq(StepStatus) /\ DOMAIN run.steps = 1..Len(row.steps)
  BY DEF Run
<1>4. run.steps # <<>> /\ run.steps[Len(row.steps)] = status
      /\ \A i \in 1..Len(row.steps) : i # Len(row.steps) => run.steps[i] = "completed"
  BY <1>1, <1>3 DEF StepCount
<1>5. run.status = "running" =>
        /\ Len(run.steps) <= StepCount
        /\ \A i \in DOMAIN run.steps :
             run.steps[i] = "completed" \/ (i = Len(run.steps) /\ run.steps[i] # "failed")
        /\ Len(run.steps) = StepCount => run.steps[StepCount] # "completed"
  BY <1>1, <1>3, <1>4 DEF StepCount
<1>6. run.status = "failed" =>
        /\ Len(run.steps) \in 1..StepCount
        /\ \A i \in DOMAIN run.steps :
             run.steps[i] = IF i = Len(run.steps) THEN "failed" ELSE "completed"
  BY <1>1, <1>3, <1>4
<1>7. run.status = "completed" => run.steps = [i \in 1..StepCount |-> "completed"]
  BY <1>3, <1>4
<1>8. "github" \in run.facts => run.steps # <<>> /\ run.steps[1] = "completed"
  <2> SUFFICES ASSUME "github" \in run.facts PROVE run.steps[1] = "completed"
    BY <1>4
  <2>1. CASE "github" \in row.facts
    <3>1. row.steps[1] = "completed"
      BY <1>2, <2>1 DEF Whole
    <3>2. 1 \in 1..Len(row.steps) /\ 1 # Len(row.steps)
      BY <1>1, <3>1 DEF StepCount
    <3> QED BY <1>4, <3>2
  <2>2. CASE "github" \notin row.facts
    BY <1>4, <2>2 DEF Source
  <2> QED BY <2>1, <2>2
<1>9. "jira" \in run.facts =>
        "github" \in run.facts /\ Len(run.steps) >= 2 /\ run.steps[2] = "completed"
  <2> SUFFICES ASSUME "jira" \in run.facts
               PROVE  "github" \in run.facts /\ Len(run.steps) >= 2 /\ run.steps[2] = "completed"
    OBVIOUS
  <2>1. CASE "jira" \in row.facts
    <3>1. "github" \in row.facts /\ Len(row.steps) >= 2 /\ row.steps[2] = "completed"
      BY <1>2, <2>1 DEF Whole
    <3>2. 2 \in 1..Len(row.steps) /\ 2 # Len(row.steps)
      BY <1>1, <3>1 DEF StepCount
    <3> QED BY <1>4, <3>1, <3>2
  <2>2. CASE "jira" \notin row.facts
    BY <1>4, <2>2 DEF Source
  <2> QED BY <2>1, <2>2
<1>10. Whole(run)
  BY <1>5, <1>6, <1>7, <1>8, <1>9 DEF Whole
<1>11. run.status \in {"running", "completed", "failed"}
  OBVIOUS
<1> QED BY <1>10, <1>11, AcceptedStep

(* The new step starts.                                                    *)
LEMMA StartStepStep == MergeInv /\ StartStep => MergeInv'
<1> SUFFICES ASSUME MergeInv, StartStep PROVE MergeInv'
  OBVIOUS
<1> DEFINE new == WithLastStep("running")
<1>1. Ready /\ AtStep("pending") /\ SaveAndAwait(new, 0)
  BY DEF StartStep, Ready
<1>2. row = task.run /\ row \in Run /\ row.steps # <<>> /\ row.status = "running"
  BY <1>1, Underway
<1>3. /\ new \in Run /\ new.status = "running" /\ new.facts = row.facts
      /\ Len(new.steps) = Len(row.steps)
      /\ \A i \in 1..Len(row.steps) :
           new.steps[i] = IF i = Len(row.steps) THEN "running" ELSE row.steps[i]
  BY <1>2, ReplacedStep DEF WithLastStep, StepStatus
<1> HIDE DEF new
<1>4. Whole(new) /\ Accepts(new)
  BY <1>1, <1>3, MovedOn DEF AllowedTransitions
<1> QED BY <1>1, <1>2, <1>3, <1>4, SaveAndAwaitStep DEF Terminal, ReplyFits

(* A step other than the last completes and leaves its facts.              *)
LEMMA CompleteStepStep ==
  ASSUME MergeInv, Ready, AtStep("running"), NEW found \in SUBSET Source,
         Len(row.steps) # StepCount,
         \A source \in found : /\ Len(row.steps) = (IF source = "github" THEN 1 ELSE 2)
                               /\ source = "jira" => "github" \in row.facts,
         CompleteStep(found)
  PROVE  MergeInv'
<1> DEFINE last == WithLastStep("completed")
           new == [last EXCEPT !.facts = @ \cup found]
<1>1. row = task.run /\ row \in Run /\ row.steps # <<>> /\ row.status = "running"
  BY Underway
<1>2. /\ last \in Run /\ last.status = "running" /\ last.facts = row.facts
      /\ Len(last.steps) = Len(row.steps)
      /\ \A i \in 1..Len(row.steps) :
           last.steps[i] = IF i = Len(row.steps) THEN "completed" ELSE row.steps[i]
  BY <1>1, ReplacedStep DEF WithLastStep, StepStatus
<1>3. SaveAndAwait(new, 0)
  BY DEF CompleteStep
<1> HIDE DEF last
<1>4. /\ new \in Run /\ new.status = "running" /\ new.steps = last.steps
      /\ new.facts = row.facts \cup found
  BY <1>2 DEF Run
<1> HIDE DEF new
<1>5. Whole(new) /\ Accepts(new)
  BY <1>2, <1>4, MovedOn DEF AllowedTransitions, Terminal
<1> QED BY <1>1, <1>3, <1>4, <1>5, SaveAndAwaitStep DEF Terminal, ReplyFits

(* Step and run fail together.                                             *)
LEMMA FailStepAndRunStep ==
  ASSUME MergeInv, Ready, AtStep("running"), NEW code \in {404, 500}, FailStepAndRun(code)
  PROVE  MergeInv'
<1> DEFINE last == WithLastStep("failed")
           new == [last EXCEPT !.status = "failed"]
<1>1. row = task.run /\ row \in Run /\ row.steps # <<>> /\ row.status = "running"
  BY Underway
<1>2. /\ last \in Run /\ last.facts = row.facts
      /\ Len(last.steps) = Len(row.steps)
      /\ \A i \in 1..Len(row.steps) :
           last.steps[i] = IF i = Len(row.steps) THEN "failed" ELSE row.steps[i]
  BY <1>1, ReplacedStep DEF WithLastStep, StepStatus
<1>3. SaveAndAwait(new, code)
  BY DEF FailStepAndRun
<1> HIDE DEF last
<1>4. /\ new \in Run /\ new.status = "failed" /\ new.steps = last.steps
      /\ new.facts = row.facts
  BY <1>2 DEF Run, RunStatus
<1> HIDE DEF new
<1>5. Whole(new) /\ Accepts(new)
  BY <1>2, <1>4, MovedOn DEF AllowedTransitions, Terminal
<1>6. row.status \notin Terminal /\ ReplyFits(new, code) /\ code \in {0, 200, 404, 500}
  BY <1>1, <1>4 DEF Terminal, ReplyFits
<1> QED BY <1>3, <1>4, <1>5, <1>6, SaveAndAwaitStep

(* The last step and the run complete together.                            *)
LEMMA CompleteRunStep == MergeInv /\ CompleteRun => MergeInv'
<1> SUFFICES ASSUME MergeInv, CompleteRun PROVE MergeInv'
  OBVIOUS
<1> DEFINE last == WithLastStep("completed")
           new == [last EXCEPT !.status = "completed"]
<1>1. Ready /\ AtStep("running") /\ SaveAndAwait(new, 200) /\ Len(task.run.steps) = 3
  BY DEF CompleteRun, Working, Ready
<1>2. row = task.run /\ row \in Run /\ row.steps # <<>> /\ row.status = "running"
  BY <1>1, Underway
<1>3. /\ last \in Run /\ last.facts = row.facts
      /\ Len(last.steps) = Len(row.steps)
      /\ \A i \in 1..Len(row.steps) :
           last.steps[i] = IF i = Len(row.steps) THEN "completed" ELSE row.steps[i]
  BY <1>2, ReplacedStep DEF WithLastStep, StepStatus
<1> HIDE DEF last
<1>4. /\ new \in Run /\ new.status = "completed" /\ new.steps = last.steps
      /\ new.facts = row.facts /\ Len(row.steps) = StepCount
  BY <1>1, <1>2, <1>3 DEF Run, RunStatus, StepCount
<1> HIDE DEF new
<1>5. Whole(new) /\ Accepts(new)
  BY <1>1, <1>3, <1>4, MovedOn DEF AllowedTransitions, Terminal
<1> QED BY <1>1, <1>2, <1>4, <1>5, SaveAndAwaitStep DEF Terminal, ReplyFits

(* The connectors and the policy answer a step that is stored as running.  *)
LEMMA AwaitedStep ==
  ASSUME MergeInv, NEW source \in Source, task.pc = source
  PROVE  /\ Ready /\ AtStep("running")
         /\ Len(row.steps) = (IF source = "github" THEN 1 ELSE 2)
         /\ source = "jira" => "github" \in row.facts
BY DEF MergeInv, RunInv, CallsAreVisible, Ready, Source

(* A connector answers, or is not asked.                                   *)
LEMMA AnsweredStep == MergeInv /\ (ConnectorAnswers \/ NothingToAskJira) => MergeInv'
<1>1. ASSUME MergeInv, ConnectorAnswers PROVE MergeInv'
  <2>1. PICK source \in Source :
          task.pc = source /\ \E found \in {{}, {source}} : CompleteStep(found)
    BY <1>1 DEF ConnectorAnswers
  <2>2. PICK found \in {{}, {source}} : CompleteStep(found)
    BY <2>1
  <2>3. Len(row.steps) # StepCount /\ found \in SUBSET Source
    BY <1>1, <2>1, AwaitedStep DEF StepCount
  <2> QED BY <1>1, <2>1, <2>2, <2>3, AwaitedStep, CompleteStepStep
<1>2. ASSUME MergeInv, NothingToAskJira PROVE MergeInv'
  <2>1. Ready /\ AtStep("running") /\ Len(task.run.steps) = 2 /\ CompleteStep({})
    BY <1>2 DEF NothingToAskJira, Working, Ready
  <2>2. row = task.run
    BY <1>2, <2>1 DEF MergeInv, RunInv
  <2>3. Len(row.steps) # StepCount
    BY <2>1, <2>2 DEF StepCount
  <2> QED BY <1>2, <2>1, <2>3, CompleteStepStep
<1> QED BY <1>1, <1>2

(* A connector or the policy fails.                                        *)
LEMMA FailedStep == MergeInv /\ (ConnectorFails \/ PolicyFails) => MergeInv'
<1>1. ASSUME MergeInv, ConnectorFails PROVE MergeInv'
  <2>1. task.pc \in Source /\ \E code \in {404, 500} : FailStepAndRun(code)
    BY <1>1 DEF ConnectorFails
  <2> QED BY <1>1, <2>1, AwaitedStep, FailStepAndRunStep
<1>2. ASSUME MergeInv, PolicyFails PROVE MergeInv'
  <2>1. Ready /\ AtStep("running") /\ FailStepAndRun(500)
    BY <1>2 DEF PolicyFails, Working, Ready
  <2> QED BY <1>2, <2>1, FailStepAndRunStep
<1> QED BY <1>1, <1>2

-----------------------------------------------------------------------------
(* Steps that leave the stored run as it is.                               *)
LEMMA RowKept ==
  ASSUME MergeInv, UNCHANGED <<row, reading, view>>
  PROVE  Whole(row)' /\ ReaderInv' /\ row' \in Run
BY DEF MergeInv, RunInv, Whole, ReaderInv, TypeOK

(* 202: the pending run is stored.                                         *)
LEMMA AcceptRequestStep == MergeInv /\ AcceptRequest => MergeInv'
<1> SUFFICES ASSUME MergeInv, AcceptRequest PROVE MergeInv'
  OBVIOUS
<1>1. /\ row = task.run /\ row.status = "pending" /\ UNCHANGED <<row, reading, view>>
      /\ task'.pc = "scheduled" /\ task'.run = task.run /\ thread'.state = "none"
      /\ answer'.code = 202 /\ UNCHANGED confirmed
  BY DEF AcceptRequest, MergeInv, RunInv, Ready, TypeOK, NoSave
<1>2. TypeOK'
  BY ValueTypes DEF AcceptRequest, MergeInv, TypeOK, NoSave
<1>3. RunInv'
  BY <1>1, RowKept DEF RunInv, SaveInv, NoSaveConflicts, Ready, Saved
<1>4. CallsAreVisible' /\ AnswerInv'
  BY <1>1 DEF CallsAreVisible, AnswerInv, AnswersAreCommitted, MergeInv, Source
<1> QED BY <1>1, <1>2, <1>3, <1>4, RowKept DEF MergeInv

(* A call begins only from a stored running step.                          *)
LEMMA FetchStep == MergeInv /\ (CallGitHub \/ CallJira) => MergeInv'
<1> SUFFICES ASSUME MergeInv, CallGitHub \/ CallJira PROVE MergeInv'
  OBVIOUS
<1>1. PICK source \in Source :
        /\ Working(IF source = "github" THEN 1 ELSE 2) /\ Fetch(source)
        /\ source = "jira" => "github" \in task.run.facts
  BY DEF CallGitHub, CallJira, Source
<1>2. Ready /\ AtStep("running") /\ row = task.run
  BY <1>1 DEF Working, Ready, MergeInv, RunInv
<1>3. /\ task'.pc = source /\ task'.run = task.run /\ thread'.state = "none"
      /\ UNCHANGED <<row, confirmed, answer, reading, view>>
  BY <1>1 DEF Fetch, MergeInv, TypeOK, NoSave
<1>4. TypeOK'
  BY <1>1, ValueTypes DEF Fetch, MergeInv, TypeOK, NoSave
<1>5. RunInv'
  BY <1>1, <1>2, <1>3, RowKept DEF RunInv, SaveInv, NoSaveConflicts, Ready, Saved, Source
<1>6. CallsAreVisible'
  BY <1>1, <1>2, <1>3 DEF CallsAreVisible, Working, AtStep, LastStep, Source
<1>7. AnswerInv'
  BY <1>3 DEF AnswerInv, AnswersAreCommitted, MergeInv
<1> QED BY <1>3, <1>4, <1>5, <1>6, <1>7, RowKept DEF MergeInv

(* An answer that is true of the stored run.                               *)
LEMMA ReplyStep ==
  ASSUME MergeInv, NEW code \in {200, 404, 409, 500, 503}, NEW claims \in BOOLEAN,
         code = 200 => row.status = "completed",
         code \in {404, 500} => row.status = "failed",
         claims => row.status # "absent",
         Reply(code, claims)
  PROVE  MergeInv'
<1>1. /\ task'.pc = "ended" /\ thread'.state = "none"
      /\ UNCHANGED <<row, confirmed, reading, view>>
      /\ answer' \in {answer, [code |-> code, claims |-> claims]}
  BY DEF Reply, MergeInv, TypeOK, NoSave
<1>2. TypeOK'
  BY <1>1, ValueTypes DEF Reply, MergeInv, TypeOK, NoSave
<1>3. RunInv'
  BY <1>1, RowKept DEF RunInv, SaveInv, NoSaveConflicts, Ready, Saved, Source
<1>4. CallsAreVisible'
  BY <1>1 DEF CallsAreVisible, Source
<1>5. AnswerInv'
  BY <1>1 DEF AnswerInv, AnswersAreCommitted, MergeInv
<1> QED BY <1>1, <1>2, <1>3, <1>4, <1>5, RowKept DEF MergeInv

(* The workflow's answer fits the stored terminal run.                     *)
LEMMA FinishStep == MergeInv /\ Finish => MergeInv'
<1> SUFFICES ASSUME MergeInv, Finish PROVE MergeInv'
  OBVIOUS
<1>1. /\ row = task.run /\ row.status \in Terminal /\ ReplyFits(row, task.reply)
      /\ Reply(task.reply, TRUE)
  BY DEF Finish, MergeInv, RunInv, Ready, Saved
<1>2. /\ task.reply \in {200, 404, 409, 500, 503}
      /\ task.reply = 200 => row.status = "completed"
      /\ task.reply \in {404, 500} => row.status = "failed"
      /\ row.status # "absent"
  BY <1>1 DEF ReplyFits, Terminal
<1> DEFINE claims == TRUE
<1>3. claims \in BOOLEAN /\ Reply(task.reply, claims)
  BY <1>1
<1> HIDE DEF claims
<1> QED BY <1>2, <1>3, ReplyStep

(* A save that fails names the run only if it was stored.                  *)
LEMMA SaveFailedStep == MergeInv /\ SaveFailed => MergeInv'
<1> SUFFICES ASSUME MergeInv, SaveFailed PROVE MergeInv'
  OBVIOUS
<1> DEFINE code == IF thread.state = "conflict" THEN 409 ELSE 503
<1>1. /\ code \in {409, 503} /\ Reply(code, confirmed) /\ confirmed \in BOOLEAN
      /\ confirmed => row.status # "absent"
  BY DEF SaveFailed, MergeInv, TypeOK, AnswerInv
<1> HIDE DEF code
<1> QED BY <1>1, ReplyStep

(* A cancelled coroutine leaves its save behind, a crash does not.         *)
LEMMA StoppedStep == MergeInv /\ (Cancel \/ Crash) => MergeInv'
<1> SUFFICES ASSUME MergeInv, Cancel \/ Crash PROVE MergeInv'
  OBVIOUS
<1>1. /\ task' = [task EXCEPT !.pc = "stopped"] /\ UNCHANGED <<row, answer, reading, view>>
      /\ thread' = thread \/ thread' = NoSave
  BY DEF Cancel, Crash
<1>c. (confirmed' => confirmed) /\ confirmed' \in BOOLEAN
  <2>1. CASE Cancel
    BY <2>1 DEF Cancel, MergeInv, TypeOK
  <2>2. CASE Crash
    BY <2>2 DEF Crash
  <2> QED BY <2>1, <2>2
<1>2. task'.pc = "stopped" /\ NoSave.state = "none" /\ NoSave.run \in Run
  BY <1>1, ValueTypes DEF MergeInv, TypeOK, NoSave
<1>3. TypeOK'
  <2>1. thread' \in [state : {"none", "saving", "saved", "failed", "conflict"}, run : Run]
    BY <1>1, ValueTypes DEF MergeInv, TypeOK, NoSave
  <2>2. task' \in [pc : {"idle", "scheduled", "saving", "ended", "stopped"} \cup Source,
                   live : BOOLEAN, run : Run, reply : {0, 200, 404, 500}]
    BY <1>1 DEF MergeInv, TypeOK
  <2> QED BY <1>1, <1>c, <2>1, <2>2 DEF MergeInv, TypeOK
<1>4. SaveInv'
  BY <1>1, <1>2 DEF MergeInv, RunInv, SaveInv, Accepts, AcceptsRun, AcceptsSteps, Whole
<1>5. RunInv'
  <2>1. NoSaveConflicts'
    BY <1>1, <1>2 DEF MergeInv, RunInv, NoSaveConflicts
  <2>2. ~Ready'
    BY <1>2 DEF Ready, Saved, Source
  <2> QED BY <1>1, <1>2, <1>4, <2>1, <2>2, RowKept DEF MergeInv, RunInv
<1>6. CallsAreVisible' /\ AnswerInv'
  BY <1>1, <1>2, <1>c DEF MergeInv, CallsAreVisible, AnswerInv, AnswersAreCommitted, Source
<1> QED BY <1>1, <1>3, <1>5, <1>6, RowKept DEF MergeInv

(* A view of a terminal run, read before its steps, is the run itself.     *)
LEMMA ReadStep ==
  ASSUME MergeInv, NEW r \in Reader, ReadRun(r) \/ ReadSteps(r)
  PROVE  MergeInv'
<1>1. UNCHANGED <<row, task, thread, confirmed, answer>>
  BY DEF ReadRun, ReadSteps
<1>2. RunInv' /\ CallsAreVisible' /\ AnswerInv'
  BY <1>1 DEF MergeInv, RunInv, SaveInv, Ready, Saved, NoSaveConflicts, ReplyFits, Accepts,
              AcceptsRun, AcceptsSteps, Whole, CallsAreVisible, AtStep, LastStep, AnswerInv,
              AnswersAreCommitted
<1>3. CASE ReadRun(r)
  <2>1. TypeOK' /\ ReaderInv'
    BY <1>3 DEF ReadRun, MergeInv, TypeOK, ReaderInv
  <2> QED BY <1>2, <2>1 DEF MergeInv
<1>4. CASE ReadSteps(r)
  <2> DEFINE seen == [reading[r] EXCEPT !.steps = row.steps]
  <2>1. /\ view' = [view EXCEPT ![r] = seen] /\ reading' = [reading EXCEPT ![r] = Absent]
        /\ reading[r] \in Run /\ row \in Run
    BY <1>4 DEF ReadSteps, ReadStepsSecond, MergeInv, TypeOK
  <2>2. seen \in Run /\ seen.status = reading[r].status
    BY <2>1 DEF Run
  <2>3. seen.status \in Terminal => seen = row
    BY <2>1, <2>2 DEF MergeInv, ReaderInv, Run
  <2> HIDE DEF seen
  <2>4. TypeOK'
    BY <1>1, <2>1, <2>2, ValueTypes DEF MergeInv, TypeOK
  <2>5. Absent.status \notin Terminal
    BY DEF Absent, Terminal
  <2>6. ReaderInv'
    BY <1>1, <2>1, <2>3, <2>5 DEF MergeInv, ReaderInv, TypeOK
  <2> QED BY <1>2, <2>4, <2>6 DEF MergeInv
<1> QED BY <1>3, <1>4

-----------------------------------------------------------------------------
(* The worker thread stores a checkpoint of a run that has not ended, or   *)
(* the run stays.                                                          *)
LEMMA ThreadOutcome ==
  ASSUME MergeInv, ThreadSaves
  PROVE  /\ task.pc \in {"saving", "stopped"}
         /\ \/ /\ row.status \notin Terminal
               /\ row' = thread.run /\ row' \in Run /\ row'.status # "absent"
               /\ Accepts(thread.run) /\ Whole(thread.run)
               /\ task.pc = "saving" => row' = task.run
            \/ row' = row /\ UNCHANGED confirmed /\ thread'.state = "failed"
         /\ thread' \in [state : {"saved", "failed"}, run : {thread.run}]
         /\ confirmed' \in BOOLEAN /\ (confirmed' => confirmed \/ row'.status # "absent")
         /\ UNCHANGED <<task, answer, reading, view>>
<1>1. /\ task.pc \in {"saving", "stopped"} /\ row.status \notin Terminal
      /\ Accepts(thread.run) /\ Whole(thread.run)
      /\ task.pc = "saving" => thread.run = task.run
      /\ UNCHANGED <<task, answer, reading, view>>
  BY DEF ThreadSaves, MergeInv, RunInv, SaveInv
<1>2. thread.run \in Run /\ thread.run.status # "absent"
  BY <1>1, AcceptedRuns DEF MergeInv, TypeOK
<1>3. confirmed \in BOOLEAN
  BY DEF MergeInv, TypeOK
<1>4. CASE row' = thread.run /\ thread' = [thread EXCEPT !.state = "saved"] /\ confirmed' = TRUE
  <2>1. thread' \in [state : {"saved", "failed"}, run : {thread.run}]
    BY <1>4 DEF MergeInv, TypeOK
  <2> QED BY <1>1, <1>2, <1>4, <2>1
<1>5. CASE /\ row' \in {thread.run, row} /\ UNCHANGED confirmed
           /\ thread' = [thread EXCEPT !.state = "failed"]
  <2>1. /\ thread' \in [state : {"saved", "failed"}, run : {thread.run}]
        /\ thread'.state = "failed"
    BY <1>5 DEF MergeInv, TypeOK
  <2> QED BY <1>1, <1>2, <1>3, <1>5, <2>1
<1> QED BY <1>1, <1>4, <1>5 DEF ThreadSaves

(* The save of the worker thread keeps the invariant.                      *)
LEMMA ThreadSavesStep == MergeInv /\ ThreadSaves => MergeInv'
<1> SUFFICES ASSUME MergeInv, ThreadSaves PROVE MergeInv'
  OBVIOUS
<1> USE ThreadOutcome
<1>1. /\ thread'.state \in {"saved", "failed"}
      /\ thread' \in [state : {"none", "saving", "saved", "failed", "conflict"}, run : Run]
  BY DEF MergeInv, TypeOK
<1>2. TypeOK'
  BY <1>1 DEF MergeInv, TypeOK
<1>3. Whole(row)'
  BY DEF MergeInv, RunInv, Whole
<1>4. Saved' => row' = task.run
  BY <1>1 DEF Saved
<1>5. RunInv'
  BY <1>1, <1>3, <1>4 DEF MergeInv, RunInv, SaveInv, NoSaveConflicts, Ready, Source, ReplyFits
<1>6. CallsAreVisible'
  BY DEF CallsAreVisible, Source
<1>7. AnswerInv'
  BY DEF MergeInv, AnswerInv, AnswersAreCommitted, Terminal
<1>8. ReaderInv'
  BY DEF MergeInv, ReaderInv
<1> QED BY <1>2, <1>5, <1>6, <1>7, <1>8 DEF MergeInv

-----------------------------------------------------------------------------
(* The invariant holds before the run exists.                              *)
LEMMA MergeInit == Init => MergeInv
<1> SUFFICES ASSUME Init PROVE MergeInv
  OBVIOUS
<1>1. Absent.status = "absent" /\ Absent.steps = <<>> /\ Absent.facts = {}
  BY DEF Absent
<1>2. TypeOK
  BY ValueTypes DEF Init, TypeOK, IdleTask, NoSave, NoAnswer
<1>3. RunInv
  BY <1>1 DEF Init, RunInv, Whole, SaveInv, NoSaveConflicts, Ready, Saved, IdleTask, NoSave,
              Source
<1>4. CallsAreVisible /\ AnswerInv
  BY DEF Init, CallsAreVisible, AnswerInv, AnswersAreCommitted, IdleTask, NoAnswer, Source
<1>5. ReaderInv
  BY <1>1 DEF Init, ReaderInv, Terminal
<1> QED BY <1>2, <1>3, <1>4, <1>5 DEF MergeInv

(* Every step keeps the invariant.                                         *)
LEMMA MergeStep == MergeInv /\ [Next]_vars => MergeInv'
<1> SUFFICES ASSUME MergeInv, [Next]_vars PROVE MergeInv'
  OBVIOUS
<1>1. CASE UNCHANGED vars
  BY <1>1 DEF vars, MergeInv, TypeOK, RunInv, SaveInv, Ready, Saved, NoSaveConflicts, ReplyFits,
              Accepts, AcceptsRun, AcceptsSteps, Whole, CallsAreVisible, AtStep, LastStep,
              AnswerInv, AnswersAreCommitted, ReaderInv
<1>2. CASE CreateRun
  BY <1>2, CreateStep
<1>3. CASE Workflow
  BY <1>3, AcceptRequestStep, StartRunStep, AddStepStep, StartStepStep, FetchStep, AnsweredStep,
     FailedStep, CompleteRunStep, FinishStep, SaveFailedStep DEF Workflow
<1>4. CASE ThreadSaves
  BY <1>4, ThreadSavesStep
<1>5. CASE Cancel \/ Crash
  BY <1>5, StoppedStep
<1>6. CASE \E r \in Reader : ReadRun(r) \/ ReadSteps(r)
  BY <1>6, ReadStep
<1> QED BY <1>1, <1>2, <1>3, <1>4, <1>5, <1>6 DEF Next

(* ADR-004, for any faults: what is stored is a checkpoint of the workflow *)
(* and the repository refuses none, a response says only what is           *)
(* committed, and a step is stored as running before its external call.    *)
THEOREM StoredRunIsSafe ==
  Spec => []( /\ TypeOK /\ StoredRunIsWhole /\ NoSaveConflicts
              /\ AnswersAreCommitted /\ CallsAreVisible)
<1>1. MergeInv => /\ TypeOK /\ StoredRunIsWhole /\ NoSaveConflicts
                  /\ AnswersAreCommitted /\ CallsAreVisible
  BY DEF MergeInv, RunInv, AnswerInv, StoredRunIsWhole
<1> QED BY <1>1, MergeInit, MergeStep, PTL DEF Spec

(* The response to a caller never runs ahead of the store: it names a run   *)
(* only once that run is committed, and its code tells how the run ended   *)
(* (ADR-004).                                                              *)
THEOREM AnswersFollowTheStore == Spec => []AnswersAreCommitted
BY StoredRunIsSafe, PTL

(* Whatever saves are delayed, fail or outlive their task, while a source  *)
(* is called its step is stored as running, after those before it          *)
(* (ADR-004).                                                              *)
THEOREM CallsFollowTheStore == Spec => []CallsAreVisible
BY StoredRunIsSafe, PTL

(* With any number of pages, one that is shown a terminal run and stops    *)
(* polling shows the run as it is stored.                                  *)
THEOREM TerminalViewsAreTrue == Spec => []TerminalViewIsTrue
<1>1. MergeInv => TerminalViewIsTrue
  BY DEF MergeInv, ReaderInv, TerminalViewIsTrue
<1> QED BY <1>1, MergeInit, MergeStep, PTL DEF Spec

(* No step that was stored is removed or set back, and a run that has      *)
(* ended never changes again, although saves can outlive their task.       *)
THEOREM StepsNeverGoBack == Spec => StepsOnlyAdvance
<1> DEFINE Advances ==
      /\ \A i \in DOMAIN row.steps :
           /\ i \in DOMAIN row'.steps
           /\ \/ row'.steps[i] = row.steps[i]
              \/ row'.steps[i] \in AllowedTransitions[row.steps[i]]
      /\ row.status \in Terminal => row' = row
<1>1. ASSUME MergeInv, Next PROVE Advances
  <2>1. CASE ThreadSaves /\ row' = thread.run
    <3>1. /\ row.status \notin Terminal /\ AcceptsSteps(row')
          /\ row.steps \in Seq(StepStatus) /\ row'.steps \in Seq(StepStatus)
      BY <1>1, <2>1, ThreadOutcome DEF Accepts, MergeInv, TypeOK, RunInv, SaveInv, ThreadSaves, Run
    <3>2. DOMAIN row.steps = 1..Len(row.steps) /\ DOMAIN row'.steps = 1..Len(row'.steps)
          /\ Len(row.steps) \in Nat /\ Len(row'.steps) \in Nat
      BY <3>1
    <3>3. ASSUME NEW i \in DOMAIN row.steps
          PROVE  /\ i \in DOMAIN row'.steps
                 /\ \/ row'.steps[i] = row.steps[i]
                    \/ row'.steps[i] \in AllowedTransitions[row.steps[i]]
      BY <3>1, <3>2, <3>3 DEF AcceptsSteps
    <3> QED BY <3>1, <3>3
  <2>2. CASE row' = row
    BY <2>2
  <2>3. (ThreadSaves /\ row' = thread.run) \/ row' = row
    BY <1>1, ThreadOutcome
       DEF Next, Workflow, CreateRun, AcceptRequest, StartRun, AddStep, StartStep, CallGitHub,
           CallJira, Fetch, NothingToAskJira, ConnectorAnswers, CompleteStep, ConnectorFails,
           PolicyFails, FailStepAndRun, CompleteRun, Finish, SaveFailed, Reply, SaveAndAwait,
           Cancel, Crash, ReadRun, ReadSteps
  <2> QED BY <2>1, <2>2, <2>3
<1>2. MergeInv /\ [Next]_vars => [Advances]_vars
  BY <1>1
<1> QED BY <1>2, MergeInit, MergeStep, PTL DEF Spec, StepsOnlyAdvance

-----------------------------------------------------------------------------
(* The lists and tables the evidence and the policy build.                 *)

(* The lists of the policy's result, finding by finding.                   *)
LEMMA BlockersTable ==
  ASSUME NEW S, NEW findings \in Seq(S)
  PROVE  \E t : /\ t \in [0..Len(findings) -> Seq(S)] /\ t[0] = <<>>
                /\ Blockers(findings) = t[Len(findings)]
                /\ \A i \in 1..Len(findings) :
                     t[i] = IF findings[i].blocking THEN Append(t[i - 1], findings[i]) ELSE t[i - 1]
<1> DEFINE n == Len(findings)
           T == Seq(S)
           Step(list, f) == IF f.blocking THEN Append(list, f) ELSE list
           g == [i \in 1..n |-> [t \in T |-> Step(t, findings[i])]]
           fold == CHOOSE h : h = [s \in SUBSET (1..n) |->
                     IF s = {} THEN <<>> ELSE Step(h[s \ {Top(s)}], findings[Top(s)])]
<1>1. n \in Nat /\ DOMAIN findings = 1..n /\ \A i \in 1..n : findings[i] \in S
  OBVIOUS
<1>2. Blockers(findings) = fold[1..n]
  BY <1>1 DEF Blockers, FoldLeft, MapThenFoldSet, Top, Max
<1>3. /\ <<>> \in T
      /\ \A i \in 1..n : \A t \in T : g[i][t] = Step(t, findings[i]) /\ g[i][t] \in T
  BY <1>1
<1> SUFFICES \E t : /\ t \in [0..n -> T] /\ t[0] = <<>> /\ Blockers(findings) = t[n]
                    /\ \A i \in 1..n : t[i] = Step(t[i - 1], findings[i])
  OBVIOUS
<1> HIDE DEF n, T, Step, g
<1>4. \A i \in 1..n : \A t \in T : g[i][t] \in T
  BY <1>3
<1>5. \A s \in SUBSET (1..n) : s # {} => Top(s) \in 1..n /\ s \ {Top(s)} \in SUBSET (1..n)
  BY <1>1, TopMember
<1>6. PICK h : IsFold(n, T, <<>>, g, h)
  BY <1>1, <1>3, <1>4, FoldExists
<1>7. h = [s \in SUBSET (1..n) |-> IF s = {} THEN <<>> ELSE Step(h[s \ {Top(s)}], findings[Top(s)])]
  BY <1>3, <1>5, <1>6 DEF IsFold, Folded
<1>8. fold = [s \in SUBSET (1..n) |-> IF s = {} THEN <<>> ELSE Step(fold[s \ {Top(s)}], findings[Top(s)])]
  BY <1>7
<1> HIDE DEF fold
<1>9. Solved(n, T, <<>>, g, fold)
  BY <1>3, <1>5, <1>8 DEF Solved
<1>10. PICK t : IsTable(n, T, <<>>, g, fold, t)
  BY <1>1, <1>3, <1>4, <1>9, FoldTable
<1>11. \A i \in 1..n : t[i] = Step(t[i - 1], findings[i])
  <2>1. \A i \in 1..n : t[i - 1] \in T
    BY <1>1, <1>10 DEF IsTable
  <2> QED BY <1>3, <1>10, <2>1 DEF IsTable
<1> QED BY <1>2, <1>10, <1>11 DEF IsTable

(* The list of what is missing, finding by finding.                        *)
LEMMA MissingTable ==
  ASSUME NEW S, NEW findings \in Seq(S)
  PROVE  \E t : /\ t \in [0..Len(findings) -> Seq(S)] /\ t[0] = <<>>
                /\ MissingInformation(findings) = t[Len(findings)]
                /\ \A i \in 1..Len(findings) :
                     t[i] = IF findings[i].blocking THEN t[i - 1] ELSE Append(t[i - 1], findings[i])
<1> DEFINE n == Len(findings)
           T == Seq(S)
           Step(list, f) == IF f.blocking THEN list ELSE Append(list, f)
           g == [i \in 1..n |-> [t \in T |-> Step(t, findings[i])]]
           fold == CHOOSE h : h = [s \in SUBSET (1..n) |->
                     IF s = {} THEN <<>> ELSE Step(h[s \ {Top(s)}], findings[Top(s)])]
<1>1. n \in Nat /\ DOMAIN findings = 1..n /\ \A i \in 1..n : findings[i] \in S
  OBVIOUS
<1>2. MissingInformation(findings) = fold[1..n]
  BY <1>1 DEF MissingInformation, FoldLeft, MapThenFoldSet, Top, Max
<1>3. /\ <<>> \in T
      /\ \A i \in 1..n : \A t \in T : g[i][t] = Step(t, findings[i]) /\ g[i][t] \in T
  BY <1>1
<1> SUFFICES \E t : /\ t \in [0..n -> T] /\ t[0] = <<>> /\ MissingInformation(findings) = t[n]
                    /\ \A i \in 1..n : t[i] = Step(t[i - 1], findings[i])
  OBVIOUS
<1> HIDE DEF n, T, Step, g
<1>4. \A i \in 1..n : \A t \in T : g[i][t] \in T
  BY <1>3
<1>5. \A s \in SUBSET (1..n) : s # {} => Top(s) \in 1..n /\ s \ {Top(s)} \in SUBSET (1..n)
  BY <1>1, TopMember
<1>6. PICK h : IsFold(n, T, <<>>, g, h)
  BY <1>1, <1>3, <1>4, FoldExists
<1>7. h = [s \in SUBSET (1..n) |-> IF s = {} THEN <<>> ELSE Step(h[s \ {Top(s)}], findings[Top(s)])]
  BY <1>3, <1>5, <1>6 DEF IsFold, Folded
<1>8. fold = [s \in SUBSET (1..n) |-> IF s = {} THEN <<>> ELSE Step(fold[s \ {Top(s)}], findings[Top(s)])]
  BY <1>7
<1> HIDE DEF fold
<1>9. Solved(n, T, <<>>, g, fold)
  BY <1>3, <1>5, <1>8 DEF Solved
<1>10. PICK t : IsTable(n, T, <<>>, g, fold, t)
  BY <1>1, <1>3, <1>4, <1>9, FoldTable
<1>11. \A i \in 1..n : t[i] = Step(t[i - 1], findings[i])
  <2>1. \A i \in 1..n : t[i - 1] \in T
    BY <1>1, <1>10 DEF IsTable
  <2> QED BY <1>3, <1>10, <2>1 DEF IsTable
<1> QED BY <1>2, <1>10, <1>11 DEF IsTable

(* The codes an explanation claims, code by code.                          *)
LEMMA DistinctTable ==
  ASSUME NEW S, NEW codes \in Seq(S)
  PROVE  \E t : /\ t \in [0..Len(codes) -> Seq(S)] /\ t[0] = <<>>
                /\ Distinct(codes) = t[Len(codes)]
                /\ \A i \in 1..Len(codes) :
                     t[i] = IF Contains(t[i - 1], codes[i]) THEN t[i - 1] ELSE Append(t[i - 1], codes[i])
<1> DEFINE n == Len(codes)
           T == Seq(S)
           Step(kept, c) == IF Contains(kept, c) THEN kept ELSE Append(kept, c)
           g == [i \in 1..n |-> [t \in T |-> Step(t, codes[i])]]
           fold == CHOOSE h : h = [s \in SUBSET (1..n) |->
                     IF s = {} THEN <<>> ELSE Step(h[s \ {Top(s)}], codes[Top(s)])]
<1>1. n \in Nat /\ DOMAIN codes = 1..n /\ \A i \in 1..n : codes[i] \in S
  OBVIOUS
<1>2. Distinct(codes) = fold[1..n]
  BY <1>1 DEF Distinct, FoldLeft, MapThenFoldSet, Top, Max
<1>3. /\ <<>> \in T
      /\ \A i \in 1..n : \A t \in T : g[i][t] = Step(t, codes[i]) /\ g[i][t] \in T
  BY <1>1
<1> SUFFICES \E t : /\ t \in [0..n -> T] /\ t[0] = <<>> /\ Distinct(codes) = t[n]
                    /\ \A i \in 1..n : t[i] = Step(t[i - 1], codes[i])
  OBVIOUS
<1> HIDE DEF n, T, Step, g
<1>4. \A i \in 1..n : \A t \in T : g[i][t] \in T
  BY <1>3
<1>5. \A s \in SUBSET (1..n) : s # {} => Top(s) \in 1..n /\ s \ {Top(s)} \in SUBSET (1..n)
  BY <1>1, TopMember
<1>6. PICK h : IsFold(n, T, <<>>, g, h)
  BY <1>1, <1>3, <1>4, FoldExists
<1>7. h = [s \in SUBSET (1..n) |-> IF s = {} THEN <<>> ELSE Step(h[s \ {Top(s)}], codes[Top(s)])]
  BY <1>3, <1>5, <1>6 DEF IsFold, Folded
<1>8. fold = [s \in SUBSET (1..n) |-> IF s = {} THEN <<>> ELSE Step(fold[s \ {Top(s)}], codes[Top(s)])]
  BY <1>7
<1> HIDE DEF fold
<1>9. Solved(n, T, <<>>, g, fold)
  BY <1>3, <1>5, <1>8 DEF Solved
<1>10. PICK t : IsTable(n, T, <<>>, g, fold, t)
  BY <1>1, <1>3, <1>4, <1>9, FoldTable
<1>11. \A i \in 1..n : t[i] = Step(t[i - 1], codes[i])
  <2>1. \A i \in 1..n : t[i - 1] \in T
    BY <1>1, <1>10 DEF IsTable
  <2> QED BY <1>3, <1>10, <2>1 DEF IsTable
<1> QED BY <1>2, <1>10, <1>11 DEF IsTable

(* Assignments of values to some keys.                                     *)
Partials(K, V) == UNION {[k -> V] : k \in SUBSET K}

(* No assignment is one.                                                   *)
LEMMA PartialEmpty == \A K, V : <<>> \in Partials(K, V)
<1> SUFFICES ASSUME NEW K, NEW V PROVE <<>> \in [{} -> V]
  BY DEF Partials
<1> QED OBVIOUS

(* One more assignment is one.                                             *)
LEMMA PartialAssign ==
  ASSUME NEW K, NEW V, NEW t \in Partials(K, V), NEW k \in K, NEW v \in V
  PROVE  Assign(t, k, v) \in Partials(K, V)
<1>1. PICK D \in SUBSET K : t \in [D -> V]
  BY DEF Partials
<1> DEFINE new == Assign(t, k, v)
<1>2. new = [x \in D \cup {k} |-> IF x = k THEN v ELSE t[x]]
  BY <1>1 DEF Assign
<1>3. new \in [D \cup {k} -> V] /\ D \cup {k} \in SUBSET K
  BY <1>1, <1>2
<1> HIDE DEF new
<1>4. new \in Partials(K, V)
  BY <1>3 DEF Partials
<1> QED BY <1>1, <1>2, <1>4 DEF new

(* One assignment less is one.                                             *)
LEMMA PartialDrop ==
  ASSUME NEW K, NEW V, NEW t \in Partials(K, V), NEW k
  PROVE  [x \in DOMAIN t \ {k} |-> t[x]] \in Partials(K, V)
<1>1. PICK D \in SUBSET K : t \in [D -> V]
  BY DEF Partials
<1> DEFINE new == [x \in D \ {k} |-> t[x]]
<1>2. new \in [D \ {k} -> V] /\ D \ {k} \in SUBSET K
  BY <1>1
<1>3. new \in Partials(K, V)
  BY <1>2 DEF Partials
<1> QED BY <1>1, <1>3

(* The users' latest decisions, review by review.                          *)
LEMMA DecisionsTable ==
  ASSUME NEW reviews \in Seq(ReviewAnswer)
  PROVE  \E t : /\ t \in [0..Len(reviews) -> Partials(STRING, STRING)] /\ t[0] = <<>>
                /\ LatestDecisions(reviews) = t[Len(reviews)]
                /\ \A i \in 1..Len(reviews) : t[i] = AfterReview(t[i - 1], reviews[i])
<1> DEFINE S == ReviewAnswer
<1> DEFINE n == Len(reviews)
           T == Partials(STRING, STRING)
           g == [i \in 1..n |-> [t \in T |-> AfterReview(t, reviews[i])]]
           fold == CHOOSE h : h = [s \in SUBSET (1..n) |->
                     IF s = {} THEN <<>> ELSE AfterReview(h[s \ {Top(s)}], reviews[Top(s)])]
<1>1. n \in Nat /\ DOMAIN reviews = 1..n /\ \A i \in 1..n : reviews[i] \in S
  OBVIOUS
<1>2. LatestDecisions(reviews) = fold[1..n]
  BY <1>1 DEF LatestDecisions, FoldLeft, MapThenFoldSet, Top, Max
<1>3. /\ <<>> \in T
      /\ \A i \in 1..n : \A t \in T : g[i][t] = AfterReview(t, reviews[i]) /\ g[i][t] \in T
  BY <1>1, PartialEmpty, PartialAssign, PartialDrop DEF AfterReview, ReviewAnswer
<1> SUFFICES \E t : /\ t \in [0..n -> T] /\ t[0] = <<>> /\ LatestDecisions(reviews) = t[n]
                    /\ \A i \in 1..n : t[i] = AfterReview(t[i - 1], reviews[i])
  OBVIOUS
<1> HIDE DEF n, T, g
<1>4. \A i \in 1..n : \A t \in T : g[i][t] \in T
  BY <1>3
<1>5. \A s \in SUBSET (1..n) : s # {} => Top(s) \in 1..n /\ s \ {Top(s)} \in SUBSET (1..n)
  BY <1>1, TopMember
<1>6. PICK h : IsFold(n, T, <<>>, g, h)
  BY <1>1, <1>3, <1>4, FoldExists
<1>7. h = [s \in SUBSET (1..n) |-> IF s = {} THEN <<>> ELSE AfterReview(h[s \ {Top(s)}], reviews[Top(s)])]
  BY <1>3, <1>5, <1>6 DEF IsFold, Folded
<1>8. fold = [s \in SUBSET (1..n) |-> IF s = {} THEN <<>> ELSE AfterReview(fold[s \ {Top(s)}], reviews[Top(s)])]
  BY <1>7
<1> HIDE DEF fold
<1>9. Solved(n, T, <<>>, g, fold)
  BY <1>3, <1>5, <1>8 DEF Solved
<1>10. PICK t : IsTable(n, T, <<>>, g, fold, t)
  BY <1>1, <1>3, <1>4, <1>9, FoldTable
<1>11. \A i \in 1..n : t[i] = AfterReview(t[i - 1], reviews[i])
  <2>1. \A i \in 1..n : t[i - 1] \in T
    BY <1>1, <1>10 DEF IsTable
  <2> QED BY <1>3, <1>10, <2>1 DEF IsTable
<1> QED BY <1>2, <1>10, <1>11 DEF IsTable

(* What was observed of each check, run by run and then status by status.   *)
LEMMA Outcomes ==
  /\ \A r \in RunAnswer : CheckRunStatus(r) \in CheckStatus
  /\ \A state \in DOMAIN StatusOf : StatusOf[state] \in CheckStatus
  /\ \A a \in CheckStatus \cup {None}, b \in CheckStatus :
       /\ WorseStatus(a, b) \in CheckStatus /\ WorseStatus(a, b) \in {a, b}
       /\ a = None => WorseStatus(a, b) = b
       /\ a # None /\ WorseStatus(a, b) = "passed" => a = "passed" /\ b = "passed"
<1>1. None \notin CheckStatus
  BY NoneAssumption
<1> QED BY <1>1 DEF CheckRunStatus, StatusOf, WorseStatus, Rank, CheckStatus

(* What the check runs add up to, run by run.                              *)
LEMMA RunsTable ==
  ASSUME NEW runs \in Seq(RunAnswer)
  PROVE  \E t : /\ t \in [0..Len(runs) -> Partials(Int, CheckStatus)] /\ t[0] = <<>>
                /\ FoldLeft(WithRun, <<>>, runs) = t[Len(runs)]
                /\ \A i \in 1..Len(runs) : t[i] = WithRun(t[i - 1], runs[i])
<1> DEFINE S == RunAnswer
<1> DEFINE n == Len(runs)
           T == Partials(Int, CheckStatus)
           g == [i \in 1..n |-> [t \in T |-> WithRun(t, runs[i])]]
           fold == CHOOSE h : h = [s \in SUBSET (1..n) |->
                     IF s = {} THEN <<>> ELSE WithRun(h[s \ {Top(s)}], runs[Top(s)])]
<1>1. n \in Nat /\ DOMAIN runs = 1..n /\ \A i \in 1..n : runs[i] \in S
  OBVIOUS
<1>2. FoldLeft(WithRun, <<>>, runs) = fold[1..n]
  BY <1>1 DEF FoldLeft, MapThenFoldSet, Top, Max
<1>3. /\ <<>> \in T
      /\ \A i \in 1..n : \A t \in T : g[i][t] = WithRun(t, runs[i]) /\ g[i][t] \in T
  BY <1>1, PartialEmpty, PartialAssign, Outcomes DEF WithRun, RunAnswer
<1> SUFFICES \E t : /\ t \in [0..n -> T] /\ t[0] = <<>> /\ FoldLeft(WithRun, <<>>, runs) = t[n]
                    /\ \A i \in 1..n : t[i] = WithRun(t[i - 1], runs[i])
  OBVIOUS
<1> HIDE DEF n, T, g
<1>4. \A i \in 1..n : \A t \in T : g[i][t] \in T
  BY <1>3
<1>5. \A s \in SUBSET (1..n) : s # {} => Top(s) \in 1..n /\ s \ {Top(s)} \in SUBSET (1..n)
  BY <1>1, TopMember
<1>6. PICK h : IsFold(n, T, <<>>, g, h)
  BY <1>1, <1>3, <1>4, FoldExists
<1>7. h = [s \in SUBSET (1..n) |-> IF s = {} THEN <<>> ELSE WithRun(h[s \ {Top(s)}], runs[Top(s)])]
  BY <1>3, <1>5, <1>6 DEF IsFold, Folded
<1>8. fold = [s \in SUBSET (1..n) |-> IF s = {} THEN <<>> ELSE WithRun(fold[s \ {Top(s)}], runs[Top(s)])]
  BY <1>7
<1> HIDE DEF fold
<1>9. Solved(n, T, <<>>, g, fold)
  BY <1>3, <1>5, <1>8 DEF Solved
<1>10. PICK t : IsTable(n, T, <<>>, g, fold, t)
  BY <1>1, <1>3, <1>4, <1>9, FoldTable
<1>11. \A i \in 1..n : t[i] = WithRun(t[i - 1], runs[i])
  <2>1. \A i \in 1..n : t[i - 1] \in T
    BY <1>1, <1>10 DEF IsTable
  <2> QED BY <1>3, <1>10, <2>1 DEF IsTable
<1> QED BY <1>2, <1>10, <1>11 DEF IsTable

(* A status leaves the checks' outcomes assigned.                          *)
LEMMA StatusKept ==
  ASSUME NEW t \in Partials(Int, CheckStatus), NEW s \in StatusAnswer, s.state \in DOMAIN StatusOf
  PROVE  /\ WithStatus(t, s) \in Partials(Int, CheckStatus)
         /\ DOMAIN WithStatus(t, s) = DOMAIN t \cup {s.name}
         /\ WithStatus(t, s)[s.name] =
              WorseStatus(IF s.name \in DOMAIN t THEN t[s.name] ELSE None, StatusOf[s.state])
         /\ \A x \in DOMAIN t : x # s.name => WithStatus(t, s)[x] = t[x]
<1> DEFINE old == IF s.name \in DOMAIN t THEN t[s.name] ELSE None
<1>1. PICK D \in SUBSET Int : t \in [D -> CheckStatus]
  BY DEF Partials
<1>2. old \in CheckStatus \cup {None} /\ s.name \in Int
  BY <1>1 DEF StatusAnswer
<1> DEFINE worse == WorseStatus(old, StatusOf[s.state])
<1>3. worse \in CheckStatus
  BY <1>2, Outcomes
<1>4. WithStatus(t, s) = Assign(t, s.name, worse)
  BY DEF WithStatus
<1>5. Assign(t, s.name, worse) \in Partials(Int, CheckStatus)
  <2> HIDE DEF worse
  <2> QED BY <1>2, <1>3, PartialAssign
<1>6. /\ DOMAIN Assign(t, s.name, worse) = DOMAIN t \cup {s.name}
      /\ Assign(t, s.name, worse)[s.name] = worse
      /\ \A x \in DOMAIN t : x # s.name => Assign(t, s.name, worse)[x] = t[x]
  <2> HIDE DEF worse
  <2> QED BY DEF Assign
<1> QED BY <1>4, <1>5, <1>6

(* What the statuses add up to, status by status.                          *)
LEMMA StatusesTable ==
  ASSUME NEW base \in Partials(Int, CheckStatus), NEW statuses \in Seq(StatusAnswer),
         \A i \in DOMAIN statuses : statuses[i].state \in DOMAIN StatusOf
  PROVE  \E t : /\ t \in [0..Len(statuses) -> Partials(Int, CheckStatus)] /\ t[0] = base
                /\ FoldLeft(WithStatus, base, statuses) = t[Len(statuses)]
                /\ \A i \in 1..Len(statuses) : t[i] = WithStatus(t[i - 1], statuses[i])
<1> DEFINE S == StatusAnswer
<1> DEFINE n == Len(statuses)
           T == Partials(Int, CheckStatus)
           g == [i \in 1..n |-> [t \in T |-> WithStatus(t, statuses[i])]]
           fold == CHOOSE h : h = [s \in SUBSET (1..n) |->
                     IF s = {} THEN base ELSE WithStatus(h[s \ {Top(s)}], statuses[Top(s)])]
<1>1. n \in Nat /\ DOMAIN statuses = 1..n /\ \A i \in 1..n : statuses[i] \in S
  OBVIOUS
<1>2. FoldLeft(WithStatus, base, statuses) = fold[1..n]
  BY <1>1 DEF FoldLeft, MapThenFoldSet, Top, Max
<1>3. /\ base \in T
      /\ \A i \in 1..n : \A t \in T : g[i][t] = WithStatus(t, statuses[i]) /\ g[i][t] \in T
  BY <1>1, StatusKept
<1> SUFFICES \E t : /\ t \in [0..n -> T] /\ t[0] = base /\ FoldLeft(WithStatus, base, statuses) = t[n]
                    /\ \A i \in 1..n : t[i] = WithStatus(t[i - 1], statuses[i])
  OBVIOUS
<1> HIDE DEF n, T, g
<1>4. \A i \in 1..n : \A t \in T : g[i][t] \in T
  BY <1>3
<1>5. \A s \in SUBSET (1..n) : s # {} => Top(s) \in 1..n /\ s \ {Top(s)} \in SUBSET (1..n)
  BY <1>1, TopMember
<1>6. PICK h : IsFold(n, T, base, g, h)
  BY <1>1, <1>3, <1>4, FoldExists
<1>7. h = [s \in SUBSET (1..n) |-> IF s = {} THEN base ELSE WithStatus(h[s \ {Top(s)}], statuses[Top(s)])]
  BY <1>3, <1>5, <1>6 DEF IsFold, Folded
<1>8. fold = [s \in SUBSET (1..n) |-> IF s = {} THEN base ELSE WithStatus(fold[s \ {Top(s)}], statuses[Top(s)])]
  BY <1>7
<1> HIDE DEF fold
<1>9. Solved(n, T, base, g, fold)
  BY <1>3, <1>5, <1>8 DEF Solved
<1>10. PICK t : IsTable(n, T, base, g, fold, t)
  BY <1>1, <1>3, <1>4, <1>9, FoldTable
<1>11. \A i \in 1..n : t[i] = WithStatus(t[i - 1], statuses[i])
  <2>1. \A i \in 1..n : t[i - 1] \in T
    BY <1>1, <1>10 DEF IsTable
  <2> QED BY <1>3, <1>10, <2>1 DEF IsTable
<1> QED BY <1>2, <1>10, <1>11 DEF IsTable

(* The members of a list put behind another.                               *)
LEMMA MembersOfBoth ==
  ASSUME NEW S, NEW a \in Seq(S), NEW b \in Seq(S)
  PROVE  a \o b \in Seq(S) /\ ToSet(a \o b) = ToSet(a) \cup ToSet(b)
<1> DEFINE c == a \o b
<1>1. /\ c \in Seq(S) /\ Len(c) = Len(a) + Len(b)
      /\ \A i \in 1..Len(c) : c[i] = IF i <= Len(a) THEN a[i] ELSE b[i - Len(a)]
  OBVIOUS
<1>2. Len(a) \in Nat /\ Len(b) \in Nat /\ DOMAIN a = 1..Len(a) /\ DOMAIN b = 1..Len(b) /\ DOMAIN c = 1..Len(c)
  OBVIOUS
<1> HIDE DEF c
<1>3. ASSUME NEW i \in 1..Len(c) PROVE c[i] \in ToSet(a) \cup ToSet(b)
  <2>1. CASE i <= Len(a)
    <3>1. i \in DOMAIN a /\ c[i] = a[i]
      BY <1>1, <1>2, <2>1
    <3> QED BY <3>1 DEF ToSet
  <2>2. CASE ~(i <= Len(a))
    <3>1. i - Len(a) \in DOMAIN b /\ c[i] = b[i - Len(a)]
      BY <1>1, <1>2, <2>2
    <3> QED BY <3>1 DEF ToSet
  <2> QED BY <2>1, <2>2
<1>4. ASSUME NEW x \in ToSet(a) PROVE x \in ToSet(c)
  <2>1. PICK i \in 1..Len(a) : x = a[i]
    BY <1>2 DEF ToSet
  <2>2. i \in 1..Len(c) /\ c[i] = x
    BY <1>1, <1>2, <2>1
  <2> QED BY <1>2, <2>2 DEF ToSet
<1>5. ASSUME NEW x \in ToSet(b) PROVE x \in ToSet(c)
  <2>1. PICK i \in 1..Len(b) : x = b[i]
    BY <1>2 DEF ToSet
  <2>2. i + Len(a) \in 1..Len(c) /\ ~(i + Len(a) <= Len(a)) /\ (i + Len(a)) - Len(a) = i
    BY <1>1, <1>2, <2>1
  <2>3. c[i + Len(a)] = x
    BY <1>1, <2>1, <2>2
  <2> QED BY <1>2, <2>2, <2>3 DEF ToSet
<1>6. ToSet(c) = ToSet(a) \cup ToSet(b)
  <2>1. \A x \in ToSet(c) : x \in ToSet(a) \cup ToSet(b)
    BY <1>2, <1>3 DEF ToSet
  <2> QED BY <1>4, <1>5, <2>1
<1> QED BY <1>1, <1>6 DEF c

(* The members of a list with one more.                                    *)
LEMMA MembersAppended ==
  ASSUME NEW S, NEW a \in Seq(S), NEW x \in S
  PROVE  /\ Append(a, x) \in Seq(S) /\ Len(Append(a, x)) = Len(a) + 1
         /\ ToSet(Append(a, x)) = ToSet(a) \cup {x}
<1> DEFINE c == Append(a, x)
<1>1. /\ c \in Seq(S) /\ Len(c) = Len(a) + 1 /\ Len(a) \in Nat
      /\ \A i \in 1..Len(a) : c[i] = a[i]
      /\ c[Len(a) + 1] = x
  OBVIOUS
<1>2. DOMAIN a = 1..Len(a) /\ DOMAIN c = 1..(Len(a) + 1)
  BY <1>1
<1> HIDE DEF c
<1>3. ToSet(c) = {c[i] : i \in 1..Len(a)} \cup {c[Len(a) + 1]}
  BY <1>1, <1>2 DEF ToSet
<1>4. ToSet(c) = ToSet(a) \cup {x}
  BY <1>1, <1>2, <1>3 DEF ToSet
<1> QED BY <1>1, <1>4 DEF c

(* The first members of a list.                                            *)
FirstOf(list, n) == {list[i] : i \in 1..n}

(* One more member at a time, up to all of them.                           *)
LEMMA FirstMembers ==
  ASSUME NEW S, NEW list \in Seq(S)
  PROVE  /\ FirstOf(list, 0) = {} /\ FirstOf(list, Len(list)) = ToSet(list)
         /\ \A i \in 1..Len(list) : FirstOf(list, i) = FirstOf(list, i - 1) \cup {list[i]}
<1>1. DOMAIN list = 1..Len(list) /\ Len(list) \in Nat
  OBVIOUS
<1>2. ASSUME NEW i \in 1..Len(list)
      PROVE  FirstOf(list, i) = FirstOf(list, i - 1) \cup {list[i]}
  <2>1. 1..i = (1..(i - 1)) \cup {i}
    BY <1>1
  <2> QED BY <2>1 DEF FirstOf
<1>3. FirstOf(list, 0) = {}
  BY DEF FirstOf
<1>4. FirstOf(list, Len(list)) = ToSet(list)
  BY <1>1 DEF FirstOf, ToSet
<1> QED BY <1>2, <1>3, <1>4

(* The blockers are the findings that block.                               *)
LEMMA BlockersMembers ==
  ASSUME NEW S, \A f \in S : f.blocking \in BOOLEAN, NEW findings \in Seq(S)
  PROVE  /\ Blockers(findings) \in Seq(S)
         /\ ToSet(Blockers(findings)) = {f \in ToSet(findings) : f.blocking}
         /\ Len(Blockers(findings)) <= Len(findings)
<1> DEFINE n == Len(findings)
<1>1. PICK t : /\ t \in [0..n -> Seq(S)] /\ t[0] = <<>> /\ Blockers(findings) = t[n]
               /\ \A i \in 1..n :
                    t[i] = IF findings[i].blocking THEN Append(t[i - 1], findings[i]) ELSE t[i - 1]
  BY BlockersTable
<1>2. n \in Nat /\ \A i \in 1..n : findings[i] \in S
  OBVIOUS
<1> DEFINE Right(i) == /\ ToSet(t[i]) = {f \in FirstOf(findings, i) : f.blocking}
                       /\ Len(t[i]) <= i
           Good == {i \in 0..n : Right(i)}
<1>3. 0 \in Good
  BY <1>1, <1>2, FirstMembers DEF ToSet
<1>4. ASSUME NEW i \in 1..n, i - 1 \in Good PROVE i \in Good
  <2>1. t[i - 1] \in Seq(S) /\ Right(i - 1)
    BY <1>1, <1>2, <1>4
  <2>2. FirstOf(findings, i) = FirstOf(findings, i - 1) \cup {findings[i]}
    BY FirstMembers
  <2>3. CASE findings[i].blocking
    <3>1. t[i] = Append(t[i - 1], findings[i])
      BY <1>1, <2>3
    <3>2. ToSet(t[i]) = ToSet(t[i - 1]) \cup {findings[i]} /\ Len(t[i]) = Len(t[i - 1]) + 1
      BY <1>2, <2>1, <3>1, MembersAppended
    <3>3. ToSet(t[i]) = {f \in FirstOf(findings, i) : f.blocking}
      BY <2>1, <2>2, <2>3, <3>2
    <3>4. Len(t[i]) <= i
      BY <2>1, <3>2
    <3> QED BY <3>3, <3>4
  <2>4. CASE ~findings[i].blocking
    <3>1. t[i] = t[i - 1]
      BY <1>1, <2>4
    <3>2. ToSet(t[i]) = {f \in FirstOf(findings, i) : f.blocking}
      BY <2>1, <2>2, <2>4, <3>1
    <3>3. Len(t[i]) <= i
      BY <2>1, <3>1
    <3> QED BY <3>2, <3>3
  <2> QED BY <2>3, <2>4
<1>5. Right(n)
  <2> HIDE DEF Right
  <2>1. \A i \in 0..n : i \in Good
    <3> HIDE DEF Good
    <3> QED BY <1>2, <1>3, <1>4, UpTo
  <2> QED BY <1>2, <2>1
<1>6. FirstOf(findings, n) = ToSet(findings)
  BY FirstMembers
<1> QED BY <1>1, <1>2, <1>5, <1>6

(* The others are the missing information.                                 *)
LEMMA MissingMembers ==
  ASSUME NEW S, \A f \in S : f.blocking \in BOOLEAN, NEW findings \in Seq(S)
  PROVE  /\ MissingInformation(findings) \in Seq(S)
         /\ ToSet(MissingInformation(findings)) = {f \in ToSet(findings) : ~f.blocking}
         /\ Len(MissingInformation(findings)) <= Len(findings)
<1> DEFINE n == Len(findings)
<1>1. PICK t : /\ t \in [0..n -> Seq(S)] /\ t[0] = <<>> /\ MissingInformation(findings) = t[n]
               /\ \A i \in 1..n :
                    t[i] = IF findings[i].blocking THEN t[i - 1] ELSE Append(t[i - 1], findings[i])
  BY MissingTable
<1>2. n \in Nat /\ \A i \in 1..n : findings[i] \in S
  OBVIOUS
<1> DEFINE Right(i) == /\ ToSet(t[i]) = {f \in FirstOf(findings, i) : ~f.blocking}
                       /\ Len(t[i]) <= i
           Good == {i \in 0..n : Right(i)}
<1>3. 0 \in Good
  BY <1>1, <1>2, FirstMembers DEF ToSet
<1>4. ASSUME NEW i \in 1..n, i - 1 \in Good PROVE i \in Good
  <2>1. t[i - 1] \in Seq(S) /\ Right(i - 1)
    BY <1>1, <1>2, <1>4
  <2>2. FirstOf(findings, i) = FirstOf(findings, i - 1) \cup {findings[i]}
    BY FirstMembers
  <2>3. CASE ~findings[i].blocking
    <3>1. t[i] = Append(t[i - 1], findings[i])
      BY <1>1, <2>3
    <3>2. ToSet(t[i]) = ToSet(t[i - 1]) \cup {findings[i]} /\ Len(t[i]) = Len(t[i - 1]) + 1
      BY <1>2, <2>1, <3>1, MembersAppended
    <3>3. ToSet(t[i]) = {f \in FirstOf(findings, i) : ~f.blocking}
      BY <2>1, <2>2, <2>3, <3>2
    <3>4. Len(t[i]) <= i
      BY <2>1, <3>2
    <3> QED BY <3>3, <3>4
  <2>4. CASE findings[i].blocking
    <3>1. t[i] = t[i - 1]
      BY <1>1, <2>4
    <3>2. ToSet(t[i]) = {f \in FirstOf(findings, i) : ~f.blocking}
      BY <2>1, <2>2, <2>4, <3>1
    <3>3. Len(t[i]) <= i
      BY <2>1, <3>1
    <3> QED BY <3>2, <3>3
  <2> QED BY <2>3, <2>4
<1>5. Right(n)
  <2> HIDE DEF Right
  <2>1. \A i \in 0..n : i \in Good
    <3> HIDE DEF Good
    <3> QED BY <1>2, <1>3, <1>4, UpTo
  <2> QED BY <1>2, <2>1
<1>6. FirstOf(findings, n) = ToSet(findings)
  BY FirstMembers
<1> QED BY <1>1, <1>2, <1>5, <1>6

(* Codes without their repetitions are the same codes.                     *)
LEMMA DistinctMembers ==
  ASSUME NEW S, NEW codes \in Seq(S)
  PROVE  ToSet(Distinct(codes)) = ToSet(codes)
<1> DEFINE n == Len(codes)
<1>1. PICK t : /\ t \in [0..n -> Seq(S)] /\ t[0] = <<>> /\ Distinct(codes) = t[n]
               /\ \A i \in 1..n :
                    t[i] = IF Contains(t[i - 1], codes[i]) THEN t[i - 1] ELSE Append(t[i - 1], codes[i])
  BY DistinctTable
<1>2. n \in Nat /\ \A i \in 1..n : codes[i] \in S
  OBVIOUS
<1> DEFINE Good == {i \in 0..n : ToSet(t[i]) = FirstOf(codes, i)}
<1>3. 0 \in Good
  BY <1>1, <1>2, FirstMembers DEF ToSet
<1>4. ASSUME NEW i \in 1..n, i - 1 \in Good PROVE i \in Good
  <2>1. t[i - 1] \in Seq(S) /\ ToSet(t[i - 1]) = FirstOf(codes, i - 1)
    BY <1>1, <1>2, <1>4
  <2>2. FirstOf(codes, i) = FirstOf(codes, i - 1) \cup {codes[i]}
    BY FirstMembers
  <2>3. CASE Contains(t[i - 1], codes[i])
    <3>1. codes[i] \in ToSet(t[i - 1])
      BY <2>1, <2>3 DEF Contains, ToSet
    <3>2. ToSet(t[i]) = FirstOf(codes, i)
      BY <1>1, <2>1, <2>2, <2>3, <3>1
    <3> QED BY <3>2
  <2>4. CASE ~Contains(t[i - 1], codes[i])
    <3>1. ToSet(t[i]) = ToSet(t[i - 1]) \cup {codes[i]}
      BY <1>1, <1>2, <2>1, <2>4, MembersAppended
    <3>2. ToSet(t[i]) = FirstOf(codes, i)
      BY <2>1, <2>2, <3>1
    <3> QED BY <3>2
  <2> QED BY <2>3, <2>4
<1>5. n \in Good
  <2>1. \A i \in 0..n : i \in Good
    <3> HIDE DEF Good
    <3> QED BY <1>2, <1>3, <1>4, UpTo
  <2> QED BY <1>2, <2>1
<1>6. FirstOf(codes, n) = ToSet(codes)
  BY FirstMembers
<1> QED BY <1>1, <1>5, <1>6

-----------------------------------------------------------------------------
(* The reviews.                                                            *)

(* The reviews up to the i-th by which a user decides, and which of them is *)
(* the last.                                                               *)
DecidesAt(reviews, user, j) == reviews[j].user = user /\ reviews[j].state \in Decisive

(* The last of them.                                                       *)
LastDecision(reviews, user, i, d) ==
  /\ d \in 1..i /\ DecidesAt(reviews, user, d)
  /\ \A j \in 1..i : DecidesAt(reviews, user, j) => j <= d

(* What LatestDecisions has found after i reviews.                         *)
Decided(reviews, latest, i) ==
  \A user :
    /\ user \in DOMAIN latest <=>
         \E d : LastDecision(reviews, user, i, d) /\ reviews[d].state # "DISMISSED"
    /\ \A d : LastDecision(reviews, user, i, d) /\ user \in DOMAIN latest =>
         latest[user] = reviews[d].state

(* One more review.                                                        *)
LEMMA DecisionMoves ==
  ASSUME NEW reviews, NEW i \in Nat \ {0}, NEW user
  PROVE  /\ DecidesAt(reviews, user, i) =>
              \A d : LastDecision(reviews, user, i, d) <=> d = i
         /\ ~DecidesAt(reviews, user, i) =>
              \A d : LastDecision(reviews, user, i, d) <=> LastDecision(reviews, user, i - 1, d)
<1>1. \A j : j \in 1..i <=> j \in 1..(i - 1) \/ j = i
  OBVIOUS
<1>2. ASSUME DecidesAt(reviews, user, i), NEW d
      PROVE  LastDecision(reviews, user, i, d) <=> d = i
  <2>1. d = i => LastDecision(reviews, user, i, d)
    BY <1>2 DEF LastDecision
  <2>2. LastDecision(reviews, user, i, d) => d \in 1..i /\ i <= d
    BY <1>2 DEF LastDecision
  <2> QED BY <2>1, <2>2
<1>3. ASSUME ~DecidesAt(reviews, user, i), NEW d
      PROVE  LastDecision(reviews, user, i, d) <=> LastDecision(reviews, user, i - 1, d)
  BY <1>1, <1>3 DEF LastDecision
<1> QED BY <1>2, <1>3

(* What LatestDecisions has found after one more review.                   *)
LEMMA DecisionsStep ==
  ASSUME NEW reviews \in Seq(ReviewAnswer), NEW i \in 1..Len(reviews), NEW latest,
         Decided(reviews, latest, i - 1)
  PROVE  Decided(reviews, AfterReview(latest, reviews[i]), i)
<1> DEFINE r == reviews[i]
           new == AfterReview(latest, r)
<1>0. i \in Nat \ {0}
  OBVIOUS
<1>1. SUFFICES ASSUME NEW user
      PROVE  /\ user \in DOMAIN new <=>
                  \E d : LastDecision(reviews, user, i, d) /\ reviews[d].state # "DISMISSED"
             /\ \A d : LastDecision(reviews, user, i, d) /\ user \in DOMAIN new =>
                  new[user] = reviews[d].state
  BY DEF Decided
<1>2. /\ user \in DOMAIN latest <=>
           \E d : LastDecision(reviews, user, i - 1, d) /\ reviews[d].state # "DISMISSED"
      /\ \A d : LastDecision(reviews, user, i - 1, d) /\ user \in DOMAIN latest =>
           latest[user] = reviews[d].state
  BY DEF Decided
<1>3. CASE DecidesAt(reviews, user, i)
  <2>1. \A d : LastDecision(reviews, user, i, d) <=> d = i
    BY <1>0, <1>3, DecisionMoves
  <2>2. r.user = user /\ r.state \in Decisive
    BY <1>3 DEF DecidesAt
  <2>3. CASE r.state = "DISMISSED"
    <3>1. user \notin DOMAIN new
      BY <2>2, <2>3 DEF AfterReview
    <3> QED BY <2>1, <2>3, <3>1
  <2>4. CASE r.state # "DISMISSED"
    <3>1. user \in DOMAIN new /\ new[user] = r.state
      BY <2>2, <2>4 DEF AfterReview, Assign
    <3> QED BY <2>1, <2>4, <3>1
  <2> QED BY <2>3, <2>4
<1>4. CASE ~DecidesAt(reviews, user, i)
  <2>1. \A d : LastDecision(reviews, user, i, d) <=> LastDecision(reviews, user, i - 1, d)
    BY <1>0, <1>4, DecisionMoves
  <2>2. r.user # user \/ r.state \notin Decisive
    BY <1>4 DEF DecidesAt
  <2>3. /\ user \in DOMAIN new <=> user \in DOMAIN latest
        /\ user \in DOMAIN latest => new[user] = latest[user]
    <3>1. CASE r.state = "DISMISSED"
      <4>1. r.user # user
        BY <2>2, <3>1 DEF Decisive
      <4> QED BY <3>1, <4>1 DEF AfterReview
    <3>2. CASE r.state # "DISMISSED" /\ r.state \in Decisive
      BY <2>2, <3>2 DEF AfterReview, Assign
    <3>3. CASE r.state # "DISMISSED" /\ r.state \notin Decisive
      BY <3>3 DEF AfterReview
    <3> QED BY <3>1, <3>2, <3>3
  <2> HIDE DEF new
  <2> QED BY <1>2, <2>1, <2>3
<1> QED BY <1>3, <1>4

(* LatestDecisions finds the last decision of every user that is not taken *)
(* back.                                                                   *)
LEMMA LatestDecided ==
  ASSUME NEW reviews \in Seq(ReviewAnswer)
  PROVE  /\ Decided(reviews, LatestDecisions(reviews), Len(reviews))
         /\ LatestDecisions(reviews) \in Partials(STRING, STRING)
<1> DEFINE n == Len(reviews)
<1>1. PICK t : /\ t \in [0..n -> Partials(STRING, STRING)] /\ t[0] = <<>>
               /\ LatestDecisions(reviews) = t[n]
               /\ \A i \in 1..n : t[i] = AfterReview(t[i - 1], reviews[i])
  BY DecisionsTable
<1>2. n \in Nat
  OBVIOUS
<1> DEFINE Good == {i \in 0..n : Decided(reviews, t[i], i)}
<1>3. 0 \in Good
  <2>1. Decided(reviews, t[0], 0)
    BY <1>1 DEF Decided, LastDecision
  <2> QED BY <1>2, <2>1
<1>4. ASSUME NEW i \in 1..n, i - 1 \in Good PROVE i \in Good
  <2>1. Decided(reviews, t[i], i)
    BY <1>1, <1>4, DecisionsStep
  <2> QED BY <1>2, <2>1
<1>5. n \in Good
  <2>1. \A i \in 0..n : i \in Good
    <3> HIDE DEF Good
    <3> QED BY <1>2, <1>3, <1>4, UpTo
  <2> QED BY <1>2, <2>1
<1> QED BY <1>1, <1>2, <1>5

(* A user's standing is the state of the last review that decides.         *)
LEMMA StandingIsLast ==
  ASSUME NEW w, w.reviews \in Seq(ReviewAnswer), NEW user
  PROVE  \/ /\ Standing(w, user) = None
            /\ \A d : ~LastDecision(w.reviews, user, Len(w.reviews), d)
         \/ \E d : /\ LastDecision(w.reviews, user, Len(w.reviews), d)
                   /\ Standing(w, user) = w.reviews[d].state /\ user \in Users(w)
<1> DEFINE reviews == w.reviews
           D == {i \in DOMAIN reviews : reviews[i].user = user /\ reviews[i].state \in Decisive}
<1>1. Standing(w, user) = IF D = {} THEN None ELSE reviews[Max(D)].state
  BY DEF Standing
<1>2. DOMAIN reviews = 1..Len(reviews) /\ Len(reviews) \in Nat
  OBVIOUS
<1>3. D = {j \in 1..Len(reviews) : DecidesAt(reviews, user, j)}
  BY <1>2 DEF DecidesAt
<1> HIDE DEF D
<1>4. CASE D = {}
  BY <1>1, <1>3, <1>4 DEF LastDecision
<1>5. CASE D # {}
  <2>1. PICK m \in D : \A j \in D : j <= m
    BY <1>2, <1>3, <1>5, FirstAndLast
  <2>2. Max(D) \in D /\ \A j \in D : Max(D) >= j
    BY <1>3, <2>1 DEF Max
  <2>3. LastDecision(reviews, user, Len(reviews), Max(D))
    BY <1>2, <1>3, <2>2 DEF LastDecision
  <2>4. user \in Users(w)
    BY <1>2, <1>3, <2>2 DEF Users, DecidesAt
  <2> QED BY <1>1, <1>5, <2>3, <2>4
<1> QED BY <1>4, <1>5

(* The users whose latest decision is an approval, or asks for changes, are *)
(* those with this standing.                                               *)
LEMMA DecidingIsStanding ==
  ASSUME NEW w, w.reviews \in Seq(ReviewAnswer), NEW state \in {"APPROVED", "CHANGES_REQUESTED"}
  PROVE  Deciding(w.reviews, state) = {u \in Users(w) : Standing(w, u) = state}
<1> DEFINE n == Len(w.reviews)
           latest == LatestDecisions(w.reviews)
<1>1. Decided(w.reviews, latest, n)
  BY LatestDecided
<1>2. None # state /\ state # "DISMISSED"
  BY EvidenceAssumption DEF Decisive
<1>3. Deciding(w.reviews, state) = {u \in DOMAIN latest : latest[u] = state}
  BY DEF Deciding
<1> HIDE DEF latest
<1>4. ASSUME NEW u PROVE (u \in DOMAIN latest /\ latest[u] = state)
                         <=> (u \in Users(w) /\ Standing(w, u) = state)
  <2>1. /\ u \in DOMAIN latest <=>
             \E d : LastDecision(w.reviews, u, n, d) /\ w.reviews[d].state # "DISMISSED"
        /\ \A d : LastDecision(w.reviews, u, n, d) /\ u \in DOMAIN latest =>
             latest[u] = w.reviews[d].state
    BY <1>1 DEF Decided
  <2>2. CASE \A d : ~LastDecision(w.reviews, u, n, d)
    <3>1. Standing(w, u) = None
      BY <2>2, StandingIsLast
    <3> QED BY <1>2, <2>1, <2>2, <3>1
  <2>3. CASE \E d : LastDecision(w.reviews, u, n, d)
    <3>1. PICK d : /\ LastDecision(w.reviews, u, n, d)
                   /\ Standing(w, u) = w.reviews[d].state /\ u \in Users(w)
      BY <2>3, StandingIsLast
    <3> QED BY <1>2, <2>1, <3>1
  <2> QED BY <2>2, <2>3
<1> QED BY <1>3, <1>4

-----------------------------------------------------------------------------
(* Finite sets, and names in order.                                        *)

(* The values of a function on a finite set are finitely many.             *)
LEMMA FiniteImage ==
  ASSUME NEW S, IsFiniteSet(S), NEW f
  PROVE  IsFiniteSet({f[x] : x \in S})
<1> DEFINE T == {f[x] : x \in S}
           g == [x \in S |-> f[x]]
<1>1. g \in Surjection(S, T)
  BY DEF Surjection
<1> QED BY <1>1, FS_Surjection

(* A list has finitely many members.                                       *)
LEMMA FiniteMembers ==
  ASSUME NEW S, NEW list \in Seq(S)
  PROVE  IsFiniteSet(ToSet(list))
<1>1. DOMAIN list = 1..Len(list) /\ Len(list) \in Nat
  OBVIOUS
<1>2. IsFiniteSet(1..Len(list))
  BY <1>1, FS_Interval
<1> QED BY <1>1, <1>2, FiniteImage DEF ToSet

(* Finitely many integers have a largest.                                  *)
LEMMA Largest ==
  ASSUME NEW S, IsFiniteSet(S), S # {}, S \subseteq Int
  PROVE  Max(S) \in S /\ \A x \in S : Max(S) >= x
<1> DEFINE HasMax(s) == \E x \in s : \A y \in s : x >= y
           Bad == {s \in SUBSET S : s # {} /\ ~HasMax(s)}
<1>1. Bad = {}
  <2>1. SUFFICES ASSUME Bad # {} PROVE FALSE
    OBVIOUS
  <2>2. PICK s \in Bad : \A x \in s : s \ {x} \in (SUBSET S) \ Bad
    <3>1. Bad \in SUBSET SUBSET S
      OBVIOUS
    <3> HIDE DEF Bad
    <3> QED BY <2>1, <3>1, SmallestSubset
  <2>3. PICK x \in s : TRUE
    BY <2>2
  <2>4. CASE s \ {x} = {}
    <3>1. s = {x}
      BY <2>3, <2>4
    <3> QED BY <2>2, <3>1
  <2>5. CASE s \ {x} # {}
    <3>1. PICK z \in s \ {x} : \A y \in s \ {x} : z >= y
      BY <2>2, <2>3, <2>5
    <3>2. CASE x >= z
      <4>1. \A y \in s : x >= y
        BY <2>2, <2>3, <3>1, <3>2
      <4> QED BY <2>2, <2>3, <4>1
    <3>3. CASE ~(x >= z)
      <4>1. \A y \in s : z >= y
        BY <2>2, <2>3, <3>1, <3>3
      <4> QED BY <2>2, <3>1, <4>1
    <3> QED BY <3>2, <3>3
  <2> QED BY <2>4, <2>5
<1>2. HasMax(S)
  BY <1>1
<1> QED BY <1>2 DEF Max

(* How many names come before one; it grows with the names.                *)
Lower(names, name) == {other \in names : other < name}

(* A greater name has more names before it.                                *)
LEMMA RankGrows ==
  ASSUME NEW names \in SUBSET Int, IsFiniteSet(names), NEW a \in names, NEW b \in names, a < b
  PROVE  /\ Cardinality(Lower(names, a)) < Cardinality(Lower(names, b))
<1>1. IsFiniteSet(Lower(names, a)) /\ IsFiniteSet(Lower(names, b))
  BY FS_Subset DEF Lower
<1>2. Lower(names, a) \cup {a} \in SUBSET Lower(names, b) /\ a \notin Lower(names, a)
  <2>1. ASSUME NEW x \in Lower(names, a) PROVE x \in Lower(names, b)
    <3>1. x \in Int /\ a \in Int /\ b \in Int /\ x < a
      BY DEF Lower
    <3>2. x < b
      BY <3>1
    <3> QED BY <3>2 DEF Lower
  <2>2. a \in Lower(names, b)
    BY DEF Lower
  <2>3. a \notin Lower(names, a)
    <3>1. a \in Int /\ ~(a < a)
      OBVIOUS
    <3> QED BY <3>1 DEF Lower
  <2> QED BY <2>1, <2>2, <2>3
<1>3. Cardinality(Lower(names, a) \cup {a}) = Cardinality(Lower(names, a)) + 1
  BY <1>1, <1>2, FS_AddElement
<1>4. Cardinality(Lower(names, a) \cup {a}) <= Cardinality(Lower(names, b))
  BY <1>1, <1>2, FS_Subset
<1> QED BY <1>1, <1>3, <1>4, FS_CardinalityType

(* Every name has its place in the order, and every place its name.        *)
LEMMA OrderCovers ==
  ASSUME NEW names \in SUBSET Int, IsFiniteSet(names)
  PROVE  /\ Cardinality(names) \in Nat
         /\ \A i \in 1..Cardinality(names) : InOrder(names)[i] \in names
         /\ \A name \in names : \E i \in 1..Cardinality(names) : InOrder(names)[i] = name
<1> DEFINE n == Cardinality(names)
           rank == [name \in names |-> Cardinality(Lower(names, name)) + 1]
<1>1. n \in Nat
  BY FS_CardinalityType
<1>2. ASSUME NEW name \in names PROVE rank[name] \in 1..n
  <2>1. IsFiniteSet(Lower(names, name)) /\ Lower(names, name) \cup {name} \in SUBSET names
        /\ name \notin Lower(names, name)
    BY FS_Subset DEF Lower
  <2>2. Cardinality(Lower(names, name)) \in Nat
    BY <2>1, FS_CardinalityType
  <2>3. Cardinality(Lower(names, name) \cup {name}) = Cardinality(Lower(names, name)) + 1
    BY <2>1, FS_AddElement
  <2>4. Cardinality(Lower(names, name) \cup {name}) <= n
    BY <2>1, FS_Subset
  <2> QED BY <1>1, <2>2, <2>3, <2>4
<1>3. ASSUME NEW a \in names, NEW b \in names, rank[a] = rank[b] PROVE a = b
  <2>1. rank[a] = Cardinality(Lower(names, a)) + 1 /\ rank[b] = Cardinality(Lower(names, b)) + 1
    OBVIOUS
  <2>2. Cardinality(Lower(names, a)) \in Nat /\ Cardinality(Lower(names, b)) \in Nat
    BY FS_Subset, FS_CardinalityType DEF Lower
  <2> HIDE DEF rank
  <2>3. a < b => Cardinality(Lower(names, a)) < Cardinality(Lower(names, b))
    BY RankGrows
  <2>4. b < a => Cardinality(Lower(names, b)) < Cardinality(Lower(names, a))
    BY RankGrows
  <2>5. a \in Int /\ b \in Int
    OBVIOUS
  <2>6. Cardinality(Lower(names, a)) + 1 = Cardinality(Lower(names, b)) + 1
    BY <1>3, <2>1
  <2>7. ~(a < b) /\ ~(b < a)
    <3> DEFINE below == Cardinality(Lower(names, a))
               under == Cardinality(Lower(names, b))
    <3>1. below \in Nat /\ under \in Nat /\ below + 1 = under + 1
      BY <2>2, <2>6
    <3> HIDE DEF below, under
    <3>2. ~(below < under) /\ ~(under < below)
      BY <3>1
    <3> QED BY <2>3, <2>4, <3>2 DEF below, under
  <2> QED BY <2>5, <2>7
<1>4. rank \in Injection(names, 1..n)
  BY <1>2, <1>3 DEF Injection, IsInjective
<1>5. IsFiniteSet(1..n) /\ Cardinality(1..n) = n
  BY <1>1, FS_Interval
<1>6. rank \in Surjection(names, 1..n)
  BY <1>4, <1>5, FS_Injection
<1>7. \A i \in 1..n : \E name \in names : rank[name] = i
  BY <1>6 DEF Surjection
<1>8. ASSUME NEW i \in 1..n
      PROVE  InOrder(names)[i] \in names /\ rank[InOrder(names)[i]] = i
  <2> DEFINE name == CHOOSE name \in names : Cardinality({other \in names : other < name}) = i - 1
  <2>1. PICK x \in names : rank[x] = i
    BY <1>7
  <2>2. Cardinality(Lower(names, x)) = i - 1
    <3>1. Cardinality(Lower(names, x)) \in Nat
      BY FS_Subset, FS_CardinalityType DEF Lower
    <3> QED BY <2>1, <3>1
  <2>3. name \in names /\ Cardinality(Lower(names, name)) = i - 1
    BY <2>2 DEF Lower
  <2>4. InOrder(names)[i] = name
    BY DEF InOrder
  <2> HIDE DEF name
  <2> QED BY <2>3, <2>4
<1>9. ASSUME NEW name \in names PROVE \E i \in 1..n : InOrder(names)[i] = name
  BY <1>2, <1>3, <1>8
<1> QED BY <1>1, <1>8, <1>9

(* Lists put one behind another.                                           *)
Joined(S, lists, n, t) ==
  /\ t \in [0..n -> Seq(S)] /\ t[0] = <<>> /\ FlattenSeq(lists) = t[n]
  /\ \A i \in 1..n : t[i] = t[i - 1] \o lists[i]

(* FlattenSeq puts one list behind another, list by list.                  *)
LEMMA FlattenTable ==
  ASSUME NEW S, NEW lists, NEW n \in Nat \ {0}, lists \in [1..n -> Seq(S)]
  PROVE  \E t : Joined(S, lists, n, t)
<1> DEFINE T == Seq(S)
           g == [i \in 1..n |-> [t \in T |-> t \o lists[i]]]
           flat == CHOOSE f : f = [i \in 1..n |-> IF i = 1 THEN lists[i] ELSE f[i - 1] \o lists[i]]
<1>1. Len(lists) = n /\ n # 0
  OBVIOUS
<1>2. FlattenSeq(lists) = flat[n]
  BY <1>1 DEF FlattenSeq
<1>3. <<>> \in T /\ \A i \in 1..n : \A t \in T : g[i][t] = t \o lists[i] /\ g[i][t] \in T
  OBVIOUS
<1>4. \A i \in 1..n : \A t \in T : g[i][t] \in T
  BY <1>3
<1>5. \A i \in 1..n : lists[i] \in Seq(S)
  OBVIOUS
<1> HIDE DEF T, g
<1>6. PICK t : t \in [0..n -> T] /\ t[0] = <<>> /\ \A i \in 1..n : t[i] = g[i][t[i - 1]]
  <2>1. PICK h : IsFold(n, T, <<>>, g, h)
    BY <1>3, <1>4, FoldExists
  <2>2. Solved(n, T, <<>>, g, h)
    BY <2>1 DEF IsFold, Folded, Solved
  <2>3. PICK t : IsTable(n, T, <<>>, g, h, t)
    BY <1>3, <1>4, <2>2, FoldTable
  <2> QED BY <2>3 DEF IsTable
<1>7. \A i \in 1..n : t[i] = t[i - 1] \o lists[i]
  <2>1. \A i \in 1..n : t[i - 1] \in T
    BY <1>6
  <2> QED BY <1>3, <1>6, <2>1
<1> DEFINE part == [i \in 1..n |-> t[i]]
<1>8. part = [i \in 1..n |-> IF i = 1 THEN lists[i] ELSE part[i - 1] \o lists[i]]
  <2> SUFFICES ASSUME NEW i \in 1..n
               PROVE  t[i] = IF i = 1 THEN lists[i] ELSE part[i - 1] \o lists[i]
    OBVIOUS
  <2>1. CASE i = 1
    <3>0. 1 \in 1..n /\ 1 - 1 = 0
      OBVIOUS
    <3>1. t[1] = <<>> \o lists[1]
      <4>1. t[1] = t[1 - 1] \o lists[1]
        BY <1>7, <3>0
      <4> QED BY <1>6, <3>0, <4>1
    <3>2. <<>> \o lists[1] = lists[1]
      BY <1>5, <3>0
    <3> QED BY <2>1, <3>1, <3>2
  <2>2. CASE i # 1
    <3>1. i - 1 \in 1..n
      BY <2>2
    <3> QED BY <1>7, <2>2, <3>1
  <2> QED BY <2>1, <2>2
<1>9. flat = [i \in 1..n |-> IF i = 1 THEN lists[i] ELSE flat[i - 1] \o lists[i]]
  BY <1>8
<1> HIDE DEF flat, part
<1>10. \A i \in 1..n : flat[i] = t[i]
  <2> DEFINE Good == {i \in 0..n : i # 0 => flat[i] = t[i]}
  <2>1. 0 \in Good
    OBVIOUS
  <2>2. ASSUME NEW i \in 1..n, i - 1 \in Good PROVE i \in Good
    <3>1. CASE i = 1
      <4>0. 1 \in 1..n /\ 1 - 1 = 0
        OBVIOUS
      <4>1. flat[1] = lists[1]
        <5>1. flat[1] = IF 1 = 1 THEN lists[1] ELSE flat[1 - 1] \o lists[1]
          BY <1>9, <4>0
        <5> QED BY <5>1
      <4>2. t[1] = <<>> \o lists[1]
        <5>1. t[1] = t[1 - 1] \o lists[1]
          BY <1>7, <4>0
        <5> QED BY <1>6, <4>0, <5>1
      <4>3. <<>> \o lists[1] = lists[1]
        BY <1>5, <4>0
      <4> QED BY <3>1, <4>1, <4>2, <4>3
    <3>2. CASE i # 1
      <4>1. i - 1 \in 1..n /\ flat[i - 1] = t[i - 1]
        BY <2>2, <3>2
      <4>2. flat[i] = t[i]
        BY <1>7, <1>9, <3>2, <4>1
      <4> QED BY <4>2
    <3> QED BY <3>1, <3>2
  <2>3. \A i \in 0..n : i \in Good
    <3> HIDE DEF Good
    <3> QED BY <2>1, <2>2, UpTo
  <2> QED BY <2>3
<1>11. FlattenSeq(lists) = t[n]
  <2>1. n \in 1..n
    OBVIOUS
  <2> QED BY <1>2, <1>10, <2>1
<1>12. t \in [0..n -> Seq(S)]
  BY <1>6 DEF T
<1> QED BY <1>6, <1>7, <1>11, <1>12 DEF Joined

(* The members of the lists are the members of the whole.                  *)
LEMMA FlattenMembers ==
  ASSUME NEW S, NEW lists \in Seq(Seq(S))
  PROVE  /\ FlattenSeq(lists) \in Seq(S)
         /\ \A x : x \in ToSet(FlattenSeq(lists)) <=> \E i \in DOMAIN lists : x \in ToSet(lists[i])
<1> DEFINE n == Len(lists)
<1>0. /\ n \in Nat /\ DOMAIN lists = 1..n /\ lists \in [1..n -> Seq(S)]
      /\ \A i \in 1..n : lists[i] \in Seq(S)
  OBVIOUS
<1>1. CASE n = 0
  <2>1. lists = <<>>
    BY <1>1
  <2>2. FlattenSeq(lists) = <<>>
    BY <1>1, <2>1 DEF FlattenSeq
  <2>3. FlattenSeq(lists) \in Seq(S) /\ DOMAIN FlattenSeq(lists) = {} /\ DOMAIN lists = {}
    <3>1. <<>> \in Seq(S) /\ Len(<<>>) = 0
      OBVIOUS
    <3>2. DOMAIN lists = {}
      BY <1>0, <1>1
    <3> QED BY <2>1, <2>2, <3>1, <3>2
  <2> QED BY <2>3 DEF ToSet
<1>2. CASE n # 0
  <2>0. PICK t : Joined(S, lists, n, t)
    <3>1. n \in Nat \ {0}
      BY <1>0, <1>2
    <3> HIDE DEF n
    <3> QED BY <1>0, <3>1, FlattenTable
  <2>1. /\ t \in [0..n -> Seq(S)] /\ t[0] = <<>> /\ FlattenSeq(lists) = t[n]
        /\ \A i \in 1..n : t[i] = t[i - 1] \o lists[i]
    BY <2>0 DEF Joined
  <2> HIDE DEF n
  <2> DEFINE In(x, i) == \E j \in 1..i : x \in ToSet(lists[j])
             Right(i) == \A x : x \in ToSet(t[i]) <=> In(x, i)
             Good == {i \in 0..n : Right(i)}
  <2>2. 0 \in Good
    <3>1. ToSet(t[0]) = {}
      BY <2>1 DEF ToSet
    <3>2. \A j : j \notin 1..0
      OBVIOUS
    <3> QED BY <1>0, <3>1, <3>2
  <2>3. ASSUME NEW i \in 1..n, i - 1 \in Good PROVE i \in Good
    <3>1. t[i - 1] \in Seq(S) /\ lists[i] \in Seq(S) /\ t[i] = t[i - 1] \o lists[i]
      <4>1. i - 1 \in 0..n
        BY <1>0
      <4>2. t[i - 1] \in Seq(S)
        BY <2>1, <4>1
      <4>3. lists[i] \in Seq(S)
        BY <1>0
      <4>4. t[i] = t[i - 1] \o lists[i]
        BY <2>1
      <4> QED BY <4>2, <4>3, <4>4
    <3>2. ToSet(t[i]) = ToSet(t[i - 1]) \cup ToSet(lists[i])
      BY <3>1, MembersOfBoth
    <3>3. \A x : In(x, i) <=> In(x, i - 1) \/ x \in ToSet(lists[i])
      <4>1. \A j : j \in 1..i <=> j \in 1..(i - 1) \/ j = i
        BY <1>0
      <4> QED BY <4>1
    <3>4. Right(i - 1)
      BY <2>3
    <3>5. Right(i)
      <4> HIDE DEF In
      <4> QED BY <3>2, <3>3, <3>4
    <3> QED BY <3>5
  <2>4. \A i \in 0..n : i \in Good
    <3> HIDE DEF Good
    <3> QED BY <1>0, <2>2, <2>3, UpTo
  <2>5. Right(n)
    <3> HIDE DEF Right
    <3> QED BY <1>0, <2>4
  <2>6. FlattenSeq(lists) \in Seq(S)
    BY <1>0, <2>1
  <2> QED BY <1>0, <2>1, <2>5, <2>6
<1> QED BY <1>1, <1>2

-----------------------------------------------------------------------------
(* What was observed of each check.                                        *)

(* What the check runs come to: each name's status is that of a run of it. *)
SeenRuns(R, seen) ==
  \A name :
    /\ name \in DOMAIN seen <=> \E r \in R : r.name = name
    /\ name \in DOMAIN seen => \E r \in R : r.name = name /\ seen[name] = CheckRunStatus(r)

(* One more run.                                                           *)
LEMMA RunAdds ==
  ASSUME NEW R, NEW seen, SeenRuns(R, seen), NEW run
  PROVE  SeenRuns(R \cup {run}, WithRun(seen, run))
<1> DEFINE new == WithRun(seen, run)
<1>1. DOMAIN new = DOMAIN seen \cup {run.name} /\ new[run.name] = CheckRunStatus(run)
      /\ \A x \in DOMAIN seen : x # run.name => new[x] = seen[x]
  BY DEF WithRun, Assign
<1> HIDE DEF new
<1>2. ASSUME NEW name
      PROVE  /\ name \in DOMAIN new <=> \E r \in R \cup {run} : r.name = name
             /\ name \in DOMAIN new =>
                  \E r \in R \cup {run} : r.name = name /\ new[name] = CheckRunStatus(r)
  <2>1. /\ name \in DOMAIN seen <=> \E r \in R : r.name = name
        /\ name \in DOMAIN seen => \E r \in R : r.name = name /\ seen[name] = CheckRunStatus(r)
    BY DEF SeenRuns
  <2>2. CASE name = run.name
    BY <1>1, <2>2
  <2>3. CASE name # run.name
    <3>1. name \in DOMAIN new <=> name \in DOMAIN seen
      BY <1>1, <2>3
    <3>2. name \in DOMAIN seen => new[name] = seen[name]
      BY <1>1, <2>3
    <3> QED BY <2>1, <2>3, <3>1, <3>2
  <2> QED BY <2>2, <2>3
<1> QED BY <1>2 DEF SeenRuns, new

(* After all runs each name has the status of one of its runs.             *)
LEMMA RunsSeen ==
  ASSUME NEW runs \in Seq(RunAnswer)
  PROVE  /\ FoldLeft(WithRun, <<>>, runs) \in Partials(Int, CheckStatus)
         /\ SeenRuns(ToSet(runs), FoldLeft(WithRun, <<>>, runs))
<1> DEFINE n == Len(runs)
<1>1. PICK t : /\ t \in [0..n -> Partials(Int, CheckStatus)] /\ t[0] = <<>>
               /\ FoldLeft(WithRun, <<>>, runs) = t[n]
               /\ \A i \in 1..n : t[i] = WithRun(t[i - 1], runs[i])
  BY RunsTable
<1>2. n \in Nat
  OBVIOUS
<1> DEFINE Good == {i \in 0..n : SeenRuns(FirstOf(runs, i), t[i])}
<1>3. 0 \in Good
  <2>1. FirstOf(runs, 0) = {} /\ DOMAIN t[0] = {}
    BY <1>1, FirstMembers
  <2>2. SeenRuns(FirstOf(runs, 0), t[0])
    BY <2>1 DEF SeenRuns
  <2> QED BY <1>2, <2>2
<1>4. ASSUME NEW i \in 1..n, i - 1 \in Good PROVE i \in Good
  <2>1. FirstOf(runs, i) = FirstOf(runs, i - 1) \cup {runs[i]}
    BY FirstMembers
  <2>2. SeenRuns(FirstOf(runs, i), t[i])
    <3>1. SeenRuns(FirstOf(runs, i - 1), t[i - 1]) /\ t[i] = WithRun(t[i - 1], runs[i])
      BY <1>1, <1>4
    <3> QED BY <2>1, <3>1, RunAdds
  <2> QED BY <1>2, <2>2
<1>5. n \in Good
  <2>1. \A i \in 0..n : i \in Good
    <3> HIDE DEF Good
    <3> QED BY <1>2, <1>3, <1>4, UpTo
  <2> QED BY <1>2, <2>1
<1>6. FirstOf(runs, n) = ToSet(runs)
  BY FirstMembers
<1> QED BY <1>1, <1>2, <1>5, <1>6

(* What the statuses add to that: a name's status is one somebody reported, *)
(* and a pass only if everybody reported a pass.                           *)
SeenStatuses(base, S, seen) ==
  \A name :
    /\ name \in DOMAIN seen <=> name \in DOMAIN base \/ \E s \in S : s.name = name
    /\ name \in DOMAIN seen =>
         \/ name \in DOMAIN base /\ seen[name] = base[name]
         \/ \E s \in S : s.name = name /\ seen[name] = StatusOf[s.state]
    /\ name \in DOMAIN seen /\ seen[name] = "passed" =>
         /\ name \in DOMAIN base => base[name] = "passed"
         /\ \A s \in S : s.name = name => StatusOf[s.state] = "passed"

(* One more status.                                                        *)
LEMMA StatusAdds ==
  ASSUME NEW base, NEW S, NEW seen \in Partials(Int, CheckStatus), SeenStatuses(base, S, seen),
         NEW status \in StatusAnswer, status.state \in DOMAIN StatusOf
  PROVE  SeenStatuses(base, S \cup {status}, WithStatus(seen, status))
<1> DEFINE new == WithStatus(seen, status)
           old == IF status.name \in DOMAIN seen THEN seen[status.name] ELSE None
           said == StatusOf[status.state]
<1>1. /\ DOMAIN new = DOMAIN seen \cup {status.name}
      /\ new[status.name] = WorseStatus(old, said)
      /\ \A x \in DOMAIN seen : x # status.name => new[x] = seen[x]
  BY StatusKept
<1>2. said \in CheckStatus /\ None \notin CheckStatus
  BY Outcomes, NoneAssumption
<1>3. \A x \in DOMAIN seen : seen[x] \in CheckStatus
  BY DEF Partials
<1>4. /\ WorseStatus(old, said) \in {old, said}
      /\ old = None => WorseStatus(old, said) = said
      /\ old # None /\ WorseStatus(old, said) = "passed" => old = "passed" /\ said = "passed"
  <2>1. old \in CheckStatus \cup {None}
    BY <1>3
  <2> HIDE DEF old, said
  <2> QED BY <1>2, <2>1, Outcomes
<1> HIDE DEF new
<1>5. ASSUME NEW name
      PROVE  /\ name \in DOMAIN new <=> name \in DOMAIN base \/ \E s \in S \cup {status} : s.name = name
             /\ name \in DOMAIN new =>
                  \/ name \in DOMAIN base /\ new[name] = base[name]
                  \/ \E s \in S \cup {status} : s.name = name /\ new[name] = StatusOf[s.state]
             /\ name \in DOMAIN new /\ new[name] = "passed" =>
                  /\ name \in DOMAIN base => base[name] = "passed"
                  /\ \A s \in S \cup {status} : s.name = name => StatusOf[s.state] = "passed"
  <2>1. /\ name \in DOMAIN seen <=> name \in DOMAIN base \/ \E s \in S : s.name = name
        /\ name \in DOMAIN seen =>
             \/ name \in DOMAIN base /\ seen[name] = base[name]
             \/ \E s \in S : s.name = name /\ seen[name] = StatusOf[s.state]
        /\ name \in DOMAIN seen /\ seen[name] = "passed" =>
             /\ name \in DOMAIN base => base[name] = "passed"
             /\ \A s \in S : s.name = name => StatusOf[s.state] = "passed"
    BY DEF SeenStatuses
  <2>2. CASE name = status.name /\ name \in DOMAIN seen
    <3>1. old = seen[name] /\ old # None
      BY <1>2, <1>3, <2>2
    <3>2. new[name] \in {seen[name], said}
          /\ (new[name] = "passed" => seen[name] = "passed" /\ said = "passed")
      BY <1>1, <1>4, <2>2, <3>1
    <3> QED BY <1>1, <2>1, <2>2, <3>2
  <2>3. CASE name = status.name /\ name \notin DOMAIN seen
    <3>1. new[name] = said
      BY <1>1, <1>4, <2>3
    <3> QED BY <1>1, <2>1, <2>3, <3>1
  <2>4. CASE name # status.name
    <3>1. name \in DOMAIN new <=> name \in DOMAIN seen
      BY <1>1, <2>4
    <3>2. name \in DOMAIN seen => new[name] = seen[name]
      BY <1>1, <2>4
    <3> QED BY <2>1, <2>4, <3>1, <3>2
  <2> QED BY <2>2, <2>3, <2>4
<1> QED BY <1>5 DEF SeenStatuses, new

(* After all statuses each name has one that was observed of it.           *)
LEMMA StatusesSeen ==
  ASSUME NEW base \in Partials(Int, CheckStatus), NEW statuses \in Seq(StatusAnswer),
         \A i \in DOMAIN statuses : statuses[i].state \in DOMAIN StatusOf
  PROVE  /\ FoldLeft(WithStatus, base, statuses) \in Partials(Int, CheckStatus)
         /\ SeenStatuses(base, ToSet(statuses), FoldLeft(WithStatus, base, statuses))
<1> DEFINE n == Len(statuses)
<1>1. PICK t : /\ t \in [0..n -> Partials(Int, CheckStatus)] /\ t[0] = base
               /\ FoldLeft(WithStatus, base, statuses) = t[n]
               /\ \A i \in 1..n : t[i] = WithStatus(t[i - 1], statuses[i])
  BY StatusesTable
<1>2. n \in Nat /\ \A i \in 1..n : statuses[i] \in StatusAnswer /\ statuses[i].state \in DOMAIN StatusOf
  OBVIOUS
<1> DEFINE Good == {i \in 0..n : SeenStatuses(base, FirstOf(statuses, i), t[i])}
<1>3. 0 \in Good
  <2>1. FirstOf(statuses, 0) = {}
    BY FirstMembers
  <2>2. SeenStatuses(base, {}, base)
    BY DEF SeenStatuses
  <2>3. t[0] = base
    BY <1>1
  <2>4. SeenStatuses(base, FirstOf(statuses, 0), t[0])
    BY <2>1, <2>2, <2>3
  <2> QED BY <1>2, <2>4
<1>4. ASSUME NEW i \in 1..n, i - 1 \in Good PROVE i \in Good
  <2>1. FirstOf(statuses, i) = FirstOf(statuses, i - 1) \cup {statuses[i]}
    BY FirstMembers
  <2>2. SeenStatuses(base, FirstOf(statuses, i), t[i])
    <3>1. /\ SeenStatuses(base, FirstOf(statuses, i - 1), t[i - 1])
          /\ t[i] = WithStatus(t[i - 1], statuses[i])
          /\ t[i - 1] \in Partials(Int, CheckStatus)
      <4>1. i - 1 \in 0..n
        BY <1>2
      <4> QED BY <1>1, <1>4, <4>1
    <3> QED BY <1>2, <2>1, <3>1, StatusAdds
  <2> QED BY <1>2, <2>2
<1>5. n \in Good
  <2>1. \A i \in 0..n : i \in Good
    <3> HIDE DEF Good
    <3> QED BY <1>2, <1>3, <1>4, UpTo
  <2> QED BY <1>2, <2>1
<1>6. FirstOf(statuses, n) = ToSet(statuses)
  BY FirstMembers
<1> QED BY <1>1, <1>2, <1>5, <1>6

(* Both together.                                                          *)
LEMMA ObservedStatus ==
  ASSUME NEW runs \in Seq(RunAnswer), NEW statuses \in Seq(StatusAnswer),
         \A i \in DOMAIN statuses : statuses[i].state \in DOMAIN StatusOf, NEW name
  PROVE  /\ Observed(runs, statuses) \in Partials(Int, CheckStatus)
         /\ name \in DOMAIN Observed(runs, statuses) <=>
              \/ \E r \in ToSet(runs) : r.name = name
              \/ \E s \in ToSet(statuses) : s.name = name
         /\ name \in DOMAIN Observed(runs, statuses) =>
              \/ \E r \in ToSet(runs) : r.name = name /\ Observed(runs, statuses)[name] = CheckRunStatus(r)
              \/ \E s \in ToSet(statuses) : s.name = name /\ Observed(runs, statuses)[name] = StatusOf[s.state]
         /\ name \in DOMAIN Observed(runs, statuses) /\ Observed(runs, statuses)[name] = "passed" =>
              /\ (\E r \in ToSet(runs) : r.name = name) =>
                   \E r \in ToSet(runs) : r.name = name /\ CheckRunStatus(r) = "passed"
              /\ \A s \in ToSet(statuses) : s.name = name => StatusOf[s.state] = "passed"
<1> DEFINE base == FoldLeft(WithRun, <<>>, runs)
           seen == FoldLeft(WithStatus, base, statuses)
<1>1. base \in Partials(Int, CheckStatus) /\ SeenRuns(ToSet(runs), base)
  BY RunsSeen
<1>2. Observed(runs, statuses) = seen
  BY DEF Observed
<1> HIDE DEF base
<1>3. seen \in Partials(Int, CheckStatus) /\ SeenStatuses(base, ToSet(statuses), seen)
  BY <1>1, StatusesSeen
<1> HIDE DEF seen
<1>4. /\ name \in DOMAIN base <=> \E r \in ToSet(runs) : r.name = name
      /\ name \in DOMAIN base => \E r \in ToSet(runs) : r.name = name /\ base[name] = CheckRunStatus(r)
  BY <1>1 DEF SeenRuns
<1>5. /\ name \in DOMAIN seen <=> name \in DOMAIN base \/ \E s \in ToSet(statuses) : s.name = name
      /\ name \in DOMAIN seen =>
           \/ name \in DOMAIN base /\ seen[name] = base[name]
           \/ \E s \in ToSet(statuses) : s.name = name /\ seen[name] = StatusOf[s.state]
      /\ name \in DOMAIN seen /\ seen[name] = "passed" =>
           /\ name \in DOMAIN base => base[name] = "passed"
           /\ \A s \in ToSet(statuses) : s.name = name => StatusOf[s.state] = "passed"
  BY <1>3 DEF SeenStatuses
<1> QED BY <1>2, <1>3, <1>4, <1>5

-----------------------------------------------------------------------------
(* The findings of the policy.                                             *)

(* What findings are made of.                                              *)
Fields ==
  {"is_draft", "state", "mergeability", "required_checks_known", "reviews_known",
   "required_approval_count", "approvals.count", "changes_requested", "linked_jira_key",
   "issue_key", "status_category", "blocker_state", "check.name", "check.status"}
Reasons ==
  {"pr_is_draft", "pr_closed_unmerged", "merge_conflict", "ci_check_failed", "ci_check_pending",
   "approval_missing", "changes_requested", "jira_link_missing", "jira_not_complete",
   "jira_blocker_present", "evidence_unavailable"}
Actions ==
  {"mark_pr_ready", "reopen_pr", "resolve_merge_conflict", "fix_ci_check", "wait_for_ci_check",
   "get_required_approval", "address_requested_changes", "link_jira_issue", "complete_jira_issue",
   "clear_jira_blocker", "retry_evidence"}
Finding ==
  [blocking : BOOLEAN, reason : Reasons, cites : SUBSET (Fields \X Nat), action : Actions]

(* What a finding cites are fields, each with a place.                     *)
LEMMA CitesFields ==
  ASSUME NEW fields \in SUBSET Fields, NEW index \in Nat
  PROVE  Cite(fields, index) \in SUBSET (Fields \X Nat)
BY DEF Cite

(* What Blocker makes.                                                     *)
LEMMA FindingMade ==
  ASSUME NEW fields \in SUBSET Fields, NEW reason \in Reasons, NEW action \in Actions
  PROVE  /\ Blocker(reason, fields, action) \in Finding
         /\ Blocker(reason, fields, action).blocking = TRUE
         /\ Blocker(reason, fields, action).reason = reason
<1>1. Cite(fields, 0) \in SUBSET (Fields \X Nat)
  BY CitesFields
<1> QED BY <1>1 DEF Blocker, Finding

(* What Missing makes.                                                     *)
LEMMA MissingMade ==
  ASSUME NEW fields \in SUBSET Fields
  PROVE  Missing(fields) \in Finding /\ Missing(fields).blocking = FALSE
<1>1. Cite(fields, 0) \in SUBSET (Fields \X Nat)
  BY CitesFields
<1> QED BY <1>1 DEF Missing, Finding, Reasons, Actions

(* A list of at most one member.                                           *)
LEMMA OneMember ==
  ASSUME NEW S, NEW x \in S
  PROVE  /\ <<x>> \in Seq(S) /\ ToSet(<<x>>) = {x}
         /\ \A condition \in BOOLEAN :
              If(condition, x) \in Seq(S) /\ \A y : y \in ToSet(If(condition, x)) <=> condition /\ y = x
<1>1. /\ <<x>> \in Seq(S) /\ DOMAIN <<x>> = {1} /\ <<x>>[1] = x
      /\ <<>> \in Seq(S)
  OBVIOUS
<1>2. ToSet(<<x>>) = {x}
  BY <1>1 DEF ToSet
<1>3. DOMAIN <<>> = {}
  OBVIOUS
<1>4. ToSet(<<>>) = {}
  BY <1>3 DEF ToSet
<1> QED BY <1>1, <1>2, <1>4 DEF If

(* A list has no member only when it is empty.                             *)
LEMMA NoMember ==
  ASSUME NEW S, NEW list \in Seq(S)
  PROVE  list = <<>> <=> ToSet(list) = {}
<1>1. list = <<>> => DOMAIN list = {}
  OBVIOUS
<1>2. ASSUME list # <<>> PROVE 1 \in DOMAIN list
  BY <1>2
<1> QED BY <1>1, <1>2 DEF ToSet

(* Four lists one behind another.                                          *)
LEMMA FourLists ==
  ASSUME NEW S, NEW a \in Seq(S), NEW b \in Seq(S), NEW c \in Seq(S), NEW d \in Seq(S)
  PROVE  /\ ((a \o b) \o c) \o d \in Seq(S)
         /\ \A x : x \in ToSet(((a \o b) \o c) \o d) <=>
              \/ x \in ToSet(a)
              \/ x \in ToSet(b)
              \/ x \in ToSet(c)
              \/ x \in ToSet(d)
<1>1. a \o b \in Seq(S) /\ ToSet(a \o b) = ToSet(a) \cup ToSet(b)
  BY MembersOfBoth
<1> DEFINE two == a \o b
           three == two \o c
<1>2. two \in Seq(S)
  BY <1>1
<1> HIDE DEF two
<1>3. three \in Seq(S) /\ ToSet(three) = ToSet(two) \cup ToSet(c)
  BY <1>2, MembersOfBoth
<1> HIDE DEF three
<1>4. three \o d \in Seq(S) /\ ToSet(three \o d) = ToSet(three) \cup ToSet(d)
  BY <1>3, MembersOfBoth
<1> QED BY <1>1, <1>3, <1>4 DEF two, three

(* The findings about the pull request itself.                             *)
LEMMA PullMembers ==
  ASSUME NEW github \in GitHubFacts
  PROVE  /\ PullFindings(github) \in Seq(Finding)
         /\ \A f : f \in ToSet(PullFindings(github)) <=>
              \/ github.draft /\ f = Blocker("pr_is_draft", {"is_draft"}, "mark_pr_ready")
              \/ github.state = "closed" /\ f = Blocker("pr_closed_unmerged", {"state"}, "reopen_pr")
              \/ /\ github.mergeability = "conflicting"
                 /\ f = Blocker("merge_conflict", {"mergeability"}, "resolve_merge_conflict")
              \/ github.mergeability = "unknown" /\ f = Missing({"mergeability"})
<1> DEFINE a == Blocker("pr_is_draft", {"is_draft"}, "mark_pr_ready")
           b == Blocker("pr_closed_unmerged", {"state"}, "reopen_pr")
           c == Blocker("merge_conflict", {"mergeability"}, "resolve_merge_conflict")
           d == Missing({"mergeability"})
           p == github.draft
           q == github.state = "closed"
           r == github.mergeability = "conflicting"
           s == github.mergeability = "unknown"
<1>1. /\ {"is_draft"} \in SUBSET Fields /\ {"state"} \in SUBSET Fields /\ {"mergeability"} \in SUBSET Fields
      /\ {"pr_is_draft", "pr_closed_unmerged", "merge_conflict"} \subseteq Reasons
      /\ {"mark_pr_ready", "reopen_pr", "resolve_merge_conflict"} \subseteq Actions
  BY DEF Fields, Reasons, Actions
<1>2. a \in Finding /\ b \in Finding /\ c \in Finding /\ d \in Finding
  BY <1>1, FindingMade, MissingMade
<1>3. p \in BOOLEAN /\ q \in BOOLEAN /\ r \in BOOLEAN /\ s \in BOOLEAN
  BY DEF GitHubFacts
<1>4. PullFindings(github) = ((If(p, a) \o If(q, b)) \o If(r, c)) \o If(s, d)
  BY DEF PullFindings
<1> HIDE DEF a, b, c, d, p, q, r, s
<1>5. /\ If(p, a) \in Seq(Finding) /\ \A y : y \in ToSet(If(p, a)) <=> p /\ y = a
      /\ If(q, b) \in Seq(Finding) /\ \A y : y \in ToSet(If(q, b)) <=> q /\ y = b
      /\ If(r, c) \in Seq(Finding) /\ \A y : y \in ToSet(If(r, c)) <=> r /\ y = c
      /\ If(s, d) \in Seq(Finding) /\ \A y : y \in ToSet(If(s, d)) <=> s /\ y = d
  BY <1>2, <1>3, OneMember
<1>6. /\ PullFindings(github) \in Seq(Finding)
      /\ \A x : x \in ToSet(PullFindings(github)) <=>
           \/ x \in ToSet(If(p, a))
           \/ x \in ToSet(If(q, b))
           \/ x \in ToSet(If(r, c))
           \/ x \in ToSet(If(s, d))
  <2> DEFINE A == If(p, a)
             B == If(q, b)
             C == If(r, c)
             D == If(s, d)
  <2>1. A \in Seq(Finding) /\ B \in Seq(Finding) /\ C \in Seq(Finding) /\ D \in Seq(Finding)
    BY <1>5
  <2>2. PullFindings(github) = ((A \o B) \o C) \o D
    BY <1>4
  <2> HIDE DEF A, B, C, D
  <2>3. /\ ((A \o B) \o C) \o D \in Seq(Finding)
        /\ \A x : x \in ToSet(((A \o B) \o C) \o D) <=>
             \/ x \in ToSet(A)
             \/ x \in ToSet(B)
             \/ x \in ToSet(C)
             \/ x \in ToSet(D)
    BY <2>1, FourLists
  <2> QED BY <2>2, <2>3 DEF A, B, C, D
<1>7. \A f : f \in ToSet(PullFindings(github)) <=>
        \/ p /\ f = a
        \/ q /\ f = b
        \/ r /\ f = c
        \/ s /\ f = d
  BY <1>5, <1>6
<1> QED BY <1>6, <1>7 DEF a, b, c, d, p, q, r, s

(* The findings about the checks in one status.                            *)
SomeCheck(checks, status) == \E i \in DOMAIN checks : checks[i].status = status

(* A list of findings of one kind, not empty if some check asks for one.   *)
Report(list, checks, status, reason) ==
  /\ list \in Seq(Finding)
  /\ \A f \in ToSet(list) : f.blocking /\ f.reason = reason /\ SomeCheck(checks, status)
  /\ SomeCheck(checks, status) => ToSet(list) # {}

(* There is a finding for a status exactly if some check is in it.         *)
LEMMA ChecksMembers ==
  ASSUME NEW checks \in Seq(Check), NEW status \in CheckStatus,
         NEW reason \in Reasons, NEW action \in Actions
  PROVE  Report(ChecksThatAre(checks, status, reason, action), checks, status, reason)
<1> DEFINE about(i) == [Blocker(reason, {}, action) EXCEPT !.cites = OfCheck(i)]
           lists == [i \in DOMAIN checks |-> If(checks[i].status = status, about(i))]
<1>1. DOMAIN checks = 1..Len(checks) /\ Len(checks) \in Nat
  OBVIOUS
<1>2. ASSUME NEW i \in DOMAIN checks
      PROVE  about(i) \in Finding /\ about(i).blocking /\ about(i).reason = reason
  <2>1. OfCheck(i) \in SUBSET (Fields \X Nat)
    <3>1. {"check.name", "check.status"} \in SUBSET Fields /\ i \in Nat
      BY <1>1 DEF Fields
    <3> QED BY <3>1, CitesFields DEF OfCheck
  <2> DEFINE bare == Blocker(reason, {}, action)
  <2>2. bare \in Finding /\ bare.blocking = TRUE /\ bare.reason = reason
    <3>1. {} \in SUBSET Fields
      OBVIOUS
    <3> QED BY <3>1, FindingMade
  <2> HIDE DEF bare
  <2>3. /\ [bare EXCEPT !.cites = OfCheck(i)] \in Finding
        /\ [bare EXCEPT !.cites = OfCheck(i)].blocking = TRUE
        /\ [bare EXCEPT !.cites = OfCheck(i)].reason = reason
    BY <2>1, <2>2 DEF Finding
  <2> QED BY <2>3 DEF bare
<1>3. ChecksThatAre(checks, status, reason, action) = FlattenSeq(lists)
  BY DEF ChecksThatAre
<1> HIDE DEF about
<1>4. ASSUME NEW i \in DOMAIN checks
      PROVE  lists[i] \in Seq(Finding)
             /\ \A y : y \in ToSet(lists[i]) <=> checks[i].status = status /\ y = about(i)
  <2>1. (checks[i].status = status) \in BOOLEAN
    OBVIOUS
  <2>2. lists[i] = If(checks[i].status = status, about(i))
    OBVIOUS
  <2>3. If(checks[i].status = status, about(i)) \in Seq(Finding)
        /\ \A y : y \in ToSet(If(checks[i].status = status, about(i)))
                    <=> checks[i].status = status /\ y = about(i)
    <3> DEFINE finding == about(i)
               condition == checks[i].status = status
    <3>1. finding \in Finding /\ condition \in BOOLEAN
      BY <1>2
    <3> HIDE DEF finding, condition
    <3>2. If(condition, finding) \in Seq(Finding)
          /\ \A y : y \in ToSet(If(condition, finding)) <=> condition /\ y = finding
      BY <3>1, OneMember
    <3> QED BY <3>2 DEF finding, condition
  <2> HIDE DEF lists
  <2> QED BY <2>2, <2>3
<1>5. lists \in Seq(Seq(Finding)) /\ DOMAIN lists = DOMAIN checks
  <2>1. lists \in [1..Len(checks) -> Seq(Finding)]
    BY <1>1, <1>4
  <2> QED BY <1>1, <2>1
<1> HIDE DEF lists
<1>6. /\ FlattenSeq(lists) \in Seq(Finding)
      /\ \A x : x \in ToSet(FlattenSeq(lists)) <=> \E i \in DOMAIN lists : x \in ToSet(lists[i])
  BY <1>5, FlattenMembers
<1>7. \A x : x \in ToSet(FlattenSeq(lists)) <=>
        \E i \in DOMAIN checks : checks[i].status = status /\ x = about(i)
  BY <1>4, <1>5, <1>6
<1> QED BY <1>2, <1>3, <1>6, <1>7 DEF Report, SomeCheck

(* Why the policy has a blocker, what it lacks, and when it has no finding. *)
BlockedFor(github, jira, reason) ==
  \/ reason = "pr_is_draft" /\ github.draft
  \/ reason = "pr_closed_unmerged" /\ github.state = "closed"
  \/ reason = "merge_conflict" /\ github.mergeability = "conflicting"
  \/ /\ reason = "ci_check_failed" /\ github.checksKnown
     /\ \E i \in DOMAIN github.checks : github.checks[i].status = "failed"
  \/ /\ reason = "ci_check_pending" /\ github.checksKnown
     /\ \E i \in DOMAIN github.checks : github.checks[i].status = "pending"
  \/ /\ reason = "approval_missing" /\ github.reviewsKnown
     /\ github.required # None /\ github.approvals < github.required
  \/ reason = "changes_requested" /\ github.reviewsKnown /\ github.changesRequested
  \/ reason = "jira_link_missing" /\ github.key = None
  \/ reason = "jira_not_complete" /\ jira # None /\ jira.status # "done"
  \/ reason = "jira_blocker_present" /\ jira # None /\ jira.blocked

(* Something about the facts is not known.                                 *)
Lacking(github, jira) ==
  \/ github.mergeability = "unknown" \/ ~github.checksKnown
  \/ ~github.reviewsKnown \/ github.required = None
  \/ github.key # None /\ (jira = None \/ jira.key # github.key)

(* Nothing is in the way and everything is known.                          *)
Clear(github, jira) ==
  /\ ~github.draft /\ github.state # "closed" /\ github.mergeability = "mergeable"
  /\ github.checksKnown
  /\ \A i \in DOMAIN github.checks : github.checks[i].status = "passed"
  /\ github.reviewsKnown /\ github.required # None /\ ~(github.approvals < github.required)
  /\ ~github.changesRequested
  /\ github.key # None /\ jira # None /\ jira.key = github.key /\ jira.status = "done"

(* Every finding is true of the facts.                                     *)
Sound(findings, github, jira) ==
  \A f \in ToSet(findings) :
    /\ f.blocking => BlockedFor(github, jira, f.reason)
    /\ ~f.blocking => Lacking(github, jira)

(* The findings about the pull request; none if it is in order.            *)
LEMMA PullSound ==
  ASSUME NEW github \in GitHubFacts, NEW jira
  PROVE  /\ PullFindings(github) \in Seq(Finding) /\ Sound(PullFindings(github), github, jira)
         /\ ToSet(PullFindings(github)) = {} =>
              ~github.draft /\ github.state # "closed" /\ github.mergeability = "mergeable"
<1> DEFINE list == PullFindings(github)
<1>1. /\ list \in Seq(Finding)
      /\ \A f : f \in ToSet(list) <=>
           \/ github.draft /\ f = Blocker("pr_is_draft", {"is_draft"}, "mark_pr_ready")
           \/ github.state = "closed" /\ f = Blocker("pr_closed_unmerged", {"state"}, "reopen_pr")
           \/ /\ github.mergeability = "conflicting"
              /\ f = Blocker("merge_conflict", {"mergeability"}, "resolve_merge_conflict")
           \/ github.mergeability = "unknown" /\ f = Missing({"mergeability"})
  BY PullMembers
<1> HIDE DEF list
<1>2. Sound(list, github, jira)
  BY <1>1 DEF Sound, Blocker, Missing, BlockedFor, Lacking
<1>3. ToSet(list) = {} => ~github.draft /\ github.state # "closed" /\ github.mergeability = "mergeable"
  BY <1>1 DEF GitHubFacts
<1> QED BY <1>1, <1>2, <1>3 DEF list

(* The findings about the checks; none if all are known and passed.        *)
LEMMA CheckSound ==
  ASSUME NEW github \in GitHubFacts, NEW jira
  PROVE  /\ CheckFindings(github) \in Seq(Finding) /\ Sound(CheckFindings(github), github, jira)
         /\ ToSet(CheckFindings(github)) = {} =>
              /\ github.checksKnown
              /\ \A i \in DOMAIN github.checks : github.checks[i].status = "passed"
<1> DEFINE list == CheckFindings(github)
<1>1. CASE ~github.checksKnown
  <2> DEFINE one == Missing({"required_checks_known"})
  <2>1. one \in Finding /\ one.blocking = FALSE
    <3>1. {"required_checks_known"} \in SUBSET Fields
      BY DEF Fields
    <3> QED BY <3>1, MissingMade
  <2>2. list = <<one>>
    BY <1>1 DEF CheckFindings
  <2> HIDE DEF one
  <2>3. list \in Seq(Finding) /\ ToSet(list) = {one}
    BY <2>1, <2>2, OneMember
  <2> QED BY <1>1, <2>1, <2>3 DEF Sound, Lacking
<1>2. CASE github.checksKnown
  <2> DEFINE checks == github.checks
             failed == ChecksThatAre(checks, "failed", "ci_check_failed", "fix_ci_check")
             pending == ChecksThatAre(checks, "pending", "ci_check_pending", "wait_for_ci_check")
  <2>1. github.checks \in Seq(Check) /\ \A i \in DOMAIN github.checks : github.checks[i].status \in CheckStatus
    <3>1. github.checks \in Seq(Check)
      BY DEF GitHubFacts
    <3>2. \A i \in DOMAIN github.checks : github.checks[i] \in Check
      BY <3>1
    <3> QED BY <3>1, <3>2 DEF Check
  <2>2. /\ "failed" \in CheckStatus /\ "pending" \in CheckStatus
        /\ "ci_check_failed" \in Reasons /\ "ci_check_pending" \in Reasons
        /\ "fix_ci_check" \in Actions /\ "wait_for_ci_check" \in Actions
    BY DEF CheckStatus, Reasons, Actions
  <2>0. checks \in Seq(Check)
    BY <2>1
  <2> HIDE DEF checks
  <2>3. /\ failed \in Seq(Finding)
        /\ \A f \in ToSet(failed) : f.blocking /\ f.reason = "ci_check_failed" /\ SomeCheck(checks, "failed")
        /\ SomeCheck(checks, "failed") => ToSet(failed) # {}
    <3>1. Report(failed, checks, "failed", "ci_check_failed")
      BY <2>0, <2>2, ChecksMembers
    <3> QED BY <3>1 DEF Report
  <2>4. /\ pending \in Seq(Finding)
        /\ \A f \in ToSet(pending) : f.blocking /\ f.reason = "ci_check_pending" /\ SomeCheck(checks, "pending")
        /\ SomeCheck(checks, "pending") => ToSet(pending) # {}
    <3>1. Report(pending, checks, "pending", "ci_check_pending")
      BY <2>0, <2>2, ChecksMembers
    <3> QED BY <3>1 DEF Report
  <2>5. list = failed \o pending
    BY <1>2 DEF CheckFindings, checks
  <2> HIDE DEF failed, pending, list
  <2>6. list \in Seq(Finding) /\ ToSet(list) = ToSet(failed) \cup ToSet(pending)
    BY <2>3, <2>4, <2>5, MembersOfBoth
  <2>7. Sound(list, github, jira)
    BY <1>2, <2>3, <2>4, <2>6 DEF Sound, BlockedFor, SomeCheck, checks
  <2>8. ToSet(list) = {} => \A i \in DOMAIN github.checks : github.checks[i].status = "passed"
    BY <2>1, <2>3, <2>4, <2>6 DEF CheckStatus, SomeCheck, checks
  <2> QED BY <1>2, <2>6, <2>7, <2>8 DEF list
<1> QED BY <1>1, <1>2 DEF GitHubFacts

(* The findings about the reviews; none if enough approve and nobody       *)
(* objects.                                                                *)
LEMMA ReviewSound ==
  ASSUME NEW github \in GitHubFacts, NEW jira
  PROVE  /\ ReviewFindings(github) \in Seq(Finding) /\ Sound(ReviewFindings(github), github, jira)
         /\ ToSet(ReviewFindings(github)) = {} =>
              /\ github.reviewsKnown /\ github.required # None
              /\ ~(github.approvals < github.required) /\ ~github.changesRequested
<1> DEFINE unread == Missing({"reviews_known"})
           unset == Missing({"required_approval_count"})
           few == Blocker("approval_missing", {"approvals.count", "required_approval_count"},
                          "get_required_approval")
           asked == Blocker("changes_requested", {"changes_requested"}, "address_requested_changes")
           p == github.approvals < github.required
           q == github.reviewsKnown /\ github.changesRequested
           first == IF ~github.reviewsKnown THEN <<unread>>
                    ELSE IF github.required = None THEN <<unset>> ELSE If(p, few)
<1>1. /\ {"reviews_known"} \in SUBSET Fields /\ {"required_approval_count"} \in SUBSET Fields
      /\ {"approvals.count", "required_approval_count"} \in SUBSET Fields
      /\ {"changes_requested"} \in SUBSET Fields
      /\ "approval_missing" \in Reasons /\ "changes_requested" \in Reasons
      /\ "get_required_approval" \in Actions /\ "address_requested_changes" \in Actions
  BY DEF Fields, Reasons, Actions
<1>2. /\ unread \in Finding /\ unread.blocking = FALSE
      /\ unset \in Finding /\ unset.blocking = FALSE
      /\ few \in Finding /\ few.blocking = TRUE /\ few.reason = "approval_missing"
      /\ asked \in Finding /\ asked.blocking = TRUE /\ asked.reason = "changes_requested"
  <2>1. /\ unread \in Finding /\ unread.blocking = FALSE
        /\ unset \in Finding /\ unset.blocking = FALSE
    BY <1>1, MissingMade
  <2>2. few \in Finding /\ few.blocking = TRUE /\ few.reason = "approval_missing"
    BY <1>1, FindingMade
  <2>3. asked \in Finding /\ asked.blocking = TRUE /\ asked.reason = "changes_requested"
    BY <1>1, FindingMade
  <2> QED BY <2>1, <2>2, <2>3
<1>3. ReviewFindings(github) = first \o If(q, asked)
  BY DEF ReviewFindings
<1>4. github.reviewsKnown \in BOOLEAN /\ github.changesRequested \in BOOLEAN /\ p \in BOOLEAN /\ q \in BOOLEAN
  BY DEF GitHubFacts
<1>5. /\ github.reviewsKnown /\ github.required # None /\ p =>
           BlockedFor(github, jira, "approval_missing")
      /\ q => BlockedFor(github, jira, "changes_requested")
  BY DEF BlockedFor
<1> HIDE DEF unread, unset, few, asked, q
<1>6. /\ first \in Seq(Finding)
      /\ ~github.reviewsKnown => ToSet(first) = {unread}
      /\ github.reviewsKnown /\ github.required = None => ToSet(first) = {unset}
      /\ github.reviewsKnown /\ github.required # None =>
           \A y : y \in ToSet(first) <=> p /\ y = few
  <2> HIDE DEF p
  <2>1. <<unread>> \in Seq(Finding) /\ ToSet(<<unread>>) = {unread}
    BY <1>2, OneMember
  <2>2. <<unset>> \in Seq(Finding) /\ ToSet(<<unset>>) = {unset}
    BY <1>2, OneMember
  <2>3. If(p, few) \in Seq(Finding) /\ \A y : y \in ToSet(If(p, few)) <=> p /\ y = few
    BY <1>2, <1>4, OneMember
  <2> QED BY <1>4, <2>1, <2>2, <2>3
<1>7. If(q, asked) \in Seq(Finding) /\ \A y : y \in ToSet(If(q, asked)) <=> q /\ y = asked
  BY <1>2, <1>4, OneMember
<1> HIDE DEF first, p
<1> DEFINE second == If(q, asked)
           list == first \o second
<1>8. list \in Seq(Finding) /\ ToSet(list) = ToSet(first) \cup ToSet(second)
  <2>1. second \in Seq(Finding)
    BY <1>7
  <2> HIDE DEF second
  <2> QED BY <1>6, <2>1, MembersOfBoth
<1> HIDE DEF list
<1>9. Sound(list, github, jira)
  <2> SUFFICES ASSUME NEW f \in ToSet(list)
               PROVE  /\ f.blocking => BlockedFor(github, jira, f.reason)
                      /\ ~f.blocking => Lacking(github, jira)
    BY DEF Sound
  <2>1. CASE f \in ToSet(first)
    <3>1. CASE ~github.reviewsKnown \/ github.required = None
      BY <1>2, <1>4, <1>6, <2>1, <3>1 DEF Lacking
    <3>2. CASE github.reviewsKnown /\ github.required # None
      BY <1>2, <1>5, <1>6, <2>1, <3>2
    <3> QED BY <1>4, <3>1, <3>2
  <2>2. CASE f \in ToSet(second)
    BY <1>2, <1>5, <1>7, <2>2
  <2> QED BY <1>8, <2>1, <2>2
<1>10. ToSet(list) = {} =>
         /\ github.reviewsKnown /\ github.required # None /\ ~p /\ ~q
  BY <1>4, <1>6, <1>7, <1>8
<1>11. ReviewFindings(github) = list
  BY <1>3 DEF list
<1> QED BY <1>4, <1>8, <1>9, <1>10, <1>11 DEF p, q

(* The findings about the ticket; none if the linked one is done.          *)
LEMMA JiraSound ==
  ASSUME NEW github \in GitHubFacts, NEW jira \in JiraFacts \cup {None}
  PROVE  /\ JiraFindings(github, jira) \in Seq(Finding) /\ Sound(JiraFindings(github, jira), github, jira)
         /\ ToSet(JiraFindings(github, jira)) = {} =>
              github.key # None /\ jira # None /\ jira.key = github.key /\ jira.status = "done"
<1> DEFINE unlinked == Blocker("jira_link_missing", {"linked_jira_key"}, "link_jira_issue")
           unread == Missing({})
           other == Missing({"linked_jira_key", "issue_key"})
           open == Blocker("jira_not_complete", {"issue_key", "status_category"}, "complete_jira_issue")
           held == Blocker("jira_blocker_present", {"issue_key", "blocker_state"}, "clear_jira_blocker")
           list == JiraFindings(github, jira)
<1>1. /\ {"linked_jira_key"} \in SUBSET Fields /\ {} \in SUBSET Fields
      /\ {"linked_jira_key", "issue_key"} \in SUBSET Fields
      /\ {"issue_key", "status_category"} \in SUBSET Fields
      /\ {"issue_key", "blocker_state"} \in SUBSET Fields
      /\ "jira_link_missing" \in Reasons /\ "jira_not_complete" \in Reasons /\ "jira_blocker_present" \in Reasons
      /\ "link_jira_issue" \in Actions /\ "complete_jira_issue" \in Actions /\ "clear_jira_blocker" \in Actions
  BY DEF Fields, Reasons, Actions
<1>2. /\ unlinked \in Finding /\ unlinked.blocking = TRUE /\ unlinked.reason = "jira_link_missing"
      /\ unread \in Finding /\ unread.blocking = FALSE
      /\ other \in Finding /\ other.blocking = FALSE
      /\ open \in Finding /\ open.blocking = TRUE /\ open.reason = "jira_not_complete"
      /\ held \in Finding /\ held.blocking = TRUE /\ held.reason = "jira_blocker_present"
  <2>1. /\ unread \in Finding /\ unread.blocking = FALSE
        /\ other \in Finding /\ other.blocking = FALSE
    BY <1>1, MissingMade
  <2>2. unlinked \in Finding /\ unlinked.blocking = TRUE /\ unlinked.reason = "jira_link_missing"
    <3>1. /\ {"linked_jira_key"} \in SUBSET Fields
          /\ "jira_link_missing" \in Reasons /\ "link_jira_issue" \in Actions
      BY <1>1
    <3> QED BY <3>1, FindingMade
  <2>3. open \in Finding /\ open.blocking = TRUE /\ open.reason = "jira_not_complete"
    BY <1>1, FindingMade
  <2>4. held \in Finding /\ held.blocking = TRUE /\ held.reason = "jira_blocker_present"
    BY <1>1, FindingMade
  <2> QED BY <2>1, <2>2, <2>3, <2>4
<1>3. list = IF github.key = None THEN <<unlinked>>
             ELSE IF jira = None THEN <<unread>>
             ELSE IF jira.key # github.key THEN <<other>>
             ELSE If(jira.status # "done", open) \o If(jira.blocked, held)
  BY DEF JiraFindings
<1> HIDE DEF unlinked, unread, other, open, held, list
<1>4. CASE github.key = None
  <2>1. list \in Seq(Finding) /\ ToSet(list) = {unlinked}
    BY <1>2, <1>3, <1>4, OneMember
  <2> QED BY <1>2, <1>4, <2>1 DEF Sound, BlockedFor, list
<1>5. CASE github.key # None /\ jira = None
  <2>1. list \in Seq(Finding) /\ ToSet(list) = {unread}
    BY <1>2, <1>3, <1>5, OneMember
  <2> QED BY <1>2, <1>5, <2>1 DEF Sound, Lacking, list
<1>6. CASE github.key # None /\ jira # None /\ jira.key # github.key
  <2>1. list \in Seq(Finding) /\ ToSet(list) = {other}
    BY <1>2, <1>3, <1>6, OneMember
  <2> QED BY <1>2, <1>6, <2>1 DEF Sound, Lacking, list
<1>7. CASE github.key # None /\ jira # None /\ jira.key = github.key
  <2> DEFINE p == jira.status # "done"
             q == jira.blocked
             first == If(p, open)
             second == If(q, held)
  <2>1. p \in BOOLEAN /\ q \in BOOLEAN
    BY <1>7 DEF JiraFacts
  <2>2. list = first \o second
    BY <1>3, <1>7
  <2> HIDE DEF p, q
  <2>3. /\ first \in Seq(Finding) /\ \A y : y \in ToSet(first) <=> p /\ y = open
        /\ second \in Seq(Finding) /\ \A y : y \in ToSet(second) <=> q /\ y = held
    BY <1>2, <2>1, OneMember
  <2> HIDE DEF first, second
  <2>4. list \in Seq(Finding) /\ ToSet(list) = ToSet(first) \cup ToSet(second)
    BY <2>2, <2>3, MembersOfBoth
  <2>5. /\ p => BlockedFor(github, jira, "jira_not_complete")
        /\ q => BlockedFor(github, jira, "jira_blocker_present")
    BY <1>7 DEF BlockedFor, p, q
  <2>6. Sound(list, github, jira)
    BY <1>2, <2>3, <2>4, <2>5 DEF Sound
  <2>7. ToSet(list) = {} => ~p
    BY <2>3, <2>4
  <2> QED BY <1>7, <2>4, <2>6, <2>7 DEF p, list
<1> QED BY <1>4, <1>5, <1>6, <1>7

(* What the findings mean.                                                 *)
LEMMA FindingsMean ==
  ASSUME NEW github \in GitHubFacts, NEW jira \in JiraFacts \cup {None}
  PROVE  /\ Findings(github, jira) \in Seq(Finding) /\ Sound(Findings(github, jira), github, jira)
         /\ Findings(github, jira) = <<>> => Clear(github, jira)
<1> DEFINE a == PullFindings(github)
           b == CheckFindings(github)
           c == ReviewFindings(github)
           d == JiraFindings(github, jira)
           list == ((a \o b) \o c) \o d
<1>1. github # None
  BY NoneAssumption
<1>2. Findings(github, jira) = list
  BY <1>1 DEF Findings
<1>3. /\ a \in Seq(Finding) /\ Sound(a, github, jira) /\ b \in Seq(Finding) /\ Sound(b, github, jira)
      /\ c \in Seq(Finding) /\ Sound(c, github, jira) /\ d \in Seq(Finding) /\ Sound(d, github, jira)
  BY PullSound, CheckSound, ReviewSound, JiraSound
<1>4. ToSet(a) = {} /\ ToSet(b) = {} /\ ToSet(c) = {} /\ ToSet(d) = {} => Clear(github, jira)
  BY PullSound, CheckSound, ReviewSound, JiraSound DEF Clear
<1> HIDE DEF a, b, c, d
<1>5. /\ list \in Seq(Finding)
      /\ \A x : x \in ToSet(list) <=>
           \/ x \in ToSet(a)
           \/ x \in ToSet(b)
           \/ x \in ToSet(c)
           \/ x \in ToSet(d)
  BY <1>3, FourLists
<1> HIDE DEF list
<1>6. Sound(list, github, jira)
  BY <1>3, <1>5 DEF Sound
<1>7. list = <<>> => ToSet(list) = {}
  BY <1>5, NoMember
<1> QED BY <1>2, <1>4, <1>5, <1>6, <1>7

-----------------------------------------------------------------------------
(* The answers of a reading.                                               *)

(* Where requirements come from: the branch's rules and its protection.    *)
Sources(w) == ToSet(w.rules) \cup {w.protection}

(* One state of what GitHub and Jira hold.                                 *)
IsWorld(w) ==
  /\ w \in World
  /\ w.pull.head \in DOMAIN w.runs /\ DOMAIN w.statuses = DOMAIN w.runs
  /\ \A s \in Sources(w) : IsFiniteSet(s.names)

(* What does not change while a run reads: only reviews, check runs, the   *)
(* head and the status of the ticket do.                                   *)
Unmoved(v, w) ==
  /\ v.jira = w.jira /\ v.rules = w.rules /\ v.protection = w.protection
  /\ v.statuses = w.statuses /\ DOMAIN v.runs = DOMAIN w.runs /\ v.ticket.key = w.ticket.key

(* The states a reading has been through.                                  *)
Moments(w, seen) == \A v \in seen : IsWorld(v) /\ Unmoved(v, w)

(* Check runs that came in over several pages: each was there at some       *)
(* moment.                                                                 *)
Gathered(list, head, seen) ==
  /\ list \in Seq(RunAnswer)
  /\ \A i \in DOMAIN list : \E w \in seen : list[i] \in ToSet(w.runs[head])

(* No name that the check runs had at some moment is left out.             *)
Covered(list, head, seen) ==
  \E w \in seen : \A r \in ToSet(w.runs[head]) : \E i \in DOMAIN list : list[i].name = r.name

(* The answers a reading has when it decides or fails.                      *)
Answers(w, has, seen) ==
  /\ "pull" \in DOMAIN has => has["pull"] \in PullAnswer /\ has["pull"].head \in DOMAIN w.runs
  /\ Known(has, "reviews") => \E v \in seen : has["reviews"] = v.reviews
  /\ Known(has, "rules") => has["rules"] = w.rules
  /\ Known(has, "protection") => has["protection"] \in {NoProtection, w.protection}
  /\ Known(has, "check_runs") =>
       /\ Gathered(has["check_runs"], has["pull"].head, seen)
       /\ Covered(has["check_runs"], has["pull"].head, seen)
  /\ Known(has, "statuses") => has["statuses"] = w.statuses[has["pull"].head]

(* Every request that the facts depend on has been answered or refused.    *)
Complete(has) ==
  /\ {"pull", "reviews", "rules"} \subseteq DOMAIN has
  /\ has["rules"] # None => "protection" \in DOMAIN has
  /\ RequirementsKnown(has) /\ Required(has).names # {} => {"check_runs", "statuses"} \subseteq DOMAIN has
  /\ \A s \in ToSet(Listed(has, "statuses")) : s.state \in DOMAIN StatusOf

(* The types of a world's parts.                                           *)
LEMMA WorldParts ==
  ASSUME NEW w, IsWorld(w)
  PROVE  /\ w.pull \in PullAnswer /\ w.reviews \in Seq(ReviewAnswer) /\ w.rules \in Seq(RuleAnswer)
         /\ w.protection \in RuleAnswer /\ w.ticket \in JiraFacts /\ w.jira \in BOOLEAN
         /\ w.runs \in Seq(Seq(RunAnswer)) /\ w.statuses \in Seq(Seq(StatusAnswer))
         /\ \A head \in DOMAIN w.runs :
              w.runs[head] \in Seq(RunAnswer) /\ w.statuses[head] \in Seq(StatusAnswer)
<1>1. /\ w.pull \in PullAnswer /\ w.reviews \in Seq(ReviewAnswer) /\ w.rules \in Seq(RuleAnswer)
      /\ w.protection \in RuleAnswer /\ w.ticket \in JiraFacts /\ w.jira \in BOOLEAN
      /\ w.runs \in Seq(Seq(RunAnswer)) /\ w.statuses \in Seq(Seq(StatusAnswer))
      /\ DOMAIN w.statuses = DOMAIN w.runs
  BY DEF IsWorld, World
<1>2. ASSUME NEW head \in DOMAIN w.runs
      PROVE  w.runs[head] \in Seq(RunAnswer) /\ w.statuses[head] \in Seq(StatusAnswer)
  BY <1>1
<1> QED BY <1>1, <1>2

(* The types of the answers.                                               *)
LEMMA AnswersTyped ==
  ASSUME NEW w, IsWorld(w), NEW seen, Moments(w, seen), NEW has, Answers(w, has, seen), Complete(has)
  PROVE  /\ has["pull"] \in PullAnswer /\ has["pull"].head \in DOMAIN w.runs
         /\ Listed(has, "reviews") \in Seq(ReviewAnswer)
         /\ Listed(has, "check_runs") \in Seq(RunAnswer)
         /\ Listed(has, "statuses") \in Seq(StatusAnswer)
         /\ \A i \in DOMAIN Listed(has, "statuses") : Listed(has, "statuses")[i].state \in DOMAIN StatusOf
<1>1. has["pull"] \in PullAnswer /\ has["pull"].head \in DOMAIN w.runs
  BY DEF Answers, Complete
<1>2. Listed(has, "reviews") \in Seq(ReviewAnswer)
  <2>1. CASE Known(has, "reviews")
    <3>1. PICK v \in seen : has["reviews"] = v.reviews
      BY <2>1 DEF Answers
    <3>2. v.reviews \in Seq(ReviewAnswer)
      BY WorldParts DEF Moments
    <3> QED BY <2>1, <3>1, <3>2 DEF Listed
  <2>2. CASE ~Known(has, "reviews")
    BY <2>2 DEF Listed
  <2> QED BY <2>1, <2>2
<1>3. Listed(has, "check_runs") \in Seq(RunAnswer)
  BY DEF Listed, Answers, Gathered
<1>4. Listed(has, "statuses") \in Seq(StatusAnswer)
  <2>1. w.statuses[has["pull"].head] \in Seq(StatusAnswer)
    BY <1>1, WorldParts
  <2> QED BY <2>1 DEF Listed, Answers
<1>5. \A i \in DOMAIN Listed(has, "statuses") : Listed(has, "statuses")[i].state \in DOMAIN StatusOf
  BY DEF Complete, ToSet
<1> QED BY <1>1, <1>2, <1>3, <1>4, <1>5

(* What is required, when that is known.                                   *)
LEMMA RequirementsTyped ==
  ASSUME NEW w, IsWorld(w), NEW seen, NEW has, Answers(w, has, seen), RequirementsKnown(has)
  PROVE  /\ Required(has).names = Names(has) /\ Names(has) \in SUBSET Int /\ IsFiniteSet(Names(has))
         /\ Required(has).count \in Nat
         /\ \A count \in Counts(has) : Required(has).count >= count
         /\ Required(has).count \in Counts(has) \cup {0} /\ Counts(has) \subseteq Nat
<1> DEFINE sources == ToSet(has["rules"]) \cup {has["protection"]}
           counts == {s.count : s \in sources}
<1>1. has["rules"] = w.rules /\ has["protection"] \in {NoProtection, w.protection}
  BY DEF Answers, RequirementsKnown
<1>2. w.rules \in Seq(RuleAnswer) /\ w.protection \in RuleAnswer /\ \A s \in Sources(w) : IsFiniteSet(s.names)
  BY WorldParts DEF IsWorld
<1>3. ASSUME NEW s \in sources PROVE s.names \in SUBSET Int /\ s.count \in Nat /\ IsFiniteSet(s.names)
  <2>1. CASE s \in Sources(w)
    <3>1. s \in RuleAnswer
      BY <1>2, <2>1 DEF Sources, ToSet
    <3> QED BY <1>2, <2>1, <3>1 DEF RuleAnswer
  <2>2. CASE s = NoProtection
    BY <2>2, FS_EmptySet DEF NoProtection
  <2> QED BY <1>1, <2>1, <2>2 DEF Sources
<1>4. IsFiniteSet(sources)
  <2>1. IsFiniteSet(ToSet(has["rules"]))
    BY <1>1, <1>2, FiniteMembers
  <2> QED BY <2>1, FS_AddElement
<1>5. /\ Required(has).names = UNION {s.names : s \in sources}
      /\ Required(has).count = Max({0} \cup counts)
      /\ Names(has) = UNION {s.names : s \in sources} /\ Counts(has) = counts
  BY DEF Required, Requirements, Names, Counts
<1> HIDE DEF sources
<1>6. IsFiniteSet(counts) /\ counts \subseteq Nat
  <2> DEFINE f == [s \in sources |-> s.count]
  <2>1. counts = {f[s] : s \in sources}
    OBVIOUS
  <2> HIDE DEF f, counts
  <2>2. IsFiniteSet(counts)
    BY <1>4, <2>1, FiniteImage
  <2> QED BY <1>3, <2>2 DEF counts
<1>7. IsFiniteSet({s.names : s \in sources})
  <2> DEFINE f == [s \in sources |-> s.names]
  <2>1. {s.names : s \in sources} = {f[s] : s \in sources}
    OBVIOUS
  <2> HIDE DEF f
  <2> QED BY <1>4, <2>1, FiniteImage
<1>8. IsFiniteSet(UNION {s.names : s \in sources})
  BY <1>3, <1>7, FS_UNION
<1> HIDE DEF counts
<1>9. /\ Max({0} \cup counts) \in {0} \cup counts
      /\ \A x \in {0} \cup counts : Max({0} \cup counts) >= x
  <2>1. IsFiniteSet({0} \cup counts) /\ {0} \cup counts # {} /\ {0} \cup counts \subseteq Int
    BY <1>6, FS_AddElement
  <2> QED BY <2>1, Largest
<1>10. UNION {s.names : s \in sources} \in SUBSET Int
  BY <1>3
<1>11. Required(has).names = Names(has) /\ Names(has) \in SUBSET Int /\ IsFiniteSet(Names(has))
  <2> DEFINE all == UNION {s.names : s \in sources}
  <2>1. Required(has).names = all /\ Names(has) = all /\ all \in SUBSET Int /\ IsFiniteSet(all)
    BY <1>5, <1>8, <1>10
  <2> HIDE DEF all
  <2> QED BY <2>1
<1>12. /\ Required(has).count \in Nat
       /\ \A count \in Counts(has) : Required(has).count >= count
       /\ Required(has).count \in Counts(has) \cup {0} /\ Counts(has) \subseteq Nat
  <2> DEFINE most == Max({0} \cup counts)
  <2>1. most \in {0} \cup counts /\ \A x \in counts : most >= x
    BY <1>9
  <2>2. Required(has).count = most /\ Counts(has) = counts
    BY <1>5
  <2> HIDE DEF most
  <2>3. most \in Nat /\ most \in counts \cup {0}
    BY <1>6, <2>1
  <2>4. \A c \in Counts(has) : Required(has).count >= c
    BY <2>1, <2>2
  <2>5. Required(has).count \in Nat /\ Required(has).count \in Counts(has) \cup {0}
    BY <2>2, <2>3
  <2>6. Counts(has) \subseteq Nat
    BY <1>6, <2>2
  <2> QED BY <2>4, <2>5, <2>6
<1> QED BY <1>11, <1>12

-----------------------------------------------------------------------------
(* The facts taken from them.                                              *)

(* The key that is followed is None only if no key was found.              *)
LEMMA LinkedKeyFound ==
  ASSUME NEW pull \in PullAnswer
  PROVE  /\ LinkedKey(pull) \in Key
         /\ LinkedKey(pull) = None => \A k \in ToSet(pull.keys) : k = None
<1> DEFINE found == {i \in DOMAIN pull.keys : pull.keys[i] # None}
<1>1. pull.keys \in Seq(Key) /\ DOMAIN pull.keys \in SUBSET Nat /\ \A i \in DOMAIN pull.keys : pull.keys[i] \in Key
  BY DEF PullAnswer
<1>2. LinkedKey(pull) = IF found = {} THEN None ELSE pull.keys[Min(found)]
  BY DEF LinkedKey
<1>3. CASE found = {}
  BY <1>2, <1>3 DEF ToSet, Key
<1>4. CASE found # {}
  <2>1. found \in SUBSET Nat
    BY <1>1
  <2>2. \E x \in found : \A y \in found : x <= y
    <3> HIDE DEF found
    <3> QED BY <1>4, <2>1, LeastNumber
  <2>3. Min(found) \in found
    <3> HIDE DEF found
    <3> QED BY <2>2 DEF Min
  <2> QED BY <1>1, <1>2, <1>4, <2>3
<1> QED BY <1>3, <1>4

(* Finitely many users decide.                                             *)
LEMMA DecidingCounted ==
  ASSUME NEW reviews \in Seq(ReviewAnswer), NEW state \in {"APPROVED", "CHANGES_REQUESTED"}
  PROVE  Cardinality(Deciding(reviews, state)) \in Nat
<1> DEFINE w == [reviews |-> reviews]
           n == Len(reviews)
           f == [i \in 1..n |-> reviews[i].user]
<1>1. w.reviews = reviews /\ DOMAIN reviews = 1..n /\ n \in Nat
  OBVIOUS
<1> HIDE DEF w
<1>2. Deciding(reviews, state) = {u \in Users(w) : Standing(w, u) = state}
  BY <1>1, DecidingIsStanding
<1>3. Users(w) = {f[i] : i \in 1..n}
  BY <1>1 DEF Users
<1> HIDE DEF f
<1>4. IsFiniteSet(Users(w))
  <2>1. IsFiniteSet(1..n)
    BY <1>1, FS_Interval
  <2> QED BY <1>3, <2>1, FiniteImage
<1> QED BY <1>2, <1>4, FS_Subset, FS_CardinalityType

(* The checks of the required names, each with its status.                 *)
Statuses(has) == Observed(Listed(has, "check_runs"), Listed(has, "statuses"))

(* Each required check has a status that was observed of it, or is pending *)
(* because nobody named it.                                                *)
Assessed(has, required) ==
  /\ required.checks \in Seq(Check) /\ required.known \in BOOLEAN
  /\ required.known => RequirementsKnown(has)
  /\ required.known =>
       /\ \A i \in DOMAIN required.checks :
            LET check == required.checks[i]  observed == Statuses(has) IN
            /\ check.name \in Names(has)
            /\ check.name \in DOMAIN observed => check.status = observed[check.name]
            /\ check.name \notin DOMAIN observed =>
                 check.status = "pending" /\ Known(has, "check_runs") /\ Known(has, "statuses")
       /\ \A name \in Names(has) : \E i \in DOMAIN required.checks : required.checks[i].name = name
  /\ ~required.known => \E call \in DOMAIN has : has[call] = None

(* RequiredChecks reports on every required name, by what was observed of  *)
(* it.                                                                     *)
LEMMA ChecksAssessed ==
  ASSUME NEW w, IsWorld(w), NEW seen, Moments(w, seen), NEW has, Answers(w, has, seen), Complete(has)
  PROVE  Assessed(has, RequiredChecks(has))
<1> DEFINE observed == Statuses(has)
           names == Required(has).names
           missing == names \ DOMAIN observed
           unread == ~(Known(has, "check_runs") /\ Known(has, "statuses"))
           status(name) == IF name \in DOMAIN observed THEN observed[name] ELSE "pending"
           list == [i \in 1..Cardinality(names) |->
                      [name |-> InOrder(names)[i], status |-> status(InOrder(names)[i])]]
           required == RequiredChecks(has)
           nothing == [known |-> FALSE, checks |-> <<>>]
<1>1. required = IF ~RequirementsKnown(has) THEN nothing
                 ELSE IF names = {} THEN [known |-> TRUE, checks |-> <<>>]
                 ELSE IF missing # {} /\ unread THEN nothing
                 ELSE [known |-> TRUE, checks |-> list]
  BY DEF RequiredChecks, Statuses
<1>2. observed \in Partials(Int, CheckStatus)
  <2>1. \A name : observed \in Partials(Int, CheckStatus)
    BY AnswersTyped, ObservedStatus DEF Statuses
  <2> QED BY <2>1
<1>3. \A name \in DOMAIN observed : observed[name] \in CheckStatus
  BY <1>2 DEF Partials
<1>4. <<>> \in Seq(Check) /\ DOMAIN <<>> = {}
  OBVIOUS
<1>5. CASE ~RequirementsKnown(has)
  <2>1. required = nothing
    BY <1>1, <1>5
  <2>2. \E call \in DOMAIN has : has[call] = None
    BY <1>5 DEF RequirementsKnown, Known, Complete
  <2> HIDE DEF required
  <2>3. Assessed(has, required)
    BY <1>4, <2>1, <2>2 DEF Assessed
  <2> QED BY <2>3 DEF required
<1>6. CASE RequirementsKnown(has) /\ names = {}
  <2>1. required = [known |-> TRUE, checks |-> <<>>]
    BY <1>1, <1>6
  <2>2. Names(has) = {}
    BY <1>6, RequirementsTyped
  <2> HIDE DEF required
  <2>3. Assessed(has, required)
    BY <1>4, <1>6, <2>1, <2>2 DEF Assessed
  <2> QED BY <2>3 DEF required
<1>7. CASE RequirementsKnown(has) /\ names # {} /\ missing # {} /\ unread
  <2>1. required = nothing
    BY <1>1, <1>7
  <2>2. \E call \in DOMAIN has : has[call] = None
    BY <1>7 DEF Known, Complete
  <2> HIDE DEF required
  <2>3. Assessed(has, required)
    BY <1>4, <2>1, <2>2 DEF Assessed
  <2> QED BY <2>3 DEF required
<1>8. CASE RequirementsKnown(has) /\ names # {} /\ ~(missing # {} /\ unread)
  <2>1. required = [known |-> TRUE, checks |-> list]
    BY <1>1, <1>8
  <2>2. names = Names(has) /\ names \in SUBSET Int /\ IsFiniteSet(names)
    BY <1>8, RequirementsTyped
  <2> DEFINE n == Cardinality(names)
  <2> HIDE DEF names, observed
  <2>3. /\ n \in Nat
        /\ \A i \in 1..n : InOrder(names)[i] \in names
        /\ \A name \in names : \E i \in 1..n : InOrder(names)[i] = name
    BY <2>2, OrderCovers
  <2>4. \A name \in names : status(name) \in CheckStatus
    BY <1>3 DEF CheckStatus
  <2>5. list \in [1..n -> Check]
    <3>1. \A i \in 1..n : [name |-> InOrder(names)[i], status |-> status(InOrder(names)[i])] \in Check
      BY <2>2, <2>3, <2>4 DEF Check
    <3> QED BY <3>1
  <2>6. list \in Seq(Check) /\ DOMAIN list = 1..n
    <3>1. n \in Nat /\ list \in [1..n -> Check]
      BY <2>3, <2>5
    <3> HIDE DEF list, n
    <3> QED BY <3>1
  <2>7. \A i \in 1..n : list[i].name = InOrder(names)[i] /\ list[i].status = status(InOrder(names)[i])
    OBVIOUS
  <2>8. \A name \in names : name \notin DOMAIN observed => Known(has, "check_runs") /\ Known(has, "statuses")
    BY <1>8
  <2> HIDE DEF list, required
  <2>9. required.known = TRUE /\ required.checks = list
    BY <2>1
  <2>10. ASSUME NEW i \in 1..n
         PROVE  /\ list[i].name \in Names(has)
                /\ list[i].name \in DOMAIN observed => list[i].status = observed[list[i].name]
                /\ list[i].name \notin DOMAIN observed =>
                     list[i].status = "pending" /\ Known(has, "check_runs") /\ Known(has, "statuses")
    BY <2>2, <2>3, <2>7, <2>8
  <2>11. \A name \in Names(has) : \E i \in 1..n : list[i].name = name
    BY <2>2, <2>3, <2>7
  <2>12. Assessed(has, required)
    BY <1>8, <2>6, <2>9, <2>10, <2>11 DEF Assessed, observed
  <2> QED BY <2>12 DEF required
<1> QED BY <1>5, <1>6, <1>7, <1>8

(* The facts are facts.                                                    *)
LEMMA FactsTyped ==
  ASSUME NEW w, IsWorld(w), NEW seen, Moments(w, seen), NEW has, Answers(w, has, seen), Complete(has)
  PROVE  Facts(has) \in GitHubFacts
<1> DEFINE facts == Facts(has)
           pull == has["pull"]
           reviews == Listed(has, "reviews")
           required == RequiredChecks(has)
<1>1. pull \in PullAnswer /\ reviews \in Seq(ReviewAnswer)
  BY AnswersTyped
<1>2. required.checks \in Seq(Check) /\ required.known \in BOOLEAN
  BY ChecksAssessed DEF Assessed
<1>3. LinkedKey(pull) \in Key
  BY <1>1, LinkedKeyFound
<1>4. Cardinality(Deciding(reviews, "APPROVED")) \in Nat
  BY <1>1, DecidingCounted
<1>5. (IF RequirementsKnown(has) THEN Required(has).count ELSE None) \in Nat \cup {None}
  BY RequirementsTyped
<1>6. Known(has, "reviews") \in BOOLEAN
  BY DEF Known
<1>7. /\ pull.draft \in BOOLEAN /\ pull.mergeability \in {"mergeable", "conflicting", "unknown"}
      /\ (IF pull.merged THEN "merged" ELSE IF pull.open THEN "open" ELSE "closed")
           \in {"open", "closed", "merged"}
  BY <1>1 DEF PullAnswer
<1>8. (Deciding(reviews, "CHANGES_REQUESTED") # {}) \in BOOLEAN
  OBVIOUS
<1> HIDE DEF pull, reviews, required
<1> QED BY <1>2, <1>3, <1>4, <1>5, <1>6, <1>7, <1>8 DEF Facts, GitHubFacts, pull, reviews, required

-----------------------------------------------------------------------------
(* What a decision says about its facts, and about what was read.          *)

(* What a verdict says.                                                    *)
LEMMA VerdictMeans ==
  ASSUME NEW github \in GitHubFacts, NEW jira \in JiraFacts \cup {None},
         NEW verdict, verdict = Verdict(github, jira)
  PROVE  /\ verdict.findings \in Seq(Finding)
         /\ verdict.decision = "ready" => Clear(github, jira)
         /\ \A f \in ToSet(Blockers(verdict.findings)) : BlockedFor(github, jira, f.reason)
         /\ verdict.decision = "unknown" => Lacking(github, jira)
         /\ verdict.decision = "ready" <=> verdict.findings = <<>>
         /\ verdict.findings = <<>> => verdict.reason = "ready"
<1> DEFINE findings == Findings(github, jira)
           blockers == Blockers(findings)
<1>1. /\ findings \in Seq(Finding) /\ Sound(findings, github, jira)
      /\ findings = <<>> => Clear(github, jira)
  BY FindingsMean
<1>2. /\ verdict.findings = findings
      /\ verdict.decision = IF blockers # <<>> THEN "blocked"
                            ELSE IF findings # <<>> THEN "unknown" ELSE "ready"
      /\ verdict.reason = IF blockers # <<>> THEN blockers[1].reason
                          ELSE IF findings # <<>> THEN "evidence_unavailable" ELSE "ready"
  BY DEF Verdict
<1> HIDE DEF findings, blockers
<1>3. /\ blockers \in Seq(Finding) /\ ToSet(blockers) = {f \in ToSet(findings) : f.blocking}
  <2>1. \A f \in Finding : f.blocking \in BOOLEAN
    BY DEF Finding
  <2> QED BY <1>1, <2>1, BlockersMembers DEF blockers
<1>4. \A f \in ToSet(blockers) : BlockedFor(github, jira, f.reason)
  BY <1>1, <1>3 DEF Sound
<1>5. findings = <<>> => blockers = <<>>
  <2>1. findings = <<>> => ToSet(findings) = {}
    BY <1>1, NoMember
  <2> QED BY <1>3, <2>1, NoMember
<1>6. blockers = <<>> /\ findings # <<>> => Lacking(github, jira)
  <2> SUFFICES ASSUME blockers = <<>>, findings # <<>> PROVE Lacking(github, jira)
    OBVIOUS
  <2>1. ToSet(blockers) = {} /\ ToSet(findings) # {}
    BY <1>1, <1>3, NoMember
  <2>2. PICK f \in ToSet(findings) : ~f.blocking
    BY <1>3, <2>1
  <2> QED BY <1>1, <2>2 DEF Sound
<1>7. \A f \in ToSet(Blockers(verdict.findings)) : BlockedFor(github, jira, f.reason)
  BY <1>2, <1>4 DEF blockers
<1> QED BY <1>1, <1>2, <1>5, <1>6, <1>7

(* What a completed run's answers are.                                     *)
Settled ==
  /\ IsWorld(world) /\ result.seen # {} /\ Moments(world, result.seen)
  /\ Answers(world, result.has, result.seen) /\ Complete(result.has)

(* A check run that was answered was there at some moment.                 *)
LEMMA RunSaid ==
  ASSUME Settled, NEW r \in ToSet(Listed(result.has, "check_runs"))
  PROVE  CheckRunStatus(r) \in Said("check_runs", r.name)
<1>1. Known(result.has, "check_runs")
  <2>1. ~Known(result.has, "check_runs") => Listed(result.has, "check_runs") = <<>>
    BY DEF Listed
  <2>2. DOMAIN <<>> = {}
    OBVIOUS
  <2> QED BY <2>1, <2>2 DEF ToSet
<1>2. Listed(result.has, "check_runs") = result.has["check_runs"]
  BY <1>1 DEF Listed
<1>3. PICK w \in result.seen : r \in ToSet(w.runs[HeadRead])
  BY <1>1, <1>2 DEF Settled, Answers, Gathered, ToSet, HeadRead
<1>4. "check_runs" \in DOMAIN result.has /\ ~Hidden("check_runs")
  BY <1>1 DEF Known, Hidden
<1>5. Said("check_runs", r.name) =
        UNION {{CheckRunStatus(q) : q \in {p \in ToSet(v.runs[HeadRead]) : p.name = r.name}} : v \in result.seen}
  BY <1>4 DEF Said
<1> QED BY <1>3, <1>5

(* A status that was answered was there at some moment.                    *)
LEMMA StatusSaid ==
  ASSUME Settled, NEW s \in ToSet(Listed(result.has, "statuses"))
  PROVE  StatusOf[s.state] \in Said("statuses", s.name)
<1>1. Known(result.has, "statuses")
  <2>1. ~Known(result.has, "statuses") => Listed(result.has, "statuses") = <<>>
    BY DEF Listed
  <2>2. DOMAIN <<>> = {}
    OBVIOUS
  <2> QED BY <2>1, <2>2 DEF ToSet
<1>2. Listed(result.has, "statuses") = world.statuses[HeadRead]
  BY <1>1 DEF Listed, Settled, Answers, HeadRead
<1>3. PICK w \in result.seen : w.statuses = world.statuses
  BY DEF Settled, Moments, Unmoved
<1>4. "statuses" \in DOMAIN result.has /\ ~Hidden("statuses")
  BY <1>1 DEF Known, Hidden
<1>5. Said("statuses", s.name) =
        UNION {{StatusOf[q.state] : q \in {p \in ToSet(v.statuses[HeadRead]) : p.name = s.name}} : v \in result.seen}
  BY <1>4 DEF Said
<1> QED BY <1>2, <1>3, <1>5

(* A source that names no check was silent about it at some moment.        *)
LEMMA SourcesSilent ==
  ASSUME Settled, {"check_runs", "statuses"} \subseteq DOMAIN result.has, NEW name
  PROVE  /\ (\A r \in ToSet(Listed(result.has, "check_runs")) : r.name # name) => Silent("check_runs", name)
         /\ (\A s \in ToSet(Listed(result.has, "statuses")) : s.name # name) => Silent("statuses", name)
<1>1. ASSUME \A r \in ToSet(Listed(result.has, "check_runs")) : r.name # name
      PROVE  Silent("check_runs", name)
  <2>1. CASE ~Known(result.has, "check_runs")
    BY <2>1 DEF Known, Silent, Hidden
  <2>2. CASE Known(result.has, "check_runs")
    <3>1. PICK w \in result.seen : \A r \in ToSet(w.runs[HeadRead]) :
            \E i \in DOMAIN result.has["check_runs"] : result.has["check_runs"][i].name = r.name
      BY <2>2 DEF Settled, Answers, Covered, HeadRead
    <3>2. \A i \in DOMAIN result.has["check_runs"] : result.has["check_runs"][i].name # name
      BY <1>1, <2>2 DEF Listed, ToSet
    <3>3. ~ \E r \in ToSet(w.runs[HeadRead]) : r.name = name
      BY <3>1, <3>2
    <3> QED BY <3>3 DEF Silent
  <2> QED BY <2>1, <2>2
<1>2. ASSUME \A s \in ToSet(Listed(result.has, "statuses")) : s.name # name
      PROVE  Silent("statuses", name)
  <2>1. CASE ~Known(result.has, "statuses")
    BY <2>1 DEF Known, Silent, Hidden
  <2>2. CASE Known(result.has, "statuses")
    <3>1. Listed(result.has, "statuses") = world.statuses[HeadRead]
      BY <2>2 DEF Listed, Settled, Answers, HeadRead
    <3>2. PICK w \in result.seen : w.statuses = world.statuses
      BY DEF Settled, Moments, Unmoved
    <3>3. ~ \E s \in ToSet(w.statuses[HeadRead]) : s.name = name
      BY <1>2, <3>1, <3>2
    <3> QED BY <3>3 DEF Silent
  <2> QED BY <2>1, <2>2
<1> QED BY <1>1, <1>2

(* What the status a required check has been given means.                  *)
LEMMA StatusesAreSaid ==
  ASSUME Settled, RequirementsKnown(result.has), NEW name \in Names(result.has)
  PROVE  /\ name \in DOMAIN Statuses(result.has) =>
              \E source \in Checkers : Statuses(result.has)[name] \in Said(source, name)
         /\ name \in DOMAIN Statuses(result.has) /\ Statuses(result.has)[name] = "passed" =>
              \A source \in Checkers : "passed" \in Said(source, name) \/ Silent(source, name)
         /\ name \notin DOMAIN Statuses(result.has) => \A source \in Checkers : Silent(source, name)
<1> DEFINE runs == Listed(result.has, "check_runs")
           statuses == Listed(result.has, "statuses")
           observed == Statuses(result.has)
<1>1. /\ runs \in Seq(RunAnswer) /\ statuses \in Seq(StatusAnswer)
      /\ \A i \in DOMAIN statuses : statuses[i].state \in DOMAIN StatusOf
  BY AnswersTyped DEF Settled
<1>2. {"check_runs", "statuses"} \subseteq DOMAIN result.has
  <2>1. Required(result.has).names # {}
    BY RequirementsTyped DEF Settled
  <2> QED BY <2>1 DEF Settled, Complete
<1>3. /\ \A r \in ToSet(runs) : r.name = name => CheckRunStatus(r) \in Said("check_runs", name)
      /\ \A s \in ToSet(statuses) : s.name = name => StatusOf[s.state] \in Said("statuses", name)
  BY RunSaid, StatusSaid
<1>4. /\ (\A r \in ToSet(runs) : r.name # name) => Silent("check_runs", name)
      /\ (\A s \in ToSet(statuses) : s.name # name) => Silent("statuses", name)
  BY <1>2, SourcesSilent
<1>5. observed = Observed(runs, statuses)
  BY DEF Statuses
<1> HIDE DEF runs, statuses, observed
<1>6. /\ name \in DOMAIN observed <=>
           \/ \E r \in ToSet(runs) : r.name = name
           \/ \E s \in ToSet(statuses) : s.name = name
      /\ name \in DOMAIN observed =>
           \/ \E r \in ToSet(runs) : r.name = name /\ observed[name] = CheckRunStatus(r)
           \/ \E s \in ToSet(statuses) : s.name = name /\ observed[name] = StatusOf[s.state]
      /\ name \in DOMAIN observed /\ observed[name] = "passed" =>
           /\ (\E r \in ToSet(runs) : r.name = name) =>
                \E r \in ToSet(runs) : r.name = name /\ CheckRunStatus(r) = "passed"
           /\ \A s \in ToSet(statuses) : s.name = name => StatusOf[s.state] = "passed"
  BY <1>1, <1>5, ObservedStatus
<1>7. name \in DOMAIN observed => \E source \in Checkers : observed[name] \in Said(source, name)
  BY <1>3, <1>6 DEF Checkers
<1>8. name \in DOMAIN observed /\ observed[name] = "passed" =>
        \A source \in Checkers : "passed" \in Said(source, name) \/ Silent(source, name)
  <2> SUFFICES ASSUME name \in DOMAIN observed, observed[name] = "passed"
               PROVE  /\ "passed" \in Said("check_runs", name) \/ Silent("check_runs", name)
                      /\ "passed" \in Said("statuses", name) \/ Silent("statuses", name)
    BY DEF Checkers
  <2> QED BY <1>3, <1>4, <1>6
<1>9. name \notin DOMAIN observed => \A source \in Checkers : Silent(source, name)
  BY <1>4, <1>6 DEF Checkers
<1> QED BY <1>7, <1>8, <1>9 DEF observed

(* What a completed run decided on: its answers, and a ticket it has seen   *)
(* or none when there was none to ask for.                                 *)
DecidedOn(jira) ==
  /\ Settled
  /\ result.verdict = Verdict(Facts(result.has), jira)
  /\ \/ world.jira /\ \E w \in result.seen : jira = w.ticket
     \/ jira = None /\ (LinkedKey(result.has["pull"]) = None \/ ~world.jira)

(* The types of what the policy looks at.                                  *)
LEMMA TicketTyped ==
  ASSUME NEW jira, DecidedOn(jira)
  PROVE  /\ jira \in JiraFacts \cup {None} /\ Facts(result.has) \in GitHubFacts
         /\ jira # None => /\ jira.key = world.ticket.key /\ world.jira
                           /\ \E w \in result.seen : jira = w.ticket
<1>1. \A w \in result.seen : w.ticket \in JiraFacts /\ w.ticket.key = world.ticket.key
  BY WorldParts DEF DecidedOn, Settled, Moments, Unmoved
<1>2. Facts(result.has) \in GitHubFacts
  BY FactsTyped DEF DecidedOn, Settled
<1> QED BY <1>1, <1>2 DEF DecidedOn

(* What the facts of a completed run are taken from.                       *)
LEMMA FactsAre ==
  ASSUME NEW facts, facts = Facts(result.has)
  PROVE  LET pull == result.has["pull"] IN
         /\ facts.draft = pull.draft /\ facts.mergeability = pull.mergeability
         /\ facts.state = (IF pull.merged THEN "merged" ELSE IF pull.open THEN "open" ELSE "closed")
         /\ facts.checks = RequiredChecks(result.has).checks
         /\ facts.checksKnown = RequiredChecks(result.has).known
         /\ facts.approvals = Cardinality(Deciding(Listed(result.has, "reviews"), "APPROVED"))
         /\ facts.required = (IF RequirementsKnown(result.has) THEN Required(result.has).count ELSE None)
         /\ facts.reviewsKnown = Known(result.has, "reviews")
         /\ facts.changesRequested = (Deciding(Listed(result.has, "reviews"), "CHANGES_REQUESTED") # {})
         /\ facts.key = LinkedKey(pull)
BY DEF Facts

(* The reviews are those of one moment.                                    *)
LEMMA ReviewsAre ==
  ASSUME Settled, Known(result.has, "reviews"), NEW facts, facts = Facts(result.has)
  PROVE  \E w \in result.seen :
           /\ facts.approvals = Approvals(w)
           /\ facts.changesRequested <=> \E u \in Users(w) : Standing(w, u) = "CHANGES_REQUESTED"
<1>1. PICK w \in result.seen : result.has["reviews"] = w.reviews
  BY DEF Settled, Answers
<1>2. w.reviews \in Seq(ReviewAnswer) /\ Listed(result.has, "reviews") = w.reviews
  BY <1>1, WorldParts DEF Settled, Moments, Listed
<1>3. /\ facts.approvals = Cardinality(Deciding(w.reviews, "APPROVED"))
      /\ facts.changesRequested = (Deciding(w.reviews, "CHANGES_REQUESTED") # {})
  BY <1>2, FactsAre
<1>4. /\ Deciding(w.reviews, "APPROVED") = {u \in Users(w) : Standing(w, u) = "APPROVED"}
      /\ Deciding(w.reviews, "CHANGES_REQUESTED") = {u \in Users(w) : Standing(w, u) = "CHANGES_REQUESTED"}
  BY <1>2, DecidingIsStanding
<1>5. facts.approvals = Approvals(w)
  BY <1>3, <1>4 DEF Approvals
<1>6. facts.changesRequested <=> \E u \in Users(w) : Standing(w, u) = "CHANGES_REQUESTED"
  BY <1>3, <1>4
<1> QED BY <1>5, <1>6

(* The checks, when they are known.                                        *)
LEMMA ChecksAre ==
  ASSUME Settled, NEW facts, facts = Facts(result.has), facts.checksKnown
  PROVE  /\ RequirementsKnown(result.has)
         /\ \A i \in DOMAIN facts.checks :
              LET check == facts.checks[i] IN
              /\ check.name \in Names(result.has)
              /\ check.status = "passed" => check.name \in DOMAIN Statuses(result.has)
              /\ check.name \in DOMAIN Statuses(result.has) =>
                   check.status = Statuses(result.has)[check.name]
              /\ check.name \notin DOMAIN Statuses(result.has) =>
                   check.status = "pending" /\ \A source \in Checkers : ~Hidden(source)
         /\ \A name \in Names(result.has) : \E i \in DOMAIN facts.checks : facts.checks[i].name = name
<1> DEFINE required == RequiredChecks(result.has)
<1>1. facts.checks = required.checks /\ facts.checksKnown = required.known
  BY FactsAre
<1>2. Assessed(result.has, required)
  BY ChecksAssessed DEF Settled
<1> HIDE DEF required
<1>3. Known(result.has, "check_runs") /\ Known(result.has, "statuses") => \A source \in Checkers : ~Hidden(source)
  BY DEF Known, Hidden, Checkers
<1> QED BY <1>1, <1>2, <1>3 DEF Assessed

(* A ready run has earned it.                                              *)
LEMMA ReadyEarned ==
  ASSUME NEW jira, DecidedOn(jira), result.verdict.decision = "ready"
  PROVE  ReadyIsEarned
<1> DEFINE facts == Facts(result.has)
           pull == result.has["pull"]
<1>1. facts \in GitHubFacts /\ jira \in JiraFacts \cup {None} /\ Settled
  BY TicketTyped DEF DecidedOn
<1>2. Clear(facts, jira)
  BY <1>1, VerdictMeans DEF DecidedOn
<1> HIDE DEF facts
<1>3. /\ facts.draft = pull.draft /\ facts.mergeability = pull.mergeability
      /\ facts.state = (IF pull.merged THEN "merged" ELSE IF pull.open THEN "open" ELSE "closed")
      /\ facts.required = (IF RequirementsKnown(result.has) THEN Required(result.has).count ELSE None)
      /\ facts.reviewsKnown = Known(result.has, "reviews")
      /\ facts.key = LinkedKey(pull)
  BY FactsAre DEF facts
<1>4. ~pull.draft /\ pull.mergeability = "mergeable" /\ (pull.open \/ pull.merged)
  BY <1>2, <1>3 DEF Clear
<1>5. /\ RequirementsKnown(result.has)
      /\ \A i \in DOMAIN facts.checks :
           LET check == facts.checks[i] IN
           /\ check.name \in Names(result.has) /\ check.name \in DOMAIN Statuses(result.has)
           /\ Statuses(result.has)[check.name] = "passed"
      /\ \A name \in Names(result.has) : \E i \in DOMAIN facts.checks : facts.checks[i].name = name
  <2>1. facts.checksKnown /\ \A i \in DOMAIN facts.checks : facts.checks[i].status = "passed"
    BY <1>2 DEF Clear
  <2> QED BY <1>1, <2>1, ChecksAre DEF facts
<1>6. ASSUME NEW name \in Names(result.has)
      PROVE  /\ \E source \in Checkers : "passed" \in Said(source, name)
             /\ \A source \in Checkers : "passed" \in Said(source, name) \/ Silent(source, name)
  <2>1. name \in DOMAIN Statuses(result.has) /\ Statuses(result.has)[name] = "passed"
    BY <1>5
  <2> QED BY <1>1, <1>5, <2>1, StatusesAreSaid
<1>7. PICK w \in result.seen :
        /\ facts.approvals = Approvals(w)
        /\ facts.changesRequested <=> \E u \in Users(w) : Standing(w, u) = "CHANGES_REQUESTED"
  BY <1>1, <1>2, <1>3, ReviewsAre DEF Clear, facts
<1>8. ASSUME NEW count \in Counts(result.has) PROVE Approvals(w) >= count
  <2>1. /\ Required(result.has).count \in Nat /\ Required(result.has).count >= count
        /\ Counts(result.has) \subseteq Nat
    BY <1>1, <1>5, RequirementsTyped DEF Settled
  <2>2. ~(facts.approvals < Required(result.has).count)
    BY <1>2, <1>3, <1>5 DEF Clear
  <2>3. facts.approvals \in Nat
    BY <1>1 DEF GitHubFacts
  <2> QED BY <1>7, <2>1, <2>2, <2>3
<1>9. \A u \in Users(w) : Standing(w, u) # "CHANGES_REQUESTED"
  BY <1>2, <1>7 DEF Clear
<1>10. /\ world.jira /\ LinkedKey(pull) = world.ticket.key
       /\ \E v \in result.seen : v.ticket.status = "done"
  BY <1>2, <1>3, TicketTyped DEF Clear
<1> QED BY <1>4, <1>6, <1>7, <1>8, <1>9, <1>10 DEF ReadyIsEarned, Sometime

(* Each blocker held at some moment.                                       *)
LEMMA BlockersHold ==
  ASSUME NEW jira, DecidedOn(jira), NEW reason, BlockedFor(Facts(result.has), jira, reason)
  PROVE  Holds(reason)
<1> DEFINE facts == Facts(result.has)
           pull == result.has["pull"]
<1>1. facts \in GitHubFacts /\ jira \in JiraFacts \cup {None} /\ Settled
  BY TicketTyped DEF DecidedOn
<1>2. BlockedFor(facts, jira, reason)
  OBVIOUS
<1>3. pull \in PullAnswer
  BY <1>1, AnswersTyped DEF Settled
<1> HIDE DEF facts
<1>4. /\ facts.draft = pull.draft /\ facts.mergeability = pull.mergeability
      /\ facts.state = (IF pull.merged THEN "merged" ELSE IF pull.open THEN "open" ELSE "closed")
      /\ facts.required = (IF RequirementsKnown(result.has) THEN Required(result.has).count ELSE None)
      /\ facts.reviewsKnown = Known(result.has, "reviews")
      /\ facts.key = LinkedKey(pull)
  BY FactsAre DEF facts
<1>5. CASE reason = "pr_is_draft" /\ facts.draft
  BY <1>4, <1>5 DEF Holds
<1>6. CASE reason = "pr_closed_unmerged" /\ facts.state = "closed"
  BY <1>4, <1>6 DEF Holds
<1>7. CASE reason = "merge_conflict" /\ facts.mergeability = "conflicting"
  BY <1>4, <1>7 DEF Holds
<1>8. ASSUME facts.checksKnown, NEW i \in DOMAIN facts.checks
      PROVE  /\ facts.checks[i].name \in Names(result.has)
             /\ facts.checks[i].status = "failed" =>
                  \E source \in Checkers : "failed" \in Said(source, facts.checks[i].name)
             /\ facts.checks[i].status = "pending" =>
                  \/ \E source \in Checkers : "pending" \in Said(source, facts.checks[i].name)
                  \/ \A source \in Checkers : Silent(source, facts.checks[i].name) /\ ~Hidden(source)
  <2> DEFINE check == facts.checks[i]
             observed == Statuses(result.has)
  <2>1. /\ RequirementsKnown(result.has) /\ check.name \in Names(result.has)
        /\ check.name \in DOMAIN observed => check.status = observed[check.name]
        /\ check.name \notin DOMAIN observed =>
             check.status = "pending" /\ \A source \in Checkers : ~Hidden(source)
    BY <1>1, <1>8, ChecksAre DEF facts
  <2>2. /\ check.name \in DOMAIN observed =>
             \E source \in Checkers : observed[check.name] \in Said(source, check.name)
        /\ check.name \notin DOMAIN observed => \A source \in Checkers : Silent(source, check.name)
    BY <1>1, <2>1, StatusesAreSaid
  <2> HIDE DEF check, observed
  <2>3. /\ check.name \in Names(result.has)
        /\ check.status = "failed" => \E source \in Checkers : "failed" \in Said(source, check.name)
        /\ check.status = "pending" =>
             \/ \E source \in Checkers : "pending" \in Said(source, check.name)
             \/ \A source \in Checkers : Silent(source, check.name) /\ ~Hidden(source)
    BY <2>1, <2>2
  <2> QED BY <2>3 DEF check
<1>9. CASE /\ reason = "ci_check_failed" /\ facts.checksKnown
           /\ \E i \in DOMAIN facts.checks : facts.checks[i].status = "failed"
  BY <1>8, <1>9 DEF Holds
<1>10. CASE /\ reason = "ci_check_pending" /\ facts.checksKnown
            /\ \E i \in DOMAIN facts.checks : facts.checks[i].status = "pending"
  BY <1>8, <1>10 DEF Holds
<1>11. CASE /\ reason = "approval_missing" /\ facts.reviewsKnown
            /\ facts.required # None /\ facts.approvals < facts.required
  <2>1. PICK w \in result.seen : facts.approvals = Approvals(w)
    BY <1>1, <1>4, <1>11, ReviewsAre DEF facts
  <2>2. RequirementsKnown(result.has) /\ facts.required = Required(result.has).count
    BY <1>4, <1>11
  <2>3. Required(result.has).count \in Counts(result.has) \cup {0} /\ Required(result.has).count \in Nat
    BY <1>1, <2>2, RequirementsTyped DEF Settled
  <2>4. facts.approvals \in Nat
    BY <1>1 DEF GitHubFacts
  <2>5. \E count \in Counts(result.has) : Approvals(w) < count
    BY <1>11, <2>1, <2>2, <2>3, <2>4
  <2>6. \E count \in Counts(result.has) : \E v \in result.seen : Approvals(v) < count
    BY <2>5
  <2> QED BY <1>11, <2>6 DEF Holds, Sometime
<1>12. CASE reason = "changes_requested" /\ facts.reviewsKnown /\ facts.changesRequested
  <2>1. PICK w \in result.seen :
          facts.changesRequested <=> \E u \in Users(w) : Standing(w, u) = "CHANGES_REQUESTED"
    BY <1>1, <1>4, <1>12, ReviewsAre DEF facts
  <2>2. \E v \in result.seen : \E u \in Users(v) : Standing(v, u) = "CHANGES_REQUESTED"
    BY <1>12, <2>1
  <2> QED BY <1>12, <2>2 DEF Holds, Sometime
<1>13. CASE reason = "jira_link_missing" /\ facts.key = None
  <2>1. \A k \in ToSet(pull.keys) : k = None
    BY <1>3, <1>4, <1>13, LinkedKeyFound
  <2> QED BY <1>13, <2>1 DEF Holds
<1>14. CASE reason = "jira_not_complete" /\ jira # None /\ jira.status # "done"
  <2>1. \E w \in result.seen : w.ticket.status # "done"
    BY <1>14, TicketTyped
  <2> QED BY <1>14, <2>1 DEF Holds, Sometime
<1>15. CASE reason = "jira_blocker_present" /\ jira # None /\ jira.blocked
  <2>1. \E w \in result.seen : w.ticket.blocked
    BY <1>15, TicketTyped
  <2> QED BY <1>15, <2>1 DEF Holds, Sometime
<1> QED BY <1>2, <1>5, <1>6, <1>7, <1>9, <1>10, <1>11, <1>12, <1>13, <1>14, <1>15 DEF BlockedFor

(* An unknown decision has something it could not see.                     *)
LEMMA LackingIsUnseen ==
  ASSUME NEW jira, DecidedOn(jira), Lacking(Facts(result.has), jira)
  PROVE  \/ \E call \in DOMAIN result.has : Hidden(call)
         \/ result.has["pull"].mergeability = "unknown"
         \/ ~world.jira \/ LinkedKey(result.has["pull"]) # world.ticket.key
<1> DEFINE facts == Facts(result.has)
           pull == result.has["pull"]
<1>1. facts \in GitHubFacts /\ jira \in JiraFacts \cup {None} /\ Settled
  BY TicketTyped DEF DecidedOn
<1>2. Lacking(facts, jira)
  OBVIOUS
<1> HIDE DEF facts
<1>3. /\ facts.mergeability = pull.mergeability
      /\ facts.checksKnown = RequiredChecks(result.has).known
      /\ facts.required = (IF RequirementsKnown(result.has) THEN Required(result.has).count ELSE None)
      /\ facts.reviewsKnown = Known(result.has, "reviews")
      /\ facts.key = LinkedKey(pull)
  BY FactsAre DEF facts
<1>4. Complete(result.has)
  BY <1>1 DEF Settled
<1>5. ASSUME ~facts.checksKnown PROVE \E call \in DOMAIN result.has : Hidden(call)
  <2>1. ~RequiredChecks(result.has).known
    BY <1>3, <1>5
  <2> QED BY <1>1, <2>1, ChecksAssessed DEF Settled, Assessed, Hidden
<1>6. ASSUME ~facts.reviewsKnown PROVE \E call \in DOMAIN result.has : Hidden(call)
  BY <1>3, <1>4, <1>6 DEF Complete, Known, Hidden
<1>7. ASSUME facts.required = None PROVE \E call \in DOMAIN result.has : Hidden(call)
  <2>1. ~RequirementsKnown(result.has)
    <3>1. RequirementsKnown(result.has) => Required(result.has).count \in Nat
      BY <1>1, RequirementsTyped DEF Settled
    <3> QED BY <1>3, <1>7, <3>1, NoneAssumption
  <2> QED BY <1>4, <2>1 DEF Complete, RequirementsKnown, Known, Hidden
<1>8. ASSUME facts.key # None, jira = None PROVE ~world.jira
  <2>1. \A w \in result.seen : w.ticket # None
    BY <1>1, WorldParts, NoneAssumption DEF Settled, Moments
  <2> QED BY <1>3, <1>8, <2>1 DEF DecidedOn
<1>9. ASSUME jira # None, jira.key # facts.key PROVE LinkedKey(pull) # world.ticket.key
  BY <1>3, <1>9, TicketTyped
<1> QED BY <1>2, <1>3, <1>5, <1>6, <1>7, <1>8, <1>9 DEF Lacking

(* The decision is supported by the moments of the reading.                *)
LEMMA DecisionSupported ==
  ASSUME NEW jira, DecidedOn(jira)
  PROVE  DecisionIsSupported
<1> DEFINE facts == Facts(result.has)
<1>1. facts \in GitHubFacts /\ jira \in JiraFacts \cup {None} /\ result.verdict = Verdict(facts, jira)
  BY TicketTyped DEF DecidedOn
<1> HIDE DEF facts
<1>2. /\ \A f \in ToSet(Blockers(result.verdict.findings)) : BlockedFor(facts, jira, f.reason)
      /\ result.verdict.decision = "unknown" => Lacking(facts, jira)
  BY <1>1, VerdictMeans
<1>3. \A f \in ToSet(Blockers(result.verdict.findings)) : Holds(f.reason)
  BY <1>2, BlockersHold DEF facts
<1> QED BY <1>2, <1>3, ReadyEarned, LackingIsUnseen DEF DecisionIsSupported, facts

-----------------------------------------------------------------------------
(* The reading, request by request.                                        *)

(* Which requests have been answered before each request is made.          *)
Before ==
  [pull |-> {}, reviews |-> {"pull"}, rules |-> {"pull", "reviews"},
   protection |-> {"pull", "reviews", "rules"},
   check_runs |-> {"pull", "reviews", "rules", "protection"},
   statuses |-> {"pull", "reviews", "rules", "protection", "check_runs"}]

(* Where a listing stands after its earlier pages.  The check runs may move *)
(* meanwhile: a name of some moment either has come in or is still ahead.   *)
Offset == (read.page - 1) * PageSize

(* The first pages of a list that does not move.                           *)
Partial(list, offset, got) == offset <= Len(list) /\ got = SubSeq(list, 1, offset)

(* A name that a later page will bring.                                    *)
Ahead(list, offset, name) == \E j \in DOMAIN list : j > offset /\ list[j].name = name

(* A name that an earlier page has brought.                                *)
CameIn(list, name) == \E i \in DOMAIN list : list[i].name = name

(* The first pages of the check runs: a name of some moment either has     *)
(* come in or is still ahead.                                              *)
PartialRuns(head, offset, got) ==
  /\ Len(got) = offset /\ Gathered(got, head, read.seen)
  /\ \E w \in read.seen : \A r \in ToSet(w.runs[head]) :
       CameIn(got, r.name) \/ Ahead(world.runs[head], offset, r.name)

(* The answers that let the reading go on this far.                         *)
Permitted(call, has) ==
  /\ "rules" \in DOMAIN has /\ call # "rules" => has["rules"] # None
  /\ "protection" \in DOMAIN has => has["protection"] # None

(* What the listing in progress has gathered.                              *)
Listing(offset, got) ==
  /\ read.call = "reviews" => Partial(world.reviews, offset, got)
  /\ read.call = "rules" => Partial(world.rules, offset, got)
  /\ read.call = "statuses" => Partial(world.statuses[read.has["pull"].head], offset, got)
  /\ read.call = "check_runs" => PartialRuns(read.has["pull"].head, offset, got)

(* The request under way and the answers before it.                        *)
Asking ==
  IF read.call = "jira"
  THEN /\ Complete(read.has) /\ read.facts = Facts(read.has)
       /\ LinkedKey(read.has["pull"]) # None
  ELSE /\ read.call \in DOMAIN Before /\ DOMAIN read.has = Before[read.call]
       /\ Permitted(read.call, read.has)
       /\ Listing(Offset, read.got)

(* The parts of a reading.                                                 *)
ReadTyped ==
  read = [call |-> read.call, page |-> read.page, got |-> read.got,
          has |-> read.has, facts |-> read.facts, seen |-> read.seen]

(* A reading in progress.                                                  *)
ReadInv ==
  read # None =>
    /\ result = None /\ ReadTyped
    /\ world \in read.seen /\ Moments(world, read.seen)
    /\ read.page \in Nat \ {0}
    /\ Answers(world, read.has, read.seen)
    /\ Asking

(* A completed run decided on complete answers of the moments of its       *)
(* reading.                                                                *)
ResultInv == result # None /\ result.status = "completed" => \E jira : DecidedOn(jira)

(* Only a completed run has an explanation.                                *)
ExplanationInv == explanation # None => read = None /\ result # None /\ result.status = "completed"

(* The inductive invariant of MergeEvidence.                               *)
EvidenceInv == IsWorld(world) /\ ReadInv /\ ResultInv /\ ExplanationInv

(* The run ends.                                                           *)
LEMMA Ended ==
  ASSUME EvidenceInv, read # None, NEW has, NEW status, NEW error, NEW verdict,
         End(has, status, error, verdict), ResultInv'
  PROVE  EvidenceInv'
<1>1. read' = None /\ UNCHANGED <<world, explanation>>
  BY DEF End
<1>2. explanation = None
  BY DEF EvidenceInv, ExplanationInv
<1>3. IsWorld(world)'
  BY <1>1 DEF EvidenceInv
<1> QED BY <1>1, <1>2, <1>3 DEF EvidenceInv, ReadInv, ExplanationInv

(* A run that fails decides nothing.                                       *)
LEMMA FailStep ==
  ASSUME EvidenceInv, read # None, NEW error, Fail(error)
  PROVE  EvidenceInv'
<1>1. result'.status = "failed"
  BY DEF Fail, End
<1>2. ResultInv'
  BY <1>1 DEF ResultInv
<1> QED BY <1>2, Ended DEF Fail

(* A run decides on the facts of complete answers.                         *)
LEMMA DecideStep ==
  ASSUME EvidenceInv, read # None, NEW has, Answers(world, has, read.seen), Complete(has), NEW jira,
         \/ world.jira /\ jira = world.ticket
         \/ jira = None /\ (LinkedKey(has["pull"]) = None \/ ~world.jira),
         Decide(has, Facts(has), jira)
  PROVE  EvidenceInv'
<1>1. /\ world' = world /\ result'.has = has /\ result'.seen = read.seen
      /\ result'.verdict = Verdict(Facts(has), jira)
  BY DEF Decide, End
<1>2. world \in read.seen /\ Moments(world, read.seen) /\ IsWorld(world)
  BY DEF EvidenceInv, ReadInv
<1>3. Settled'
  BY <1>1, <1>2 DEF Settled
<1>4. DecidedOn(jira)'
  BY <1>1, <1>2, <1>3 DEF DecidedOn
<1>5. ResultInv'
  BY <1>4 DEF ResultInv
<1> QED BY <1>5, Ended DEF Decide

(* Going on to a request whose predecessors have been answered.             *)
LEMMA GoStep ==
  ASSUME EvidenceInv, read # None, NEW call, call \in DOMAIN Before, NEW has, DOMAIN has = Before[call],
         Permitted(call, has), Answers(world, has, read.seen), Go(call, has)
  PROVE  EvidenceInv'
<1>1. /\ UNCHANGED <<world, result, explanation>>
      /\ read' = [read EXCEPT !.call = call, !.has = has, !.page = 1, !.got = <<>>]
  BY DEF Go
<1>2. /\ result = None /\ ReadTyped /\ world \in read.seen /\ Moments(world, read.seen) /\ IsWorld(world)
      /\ explanation = None
  BY DEF EvidenceInv, ReadInv, ExplanationInv
<1>3. /\ read'.call = call /\ read'.has = has /\ read'.page = 1 /\ read'.got = <<>>
      /\ read'.seen = read.seen /\ ReadTyped'
  BY <1>1, <1>2 DEF ReadTyped
<1>4. Offset' = 0
  <2>1. PageSize \in Nat
    BY EvidenceAssumption
  <2> QED BY <1>3, <2>1 DEF Offset
<1>5. \A list : Len(list) \in Nat => 0 <= Len(list) /\ SubSeq(list, 1, 0) = <<>>
  OBVIOUS
<1>6. "pull" \in DOMAIN has => has["pull"].head \in DOMAIN world.runs
  BY DEF Answers
<1>7. /\ Len(world.reviews) \in Nat /\ Len(world.rules) \in Nat
      /\ \A head \in DOMAIN world.runs :
           Len(world.statuses[head]) \in Nat /\ world.runs[head] \in Seq(RunAnswer)
  BY <1>2, WorldParts
<1>8. call # "jira"
  BY DEF Before
<1>9. call \in {"statuses", "check_runs"} => "pull" \in DOMAIN has
  BY DEF Before
<1>10. ASSUME call = "check_runs" PROVE PartialRuns(has["pull"].head, 0, <<>>)'
  <2> DEFINE head == has["pull"].head
  <2>1. Len(<<>>) = 0 /\ <<>> \in Seq(RunAnswer) /\ DOMAIN <<>> = {}
    OBVIOUS
  <2>2. Gathered(<<>>, head, read.seen)
    BY <2>1 DEF Gathered
  <2>3. world.runs[head] \in Seq(RunAnswer)
    BY <1>6, <1>7, <1>9, <1>10
  <2>4. ASSUME NEW r \in ToSet(world.runs[head]) PROVE Ahead(world.runs[head], 0, r.name)
    <3>1. PICK j \in DOMAIN world.runs[head] : world.runs[head][j] = r
      BY DEF ToSet
    <3>2. j > 0
      BY <2>3, <3>1
    <3> QED BY <3>1, <3>2 DEF Ahead
  <2> QED BY <1>1, <1>2, <1>3, <2>1, <2>2, <2>4 DEF PartialRuns
<1>11. Listing(0, <<>>)'
  <2>1. call = "reviews" => Partial(world.reviews, 0, <<>>)'
    BY <1>1, <1>5, <1>7 DEF Partial
  <2>2. call = "rules" => Partial(world.rules, 0, <<>>)'
    BY <1>1, <1>5, <1>7 DEF Partial
  <2>3. call = "statuses" => Partial(world.statuses[has["pull"].head], 0, <<>>)'
    BY <1>1, <1>5, <1>6, <1>7, <1>9 DEF Partial
  <2> QED BY <1>3, <1>10, <2>1, <2>2, <2>3 DEF Listing
<1>12. Asking'
  BY <1>3, <1>4, <1>8, <1>11 DEF Asking
<1>13. ReadInv'
  BY <1>1, <1>2, <1>3, <1>12 DEF ReadInv
<1> QED BY <1>1, <1>2, <1>13 DEF EvidenceInv, ResultInv, ExplanationInv

(* The answers become facts.                                               *)
Answered(has) ==
  /\ {"pull", "reviews", "rules"} \subseteq DOMAIN has
  /\ has["rules"] # None => "protection" \in DOMAIN has
  /\ RequirementsKnown(has) /\ Required(has).names # {} => {"check_runs", "statuses"} \subseteq DOMAIN has

(* Facts are taken from answers that are complete, or the run fails.       *)
LEMMA NormalizeStep ==
  ASSUME EvidenceInv, read # None, NEW has, Answers(world, has, read.seen), Answered(has), Normalize(has)
  PROVE  EvidenceInv'
<1> DEFINE facts == Facts(has)
           strange == \E s \in ToSet(Listed(has, "statuses")) : s.state \notin DOMAIN StatusOf
<1>1. facts.key = LinkedKey(has["pull"])
  BY DEF Facts
<1>2. IF strange THEN Fail("invalid_response")
      ELSE IF facts.key = None THEN Decide(has, facts, None)
      ELSE /\ read' = [read EXCEPT !.call = "jira", !.has = has, !.facts = facts]
           /\ UNCHANGED <<world, result, explanation, changes>>
  BY DEF Normalize
<1>3. ~strange => Complete(has)
  BY DEF Answered, Complete
<1> HIDE DEF strange
<1>4. CASE strange
  BY <1>2, <1>4, FailStep
<1>5. CASE ~strange /\ facts.key = None
  BY <1>1, <1>2, <1>3, <1>5, DecideStep
<1>6. CASE ~strange /\ facts.key # None
  <2>1. /\ read' = [read EXCEPT !.call = "jira", !.has = has, !.facts = facts]
        /\ UNCHANGED <<world, result, explanation>>
    BY <1>2, <1>6
  <2>2. /\ result = None /\ ReadTyped /\ world \in read.seen /\ Moments(world, read.seen) /\ IsWorld(world)
        /\ explanation = None /\ read.page \in Nat \ {0}
    BY DEF EvidenceInv, ReadInv, ExplanationInv
  <2>3. /\ read'.call = "jira" /\ read'.has = has /\ read'.facts = facts /\ read'.page = read.page
        /\ read'.seen = read.seen /\ ReadTyped'
    <3> HIDE DEF facts
    <3> QED BY <2>1, <2>2 DEF ReadTyped
  <2>4. Asking'
    BY <1>1, <1>3, <1>6, <2>3 DEF Asking
  <2>5. ReadInv'
    BY <2>1, <2>2, <2>3, <2>4 DEF ReadInv
  <2> QED BY <2>1, <2>2, <2>5 DEF EvidenceInv, ResultInv, ExplanationInv
<1> QED BY <1>4, <1>5, <1>6

(* One more answer leads on, or ends the reading.                          *)
LEMMA LearnStep ==
  ASSUME EvidenceInv, read # None, read.call # "jira", NEW value,
         Answers(world, Assign(read.has, read.call, value), read.seen), Learn(value)
  PROVE  EvidenceInv'
<1> DEFINE has == Assign(read.has, read.call, value)
           call == read.call
<1>1. /\ call \in DOMAIN Before /\ DOMAIN read.has = Before[call] /\ Permitted(call, read.has)
  BY DEF EvidenceInv, ReadInv, Asking
<1>2. /\ DOMAIN has = Before[call] \cup {call} /\ has[call] = value
      /\ \A other \in Before[call] : other # call => has[other] = read.has[other]
  <2>1. DOMAIN has = DOMAIN read.has \cup {call}
    BY DEF Assign
  <2>2. has[call] = value
    BY DEF Assign
  <2>3. \A other \in DOMAIN read.has : other # call => has[other] = read.has[other]
    BY DEF Assign
  <2> QED BY <1>1, <2>1, <2>2, <2>3
<1>3. Answers(world, has, read.seen)
  OBVIOUS
<1> HIDE DEF has
<1>4. CASE call = "pull"
  <2>1. Go("reviews", has)
    BY <1>4 DEF Learn, has
  <2>2. "reviews" \in DOMAIN Before /\ DOMAIN has = Before["reviews"] /\ Permitted("reviews", has)
    BY <1>2, <1>4 DEF Before, Permitted
  <2> QED BY <1>3, <2>1, <2>2, GoStep
<1>5. CASE call = "reviews"
  <2>1. Go("rules", has)
    BY <1>5 DEF Learn, has
  <2>2. "rules" \in DOMAIN Before /\ DOMAIN has = Before["rules"] /\ Permitted("rules", has)
    BY <1>2, <1>5 DEF Before, Permitted
  <2> QED BY <1>3, <2>1, <2>2, GoStep
<1>6. CASE call = "rules" /\ value = None
  <2>1. Normalize(has)
    BY <1>6 DEF Learn, has
  <2>2. Answered(has)
    BY <1>2, <1>6 DEF Before, Answered, RequirementsKnown, Known
  <2> QED BY <1>3, <2>1, <2>2, NormalizeStep
<1>7. CASE call = "rules" /\ value # None
  <2>1. Go("protection", has)
    BY <1>7 DEF Learn, has
  <2>2. "protection" \in DOMAIN Before /\ DOMAIN has = Before["protection"] /\ Permitted("protection", has)
    BY <1>2, <1>7 DEF Before, Permitted
  <2> QED BY <1>3, <2>1, <2>2, GoStep
<1>8. CASE call = "protection" /\ value = None
  <2>1. Normalize(has)
    BY <1>8 DEF Learn, has
  <2>2. Answered(has)
    BY <1>2, <1>8 DEF Before, Answered, RequirementsKnown, Known
  <2> QED BY <1>3, <2>1, <2>2, NormalizeStep
<1>9. CASE call = "protection" /\ value # None
  <2>1. AfterRequirements(has)
    BY <1>9 DEF Learn, has
  <2>2. /\ "check_runs" \in DOMAIN Before /\ DOMAIN has = Before["check_runs"]
        /\ has["rules"] = read.has["rules"] /\ has["protection"] = value
    BY <1>2, <1>9 DEF Before
  <2>3. Permitted("check_runs", has)
    BY <1>1, <1>9, <2>2 DEF Before, Permitted
  <2>4. CASE Required(has).malformed
    BY <2>1, <2>4, FailStep DEF AfterRequirements
  <2>5. CASE ~Required(has).malformed /\ Required(has).names = {}
    <3>1. Normalize(has)
      BY <2>1, <2>5 DEF AfterRequirements
    <3>2. Answered(has)
      BY <2>2, <2>5 DEF Before, Answered
    <3> QED BY <1>3, <3>1, <3>2, NormalizeStep
  <2>6. CASE ~Required(has).malformed /\ Required(has).names # {}
    <3>1. Go("check_runs", has)
      BY <2>1, <2>6 DEF AfterRequirements
    <3> QED BY <1>3, <2>2, <2>3, <3>1, GoStep
  <2> QED BY <2>4, <2>5, <2>6
<1>10. CASE call = "check_runs"
  <2>1. Go("statuses", has)
    BY <1>10 DEF Learn, has
  <2>2. "statuses" \in DOMAIN Before /\ DOMAIN has = Before["statuses"] /\ Permitted("statuses", has)
    BY <1>1, <1>2, <1>10 DEF Before, Permitted
  <2> QED BY <1>3, <2>1, <2>2, GoStep
<1>11. CASE call = "statuses"
  <2>1. Normalize(has)
    BY <1>11 DEF Learn, has
  <2>2. Answered(has)
    BY <1>2, <1>11 DEF Before, Answered
  <2> QED BY <1>3, <2>1, <2>2, NormalizeStep
<1>12. DOMAIN Before = {"pull", "reviews", "rules", "protection", "check_runs", "statuses"}
  BY DEF Before
<1> HIDE DEF call
<1> QED BY <1>1, <1>4, <1>5, <1>6, <1>7, <1>8, <1>9, <1>10, <1>11, <1>12

(* A page begins where the last one ended, and ends with the list or full. *)
LEMMA PageOf ==
  ASSUME read.page \in Nat \ {0}, NEW S, NEW list \in Seq(S), NEW page, page = Page(list)
  PROVE  LET a == Offset
             b == IF a + PageSize <= Len(list) THEN a + PageSize ELSE Len(list)
         IN  /\ a \in Nat /\ (read.page + 1 - 1) * PageSize = a + PageSize
             /\ page = SubSeq(list, a + 1, b) /\ page \in Seq(S)
             /\ Len(page) = IF a <= b THEN b - a ELSE 0
             /\ \A k \in 1..Len(page) : a + k \in DOMAIN list /\ page[k] = list[a + k]
<1> DEFINE a == Offset
           b == IF a + PageSize <= Len(list) THEN a + PageSize ELSE Len(list)
<1>1. PageSize \in Nat \ {0} /\ Len(list) \in Nat /\ DOMAIN list = 1..Len(list)
  BY EvidenceAssumption
<1>2. a \in Nat /\ read.page * PageSize = a + PageSize /\ (read.page + 1 - 1) * PageSize = a + PageSize
  BY <1>1 DEF Offset
<1>3. Min({read.page * PageSize, Len(list)}) = b
  <2>1. \A m, n \in Int : Min({m, n}) = IF m <= n THEN m ELSE n
    BY DEF Min
  <2> DEFINE end == read.page * PageSize
  <2>2. end = a + PageSize /\ a \in Nat
    BY <1>2
  <2> HIDE DEF end, a
  <2>3. end \in Int /\ Len(list) \in Int
    BY <1>1, <2>2
  <2>4. Min({end, Len(list)}) = IF end <= Len(list) THEN end ELSE Len(list)
    BY <2>1, <2>3
  <2> QED BY <2>2, <2>4 DEF end
<1>4. page = SubSeq(list, a + 1, b)
  BY <1>3 DEF Page, Offset
<1> HIDE DEF a
<1>5. a + 1 \in Int /\ b \in Int /\ b <= Len(list)
  BY <1>1, <1>2
<1> HIDE DEF b
<1>6. \A i \in (a + 1)..b : list[i] \in S
  BY <1>1, <1>2, <1>5
<1>7. /\ SubSeq(list, a + 1, b) \in Seq(S)
      /\ Len(SubSeq(list, a + 1, b)) = IF a + 1 <= b THEN b - (a + 1) + 1 ELSE 0
      /\ \A i \in 1..(b - (a + 1) + 1) : SubSeq(list, a + 1, b)[i] = list[a + 1 + i - 1]
  BY <1>5, <1>6, SubSeqProperties
<1>8. page \in Seq(S) /\ Len(page) = IF a <= b THEN b - a ELSE 0
  BY <1>2, <1>4, <1>5, <1>7
<1>9. ASSUME NEW k \in 1..Len(page) PROVE a + k \in DOMAIN list /\ page[k] = list[a + k]
  <2>1. k \in 1..(b - a) /\ k \in Nat
    BY <1>2, <1>5, <1>8
  <2>2. k \in 1..(b - (a + 1) + 1) /\ a + 1 + k - 1 = a + k /\ a + k \in 1..Len(list)
    BY <1>1, <1>2, <1>5, <2>1
  <2> QED BY <1>1, <1>4, <1>7, <2>2
<1> QED BY <1>2, <1>4, <1>8, <1>9 DEF a, b

(* The pages of a list that does not move, or only grows at its end.        *)
LEMMA PagesAddUp ==
  ASSUME read.page \in Nat \ {0}, NEW S, NEW list \in Seq(S), Partial(list, Offset, read.got),
         NEW got, got = read.got \o Page(list)
  PROVE  /\ Len(Page(list)) < PageSize \/ Len(got) >= Len(list) => got = list
         /\ ~(Len(Page(list)) < PageSize) => Partial(list, Offset + PageSize, got)
<1> DEFINE a == Offset
           b == IF a + PageSize <= Len(list) THEN a + PageSize ELSE Len(list)
           page == Page(list)
<1>1. PageSize \in Nat \ {0} /\ Len(list) \in Nat
  BY EvidenceAssumption
<1>2. /\ a \in Nat /\ page = SubSeq(list, a + 1, b)
      /\ Len(page) = IF a <= b THEN b - a ELSE 0
  BY PageOf
<1>3. a <= Len(list) /\ read.got = SubSeq(list, 1, a)
  BY DEF Partial
<1> HIDE DEF a, page
<1>4. a <= b /\ b <= Len(list) /\ b \in Nat /\ Len(page) = b - a
  BY <1>1, <1>2, <1>3
<1>5. got = SubSeq(list, 1, b)
  <2>1. 1 \in 1..(Len(list) + 1) /\ a \in (1 - 1)..Len(list) /\ b \in a..Len(list)
    BY <1>1, <1>2, <1>3, <1>4
  <2>2. got = SubSeq(list, 1, a) \o SubSeq(list, a + 1, b)
    BY <1>2, <1>3 DEF page
  <2> HIDE DEF b
  <2> QED BY <2>1, <2>2, ConcatAdjacentSubSeq
<1>6. CASE b = Len(list)
  <2>1. got = list
    BY <1>5, <1>6, SubSeqFull
  <2>2. ~(Len(page) < PageSize) => b = a + PageSize
    BY <1>1, <1>2, <1>4
  <2>3. Partial(list, b, got)
    BY <1>4, <1>5 DEF Partial
  <2> HIDE DEF b
  <2> QED BY <2>1, <2>2, <2>3 DEF a, page
<1>7. CASE b # Len(list)
  <2>1. b = a + PageSize /\ b < Len(list) /\ ~(Len(page) < PageSize)
    BY <1>1, <1>2, <1>4, <1>7
  <2>2. Len(got) = b
    <3>1. \A i \in 1..b : list[i] \in S
      BY <1>1, <1>4
    <3> HIDE DEF b
    <3>2. 1 \in Int /\ b \in Int
      BY <1>4
    <3>3. Len(SubSeq(list, 1, b)) = IF 1 <= b THEN b - 1 + 1 ELSE 0
      BY <3>1, <3>2, SubSeqProperties
    <3> QED BY <1>4, <1>5, <3>3
  <2>3. ~(Len(got) >= Len(list))
    BY <1>1, <1>4, <2>1, <2>2
  <2>4. Partial(list, b, got)
    BY <1>4, <1>5 DEF Partial
  <2> QED BY <2>1, <2>3, <2>4 DEF a, page
<1> QED BY <1>6, <1>7

(* One sequence after another.                                              *)
Joins(front, back, whole) ==
  /\ Len(whole) = Len(front) + Len(back)
  /\ \A i \in DOMAIN front : i \in DOMAIN whole /\ whole[i] = front[i]
  /\ \A k \in DOMAIN back : Len(front) + k \in DOMAIN whole /\ whole[Len(front) + k] = back[k]
  /\ \A i \in DOMAIN whole : i \in DOMAIN front \/ \E k \in DOMAIN back : i = Len(front) + k

(* What Joins says is what \o does.                                        *)
LEMMA Joining ==
  ASSUME NEW S, NEW front \in Seq(S), NEW back \in Seq(S), NEW whole, whole = front \o back
  PROVE  whole \in Seq(S) /\ Joins(front, back, whole)
<1>1. /\ Len(front) \in Nat /\ DOMAIN front = 1..Len(front)
      /\ Len(back) \in Nat /\ DOMAIN back = 1..Len(back)
  OBVIOUS
<1>2. /\ whole \in Seq(S) /\ Len(whole) = Len(front) + Len(back)
      /\ \A i \in 1..(Len(front) + Len(back)) :
           whole[i] = IF i <= Len(front) THEN front[i] ELSE back[i - Len(front)]
  OBVIOUS
<1>3. DOMAIN whole = 1..(Len(front) + Len(back))
  BY <1>2
<1>4. ASSUME NEW k \in DOMAIN back
      PROVE  Len(front) + k \in DOMAIN whole /\ whole[Len(front) + k] = back[k]
  <2> DEFINE i == Len(front) + k
  <2>1. i \in 1..(Len(front) + Len(back)) /\ ~(i <= Len(front)) /\ i - Len(front) = k
    BY <1>1
  <2> HIDE DEF i
  <2>2. i \in DOMAIN whole /\ whole[i] = back[k]
    BY <1>2, <1>3, <2>1
  <2> QED BY <2>2 DEF i
<1>5. ASSUME NEW i \in DOMAIN whole, i \notin DOMAIN front
      PROVE  \E k \in DOMAIN back : i = Len(front) + k
  <2>1. i - Len(front) \in DOMAIN back /\ i = Len(front) + (i - Len(front))
    BY <1>1, <1>3, <1>5
  <2> QED BY <2>1
<1>6. \A i \in DOMAIN front : i \in DOMAIN whole /\ whole[i] = front[i]
  BY <1>1, <1>2, <1>3
<1> QED BY <1>2, <1>4, <1>5, <1>6 DEF Joins

(* The pages of the check runs, which change meanwhile.                     *)
LEMMA RunsAddUp ==
  ASSUME EvidenceInv, read # None, NEW head \in DOMAIN world.runs, PartialRuns(head, Offset, read.got),
         NEW got, got = read.got \o Page(world.runs[head])
  PROVE  /\ Gathered(got, head, read.seen)
         /\ IF Len(got) >= Len(world.runs[head]) \/ Len(Page(world.runs[head])) < PageSize
            THEN Covered(got, head, read.seen)
            ELSE PartialRuns(head, Offset + PageSize, got)
<1> DEFINE list == world.runs[head]
           page == Page(list)
           a == Offset
           size == Len(list)
           width == Len(page)
           before == read.got
           b == IF a + PageSize <= size THEN a + PageSize ELSE size
<1>1. /\ list \in Seq(RunAnswer) /\ read.page \in Nat \ {0} /\ world \in read.seen
      /\ PageSize \in Nat \ {0} /\ size \in Nat /\ DOMAIN list = 1..size
  <2>1. world.runs[head] \in Seq(RunAnswer)
    BY WorldParts DEF EvidenceInv
  <2> QED BY <2>1, EvidenceAssumption DEF EvidenceInv, ReadInv
<1>2. /\ a \in Nat /\ page \in Seq(RunAnswer) /\ width = IF a <= b THEN b - a ELSE 0
      /\ \A k \in 1..width : a + k \in DOMAIN list /\ page[k] = list[a + k]
  <2> DEFINE runs == world.runs[head]
  <2>1. read.page \in Nat \ {0} /\ runs \in Seq(RunAnswer)
    BY <1>1
  <2> HIDE DEF runs
  <2>2. /\ a \in Nat /\ Page(runs) \in Seq(RunAnswer)
        /\ Len(Page(runs)) = IF a <= IF a + PageSize <= Len(runs) THEN a + PageSize ELSE Len(runs)
                             THEN (IF a + PageSize <= Len(runs) THEN a + PageSize ELSE Len(runs)) - a ELSE 0
        /\ \A k \in 1..Len(Page(runs)) : a + k \in DOMAIN runs /\ Page(runs)[k] = runs[a + k]
    BY <2>1, PageOf
  <2> QED BY <2>2 DEF runs
<1>3. /\ Len(before) = a /\ before \in Seq(RunAnswer)
      /\ \A i \in DOMAIN before : \E w \in read.seen : before[i] \in ToSet(w.runs[head])
  BY DEF PartialRuns, Gathered
<1>4. PICK w \in read.seen : \A r \in ToSet(w.runs[head]) : CameIn(before, r.name) \/ Ahead(list, a, r.name)
  BY DEF PartialRuns
<1>5. got = before \o page
  OBVIOUS
<1> HIDE DEF list, page, before, a
<1>6. /\ got \in Seq(RunAnswer) /\ Len(got) = a + width /\ width \in Nat /\ DOMAIN page = 1..width
      /\ \A i \in DOMAIN before : i \in DOMAIN got /\ got[i] = before[i]
      /\ \A k \in DOMAIN page : a + k \in DOMAIN got /\ got[a + k] = page[k]
      /\ \A i \in DOMAIN got : i \in DOMAIN before \/ \E k \in DOMAIN page : i = a + k
  <2>1. width \in Nat /\ DOMAIN page = 1..width
    BY <1>2
  <2>2. got \in Seq(RunAnswer) /\ Joins(before, page, got)
    BY <1>2, <1>3, <1>5, Joining
  <2> QED BY <1>3, <2>1, <2>2 DEF Joins
<1> HIDE DEF size, width
<1>7. ASSUME NEW i \in DOMAIN got PROVE \E v \in read.seen : got[i] \in ToSet(v.runs[head])
  <2>1. CASE i \in DOMAIN before
    BY <1>3, <1>6, <2>1
  <2>2. CASE i \notin DOMAIN before
    <3>1. PICK k \in DOMAIN page : i = a + k
      BY <1>6, <2>2
    <3>2. got[i] = list[a + k] /\ a + k \in DOMAIN list
      BY <1>2, <1>6, <3>1
    <3>3. got[i] \in ToSet(list)
      BY <3>2 DEF ToSet
    <3> QED BY <1>1, <3>3 DEF list
  <2> QED BY <2>1, <2>2
<1>8. Gathered(got, head, read.seen)
  BY <1>6, <1>7 DEF Gathered
<1>9. \A name : CameIn(before, name) => CameIn(got, name)
  BY <1>6 DEF CameIn
<1>10. ASSUME NEW name, NEW j \in DOMAIN list, j > a, j <= a + width, list[j].name = name
       PROVE  CameIn(got, name)
  <2>1. PICK k \in 1..width : j = a + k
    <3>1. j - a \in 1..width /\ j = a + (j - a)
      BY <1>1, <1>2, <1>6, <1>10
    <3> QED BY <3>1
  <2>2. a + k \in DOMAIN got /\ got[a + k] = list[a + k]
    BY <1>2, <1>6, <2>1
  <2>3. got[j].name = name /\ j \in DOMAIN got
    BY <1>10, <2>1, <2>2
  <2> QED BY <2>3 DEF CameIn
<1>11. a \in Nat /\ size \in Nat /\ PageSize \in Nat /\ width \in Nat /\ Len(got) = a + width
  BY <1>1, <1>2, <1>6
<1>12. width = IF a <= b THEN b - a ELSE 0
  BY <1>2
<1>13. CASE Len(got) >= size \/ width < PageSize
  <2>1. ASSUME NEW j \in DOMAIN list, j > a PROVE j <= a + width
    <3>1. j \in Nat /\ j <= size
      BY <1>1
    <3> QED BY <1>11, <1>12, <1>13, <2>1, <3>1
  <2>2. ASSUME NEW r \in ToSet(w.runs[head]) PROVE CameIn(got, r.name)
    <3>1. CASE CameIn(before, r.name)
      BY <1>9, <3>1
    <3>2. CASE Ahead(list, a, r.name)
      <4>1. PICK j \in DOMAIN list : j > a /\ list[j].name = r.name
        BY <3>2 DEF Ahead
      <4> QED BY <1>10, <2>1, <4>1
    <3> QED BY <1>4, <3>1, <3>2
  <2>3. Covered(got, head, read.seen)
    BY <2>2 DEF Covered, CameIn
  <2> QED BY <1>8, <1>13, <2>3 DEF list, page, size, width
<1>14. CASE ~(Len(got) >= size \/ width < PageSize)
  <2>1. width = PageSize
    BY <1>11, <1>12, <1>14
  <2>2. ASSUME NEW r \in ToSet(w.runs[head])
        PROVE  CameIn(got, r.name) \/ Ahead(list, a + PageSize, r.name)
    <3>1. CASE CameIn(before, r.name)
      BY <1>9, <3>1
    <3>2. CASE Ahead(list, a, r.name)
      <4>1. PICK j \in DOMAIN list : j > a /\ list[j].name = r.name
        BY <3>2 DEF Ahead
      <4>2. CASE j <= a + PageSize
        BY <1>10, <2>1, <4>1, <4>2
      <4>3. CASE ~(j <= a + PageSize)
        <5>1. j > a + PageSize
          BY <1>1, <1>11, <4>3
        <5> QED BY <4>1, <5>1 DEF Ahead
      <4> QED BY <4>2, <4>3
    <3> QED BY <1>4, <3>1, <3>2
  <2>3. PartialRuns(head, a + PageSize, got)
    <3>1. Len(got) = a + PageSize
      BY <1>11, <2>1
    <3> QED BY <1>8, <2>2, <3>1 DEF PartialRuns, list
  <2> QED BY <1>8, <1>14, <2>3 DEF list, page, a, size, width
<1> QED BY <1>13, <1>14

(* The next page is asked for, unless there have been too many.             *)
LEMMA NextPageStep ==
  ASSUME EvidenceInv, read # None, read.call # "jira", NEW got,
         Listing(Offset + PageSize, got), NextPage(got)
  PROVE  EvidenceInv'
<1>1. CASE read.page = MaxPages
  BY <1>1, FailStep DEF NextPage
<1>2. CASE read.page # MaxPages
  <2>1. /\ UNCHANGED <<world, result, explanation>>
        /\ read' = [read EXCEPT !.page = @ + 1, !.got = got]
    BY <1>2 DEF NextPage
  <2>2. /\ result = None /\ ReadTyped /\ world \in read.seen /\ Moments(world, read.seen) /\ IsWorld(world)
        /\ explanation = None /\ read.page \in Nat \ {0} /\ Answers(world, read.has, read.seen)
        /\ read.call \in DOMAIN Before /\ DOMAIN read.has = Before[read.call] /\ Permitted(read.call, read.has)
    BY DEF EvidenceInv, ReadInv, ExplanationInv, Asking
  <2>3. /\ read'.call = read.call /\ read'.has = read.has /\ read'.page = read.page + 1 /\ read'.got = got
        /\ read'.seen = read.seen /\ read'.facts = read.facts /\ ReadTyped'
    BY <2>1, <2>2 DEF ReadTyped
  <2>4. Offset' = Offset + PageSize
    <3>1. ((read.page + 1) - 1) * PageSize = (read.page - 1) * PageSize + PageSize
      BY <2>2, EvidenceAssumption
    <3> DEFINE next == read'.page
    <3>2. Offset' = (next - 1) * PageSize /\ Offset = (read.page - 1) * PageSize
      BY DEF Offset
    <3>3. next = read.page + 1
      BY <2>3
    <3> HIDE DEF next
    <3> QED BY <3>1, <3>2, <3>3
  <2>5. Listing(Offset, read.got)'
    <3> DEFINE next == Offset + PageSize
    <3>1. Listing(next, got)
      OBVIOUS
    <3>2. Offset' = next /\ read'.got = got
      BY <2>3, <2>4
    <3> HIDE DEF next
    <3> QED BY <2>1, <2>3, <3>1, <3>2 DEF Listing, Partial, PartialRuns, Gathered
  <2>6. Asking'
    BY <2>2, <2>3, <2>5 DEF Asking
  <2>7. ReadInv'
    BY <2>1, <2>2, <2>3, <2>6 DEF ReadInv
  <2> QED BY <2>1, <2>2, <2>7 DEF EvidenceInv, ResultInv, ExplanationInv
<1> QED BY <1>1, <1>2

(* An answer that fits its request.                                        *)
Fits(value) ==
  CASE read.call = "pull" -> value = world.pull
    [] read.call = "reviews" -> value = None \/ \E w \in read.seen : value = w.reviews
    [] read.call = "rules" -> value = None \/ value = world.rules
    [] read.call = "protection" -> value = None \/ value \in {NoProtection, world.protection}
    [] read.call = "check_runs" ->
         \/ value = None
         \/ /\ Gathered(value, read.has["pull"].head, read.seen)
            /\ Covered(value, read.has["pull"].head, read.seen)
    [] read.call = "statuses" -> value = None \/ value = world.statuses[read.has["pull"].head]

(* An answer that fits keeps what has been answered in order.              *)
LEMMA FittingAnswer ==
  ASSUME EvidenceInv, read # None, read.call # "jira", NEW value, Fits(value), Learn(value)
  PROVE  EvidenceInv'
<1> DEFINE has == Assign(read.has, read.call, value)
           call == read.call
<1>1. /\ call \in DOMAIN Before /\ DOMAIN read.has = Before[call]
      /\ Answers(world, read.has, read.seen) /\ IsWorld(world)
  BY DEF EvidenceInv, ReadInv, Asking
<1>2. /\ DOMAIN has = Before[call] \cup {call} /\ has[call] = value
      /\ \A other \in Before[call] : other # call => has[other] = read.has[other]
  <2>1. DOMAIN has = DOMAIN read.has \cup {call}
    BY DEF Assign
  <2>2. has[call] = value
    BY DEF Assign
  <2>3. \A other \in DOMAIN read.has : other # call => has[other] = read.has[other]
    BY DEF Assign
  <2> QED BY <1>1, <2>1, <2>2, <2>3
<1>3. world.pull \in PullAnswer /\ world.pull.head \in DOMAIN world.runs
  BY <1>1, WorldParts DEF IsWorld
<1>4. call = "pull" => value \in PullAnswer /\ value.head \in DOMAIN world.runs
  BY <1>3 DEF Fits
<1>5. DOMAIN Before = {"pull", "reviews", "rules", "protection", "check_runs", "statuses"}
  BY DEF Before
<1>6. call \notin Before[call] /\ (call # "pull" => "pull" \in Before[call])
  BY <1>1, <1>5 DEF Before
<1> HIDE DEF has, call
<1>7. \A other : other # call => (Known(has, other) <=> Known(read.has, other))
                                 /\ (other \in DOMAIN has <=> other \in DOMAIN read.has)
                                 /\ (other \in DOMAIN has => has[other] = read.has[other])
  BY <1>1, <1>2 DEF Known
<1>8. "pull" \in DOMAIN has => has["pull"] \in PullAnswer /\ has["pull"].head \in DOMAIN world.runs
  BY <1>1, <1>2, <1>4, <1>7 DEF Answers
<1>9. Known(has, "reviews") => \E w \in read.seen : has["reviews"] = w.reviews
  BY <1>1, <1>2, <1>7 DEF Answers, Known, Fits, call
<1>10. Known(has, "rules") => has["rules"] = world.rules
  BY <1>1, <1>2, <1>7 DEF Answers, Known, Fits, call
<1>11. Known(has, "protection") => has["protection"] \in {NoProtection, world.protection}
  BY <1>1, <1>2, <1>7 DEF Answers, Known, Fits, call
<1>12. call # "pull" => has["pull"] = read.has["pull"]
  BY <1>2, <1>6
<1>13. call = "pull" => ~Known(has, "check_runs") /\ ~Known(has, "statuses")
  <2>1. Before["pull"] = {}
    BY DEF Before
  <2> QED BY <1>2, <2>1 DEF Known
<1>14. Known(has, "check_runs") =>
         Gathered(has["check_runs"], has["pull"].head, read.seen)
         /\ Covered(has["check_runs"], has["pull"].head, read.seen)
  <2>1. CASE call = "check_runs"
    BY <1>2, <1>12, <2>1 DEF Known, Fits, call
  <2>2. CASE call # "check_runs" /\ Known(has, "check_runs")
    <3>1. Known(read.has, "check_runs") /\ has["check_runs"] = read.has["check_runs"]
      BY <1>7, <2>2 DEF Known
    <3>2. has["pull"] = read.has["pull"]
      BY <1>12, <1>13, <2>2
    <3>3. /\ Gathered(read.has["check_runs"], read.has["pull"].head, read.seen)
          /\ Covered(read.has["check_runs"], read.has["pull"].head, read.seen)
      BY <1>1, <3>1 DEF Answers
    <3> QED BY <3>1, <3>2, <3>3
  <2> QED BY <2>1, <2>2
<1>15. Known(has, "statuses") => has["statuses"] = world.statuses[has["pull"].head]
  <2>1. CASE call = "statuses"
    BY <1>2, <1>12, <2>1 DEF Known, Fits, call
  <2>2. CASE call # "statuses" /\ Known(has, "statuses")
    <3>1. Known(read.has, "statuses") /\ has["statuses"] = read.has["statuses"]
      BY <1>7, <2>2 DEF Known
    <3>2. has["pull"] = read.has["pull"]
      BY <1>12, <1>13, <2>2
    <3>3. read.has["statuses"] = world.statuses[read.has["pull"].head]
      BY <1>1, <3>1 DEF Answers
    <3> QED BY <3>1, <3>2, <3>3
  <2> QED BY <2>1, <2>2
<1>16. Answers(world, has, read.seen)
  BY <1>8, <1>9, <1>10, <1>11, <1>14, <1>15 DEF Answers
<1> QED BY <1>16, LearnStep DEF has, call

-----------------------------------------------------------------------------
(* Each action keeps EvidenceInv.                                          *)

(* What a reading in progress may be taken to have.                         *)
LEMMA Reading ==
  ASSUME EvidenceInv, read # None, read.call # "jira"
  PROVE  /\ read.page \in Nat \ {0} /\ world \in read.seen /\ IsWorld(world) /\ Moments(world, read.seen)
         /\ DOMAIN read.has = Before[read.call] /\ Answers(world, read.has, read.seen)
         /\ Listing(Offset, read.got)
BY DEF EvidenceInv, ReadInv, Asking

(* The pull request is answered.                                           *)
LEMMA PullStep ==
  ASSUME EvidenceInv, PullAnswered
  PROVE  EvidenceInv'
<1>1. read # None /\ read.call = "pull"
  BY DEF PullAnswered, Calling
<1>2. CASE world.pull.number # "asked"
  BY <1>1, <1>2, FailStep DEF PullAnswered
<1>3. CASE world.pull.number = "asked"
  <2>1. Learn(world.pull)
    BY <1>3 DEF PullAnswered
  <2>2. Fits(world.pull) /\ read.call # "jira"
    BY <1>1 DEF Fits
  <2> QED BY <1>1, <2>1, <2>2, FittingAnswer
<1> QED BY <1>2, <1>3

(* A page of the reviews.                                                  *)
LEMMA ReviewsStep ==
  ASSUME EvidenceInv, ReviewsAnswered
  PROVE  EvidenceInv'
<1> DEFINE list == world.reviews
           got == read.got \o Page(list)
<1>1. read # None /\ read.call = "reviews" /\ read.call # "jira"
  BY DEF ReviewsAnswered, ListAnswered, Calling
<1>2. IF Len(Page(list)) < PageSize THEN Learn(got) ELSE NextPage(got)
  BY DEF ReviewsAnswered, ListAnswered
<1>3. list \in Seq(ReviewAnswer) /\ world \in read.seen /\ read.page \in Nat \ {0}
  BY <1>1, Reading, WorldParts
<1>4. Partial(list, Offset, read.got)
  BY <1>1, Reading DEF Listing
<1>5. /\ Len(Page(list)) < PageSize \/ Len(got) >= Len(list) => got = list
      /\ ~(Len(Page(list)) < PageSize) => Partial(list, Offset + PageSize, got)
  BY <1>3, <1>4, PagesAddUp
<1>6. CASE Len(Page(list)) < PageSize
  <2>1. Fits(got)
    BY <1>1, <1>3, <1>5, <1>6 DEF Fits
  <2> HIDE DEF got
  <2> QED BY <1>1, <1>2, <1>6, <2>1, FittingAnswer
<1>7. CASE ~(Len(Page(list)) < PageSize)
  <2>1. Partial(list, Offset + PageSize, got)
    BY <1>5, <1>7
  <2>2. Listing(Offset + PageSize, got)
    BY <1>1, <2>1 DEF Listing
  <2> HIDE DEF got
  <2> QED BY <1>1, <1>2, <1>7, <2>2, NextPageStep
<1> QED BY <1>6, <1>7

(* A page of the rules.                                                    *)
LEMMA RulesStep ==
  ASSUME EvidenceInv, RulesAnswered
  PROVE  EvidenceInv'
<1> DEFINE list == world.rules
           got == read.got \o Page(list)
<1>1. read # None /\ read.call = "rules" /\ read.call # "jira"
  BY DEF RulesAnswered, ListAnswered, Calling
<1>2. IF Len(Page(list)) < PageSize THEN Learn(got) ELSE NextPage(got)
  BY DEF RulesAnswered, ListAnswered
<1>3. list \in Seq(RuleAnswer) /\ world \in read.seen /\ read.page \in Nat \ {0}
  BY <1>1, Reading, WorldParts
<1>4. Partial(list, Offset, read.got)
  BY <1>1, Reading DEF Listing
<1>5. /\ Len(Page(list)) < PageSize \/ Len(got) >= Len(list) => got = list
      /\ ~(Len(Page(list)) < PageSize) => Partial(list, Offset + PageSize, got)
  BY <1>3, <1>4, PagesAddUp
<1>6. CASE Len(Page(list)) < PageSize
  <2>1. Fits(got)
    BY <1>1, <1>3, <1>5, <1>6 DEF Fits
  <2> HIDE DEF got
  <2> QED BY <1>1, <1>2, <1>6, <2>1, FittingAnswer
<1>7. CASE ~(Len(Page(list)) < PageSize)
  <2>1. Partial(list, Offset + PageSize, got)
    BY <1>5, <1>7
  <2>2. Listing(Offset + PageSize, got)
    BY <1>1, <2>1 DEF Listing
  <2> HIDE DEF got
  <2> QED BY <1>1, <1>2, <1>7, <2>2, NextPageStep
<1> QED BY <1>6, <1>7

(* A page of the statuses.                                                 *)
LEMMA StatusesStep ==
  ASSUME EvidenceInv, StatusesAnswered
  PROVE  EvidenceInv'
<1> DEFINE list == world.statuses[read.has["pull"].head]
           got == read.got \o Page(list)
<1>1. read # None /\ read.call = "statuses" /\ read.call # "jira"
  BY DEF StatusesAnswered, CountedListAnswered, Calling
<1>2. IF Len(got) >= Len(list) \/ Len(Page(list)) < PageSize THEN Learn(got) ELSE NextPage(got)
  BY DEF StatusesAnswered, CountedListAnswered
<1>3. list \in Seq(StatusAnswer) /\ read.page \in Nat \ {0}
  <2>1. read.has["pull"].head \in DOMAIN world.runs
    BY <1>1, Reading DEF Answers, Before
  <2> QED BY <1>1, <2>1, Reading, WorldParts
<1>4. Partial(list, Offset, read.got)
  BY <1>1, Reading DEF Listing
<1>5. /\ Len(Page(list)) < PageSize \/ Len(got) >= Len(list) => got = list
      /\ ~(Len(Page(list)) < PageSize) => Partial(list, Offset + PageSize, got)
  BY <1>3, <1>4, PagesAddUp
<1>6. CASE Len(got) >= Len(list) \/ Len(Page(list)) < PageSize
  <2>1. Fits(got)
    BY <1>1, <1>3, <1>5, <1>6 DEF Fits
  <2> HIDE DEF got
  <2> QED BY <1>1, <1>2, <1>6, <2>1, FittingAnswer
<1>7. CASE ~(Len(got) >= Len(list) \/ Len(Page(list)) < PageSize)
  <2>1. Partial(list, Offset + PageSize, got)
    BY <1>5, <1>7
  <2>2. Listing(Offset + PageSize, got)
    BY <1>1, <2>1 DEF Listing
  <2> HIDE DEF got
  <2> QED BY <1>1, <1>2, <1>7, <2>2, NextPageStep
<1> QED BY <1>6, <1>7

(* A page of the check runs.                                               *)
LEMMA CheckRunsStep ==
  ASSUME EvidenceInv, CheckRunsAnswered
  PROVE  EvidenceInv'
<1> DEFINE head == read.has["pull"].head
           list == world.runs[head]
           got == read.got \o Page(list)
<1>1. read # None /\ read.call = "check_runs" /\ read.call # "jira"
  BY DEF CheckRunsAnswered, CountedListAnswered, Calling
<1>2. IF Len(got) >= Len(list) \/ Len(Page(list)) < PageSize THEN Learn(got) ELSE NextPage(got)
  BY DEF CheckRunsAnswered, CountedListAnswered
<1>3. head \in DOMAIN world.runs
  BY <1>1, Reading DEF Answers, Before
<1>4. PartialRuns(head, Offset, read.got)
  BY <1>1, Reading DEF Listing
<1>5. /\ Gathered(got, head, read.seen)
      /\ IF Len(got) >= Len(list) \/ Len(Page(list)) < PageSize THEN Covered(got, head, read.seen)
         ELSE PartialRuns(head, Offset + PageSize, got)
  <2> HIDE DEF head
  <2> QED BY <1>1, <1>3, <1>4, RunsAddUp
<1>6. CASE Len(got) >= Len(list) \/ Len(Page(list)) < PageSize
  <2>1. Fits(got)
    BY <1>1, <1>5, <1>6 DEF Fits
  <2> HIDE DEF got
  <2> QED BY <1>1, <1>2, <1>6, <2>1, FittingAnswer
<1>7. CASE ~(Len(got) >= Len(list) \/ Len(Page(list)) < PageSize)
  <2>1. PartialRuns(head, Offset + PageSize, got)
    BY <1>5, <1>7
  <2>2. Listing(Offset + PageSize, got)
    BY <1>1, <2>1 DEF Listing
  <2> HIDE DEF got
  <2> QED BY <1>1, <1>2, <1>7, <2>2, NextPageStep
<1> QED BY <1>6, <1>7

(* The branch protection.                                                  *)
LEMMA ProtectionStep ==
  ASSUME EvidenceInv, ProtectionAnswered
  PROVE  EvidenceInv'
<1>1. read # None /\ read.call = "protection" /\ read.call # "jira" /\ Learn(world.protection)
  BY DEF ProtectionAnswered, Calling
<1>2. Fits(world.protection)
  BY <1>1 DEF Fits
<1> QED BY <1>1, <1>2, FittingAnswer

(* A request that is refused, and one that fails.                          *)
LEMMA FailedRequestStep ==
  ASSUME EvidenceInv, NEW r, RequestFails(r)
  PROVE  EvidenceInv'
<1> DEFINE error == E!GitHubError(r)
<1>1. read # None /\ read.call # "jira"
  BY DEF RequestFails
<1>2. IF read.call = "protection" /\ error = "not_found" THEN Learn(NoProtection)
      ELSE IF read.call \in Listings /\ error \in {"forbidden", "not_found"} THEN Learn(None)
      ELSE Fail(error)
  BY DEF RequestFails
<1> HIDE DEF error
<1>3. CASE Learn(NoProtection) /\ read.call = "protection"
  <2>1. Fits(NoProtection)
    BY <1>3 DEF Fits
  <2> QED BY <1>1, <1>3, <2>1, FittingAnswer
<1>4. CASE Learn(None) /\ read.call \in Listings
  <2>1. Fits(None)
    BY <1>4 DEF Fits, Listings
  <2> QED BY <1>1, <1>4, <2>1, FittingAnswer
<1>5. CASE Fail(error)
  BY <1>1, <1>5, FailStep
<1> QED BY <1>2, <1>3, <1>4, <1>5

(* The ticket is read, cannot be, or is not.                                *)
LEMMA JiraStep ==
  ASSUME EvidenceInv, NEW r, JiraAnswered \/ JiraUnavailable \/ JiraFails(r)
  PROVE  EvidenceInv'
<1>1. read # None /\ read.call = "jira"
  BY DEF JiraAnswered, JiraUnavailable, JiraFails, Calling
<1>2. /\ Complete(read.has) /\ read.facts = Facts(read.has) /\ Answers(world, read.has, read.seen)
  BY <1>1 DEF EvidenceInv, ReadInv, Asking
<1>3. CASE JiraAnswered
  <2>1. CASE world.ticket.key = "malformed"
    BY <1>1, <1>3, <2>1, FailStep DEF JiraAnswered
  <2>2. CASE world.ticket.key # "malformed"
    <3>1. world.jira /\ Decide(read.has, Facts(read.has), world.ticket)
      BY <1>2, <1>3, <2>2 DEF JiraAnswered
    <3> QED BY <1>1, <1>2, <3>1, DecideStep
  <2> QED BY <2>1, <2>2
<1>4. CASE JiraUnavailable
  <2>1. ~world.jira /\ Decide(read.has, Facts(read.has), None)
    BY <1>2, <1>4 DEF JiraUnavailable
  <2> QED BY <1>1, <1>2, <2>1, DecideStep
<1>5. CASE JiraFails(r)
  BY <1>1, <1>5, FailStep DEF JiraFails
<1> QED BY <1>3, <1>4, <1>5

(* The reading begins, and the completed run is returned.                   *)
LEMMA BeginStep ==
  ASSUME EvidenceInv, Begin
  PROVE  EvidenceInv'
<1>1. /\ read' = [call |-> "pull", page |-> 1, got |-> <<>>, has |-> <<>>, facts |-> <<>>, seen |-> {world}]
      /\ UNCHANGED <<world, result, explanation>> /\ read = None /\ result = None
  BY DEF Begin
<1>2. /\ read'.call = "pull" /\ read'.page = 1 /\ read'.has = <<>> /\ read'.seen = {world} /\ ReadTyped'
  BY <1>1 DEF ReadTyped
<1>3. explanation = None /\ IsWorld(world)
  BY <1>1 DEF EvidenceInv, ExplanationInv
<1>4. DOMAIN read'.has = {}
  <2>1. DOMAIN <<>> = {}
    OBVIOUS
  <2> QED BY <1>2, <2>1
<1>5. Answers(world, read.has, read.seen)'
  BY <1>4 DEF Answers, Known
<1>6. Asking'
  BY <1>2, <1>4 DEF Asking, Before, Permitted, Listing
<1>7. Moments(world, read.seen)'
  BY <1>1, <1>2, <1>3 DEF Moments, Unmoved
<1>8. ReadInv'
  BY <1>1, <1>2, <1>5, <1>6, <1>7 DEF ReadInv
<1> QED BY <1>1, <1>3, <1>8 DEF EvidenceInv, ResultInv, ExplanationInv

(* What is said of a run leaves the run alone.                             *)
LEMMA ReturnStep ==
  ASSUME EvidenceInv, \/ \E output \in Outputs[world.provider] : Explain(output)
                      \/ ReturnAgain
                      \/ UNCHANGED evidenceVars
  PROVE  EvidenceInv'
<1>1. UNCHANGED <<world, read, result>>
  BY DEF Explain, ReturnAgain, evidenceVars
<1>2. ReadInv'
  BY <1>1 DEF EvidenceInv, ReadInv, ReadTyped, Asking, Permitted, Listing, PartialRuns, Offset
<1>3. explanation' # None => explanation' = explanation \/ (result # None /\ result.status = "completed")
  BY DEF Explain, ReturnAgain, evidenceVars
<1>4. result # None => read = None
  BY DEF EvidenceInv, ReadInv
<1>5. ResultInv' /\ ExplanationInv' /\ IsWorld(world)'
  BY <1>1, <1>3, <1>4 DEF EvidenceInv, ResultInv, ExplanationInv, DecidedOn, Settled
<1> QED BY <1>2, <1>5 DEF EvidenceInv

(* What comes in at GitHub while a listing is read leaves its earlier pages *)
(* and what is still ahead of it alone.                                    *)
Extends(v, w) ==
  /\ \A offset \in Nat : \A got : Partial(w.reviews, offset, got) => Partial(v.reviews, offset, got)
  /\ \A head \in DOMAIN w.runs : \A offset \in Nat : \A name :
       Ahead(w.runs[head], offset, name) => Ahead(v.runs[head], offset, name)

(* GitHub and Jira change, and what has been read stays what it was at     *)
(* some moment.                                                            *)
LEMMA ChangeStep ==
  ASSUME EvidenceInv, NEW changed, Change(changed), IsWorld(changed), Unmoved(changed, world),
         Extends(changed, world)
  PROVE  EvidenceInv'
<1>1. /\ read # None /\ world' = changed /\ read' = [read EXCEPT !.seen = @ \cup {changed}]
      /\ UNCHANGED <<result, explanation>>
  BY DEF Change
<1>2. /\ result = None /\ ReadTyped /\ world \in read.seen /\ Moments(world, read.seen) /\ IsWorld(world)
      /\ explanation = None /\ read.page \in Nat \ {0} /\ Answers(world, read.has, read.seen) /\ Asking
  BY <1>1 DEF EvidenceInv, ReadInv, ExplanationInv
<1>3. /\ read'.call = read.call /\ read'.has = read.has /\ read'.page = read.page /\ read'.got = read.got
      /\ read'.seen = read.seen \cup {changed} /\ read'.facts = read.facts /\ ReadTyped'
  BY <1>1, <1>2 DEF ReadTyped
<1>4. Moments(world, read.seen)'
  BY <1>1, <1>2, <1>3 DEF Moments, Unmoved
<1>5. \A list, head : Gathered(list, head, read.seen) => Gathered(list, head, read'.seen)
  BY <1>3 DEF Gathered
<1>6. \A list, head : Covered(list, head, read.seen) => Covered(list, head, read'.seen)
  BY <1>3 DEF Covered
<1>7. /\ changed.rules = world.rules /\ changed.protection = world.protection
      /\ changed.statuses = world.statuses /\ DOMAIN changed.runs = DOMAIN world.runs
  BY DEF Unmoved
<1>8. Answers(world, read.has, read.seen)'
  <2>1. Answers(changed, read.has, read'.seen)
    BY <1>2, <1>3, <1>5, <1>6, <1>7 DEF Answers
  <2> QED BY <1>1, <1>3, <2>1
<1>9. ASSUME read.call # "jira" PROVE Listing(Offset, read.got)'
  <2> DEFINE head == read.has["pull"].head
  <2>1. Listing(Offset, read.got) /\ DOMAIN read.has = Before[read.call]
    BY <1>2, <1>9 DEF Asking
  <2>2. Offset' = Offset /\ Offset \in Nat
    BY <1>2, <1>3, EvidenceAssumption DEF Offset
  <2>3. read.call = "check_runs" => head \in DOMAIN world.runs
    BY <1>2, <2>1 DEF Answers, Before
  <2>4. read.call = "reviews" => Partial(changed.reviews, Offset, read.got)
    BY <2>1, <2>2 DEF Listing, Extends
  <2>5. read.call = "rules" => Partial(changed.rules, Offset, read.got)
    BY <1>7, <2>1 DEF Listing
  <2>6. read.call = "statuses" => Partial(changed.statuses[head], Offset, read.got)
    BY <1>7, <2>1 DEF Listing
  <2>7. ASSUME read.call = "check_runs" PROVE PartialRuns(head, Offset, read.got)'
    <3>1. PartialRuns(head, Offset, read.got)
      BY <2>1, <2>7 DEF Listing
    <3>2. \A offset \in Nat : \A name : Ahead(world.runs[head], offset, name) => Ahead(changed.runs[head], offset, name)
      BY <2>3, <2>7 DEF Extends
    <3>3. PICK w \in read.seen : \A r \in ToSet(w.runs[head]) :
            CameIn(read.got, r.name) \/ Ahead(world.runs[head], Offset, r.name)
      BY <3>1 DEF PartialRuns
    <3>4. w \in read'.seen /\ \A r \in ToSet(w.runs[head]) :
            CameIn(read.got, r.name) \/ Ahead(changed.runs[head], Offset, r.name)
      BY <1>3, <2>2, <3>2, <3>3
    <3>5. Len(read.got) = Offset /\ Gathered(read.got, head, read'.seen)
      BY <1>5, <3>1 DEF PartialRuns
    <3> QED BY <1>1, <1>3, <2>2, <3>4, <3>5 DEF PartialRuns
  <2> QED BY <1>1, <1>3, <2>2, <2>4, <2>5, <2>6, <2>7 DEF Listing
<1>10. Asking'
  BY <1>2, <1>3, <1>9 DEF Asking
<1>11. ReadInv'
  BY <1>1, <1>2, <1>3, <1>4, <1>8, <1>10 DEF ReadInv
<1> QED BY <1>1, <1>2, <1>11 DEF EvidenceInv, ResultInv, ExplanationInv

(* Changes that leave the reviews and the check runs where they are.        *)
LEMMA StillExtends ==
  ASSUME NEW v, NEW w, v.reviews = w.reviews, v.runs = w.runs
  PROVE  Extends(v, w)
BY DEF Extends

(* A review comes in at the end of the reviews.                            *)
LEMMA ReviewComesStep ==
  ASSUME EvidenceInv, NEW review \in Reviews, ReviewComes(review)
  PROVE  EvidenceInv'
<1> DEFINE reviews == Append(world.reviews, review)
           changed == [world EXCEPT !.reviews = reviews]
<1>1. world \in World /\ IsWorld(world) /\ review \in ReviewAnswer /\ world.reviews \in Seq(ReviewAnswer)
  BY WorldsAssumption, WorldParts DEF EvidenceInv, IsWorld
<1>2. reviews \in Seq(ReviewAnswer)
  BY <1>1
<1>3. /\ changed.provider = world.provider /\ changed.jira = world.jira /\ changed.pull = world.pull
      /\ changed.reviews = reviews /\ changed.rules = world.rules /\ changed.protection = world.protection
      /\ changed.runs = world.runs /\ changed.statuses = world.statuses /\ changed.ticket = world.ticket
      /\ changed \in World
  <2> HIDE DEF reviews
  <2> QED BY <1>1, <1>2 DEF World
<1>4. IsWorld(changed) /\ Unmoved(changed, world)
  <2> HIDE DEF changed
  <2> QED BY <1>1, <1>3 DEF IsWorld, Unmoved, Sources
<1>5. ASSUME NEW offset \in Nat, NEW got, Partial(world.reviews, offset, got)
      PROVE  Partial(reviews, offset, got)
  <2>1. Len(reviews) = Len(world.reviews) + 1 /\ Len(world.reviews) \in Nat
        /\ reviews = world.reviews \o <<review>> /\ <<review>> \in Seq(ReviewAnswer)
    BY <1>1, AppendProperties, AppendIsConcat
  <2>2. offset <= Len(world.reviews) /\ got = SubSeq(world.reviews, 1, offset)
    BY <1>5 DEF Partial
  <2>3. offset <= Len(reviews)
    BY <2>1, <2>2
  <2>4. CASE offset = 0
    BY <2>2, <2>3, <2>4, SubSeqEmpty DEF Partial
  <2>5. CASE offset # 0
    <3>1. 1 \in 1..Len(world.reviews) /\ offset \in 1..Len(world.reviews)
      BY <2>1, <2>2, <2>5
    <3>2. SubSeq(world.reviews \o <<review>>, 1, offset) = SubSeq(world.reviews, 1, offset)
      BY <1>1, <2>1, <3>1, SubSeqOfConcat1
    <3> QED BY <2>1, <2>2, <2>3, <3>2 DEF Partial
  <2> QED BY <2>4, <2>5
<1>6. Extends(changed, world)
  <2> HIDE DEF changed, reviews
  <2> QED BY <1>3, <1>5 DEF Extends
<1>7. Change(changed)
  BY DEF ReviewComes
<1> HIDE DEF changed
<1> QED BY <1>4, <1>6, <1>7, ChangeStep

(* A report leaves every name of the check runs where it is, or moves it     *)
(* back by one place.                                                      *)
LEMMA ReportedRuns ==
  ASSUME NEW runs \in Seq(RunAnswer), NEW report \in RunAnswer, NEW known,
         known = {i \in DOMAIN runs : runs[i].name = report.name}, NEW reported,
         reported = IF known = {} THEN <<report>> \o runs ELSE [runs EXCEPT ![Max(known)] = report]
  PROVE  /\ reported \in Seq(RunAnswer)
         /\ \A offset \in Nat : \A name : Ahead(runs, offset, name) => Ahead(reported, offset, name)
<1>1. DOMAIN runs = 1..Len(runs) /\ Len(runs) \in Nat
  OBVIOUS
<1>2. CASE known = {}
  <2>1. reported = <<report>> \o runs /\ <<report>> \in Seq(RunAnswer) /\ Len(<<report>>) = 1
    BY <1>2
  <2>2. reported \in Seq(RunAnswer) /\ Joins(<<report>>, runs, reported)
    BY <2>1, Joining
  <2>3. \A k \in DOMAIN runs : 1 + k \in DOMAIN reported /\ reported[1 + k] = runs[k]
    BY <2>1, <2>2 DEF Joins
  <2>4. ASSUME NEW offset \in Nat, NEW name, Ahead(runs, offset, name)
        PROVE  Ahead(reported, offset, name)
    <3>1. PICK k \in DOMAIN runs : k > offset /\ runs[k].name = name
      BY <2>4 DEF Ahead
    <3>2. 1 + k > offset
      BY <1>1, <3>1
    <3> QED BY <2>3, <3>1, <3>2 DEF Ahead
  <2> QED BY <2>2, <2>4
<1>3. CASE known # {}
  <2>1. reported = [runs EXCEPT ![Max(known)] = report]
    BY <1>3
  <2>2. Max(known) \in known
    <3>1. IsFiniteSet(known) /\ known \subseteq Int
      <4>1. IsFiniteSet(1..Len(runs))
        BY <1>1, FS_Interval
      <4> QED BY <1>1, <4>1, FS_Subset
    <3> QED BY <1>3, <3>1, Largest
  <2>3. Max(known) \in DOMAIN runs /\ runs[Max(known)].name = report.name
    BY <2>2
  <2> DEFINE last == Max(known)
  <2> HIDE DEF last
  <2>4. last \in DOMAIN runs /\ runs[last].name = report.name /\ reported = [runs EXCEPT ![last] = report]
    BY <2>1, <2>3 DEF last
  <2>5. reported \in Seq(RunAnswer) /\ DOMAIN reported = DOMAIN runs
    <3>1. last \in 1..Len(runs) /\ DOMAIN reported = DOMAIN runs
      BY <1>1, <2>4
    <3>2. [runs EXCEPT ![last] = report] \in Seq(RunAnswer)
      BY <3>1, ExceptSeq
    <3> QED BY <2>4, <3>1, <3>2
  <2>6. \A j \in DOMAIN runs : reported[j].name = runs[j].name
    BY <2>4
  <2> QED BY <2>5, <2>6 DEF Ahead
<1> QED BY <1>2, <1>3

(* A check reports, of one commit.                                         *)
LEMMA CheckReportsStep ==
  ASSUME EvidenceInv, NEW report \in Reports, CheckReports(report)
  PROVE  EvidenceInv'
<1>1. PICK head \in DOMAIN world.runs :
        LET runs == world.runs[head]
            known == {i \in DOMAIN runs : runs[i].name = report.name}
        IN Change([world EXCEPT !.runs[head] =
                     IF known = {} THEN <<report>> \o runs ELSE [runs EXCEPT ![Max(known)] = report]])
  BY DEF CheckReports
<1> DEFINE runs == world.runs[head]
           known == {i \in DOMAIN runs : runs[i].name = report.name}
           reported == IF known = {} THEN <<report>> \o runs ELSE [runs EXCEPT ![Max(known)] = report]
           all == [world.runs EXCEPT ![head] = reported]
           changed == [world EXCEPT !.runs = all]
<1>2. world \in World /\ IsWorld(world) /\ report \in RunAnswer /\ runs \in Seq(RunAnswer)
      /\ world.runs \in Seq(Seq(RunAnswer))
  BY WorldsAssumption, WorldParts DEF EvidenceInv, IsWorld
<1>3. /\ reported \in Seq(RunAnswer)
      /\ \A offset \in Nat : \A name : Ahead(runs, offset, name) => Ahead(reported, offset, name)
  <2>1. /\ runs \in Seq(RunAnswer) /\ report \in RunAnswer
        /\ known = {i \in DOMAIN runs : runs[i].name = report.name}
        /\ reported = IF known = {} THEN <<report>> \o runs ELSE [runs EXCEPT ![Max(known)] = report]
    BY <1>2
  <2> HIDE DEF runs, known, reported
  <2> QED BY <2>1, ReportedRuns
<1>4. Change(changed)
  BY <1>1
<1> HIDE DEF reported
<1>5. all \in Seq(Seq(RunAnswer)) /\ DOMAIN all = DOMAIN world.runs
      /\ all[head] = reported /\ \A other \in DOMAIN world.runs : other # head => all[other] = world.runs[other]
  BY <1>2, <1>3
<1> HIDE DEF all
<1>6. /\ changed.provider = world.provider /\ changed.jira = world.jira /\ changed.pull = world.pull
      /\ changed.reviews = world.reviews /\ changed.rules = world.rules
      /\ changed.protection = world.protection /\ changed.runs = all /\ changed.statuses = world.statuses
      /\ changed.ticket = world.ticket /\ changed \in World
  BY <1>2, <1>5 DEF World
<1> HIDE DEF changed
<1>7. IsWorld(changed) /\ Unmoved(changed, world)
  BY <1>2, <1>5, <1>6 DEF IsWorld, Unmoved, Sources
<1>8. ASSUME NEW h \in DOMAIN world.runs, NEW offset \in Nat, NEW name, Ahead(world.runs[h], offset, name)
      PROVE  Ahead(changed.runs[h], offset, name)
  <2>1. CASE h = head
    BY <1>3, <1>5, <1>6, <1>8, <2>1
  <2>2. CASE h # head
    BY <1>5, <1>6, <1>8, <2>2
  <2> QED BY <2>1, <2>2
<1>9. Extends(changed, world)
  BY <1>6, <1>8 DEF Extends
<1> QED BY <1>4, <1>7, <1>9, ChangeStep

(* Another commit becomes the head.                                        *)
LEMMA PushStep ==
  ASSUME EvidenceInv, Push
  PROVE  EvidenceInv'
<1> DEFINE pull == [world.pull EXCEPT !.head = @ + 1]
           changed == [world EXCEPT !.pull = pull]
<1>1. world \in World /\ IsWorld(world) /\ world.pull \in PullAnswer
  BY WorldParts DEF EvidenceInv, IsWorld
<1>2. pull \in PullAnswer /\ pull.head = world.pull.head + 1
  BY <1>1 DEF PullAnswer
<1>3. Change(changed) /\ world.pull.head + 1 \in DOMAIN world.runs
  BY DEF Push
<1> HIDE DEF pull
<1>4. /\ changed.provider = world.provider /\ changed.jira = world.jira /\ changed.pull = pull
      /\ changed.reviews = world.reviews /\ changed.rules = world.rules
      /\ changed.protection = world.protection /\ changed.runs = world.runs
      /\ changed.statuses = world.statuses /\ changed.ticket = world.ticket /\ changed \in World
  BY <1>1, <1>2 DEF World
<1> HIDE DEF changed
<1>5. IsWorld(changed) /\ Unmoved(changed, world)
  BY <1>1, <1>2, <1>3, <1>4 DEF IsWorld, Unmoved, Sources
<1> QED BY <1>3, <1>4, <1>5, StillExtends, ChangeStep

(* The ticket changes its status.                                          *)
LEMMA TicketMovesStep ==
  ASSUME EvidenceInv, TicketMoves
  PROVE  EvidenceInv'
<1> DEFINE ticket == [world.ticket EXCEPT !.status = IF @ = "done" THEN "in_progress" ELSE "done"]
           changed == [world EXCEPT !.ticket = ticket]
<1>1. world \in World /\ IsWorld(world) /\ world.ticket \in JiraFacts
  BY WorldParts DEF EvidenceInv, IsWorld
<1>2. ticket \in JiraFacts /\ ticket.key = world.ticket.key
  BY <1>1 DEF JiraFacts, JiraStatus
<1>3. Change(changed)
  BY DEF TicketMoves
<1> HIDE DEF ticket
<1>4. /\ changed.provider = world.provider /\ changed.jira = world.jira /\ changed.pull = world.pull
      /\ changed.reviews = world.reviews /\ changed.rules = world.rules
      /\ changed.protection = world.protection /\ changed.runs = world.runs
      /\ changed.statuses = world.statuses /\ changed.ticket = ticket /\ changed \in World
  BY <1>1, <1>2 DEF World
<1> HIDE DEF changed
<1>5. IsWorld(changed) /\ Unmoved(changed, world)
  BY <1>1, <1>2, <1>4 DEF IsWorld, Unmoved, Sources
<1> QED BY <1>3, <1>4, <1>5, StillExtends, ChangeStep

(* For any page size and any changes meanwhile: a reading has whole pages    *)
(* of what GitHub held, and a completed run has decided on the answers to   *)
(* all that its facts depend on (github_http.py, merge_readiness.py).       *)
THEOREM EvidenceInvariant == EvidenceSpec => []EvidenceInv
<1>1. EvidenceInit => EvidenceInv
  <2> SUFFICES ASSUME EvidenceInit PROVE EvidenceInv
    OBVIOUS
  <2>1. IsWorld(world)
    BY WorldsAssumption DEF EvidenceInit, IsWorld, Sources
  <2> QED BY <2>1 DEF EvidenceInit, EvidenceInv, ReadInv, ResultInv, ExplanationInv
<1>2. EvidenceInv /\ [EvidenceNext]_evidenceVars => EvidenceInv'
  <2> SUFFICES ASSUME EvidenceInv, [EvidenceNext]_evidenceVars PROVE EvidenceInv'
    OBVIOUS
  <2>1. CASE Begin
    BY <2>1, BeginStep
  <2>2. CASE PullAnswered \/ ReviewsAnswered \/ RulesAnswered \/ ProtectionAnswered
    BY <2>2, PullStep, ReviewsStep, RulesStep, ProtectionStep
  <2>3. CASE CheckRunsAnswered \/ StatusesAnswered
    BY <2>3, CheckRunsStep, StatusesStep
  <2>4. CASE JiraAnswered \/ JiraUnavailable
    BY <2>4, JiraStep
  <2>5. CASE \E r \in Responses : RequestFails(r) \/ JiraFails(r)
    BY <2>5, FailedRequestStep, JiraStep
  <2>6. CASE \/ \E output \in Outputs[world.provider] : Explain(output)
             \/ ReturnAgain
             \/ UNCHANGED evidenceVars
    BY <2>6, ReturnStep
  <2>7. CASE \E review \in Reviews : ReviewComes(review)
    BY <2>7, ReviewComesStep
  <2>8. CASE \E report \in Reports : CheckReports(report)
    BY <2>8, CheckReportsStep
  <2>9. CASE Push
    BY <2>9, PushStep
  <2>10. CASE TicketMoves
    BY <2>10, TicketMovesStep
  <2> QED BY <2>1, <2>2, <2>3, <2>4, <2>5, <2>6, <2>7, <2>8, <2>9, <2>10 DEF EvidenceNext
<1> QED BY <1>1, <1>2, PTL DEF EvidenceSpec

(* A run is ready only if every requirement it could see was met at some    *)
(* moment of its reading, blocked only for reasons that held at one, and    *)
(* unknown only if something was refused or undetermined, however many      *)
(* pages there are, whatever moves between them and whatever is refused     *)
(* (github_http.py, policy/evaluator.py).                                   *)
THEOREM DecisionsAreSupported == EvidenceSpec => []DecisionIsSupported
<1>1. EvidenceInv => DecisionIsSupported
  <2> SUFFICES ASSUME EvidenceInv PROVE DecisionIsSupported
    OBVIOUS
  <2>1. CASE result # None /\ result.status = "completed"
    <3>1. PICK jira : DecidedOn(jira)
      BY <2>1 DEF EvidenceInv, ResultInv
    <3> QED BY <3>1, DecisionSupported
  <2>2. CASE ~(result # None /\ result.status = "completed")
    BY <2>2 DEF DecisionIsSupported
  <2> QED BY <2>1, <2>2
<1> QED BY <1>1, EvidenceInvariant, PTL

-----------------------------------------------------------------------------
(* The explanations.                                                       *)

(* The reasons and the actions an explanation has to claim, as sets.        *)
LEMMA RequiredClaims ==
  ASSUME NEW verdict, verdict.findings \in Seq(Finding),
         verdict.findings = <<>> => verdict.reason = "ready"
  PROVE  /\ ToSet(RequiredReasons(verdict)) =
              IF ToSet(verdict.findings) = {} THEN {"ready"}
              ELSE {f.reason : f \in ToSet(verdict.findings)}
         /\ ToSet(RequiredActions(verdict)) = {f.action : f \in ToSet(verdict.findings)}
<1> DEFINE findings == verdict.findings
           blockers == Blockers(findings)
           missing == MissingInformation(findings)
           all == blockers \o missing
           reasons == [i \in DOMAIN all |-> all[i].reason]
           actions == [i \in DOMAIN findings |-> findings[i].action]
<1>1. /\ blockers \in Seq(Finding) /\ missing \in Seq(Finding)
      /\ ToSet(blockers) = {f \in ToSet(findings) : f.blocking}
      /\ ToSet(missing) = {f \in ToSet(findings) : ~f.blocking}
  <2>1. \A f \in Finding : f.blocking \in BOOLEAN
    BY DEF Finding
  <2> QED BY <2>1, BlockersMembers, MissingMembers
<1>2. RequiredReasons(verdict) = IF all = <<>> THEN <<verdict.reason>> ELSE Distinct(reasons)
  BY DEF RequiredReasons
<1>3. RequiredActions(verdict) = Distinct(actions)
  BY DEF RequiredActions
<1>4. findings \in Seq(Finding) /\ DOMAIN findings = 1..Len(findings) /\ Len(findings) \in Nat
  OBVIOUS
<1>5. findings = <<>> => verdict.reason = "ready"
  OBVIOUS
<1> HIDE DEF findings, blockers, missing
<1>6. all \in Seq(Finding) /\ ToSet(all) = ToSet(findings)
  <2>1. all \in Seq(Finding) /\ ToSet(all) = ToSet(blockers) \cup ToSet(missing)
    BY <1>1, MembersOfBoth
  <2> QED BY <1>1, <2>1
<1> HIDE DEF all
<1>7. ToSet(Distinct(reasons)) = {f.reason : f \in ToSet(findings)}
  <2>1. /\ reasons \in Seq(Reasons) /\ DOMAIN reasons = DOMAIN all
        /\ \A i \in DOMAIN all : reasons[i] = all[i].reason
    <3>1. DOMAIN all = 1..Len(all) /\ Len(all) \in Nat
      BY <1>6
    <3>2. \A i \in DOMAIN all : all[i].reason \in Reasons
      <4>1. \A f \in Finding : f.reason \in Reasons
        BY DEF Finding
      <4>2. \A i \in DOMAIN all : all[i] \in Finding
        BY <1>6
      <4> QED BY <4>1, <4>2
    <3>3. reasons = [i \in 1..Len(all) |-> all[i].reason]
      BY <3>1
    <3> QED BY <3>1, <3>2, <3>3
  <2> HIDE DEF reasons
  <2>2. ToSet(Distinct(reasons)) = ToSet(reasons)
    BY <2>1, DistinctMembers
  <2>3. ToSet(reasons) = {f.reason : f \in ToSet(all)}
    BY <2>1 DEF ToSet
  <2> QED BY <1>6, <2>2, <2>3
<1>8. ToSet(Distinct(actions)) = {f.action : f \in ToSet(findings)}
  <2>1. /\ actions \in Seq(Actions) /\ DOMAIN actions = DOMAIN findings
        /\ \A i \in DOMAIN findings : actions[i] = findings[i].action
    <3>1. DOMAIN findings = 1..Len(findings) /\ Len(findings) \in Nat
      BY <1>4
    <3>2. \A i \in DOMAIN findings : findings[i].action \in Actions
      <4>1. \A f \in Finding : f.action \in Actions
        BY DEF Finding
      <4>2. \A i \in DOMAIN findings : findings[i] \in Finding
        BY <1>4
      <4> QED BY <4>1, <4>2
    <3>3. actions = [i \in 1..Len(findings) |-> findings[i].action]
      BY <3>1
    <3> QED BY <3>1, <3>2, <3>3
  <2> HIDE DEF actions
  <2>2. ToSet(Distinct(actions)) = ToSet(actions)
    BY <2>1, DistinctMembers
  <2>3. ToSet(actions) = {f.action : f \in ToSet(findings)}
    BY <2>1 DEF ToSet
  <2> QED BY <2>2, <2>3
<1>9. (all = <<>> <=> ToSet(findings) = {}) /\ (findings = <<>> <=> ToSet(findings) = {})
  BY <1>4, <1>6, NoMember
<1>10. CASE ToSet(findings) = {}
  <2>1. RequiredReasons(verdict) = <<"ready">>
    BY <1>2, <1>5, <1>9, <1>10
  <2>2. ToSet(<<"ready">>) = {"ready"}
    BY OneMember
  <2> QED BY <1>3, <1>8, <1>10, <2>1, <2>2 DEF findings
<1>11. CASE ToSet(findings) # {}
  BY <1>2, <1>3, <1>7, <1>8, <1>9, <1>11 DEF findings
<1> QED BY <1>10, <1>11

(* What the validator lets through.                                        *)
LEMMA NotRefused ==
  ASSUME NEW verdict, NEW claims, Refused(verdict, claims) = None
  PROVE  /\ claims.decision = verdict.decision
         /\ ToSet(claims.reasons) = ToSet(RequiredReasons(verdict))
         /\ ToSet(claims.actions) = ToSet(RequiredActions(verdict))
<1> DEFINE reasons == ToSet(claims.reasons)
           actions == ToSet(claims.actions)
           required == ToSet(RequiredReasons(verdict))
           wanted == ToSet(RequiredActions(verdict))
<1>1. \A refusal \in Refusals : refusal # None
  BY NoneAssumption
<1>2. /\ claims.decision = verdict.decision
      /\ reasons \ required = {} /\ required \ reasons = {}
      /\ actions \ wanted = {} /\ wanted \ actions = {}
  <2> HIDE DEF reasons, actions, required, wanted
  <2> QED BY <1>1 DEF Refused, Refusals, reasons, actions, required, wanted
<1> QED BY <1>2

(* A provider's model gives no value or one.                               *)
LEMMA OneValue ==
  ASSUME NEW provider \in {"openai", "groq", "gemini", "fake"}, NEW output, NEW verdict
  PROVE  LET structured == Structured(provider, output, verdict) IN
         structured.value = <<>> \/ \E claims : structured.value = <<claims>>
<1>1. \A category, claims : Failed(category).value = <<>> /\ Generated(claims).value = <<claims>>
  BY DEF Failed, Generated
<1>2. \A reply : Parsed(reply).value = <<>> \/ \E claims : Parsed(reply).value = <<claims>>
  BY <1>1 DEF Parsed
<1>3. CASE provider = "openai"
  BY <1>1, <1>2, <1>3 DEF Structured, OpenAIStructured
<1>4. CASE provider = "groq"
  BY <1>1, <1>2, <1>4 DEF Structured, GroqStructured
<1>5. CASE provider = "gemini"
  <2> DEFINE reasons == RequiredReasons(verdict)
             actions == RequiredActions(verdict)
  <2>1. Structured(provider, output, verdict) = GeminiStructured(output, reasons, actions)
    BY <1>5 DEF Structured
  <2> HIDE DEF reasons, actions
  <2>2. \/ GeminiStructured(output, reasons, actions).value = <<>>
        \/ \E claims : GeminiStructured(output, reasons, actions).value = <<claims>>
    BY <1>1, <1>2 DEF GeminiStructured
  <2> QED BY <2>1, <2>2
<1>6. CASE provider = "fake"
  BY <1>1, <1>6 DEF Structured
<1> QED BY <1>3, <1>4, <1>5, <1>6

(* Only a returned run is explained, and nothing is explained while a run    *)
(* is read.                                                                *)
LEMMA LearningKeeps ==
  ASSUME EvidenceInv, read # None, read.call # "jira", NEW value, Learn(value)
  PROVE  UNCHANGED explanation
<1> DEFINE has == Assign(read.has, read.call, value)
           call == read.call
<1>1. call \in {"pull", "reviews", "rules", "protection", "check_runs", "statuses"}
  BY DEF EvidenceInv, ReadInv, Asking, Before
<1>2. \/ \E next : Go(next, has)
      \/ Normalize(has)
      \/ AfterRequirements(has)
  <2>1. CASE call \in {"pull", "reviews", "check_runs"}
    BY <2>1 DEF Learn
  <2>2. CASE call \in {"rules", "protection"}
    BY <2>2 DEF Learn
  <2>3. CASE call = "statuses"
    BY <2>3 DEF Learn
  <2> HIDE DEF call
  <2> QED BY <1>1, <2>1, <2>2, <2>3
<1> HIDE DEF has
<1>3. Normalize(has) => UNCHANGED explanation
  BY DEF Normalize, Fail, Decide, End
<1> QED BY <1>2, <1>3 DEF Go, AfterRequirements, Fail, End

(* Nothing is said of a run while it is read.                              *)
LEMMA ReadingKeeps ==
  ASSUME EvidenceInv,
         \/ PullAnswered \/ ReviewsAnswered \/ RulesAnswered \/ ProtectionAnswered
         \/ CheckRunsAnswered \/ StatusesAnswered \/ JiraAnswered \/ JiraUnavailable
         \/ \E r \in Responses : RequestFails(r) \/ JiraFails(r)
  PROVE  explanation' = None
<1>1. read # None
  BY DEF PullAnswered, ReviewsAnswered, RulesAnswered, ProtectionAnswered, CheckRunsAnswered,
         StatusesAnswered, JiraAnswered, JiraUnavailable, RequestFails, JiraFails, ListAnswered,
         CountedListAnswered, Calling
<1>2. explanation = None
  BY <1>1 DEF EvidenceInv, ExplanationInv
<1>3. \A error : Fail(error) => UNCHANGED explanation
  BY DEF Fail, End
<1>4. \A got : NextPage(got) => UNCHANGED explanation
  BY <1>3 DEF NextPage
<1>5. read.call # "jira" => \A value : Learn(value) => UNCHANGED explanation
  BY <1>1, LearningKeeps
<1>6. CASE PullAnswered
  BY <1>2, <1>3, <1>5, <1>6 DEF PullAnswered, Calling
<1>7. CASE ReviewsAnswered \/ RulesAnswered
  <2>1. ASSUME NEW call, call # "jira", NEW list, ListAnswered(call, list)
        PROVE  UNCHANGED explanation
    BY <1>4, <1>5, <2>1 DEF ListAnswered, Calling
  <2> QED BY <1>2, <1>7, <2>1 DEF ReviewsAnswered, RulesAnswered
<1>8. CASE CheckRunsAnswered \/ StatusesAnswered
  <2>1. ASSUME NEW call, call # "jira", NEW list, CountedListAnswered(call, list)
        PROVE  UNCHANGED explanation
    BY <1>4, <1>5, <2>1 DEF CountedListAnswered, Calling
  <2> QED BY <1>2, <1>8, <2>1 DEF CheckRunsAnswered, StatusesAnswered
<1>9. CASE ProtectionAnswered
  BY <1>2, <1>5, <1>9 DEF ProtectionAnswered, Calling
<1>10. CASE JiraAnswered \/ JiraUnavailable
  BY <1>2, <1>10 DEF JiraAnswered, JiraUnavailable, Fail, Decide, End
<1>11. CASE \E r \in Responses : RequestFails(r) \/ JiraFails(r)
  <2>1. PICK r \in Responses : RequestFails(r) \/ JiraFails(r)
    BY <1>11
  <2>2. CASE RequestFails(r)
    BY <1>2, <1>3, <1>5, <2>2 DEF RequestFails
  <2>3. CASE JiraFails(r)
    BY <1>2, <1>3, <2>3 DEF JiraFails
  <2> QED BY <2>1, <2>2, <2>3
<1> QED BY <1>6, <1>7, <1>8, <1>9, <1>10, <1>11

(* Only Explain says anything of a run.                                    *)
LEMMA ExplainedOrKept ==
  ASSUME EvidenceInv, [EvidenceNext]_evidenceVars
  PROVE  \/ explanation' = None
         \/ UNCHANGED <<result, explanation>>
         \/ \E output : Explain(output)
<1>1. CASE \/ PullAnswered \/ ReviewsAnswered \/ RulesAnswered \/ ProtectionAnswered
           \/ CheckRunsAnswered \/ StatusesAnswered \/ JiraAnswered \/ JiraUnavailable
           \/ \E r \in Responses : RequestFails(r) \/ JiraFails(r)
  BY <1>1, ReadingKeeps
<1>2. CASE \/ Begin \/ Push \/ TicketMoves \/ ReturnAgain \/ UNCHANGED evidenceVars
           \/ \E review \in Reviews : ReviewComes(review)
           \/ \E report \in Reports : CheckReports(report)
  BY <1>2 DEF Begin, Push, TicketMoves, ReturnAgain, ReviewComes, CheckReports, Change, evidenceVars
<1>3. CASE \E output \in Outputs[world.provider] : Explain(output)
  BY <1>3
<1> QED BY <1>1, <1>2, <1>3 DEF EvidenceNext

(* What a response says of a run, whatever the model answered.              *)
LEMMA ExplainStep ==
  ASSUME EvidenceInv, NEW output, Explain(output)
  PROVE  ExplanationsAgree'
<1> DEFINE verdict == result.verdict
           findings == ToSet(verdict.findings)
           structured == Structured(world.provider, output, verdict)
<1>1. /\ result # None /\ result.status = "completed" /\ UNCHANGED result
      /\ explanation' = IF ~InputFits(verdict)
                        THEN [error |-> "raised", category |-> None, claimed |-> <<>>, shown |-> <<>>]
                        ELSE Explained(output, verdict)
  BY DEF Explain
<1>2. PICK jira : DecidedOn(jira)
  BY <1>1 DEF EvidenceInv, ResultInv
<1>3. /\ verdict.findings \in Seq(Finding)
      /\ verdict.findings = <<>> => verdict.reason = "ready"
  <2>1. jira \in JiraFacts \cup {None} /\ Facts(result.has) \in GitHubFacts
    BY <1>2, TicketTyped
  <2>2. verdict = Verdict(Facts(result.has), jira)
    BY <1>2 DEF DecidedOn
  <2> HIDE DEF verdict
  <2> QED BY <2>1, <2>2, VerdictMeans
<1>4. world.provider \in {"openai", "groq", "gemini", "fake"}
  BY DEF EvidenceInv, IsWorld, World
<1> HIDE DEF verdict
<1>5. CASE ~InputFits(verdict)
  <2>1. explanation'.error = "raised" /\ explanation'.claimed = <<>>
    BY <1>1, <1>5
  <2>2. Len(verdict.findings) > MaxClaims
    <3>1. /\ Len(Blockers(verdict.findings)) <= Len(verdict.findings)
          /\ Len(MissingInformation(verdict.findings)) <= Len(verdict.findings)
          /\ Len(Blockers(verdict.findings)) \in Nat /\ Len(MissingInformation(verdict.findings)) \in Nat
      <4>1. \A f \in Finding : f.blocking \in BOOLEAN
        BY DEF Finding
      <4>2. Blockers(verdict.findings) \in Seq(Finding) /\ MissingInformation(verdict.findings) \in Seq(Finding)
        BY <1>3, <4>1, BlockersMembers, MissingMembers
      <4> QED BY <1>3, <4>1, <4>2, BlockersMembers, MissingMembers
    <3>2. Len(verdict.findings) \in Nat /\ MaxClaims \in Nat
      BY <1>3, EvidenceAssumption
    <3> QED BY <1>5, <3>1, <3>2 DEF InputFits
  <2> QED BY <1>1, <2>1, <2>2 DEF ExplanationsAgree, verdict
<1>6. CASE InputFits(verdict)
  <2>1. explanation' = Explained(output, verdict)
    BY <1>1, <1>6
  <2>2. "raised" # None
    BY EvidenceAssumption DEF ResponseErrors
  <2>3. explanation'.error # "raised"
    BY <2>1, <2>2 DEF Explained
  <2>4. CASE explanation'.claimed = <<>>
    BY <2>3, <2>4 DEF ExplanationsAgree
  <2>5. CASE explanation'.claimed # <<>>
    <3> HIDE DEF structured
    <3>1. /\ structured.value # <<>> /\ Refused(verdict, structured.value[1]) = None
          /\ explanation'.claimed = structured.value /\ explanation'.shown = <<Claims(verdict)>>
      BY <2>1, <2>5 DEF Explained, structured
    <3>2. PICK claims : structured.value = <<claims>>
      BY <1>4, <3>1, OneValue DEF structured
    <3>3. /\ claims.decision = verdict.decision
          /\ ToSet(claims.reasons) = ToSet(RequiredReasons(verdict))
          /\ ToSet(claims.actions) = ToSet(RequiredActions(verdict))
      BY <3>1, <3>2, NotRefused
    <3>4. /\ ToSet(RequiredReasons(verdict)) =
               IF findings = {} THEN {"ready"} ELSE {f.reason : f \in findings}
          /\ ToSet(RequiredActions(verdict)) = {f.action : f \in findings}
      BY <1>3, RequiredClaims
    <3>5. explanation'.shown[1].reasons = RequiredReasons(verdict)
      BY <3>1 DEF Claims
    <3>6. DOMAIN explanation'.claimed = {1} /\ explanation'.claimed[1] = claims
      BY <3>1, <3>2
    <3> HIDE DEF findings
    <3> QED BY <1>1, <2>3, <3>3, <3>4, <3>5, <3>6 DEF ExplanationsAgree, verdict, findings
  <2> QED BY <2>4, <2>5
<1> QED BY <1>5, <1>6

(* Whatever a provider's model answers, what it claims is shown only if it   *)
(* is the policy's decision with all and only its reasons and actions, and  *)
(* a completed run cannot be returned only if it has too many findings      *)
(* (explanations/validator.py, explanations/service.py).                    *)
THEOREM ExplanationsDoAgree == EvidenceSpec => []ExplanationsAgree
<1>1. EvidenceInit => ExplanationsAgree
  BY DEF EvidenceInit, ExplanationsAgree
<1>2. EvidenceInv /\ ExplanationsAgree /\ [EvidenceNext]_evidenceVars => ExplanationsAgree'
  <2> SUFFICES ASSUME EvidenceInv, ExplanationsAgree, [EvidenceNext]_evidenceVars
               PROVE  ExplanationsAgree'
    OBVIOUS
  <2>1. CASE explanation' = None
    BY <2>1 DEF ExplanationsAgree
  <2>2. CASE UNCHANGED <<result, explanation>>
    BY <2>2 DEF ExplanationsAgree
  <2>3. CASE \E output : Explain(output)
    BY <2>3, ExplainStep
  <2> QED BY <2>1, <2>2, <2>3, ExplainedOrKept
<1> QED BY <1>1, <1>2, EvidenceInvariant, PTL DEF EvidenceSpec
=============================================================================
