---------------------- MODULE InvestigationCase_proofs ----------------------
(***************************************************************************)
(* Proofs about InvestigationCase, for any number of requests, any budget  *)
(* and limits, any set of facts and any faults.                            *)
(***************************************************************************)
EXTENDS InvestigationCase, TLAPS

USE DEF ProgramCounter, Section, Awaiting

TaskState == [pc : ProgramCounter, copy : Run, memory : Memory,
              tried : SUBSET Fact, noted : SUBSET Fact]

-----------------------------------------------------------------------------
(* The initial and the derived values are well typed.                      *)
LEMMA ValueTypes ==
  /\ EmptyMemory \in Memory
  /\ NoState \in [kept : BOOLEAN, memory : Memory, planned : BOOLEAN]
  /\ \A m \in Memory, b \in BOOLEAN :
       Snapshot(m, b) \in [kept : BOOLEAN, memory : Memory, planned : BOOLEAN]
  /\ Absent \in Run
  /\ PendingRun \in Run
  /\ IdleTask \in TaskState
<1>1. EmptyMemory \in Memory
  BY MemoryAssumption DEF EmptyMemory, Memory
<1>2. NoState \in [kept : BOOLEAN, memory : Memory, planned : BOOLEAN]
  BY <1>1 DEF NoState
<1>3. \A m \in Memory, b \in BOOLEAN :
        Snapshot(m, b) \in [kept : BOOLEAN, memory : Memory, planned : BOOLEAN]
  BY DEF Snapshot
<1>4. Absent \in Run
  BY <1>2 DEF Absent, Run, RunStatus
<1>5. PendingRun \in Run
  BY <1>4 DEF PendingRun, Absent, Run, RunStatus
<1>6. IdleTask \in TaskState
  BY <1>1, <1>4 DEF IdleTask, TaskState
<1> QED BY <1>1, <1>2, <1>3, <1>4, <1>5, <1>6

(* What a save can do: the run is stored, which the repository then        *)
(* accepted, or the row stays; the task goes on or is told of a failure.   *)
LEMMA SaveOutcome ==
  ASSUME NEW w \in Worker, NEW run, NEW saved, NEW raised, Save(w, run, saved, raised)
  PROVE  /\ \/ Accepts(row, run) /\ row' = run
            \/ row' = row
         /\ \/ task' = [task EXCEPT ![w] = saved] /\ row' = run /\ Accepts(row, run)
            \/ task' = [task EXCEPT ![w] = raised]
         /\ UNCHANGED <<stopping, calls, counted>>
BY DEF Save, Stored, SaveRaises, Become

(* A save of a run, or a step that saves nothing, keeps the types if the   *)
(* task it leaves is well typed.                                           *)
LEMMA SaveTypes ==
  ASSUME TypeOK, NEW w \in Worker, NEW run \in Run, NEW saved \in TaskState,
         NEW raised \in TaskState, Save(w, run, saved, raised)
  PROVE  TypeOK'
<1>1. row' \in Run
  BY SaveOutcome DEF TypeOK
<1>2. task' \in [Worker -> TaskState]
  BY SaveOutcome DEF TypeOK, TaskState
<1> QED BY <1>1, <1>2, SaveOutcome DEF TypeOK, TaskState

(* A task that moves on without a save keeps the types.                    *)
LEMMA BecomeTypes ==
  ASSUME TypeOK, NEW w \in Worker, NEW t \in TaskState, Become(w, t), UNCHANGED row,
         stopping' = stopping, calls' \in Nat, counted' \in [Fact -> Nat]
  PROVE  TypeOK'
BY DEF TypeOK, TaskState, Become

(* Every step keeps the types.                                             *)
LEMMA TypeStep ==
  ASSUME TypeOK, LimitKept, [Next]_vars
  PROVE  TypeOK'
<1> USE ValueTypes
<1>t. \A w \in Worker : task[w] \in TaskState
  BY DEF TypeOK, TaskState
<1>g. \A w \in Worker, where \in ProgramCounter : Goto(w, where) \in TaskState
  BY <1>t DEF Goto, TaskState
<1>n. \A m \in Memory : /\ NextRound(m) \in ProgramCounter
                        /\ Concluding(m) \in ProgramCounter
  BY DEF NextRound, Concluding
<1>u. calls \in Nat /\ counted \in [Fact -> Nat] /\ row \in Run /\ stopping \subseteq Process
  BY DEF TypeOK
<1>1. ASSUME NEW w \in Worker, CreateRun(w) PROVE TypeOK'
  <2>1. [IdleTask EXCEPT !.pc = "scheduled", !.copy = PendingRun] \in TaskState
    BY DEF TaskState
  <2> QED BY <1>1, <2>1, SaveTypes DEF CreateRun
<1>2. ASSUME NEW w \in Worker, ReadForFollowUp(w) PROVE TypeOK'
  <2>1. [IdleTask EXCEPT !.pc = "reopening", !.copy = row] \in TaskState
    BY <1>u DEF TaskState
  <2> QED BY <1>2, <1>u, <2>1, BecomeTypes DEF ReadForFollowUp
<1>3. ASSUME NEW w \in Worker, Reopen(w) PROVE TypeOK'
  <2> DEFINE reopened == [task[w].copy EXCEPT !.status = "running", !.follow_ups = @ + 1]
  <2>1. reopened \in Run
    <3>1. task[w].copy \in Run
      BY <1>t DEF TaskState
    <3>2. task[w].copy.follow_ups + 1 \in Nat
      BY <3>1 DEF Run
    <3> QED BY <3>1, <3>2 DEF Run, RunStatus
  <2>2. [IdleTask EXCEPT !.pc = "scheduled", !.copy = reopened] \in TaskState
    BY <2>1 DEF TaskState
  <2> QED BY <1>3, <2>1, <2>2, SaveTypes DEF Reopen
<1>4. ASSUME NEW w \in Worker, Begin(w) PROVE TypeOK'
  <2> DEFINE state == StateToResume(task[w].copy)
             running == [task[w].copy EXCEPT !.status = "running", !.state = state]
  <2>1. state \in [kept : BOOLEAN, memory : Memory, planned : BOOLEAN]
    BY <1>t DEF TaskState, Run, StateToResume
  <2>2. running \in Run
    BY <1>t, <2>1 DEF TaskState, Run, RunStatus
  <2>3. [IdleTask EXCEPT !.pc = NextRound(state.memory), !.copy = running,
                         !.memory = state.memory] \in TaskState
    BY <1>n, <2>1, <2>2 DEF TaskState
  <2> QED BY <1>4, <2>2, <2>3, SaveTypes DEF Begin
<1>5. ASSUME NEW w \in Worker, StopPlanning(w) PROVE TypeOK'
  <2>1. Concluding(task[w].memory) \in ProgramCounter
    BY <1>t, <1>n DEF TaskState
  <2> QED BY <1>5, <1>g, <1>u, <2>1, BecomeTypes DEF StopPlanning
<1>6. ASSUME NEW w \in Worker, NEW planned \in BOOLEAN, NEW next \in ProgramCounter,
             SaveRound(w, planned, next)
      PROVE TypeOK'
  <2>1. [task[w].copy EXCEPT !.state = Snapshot(task[w].memory, planned)] \in Run
    BY <1>t DEF TaskState, Run
  <2> QED BY <1>6, <1>g, <2>1, SaveTypes DEF SaveRound
<1>7. ASSUME NEW w \in Worker, PlanRound(w) PROVE TypeOK'
  BY <1>6, <1>7 DEF PlanRound
<1>8. ASSUME NEW w \in Worker, CallTools(w) PROVE TypeOK'
  <2>1. PICK m \in Memory, next \in {"executed", "stalled"} :
          /\ RoundMoves(task[w].memory, m)
          /\ Become(w, [Goto(w, next) EXCEPT !.memory = m])
          /\ calls' = calls + (task[w].memory.remaining - m.remaining)
          /\ UNCHANGED <<row, stopping, counted>>
    BY <1>8 DEF CallTools
  <2>2. [Goto(w, next) EXCEPT !.memory = m] \in TaskState
    BY <1>g DEF TaskState
  <2>3. calls' \in Nat
    BY <1>t, <1>u, <2>1, MemoryAssumption DEF RoundMoves, Memory, TaskState
  <2> QED BY <1>u, <2>1, <2>2, <2>3, BecomeTypes
<1>9. ASSUME NEW w \in Worker, CompleteRound(w) PROVE TypeOK'
  <2>1. /\ NextRound(task[w].memory) \in ProgramCounter
        /\ Concluding(task[w].memory) \in ProgramCounter
    BY <1>t, <1>n DEF TaskState
  <2> QED BY <1>6, <1>9, <2>1 DEF CompleteRound
<1>10. ASSUME NEW w \in Worker, Hypothesize(w) \/ Diagnose(w) \/ RaiseUnexpected(w)
       PROVE TypeOK'
  BY <1>10, <1>g, <1>u, BecomeTypes DEF Hypothesize, Diagnose, RaiseUnexpected
<1>11. ASSUME NEW w \in Worker, RecordFact(w) PROVE TypeOK'
  <2>1. PICK f \in ToRecord(w) :
          /\ \/ Become(w, [task[w] EXCEPT !.tried = @ \cup {f}, !.noted = @ \cup {f}])
             \/ Become(w, [task[w] EXCEPT !.tried = @ \cup {f}])
          /\ Increment(f) \/ UNCHANGED counted
          /\ UNCHANGED <<row, stopping, calls>>
    BY <1>11 DEF RecordFact
  <2>2. f \in Fact
    BY <1>t DEF ToRecord, TaskState, Memory
  <2>3. /\ [task[w] EXCEPT !.tried = @ \cup {f}, !.noted = @ \cup {f}] \in TaskState
        /\ [task[w] EXCEPT !.tried = @ \cup {f}] \in TaskState
    BY <1>t, <2>2 DEF TaskState
  <2>4. counted' \in [Fact -> Nat]
    BY <1>u, <2>1, <2>2 DEF Increment
  <2> QED BY <1>u, <2>1, <2>3, <2>4, BecomeTypes
<1>12. ASSUME NEW w \in Worker, CompleteRun(w) PROVE TypeOK'
  <2>1. NewAnswer(w) \in Answer
    <3>1. task[w].copy.follow_ups \in 0..MaxFollowUps
      BY <1>t, CaseAssumption DEF LimitKept, TaskState, Run
    <3> QED BY <3>1 DEF NewAnswer, Answer
  <2>2. Completed(w) \in Run
    <3>1. task[w].copy \in Run /\ task[w].memory \in Memory /\ task[w].noted \subseteq Fact
      BY <1>t DEF TaskState
    <3>2. Append(task[w].copy.results, NewAnswer(w)) \in Seq(Answer)
      BY <2>1, <3>1 DEF Run
    <3>3. task[w].copy.recorded \cup task[w].noted \subseteq Fact
      BY <3>1 DEF Run
    <3> QED BY <3>1, <3>2, <3>3 DEF Completed, Run, RunStatus
  <2> QED BY <1>12, <1>g, <2>2, SaveTypes DEF CompleteRun
<1>13. ASSUME NEW w \in Worker, FailRun(w) PROVE TypeOK'
  <2>1. [task[w].copy EXCEPT !.status = "failed", !.state = NoState] \in Run
    BY <1>t DEF TaskState, Run, RunStatus
  <2> QED BY <1>13, <2>1, SaveTypes DEF FailRun
<1>14. ASSUME NEW w \in Worker, ReadForCancel(w) PROVE TypeOK'
  <2>1. [Goto(w, "saving_cancel") EXCEPT !.copy = row] \in TaskState
    BY <1>g, <1>u DEF TaskState
  <2> QED BY <1>14, <1>u, <2>1, BecomeTypes DEF ReadForCancel
<1>15. ASSUME NEW w \in Worker, CancelRun(w) PROVE TypeOK'
  <2>1. [task[w].copy EXCEPT !.status = "cancelled"] \in Run
    BY <1>t DEF TaskState, Run, RunStatus
  <2> QED BY <1>15, <2>1, SaveTypes DEF CancelRun
<1>16. ASSUME NEW p \in Process, Shutdown(p) PROVE TypeOK'
  <2>1. \A w \in Worker : Interrupted(task[w]) \in TaskState
    BY <1>t DEF Interrupted, TaskState
  <2> QED BY <1>16, <1>t, <1>u, <2>1 DEF Shutdown, TypeOK, TaskState
<1>17. ASSUME NEW p \in Process, Restart(p) \/ Crash(p) PROVE TypeOK'
  BY <1>17, <1>t, <1>u DEF Restart, Crash, TypeOK, TaskState
<1>18. CASE UNCHANGED vars
  BY <1>18 DEF vars, TypeOK
<1> QED
  BY <1>1, <1>2, <1>3, <1>4, <1>5, <1>7, <1>8, <1>9, <1>10, <1>11, <1>12, <1>13,
     <1>14, <1>15, <1>16, <1>17, <1>18 DEF Next, Progress

-----------------------------------------------------------------------------
(* The stored run changes only by a save that the repository accepts.      *)
LEMMA RowChange ==
  ASSUME [Next]_vars
  PROVE  row' = row \/ Accepts(row, row')
<1>1. ASSUME NEW w \in Worker, CreateRun(w) \/ Reopen(w) \/ Begin(w) \/ CompleteRun(w)
                                \/ FailRun(w) \/ CancelRun(w)
      PROVE  row' = row \/ Accepts(row, row')
  BY <1>1, SaveOutcome DEF CreateRun, Reopen, Begin, CompleteRun, FailRun, CancelRun
<1>2. ASSUME NEW w \in Worker, PlanRound(w) \/ CompleteRound(w)
      PROVE  row' = row \/ Accepts(row, row')
  BY <1>2, SaveOutcome DEF PlanRound, CompleteRound, SaveRound
<1>3. ASSUME NEW w \in Worker,
             ReadForFollowUp(w) \/ StopPlanning(w) \/ CallTools(w) \/ Hypothesize(w)
               \/ Diagnose(w) \/ RaiseUnexpected(w) \/ RecordFact(w) \/ ReadForCancel(w)
      PROVE  row' = row
  BY <1>3 DEF ReadForFollowUp, StopPlanning, CallTools, Hypothesize, Diagnose,
              RaiseUnexpected, RecordFact, ReadForCancel
<1>4. ASSUME NEW p \in Process, Shutdown(p) \/ Restart(p) \/ Crash(p)
      PROVE  row' = row
  BY <1>4 DEF Shutdown, Restart, Crash
<1> QED BY <1>1, <1>2, <1>3, <1>4 DEF Next, Progress, vars

(* A completed run that was reopened as often as allowed never changes.    *)
LEMMA LimitIsFinal ==
  ASSUME row.status = "completed", row.follow_ups = MaxFollowUps, [Next]_vars
  PROVE  row' = row
<1>1. ~Accepts(row, row')
  BY CaseAssumption DEF Accepts, ReopenIsValid, AllowedRunTransitions, TerminalStatus
<1> QED BY <1>1, RowChange

(* A step that leaves task w outside a reopening, with a run and a copy    *)
(* within the limit, keeps the limit.                                      *)
LEMMA LimitUpdate ==
  ASSUME TypeOK, LimitKept, [Next]_vars, NEW w \in Worker, NEW t,
         t.copy.follow_ups <= MaxFollowUps, t.pc # "reopening",
         task' = [task EXCEPT ![w] = t], row'.follow_ups <= MaxFollowUps
  PROVE  LimitKept'
<1>1. \A v \in Worker : task'[v] = IF v = w THEN t ELSE task[v]
  BY DEF TypeOK
<1>2. \A v \in Worker : task'[v].copy.follow_ups <= MaxFollowUps
  BY <1>1 DEF LimitKept
<1>3. ASSUME NEW v \in Worker, task'[v].pc = "reopening",
             task'[v].copy.follow_ups = MaxFollowUps
      PROVE  row'.status = "completed" /\ row'.follow_ups = MaxFollowUps
  BY <1>1, <1>3, LimitIsFinal DEF LimitKept
<1> QED BY <1>2, <1>3 DEF LimitKept

(* A save keeps the limit when the copy it is made from does.              *)
LEMMA LimitSave ==
  ASSUME TypeOK, LimitKept, [Next]_vars, NEW w \in Worker, NEW run, NEW saved, NEW raised,
         Save(w, run, saved, raised), Accepts(row, run) => run.follow_ups <= MaxFollowUps,
         Accepts(row, run) => saved.copy.follow_ups <= MaxFollowUps,
         raised.copy.follow_ups <= MaxFollowUps,
         saved.pc # "reopening", raised.pc # "reopening"
  PROVE  LimitKept'
<1>1. row'.follow_ups <= MaxFollowUps
  BY SaveOutcome DEF LimitKept
<1> QED BY <1>1, SaveOutcome, LimitUpdate

(* Every step keeps the limit on reopening.                                *)
LEMMA LimitStep ==
  ASSUME TypeOK, LimitKept, [Next]_vars
  PROVE  LimitKept'
<1>i. IdleTask.copy.follow_ups <= MaxFollowUps /\ IdleTask.pc = "idle"
  BY CaseAssumption DEF IdleTask, Absent
<1>t. \A w \in Worker : task[w] \in TaskState
  BY DEF TypeOK, TaskState
<1>g. \A w \in Worker, where \in ProgramCounter :
        /\ Goto(w, where).pc = where
        /\ Goto(w, where).copy = task[w].copy
  BY <1>t DEF Goto, TaskState
<1>n. \A m \in Memory : /\ NextRound(m) \in ProgramCounter \ {"reopening"}
                        /\ Concluding(m) \in ProgramCounter \ {"reopening"}
  BY DEF NextRound, Concluding
<1>m. \A w \in Worker : task[w].memory \in Memory /\ task[w].copy \in Run
  BY <1>t DEF TaskState
<1>c. \A w \in Worker : task[w].copy.follow_ups <= MaxFollowUps
  BY DEF LimitKept
<1>1. ASSUME NEW w \in Worker, CreateRun(w) PROVE LimitKept'
  <2>1. PendingRun.follow_ups <= MaxFollowUps
    BY CaseAssumption DEF PendingRun, Absent
  <2>2. /\ [IdleTask EXCEPT !.pc = "scheduled", !.copy = PendingRun].copy = PendingRun
        /\ [IdleTask EXCEPT !.pc = "scheduled", !.copy = PendingRun].pc = "scheduled"
    BY DEF IdleTask
  <2> QED BY <1>1, <1>i, <2>1, <2>2, LimitSave DEF CreateRun
<1>2. ASSUME NEW w \in Worker, ReadForFollowUp(w) PROVE LimitKept'
  <2>1. \A v \in Worker : IF v = w THEN task'[v].copy = row ELSE task'[v] = task[v]
    BY <1>2 DEF ReadForFollowUp, Become, TypeOK, IdleTask
  <2> QED BY <1>2, <2>1 DEF ReadForFollowUp, LimitKept
<1>3. ASSUME NEW w \in Worker, Reopen(w) PROVE LimitKept'
  <2> DEFINE reopened == [task[w].copy EXCEPT !.status = "running", !.follow_ups = @ + 1]
             saved == [IdleTask EXCEPT !.pc = "scheduled", !.copy = reopened]
  <2>1. reopened.status = "running" /\ reopened.follow_ups = task[w].copy.follow_ups + 1
    BY <1>m DEF Run
  <2>2. ASSUME Accepts(row, reopened) PROVE reopened.follow_ups <= MaxFollowUps
    <3>1. CASE task[w].copy.follow_ups = MaxFollowUps
      <4>1. row.status = "completed" /\ row.follow_ups = MaxFollowUps
        BY <1>3, <3>1 DEF Reopen, At, LimitKept
      <4>2. ~Accepts(row, reopened)
        BY <2>1, <4>1, CaseAssumption DEF Accepts, ReopenIsValid
      <4> QED BY <2>2, <4>2
    <3>2. CASE task[w].copy.follow_ups # MaxFollowUps
      <4>1. task[w].copy.follow_ups \in Nat
        BY <1>m DEF Run
      <4> QED BY <1>c, <2>1, <3>2, <4>1, CaseAssumption
    <3> QED BY <3>1, <3>2
  <2>3. saved.copy = reopened /\ saved.pc = "scheduled"
    BY DEF IdleTask
  <2> HIDE DEF reopened
  <2> QED BY <1>3, <1>i, <2>2, <2>3, LimitSave DEF Reopen, reopened
<1>4. ASSUME NEW w \in Worker, Begin(w) PROVE LimitKept'
  <2> DEFINE state == StateToResume(task[w].copy)
             running == [task[w].copy EXCEPT !.status = "running", !.state = state]
             saved == [IdleTask EXCEPT !.pc = NextRound(state.memory), !.copy = running,
                                       !.memory = state.memory]
  <2>1. running.follow_ups = task[w].copy.follow_ups
    BY <1>m DEF Run
  <2>2. state.memory \in Memory
    BY <1>m, ValueTypes DEF StateToResume, Run, Snapshot
  <2>3. saved.copy = running /\ saved.pc = NextRound(state.memory)
    BY DEF IdleTask
  <2>4. saved.pc # "reopening"
    BY <1>n, <2>2, <2>3
  <2>5. Save(w, running, saved, IdleTask)
    BY <1>4 DEF Begin
  <2> HIDE DEF running, saved
  <2> QED BY <1>c, <1>i, <2>1, <2>3, <2>4, <2>5, LimitSave
<1>5. ASSUME NEW w \in Worker, NEW where \in ProgramCounter \ {"reopening"},
             Become(w, Goto(w, where)), UNCHANGED row
      PROVE  LimitKept'
  BY <1>5, <1>g, <1>c, LimitUpdate DEF Become, LimitKept
<1>6. ASSUME NEW w \in Worker, StopPlanning(w) \/ Hypothesize(w) \/ Diagnose(w)
                                 \/ RaiseUnexpected(w)
      PROVE  LimitKept'
  BY <1>5, <1>6, <1>m, <1>n DEF StopPlanning, Hypothesize, Diagnose, RaiseUnexpected
<1>7. ASSUME NEW w \in Worker, NEW planned \in BOOLEAN,
             NEW next \in ProgramCounter \ {"reopening"}, SaveRound(w, planned, next)
      PROVE  LimitKept'
  <2> DEFINE run == [task[w].copy EXCEPT !.state = Snapshot(task[w].memory, planned)]
  <2>1. run.follow_ups = task[w].copy.follow_ups
    BY <1>m DEF Run
  <2>2. Save(w, run, Goto(w, next), Goto(w, "failing"))
    BY <1>7 DEF SaveRound
  <2> HIDE DEF run
  <2> QED BY <1>c, <1>g, <2>1, <2>2, LimitSave
<1>8. ASSUME NEW w \in Worker, PlanRound(w) \/ CompleteRound(w) PROVE LimitKept'
  BY <1>7, <1>8, <1>m, <1>n DEF PlanRound, CompleteRound
<1>9. ASSUME NEW w \in Worker, CallTools(w) \/ RecordFact(w) PROVE LimitKept'
  <2>1. PICK t : /\ t.copy = task[w].copy
                 /\ t.pc # "reopening"
                 /\ Become(w, t)
                 /\ UNCHANGED row
    <3>1. CASE CallTools(w)
      <4>1. PICK m \in Memory, next \in {"executed", "stalled"} :
              Become(w, [Goto(w, next) EXCEPT !.memory = m]) /\ UNCHANGED row
        BY <3>1 DEF CallTools
      <4>2. /\ [Goto(w, next) EXCEPT !.memory = m].copy = task[w].copy
            /\ [Goto(w, next) EXCEPT !.memory = m].pc = next
        BY <1>t DEF Goto, TaskState
      <4> QED BY <4>1, <4>2
    <3>2. CASE RecordFact(w)
      <4>1. PICK f : /\ \/ Become(w, [task[w] EXCEPT !.tried = @ \cup {f}, !.noted = @ \cup {f}])
                        \/ Become(w, [task[w] EXCEPT !.tried = @ \cup {f}])
                     /\ task[w].pc = "recording"
                     /\ UNCHANGED row
        BY <3>2 DEF RecordFact, At
      <4>2. /\ [task[w] EXCEPT !.tried = @ \cup {f}, !.noted = @ \cup {f}].copy = task[w].copy
            /\ [task[w] EXCEPT !.tried = @ \cup {f}, !.noted = @ \cup {f}].pc = task[w].pc
            /\ [task[w] EXCEPT !.tried = @ \cup {f}].copy = task[w].copy
            /\ [task[w] EXCEPT !.tried = @ \cup {f}].pc = task[w].pc
        BY <1>t DEF TaskState
      <4> QED BY <4>1, <4>2
    <3> QED BY <1>9, <3>1, <3>2
  <2> QED BY <1>c, <2>1, LimitUpdate DEF Become, LimitKept
<1>10. ASSUME NEW w \in Worker, CompleteRun(w) PROVE LimitKept'
  <2>1. Completed(w).follow_ups = task[w].copy.follow_ups
    BY <1>m DEF Completed, Run
  <2> QED BY <1>10, <1>c, <1>g, <1>i, <2>1, LimitSave DEF CompleteRun
<1>11. ASSUME NEW w \in Worker, FailRun(w) PROVE LimitKept'
  <2> DEFINE run == [task[w].copy EXCEPT !.status = "failed", !.state = NoState]
  <2>1. run.follow_ups = task[w].copy.follow_ups
    BY <1>m DEF Run
  <2>2. Save(w, run, IdleTask, IdleTask)
    BY <1>11 DEF FailRun
  <2> HIDE DEF run
  <2> QED BY <1>c, <1>i, <2>1, <2>2, LimitSave
<1>12. ASSUME NEW w \in Worker, ReadForCancel(w) PROVE LimitKept'
  <2>1. /\ [Goto(w, "saving_cancel") EXCEPT !.copy = row].copy = row
        /\ [Goto(w, "saving_cancel") EXCEPT !.copy = row].pc = "saving_cancel"
    BY <1>t DEF Goto, TaskState
  <2> QED BY <1>12, <1>i, <2>1, LimitUpdate DEF ReadForCancel, Become, LimitKept
<1>13. ASSUME NEW w \in Worker, CancelRun(w) PROVE LimitKept'
  <2> DEFINE run == [task[w].copy EXCEPT !.status = "cancelled"]
  <2>1. run.follow_ups = task[w].copy.follow_ups
    BY <1>m DEF Run
  <2>2. Save(w, run, IdleTask, IdleTask)
    BY <1>13 DEF CancelRun
  <2> HIDE DEF run
  <2> QED BY <1>c, <1>i, <2>1, <2>2, LimitSave
<1>14. ASSUME NEW p \in Process, Shutdown(p) \/ Restart(p) \/ Crash(p) PROVE LimitKept'
  <2>1. \A w \in Worker : \/ task'[w] = task[w]
                          \/ task'[w] = IdleTask
                          \/ /\ task'[w].pc # "reopening"
                             /\ task'[w].copy = task[w].copy
    BY <1>14, <1>t DEF Shutdown, Restart, Crash, Interrupted, TaskState
  <2>2. row' = row
    BY <1>14 DEF Shutdown, Restart, Crash
  <2> QED BY <1>i, <2>1, <2>2 DEF LimitKept
<1>15. CASE UNCHANGED vars
  BY <1>15 DEF vars, LimitKept
<1> QED
  BY <1>1, <1>2, <1>3, <1>4, <1>6, <1>8, <1>9, <1>10, <1>11, <1>12, <1>13, <1>14, <1>15
  DEF Next, Progress

(* However many processes serve a case, its variables keep their types and *)
(* no case is ever reopened more often than the limit allows.              *)
THEOREM LimitInvariant == Spec => [](TypeOK /\ LimitKept)
<1>1. Init => TypeOK /\ LimitKept
  <2>1. IdleTask.copy = Absent /\ IdleTask.pc = "idle" /\ Absent.follow_ups = 0
    BY DEF IdleTask, Absent
  <2>2. Init => TypeOK
    BY ValueTypes DEF Init, TypeOK, TaskState
  <2>3. Init => LimitKept
    BY <2>1, CaseAssumption DEF Init, LimitKept
  <2> QED BY <2>2, <2>3
<1>2. TypeOK /\ LimitKept /\ [Next]_vars => TypeOK' /\ LimitKept'
  BY TypeStep, LimitStep
<1> QED BY <1>1, <1>2, PTL DEF Spec

-----------------------------------------------------------------------------
(* A case that is served by a single process.                              *)
OneProcess == \A v, w \in Worker : ProcessOf[v] = ProcessOf[w]

(* A worker that acts on the case is the only one that holds a copy of it. *)
LEMMA ActsAlone ==
  ASSUME OneProcess, CaseInv, NEW w \in Worker, HasLoop(w),
         Holds(w) \/ row.status \in {"absent", "completed"}
  PROVE  \A v \in Worker \ {w} : task[v].pc = "idle"
<1>1. CASE Holds(w)
  BY <1>1 DEF CaseInv, OneWriter, Holds
<1>2. CASE row.status \in {"absent", "completed"}
  <2> SUFFICES ASSUME NEW v \in Worker \ {w}, task[v].pc # "idle" PROVE FALSE
    OBVIOUS
  <2>1. WriterInv(v) /\ task[v].pc \in ProgramCounter
    BY DEF CaseInv, TypeOK
  <2>2. task[v].pc \in Section
    BY <1>2, <2>1 DEF WriterInv, Working
  <2> QED BY <2>2 DEF HasLoop, OneProcess
<1> QED BY <1>1, <1>2

(* When one task changes and the others are idle, only its own invariant   *)
(* has to be shown again.                                                  *)
LEMMA WriterUpdate ==
  ASSUME TypeOK, NEW w \in Worker, NEW t, task' = [task EXCEPT ![w] = t],
         \A v \in Worker \ {w} : task[v].pc = "idle", WriterInv(w)'
  PROVE  OneWriter' /\ \A v \in Worker : WriterInv(v)'
<1>1. \A v \in Worker \ {w} : task'[v].pc = "idle"
  BY DEF TypeOK
<1>2. OneWriter'
  BY <1>1 DEF OneWriter, Holds
<1>3. \A v \in Worker \ {w} : WriterInv(v)'
  BY <1>1 DEF WriterInv, Working
<1> QED BY <1>2, <1>3

(* The row's own invariant depends on the row and the calls only.          *)
LEMMA RowUnchanged ==
  ASSUME RowInv, UNCHANGED <<row, calls>>
  PROVE  RowInv'
BY DEF RowInv, CallsWithinBudget, EveryTurnAnswered, CompletedCaseIsWhole

(* A save that leaves the thread of answers alone keeps it.                *)
LEMMA ThreadUnchanged ==
  ASSUME RowInv, row.status \in {"pending", "running"},
         row'.status \in {"running", "failed", "cancelled"},
         row'.follow_ups = row.follow_ups, row'.results = row.results, calls' = calls
  PROVE  RowInv'
<1>1. CallsWithinBudget'
  BY DEF RowInv, CallsWithinBudget
<1>2. EveryTurnAnswered'
  BY DEF RowInv, EveryTurnAnswered
<1>3. CompletedCaseIsWhole'
  BY DEF CompletedCaseIsWhole
<1> QED BY <1>1, <1>2, <1>3 DEF RowInv

(* Going on elsewhere changes nothing a task holds.                         *)
LEMMA GotoFields ==
  ASSUME TypeOK, NEW w \in Worker, NEW where
  PROVE  /\ Goto(w, where).pc = where
         /\ Goto(w, where).copy = task[w].copy
         /\ Goto(w, where).memory = task[w].memory
         /\ Goto(w, where).noted = task[w].noted
BY DEF Goto, TypeOK

(* After a round a task is somewhere within its turn.                      *)
LEMMA Places ==
  ASSUME NEW m \in Memory
  PROVE  NextRound(m) \in Working /\ Concluding(m) \in Working
BY DEF NextRound, Concluding, Working

(* Within a turn a task moves on without touching the row or its memory.   *)
LEMMA MoveOn ==
  ASSUME TypeOK, NEW w \in Worker, WriterInv(w), task[w].pc \in Working,
         NEW where \in Working \cup {"failing"}, task'[w] = Goto(w, where),
         UNCHANGED <<row, calls>>
  PROVE  WriterInv(w)'
BY GotoFields DEF WriterInv, Working, InSync

(* A save that ends the task, whatever becomes of it: only the row matters. *)
LEMMA LastSave ==
  ASSUME CaseInv, TypeOK', LimitKept', NEW w \in Worker, NEW run,
         \A v \in Worker \ {w} : task[v].pc = "idle",
         Save(w, run, IdleTask, IdleTask), RowInv'
  PROVE  CaseInv'
<1>1. task' = [task EXCEPT ![w] = IdleTask]
  BY SaveOutcome
<1>2. WriterInv(w)'
  BY <1>1 DEF CaseInv, TypeOK, IdleTask, WriterInv, Working
<1> QED BY <1>1, <1>2, WriterUpdate DEF CaseInv

(* Every step of a case that one process serves keeps the invariant.       *)
LEMMA CaseStep ==
  ASSUME OneProcess, CaseInv, TypeOK', LimitKept', [Next]_vars
  PROVE  CaseInv'
<1>i. /\ TypeOK /\ OneWriter /\ RowInv
      /\ \A w \in Worker : WriterInv(w)
  BY DEF CaseInv
<1>t. \A w \in Worker : /\ task[w].copy \in Run
                        /\ task[w].memory \in Memory
                        /\ task[w].noted \subseteq Fact
  BY DEF CaseInv, TypeOK
<1>u. row \in Run /\ calls \in Nat
  BY DEF CaseInv, TypeOK
<1>d. IdleTask.pc = "idle"
  BY DEF IdleTask
<1>a. ASSUME NEW w \in Worker, NEW where, At(w, where), where # "idle"
      PROVE  \A v \in Worker \ {w} : task[v].pc = "idle"
  BY <1>a, ActsAlone DEF At, Holds
<1>b. ASSUME NEW w \in Worker, NEW t, task' = [task EXCEPT ![w] = t],
             \A v \in Worker \ {w} : task[v].pc = "idle",
             WriterInv(w)', RowInv'
      PROVE  CaseInv'
  BY <1>b, <1>i, WriterUpdate DEF CaseInv
<1>1. ASSUME NEW w \in Worker, CreateRun(w) PROVE CaseInv'
  <2> DEFINE saved == [IdleTask EXCEPT !.pc = "scheduled", !.copy = PendingRun]
  <2>1. row.status = "absent" /\ Save(w, PendingRun, saved, IdleTask)
    BY <1>1 DEF CreateRun
  <2>2. \A v \in Worker \ {w} : task[v].pc = "idle"
    BY <1>1, ActsAlone DEF CreateRun, Serving, At
  <2>3. /\ saved.pc = "scheduled" /\ saved.copy = PendingRun
    BY DEF IdleTask
  <2>4. /\ PendingRun.status = "pending" /\ PendingRun.results = <<>>
        /\ PendingRun.follow_ups = 0 /\ PendingRun.recorded = {}
    BY DEF PendingRun, Absent
  <2>5. calls = 0 /\ calls' = 0
    BY <1>i, <2>1, SaveOutcome DEF RowInv
  <2>6. RowInv'
    <3>1. CASE row' = row
      BY <1>i, <2>5, <3>1, RowUnchanged
    <3>2. CASE row' = PendingRun
      BY <2>4, <2>5, <3>2, MemoryAssumption
      DEF RowInv, CallsWithinBudget, EveryTurnAnswered, CompletedCaseIsWhole
    <3> QED BY <2>1, <3>1, <3>2, SaveOutcome
  <2>7. CASE task' = [task EXCEPT ![w] = saved] /\ row' = PendingRun
    <3>1. task'[w] = saved
      BY <1>i, <2>7 DEF TypeOK
    <3>2. StateToResume(row').memory = EmptyMemory
      BY <2>4, <2>7 DEF StateToResume, Snapshot
    <3>3. calls' + StateToResume(row').memory.remaining = Budget
      BY <2>5, <3>2, MemoryAssumption DEF EmptyMemory
    <3>4. /\ task'[w].pc = "scheduled" /\ task'[w].copy = row' /\ row'.status = "pending"
          /\ row'.recorded = {}
      BY <2>3, <2>4, <2>7, <3>1
    <3>5. WriterInv(w)'
      BY <3>3, <3>4 DEF WriterInv, Working
    <3> QED BY <1>b, <2>2, <2>6, <2>7, <3>5
  <2>8. CASE task' = [task EXCEPT ![w] = IdleTask]
    <3>1. WriterInv(w)'
      BY <1>d, <1>i, <2>8 DEF WriterInv, Working, TypeOK
    <3> QED BY <1>b, <2>2, <2>6, <2>8, <3>1
  <2> HIDE DEF saved
  <2> QED BY <2>1, <2>7, <2>8, SaveOutcome
<1>2. ASSUME NEW w \in Worker, ReadForFollowUp(w) PROVE CaseInv'
  <2> DEFINE t == [IdleTask EXCEPT !.pc = "reopening", !.copy = row]
  <2>1. \A v \in Worker \ {w} : task[v].pc = "idle"
    BY <1>2, ActsAlone DEF ReadForFollowUp, Serving, At
  <2>2. t.pc = "reopening" /\ t.copy = row
    BY DEF IdleTask
  <2>3. /\ task' = [task EXCEPT ![w] = t] /\ UNCHANGED <<row, calls>>
        /\ row.status = "completed"
    BY <1>2 DEF ReadForFollowUp, Become
  <2> HIDE DEF t
  <2>4. task'[w] = t
    BY <1>i, <2>3 DEF TypeOK
  <2>5. WriterInv(w)'
    BY <2>2, <2>3, <2>4 DEF WriterInv, Working
  <2> QED BY <1>b, <1>i, <2>1, <2>3, <2>5, RowUnchanged
<1>3. ASSUME NEW w \in Worker, Reopen(w) PROVE CaseInv'
  <2> DEFINE reopened == [task[w].copy EXCEPT !.status = "running", !.follow_ups = @ + 1]
             saved == [IdleTask EXCEPT !.pc = "scheduled", !.copy = reopened]
  <2>1. Save(w, reopened, saved, IdleTask)
    BY <1>3 DEF Reopen
  <2>2. \A v \in Worker \ {w} : task[v].pc = "idle"
    BY <1>3, <1>a DEF Reopen
  <2>3. row.status = "completed" /\ task[w].copy = row
    BY <1>3, <1>i DEF Reopen, At, WriterInv
  <2>4. /\ reopened.status = "running" /\ reopened.follow_ups = row.follow_ups + 1
        /\ reopened.results = row.results /\ reopened.recorded = row.recorded
        /\ reopened.state = row.state
    BY <1>u, <2>3 DEF Run
  <2>5. saved.pc = "scheduled" /\ saved.copy = reopened
    BY DEF IdleTask
  <2> HIDE DEF reopened, saved
  <2>6. RowInv'
    <3>1. CASE row' = row
      BY <1>i, <2>1, <3>1, RowUnchanged, SaveOutcome
    <3>2. CASE row' = reopened
      <4>1. EveryTurnAnswered'
        BY <1>i, <1>u, <2>3, <2>4, <3>2 DEF RowInv, EveryTurnAnswered, Run
      <4> QED BY <1>i, <2>1, <2>4, <3>2, <4>1, SaveOutcome
              DEF RowInv, CallsWithinBudget, CompletedCaseIsWhole
    <3> QED BY <2>1, <3>1, <3>2, SaveOutcome
  <2>7. CASE task' = [task EXCEPT ![w] = saved] /\ row' = reopened
    <3>1. task'[w] = saved
      BY <1>i, <2>7 DEF TypeOK
    <3>2. StateToResume(row') = row.state
      BY <2>4, <2>7 DEF StateToResume
    <3>3. calls + row.state.memory.remaining = Budget
      BY <1>i, <2>3 DEF RowInv, CallsWithinBudget
    <3>4. row.recorded \subseteq row.state.memory.facts
      BY <1>i, <2>3 DEF RowInv, CompletedCaseIsWhole
    <3>5. calls' = calls
      BY <2>1, SaveOutcome
    <3>6. /\ task'[w].pc = "scheduled" /\ task'[w].copy = row' /\ row'.status = "running"
          /\ row'.recorded = row.recorded
      BY <2>4, <2>5, <2>7, <3>1
    <3>7. WriterInv(w)'
      BY <3>2, <3>3, <3>4, <3>5, <3>6 DEF WriterInv, Working
    <3> QED BY <1>b, <2>2, <2>6, <2>7, <3>7
  <2>8. CASE task' = [task EXCEPT ![w] = IdleTask]
    <3>1. WriterInv(w)'
      BY <1>d, <1>i, <2>8 DEF WriterInv, Working, TypeOK
    <3> QED BY <1>b, <2>2, <2>6, <2>8, <3>1
  <2> QED BY <2>1, <2>7, <2>8, SaveOutcome
<1>4. ASSUME NEW w \in Worker, Begin(w) PROVE CaseInv'
  <2> DEFINE state == StateToResume(task[w].copy)
             running == [task[w].copy EXCEPT !.status = "running", !.state = state]
             saved == [IdleTask EXCEPT !.pc = NextRound(state.memory), !.copy = running,
                                       !.memory = state.memory]
  <2>1. Save(w, running, saved, IdleTask)
    BY <1>4 DEF Begin
  <2>2. \A v \in Worker \ {w} : task[v].pc = "idle"
    BY <1>4, <1>a DEF Begin
  <2>3. /\ row.status \in {"pending", "running"} /\ task[w].copy = row
        /\ calls + state.memory.remaining = Budget
        /\ row.recorded \subseteq state.memory.facts
    BY <1>4, <1>i DEF Begin, At, WriterInv
  <2>4. /\ running.status = "running" /\ running.follow_ups = row.follow_ups
        /\ running.results = row.results /\ running.recorded = row.recorded
        /\ running.state = state
    BY <1>u, <2>3 DEF Run
  <2>5. state.memory \in Memory
    BY <1>u, <2>3, ValueTypes DEF StateToResume, Run, Snapshot
  <2>6. /\ saved.pc \in Working /\ saved.copy = running
        /\ saved.memory = state.memory /\ saved.noted = {}
    BY <2>5, Places DEF IdleTask
  <2> HIDE DEF running, saved, state
  <2>7. RowInv'
    BY <1>i, <2>1, <2>3, <2>4, SaveOutcome, RowUnchanged, ThreadUnchanged
  <2>8. CASE task' = [task EXCEPT ![w] = saved] /\ row' = running
    <3>1. task'[w] = saved
      BY <1>i, <2>8 DEF TypeOK
    <3>2. calls' = calls
      BY <2>1, SaveOutcome
    <3>3. state.memory.remaining \in Int
      BY <2>5 DEF Memory
    <3>4. WriterInv(w)'
      BY <2>3, <2>4, <2>6, <2>8, <3>1, <3>2, <3>3 DEF WriterInv, Working, InSync
    <3> QED BY <1>b, <2>2, <2>7, <2>8, <3>4
  <2>9. CASE task' = [task EXCEPT ![w] = IdleTask]
    <3>1. WriterInv(w)'
      BY <1>d, <1>i, <2>9 DEF WriterInv, Working, TypeOK
    <3> QED BY <1>b, <2>2, <2>7, <2>9, <3>1
  <2> QED BY <2>1, <2>8, <2>9, SaveOutcome
<1>5. ASSUME NEW w \in Worker, NEW from \in Working, At(w, from),
             NEW where \in Working \cup {"failing"}, Become(w, Goto(w, where)),
             UNCHANGED <<row, calls>>
      PROVE  CaseInv'
  <2>1. task' = [task EXCEPT ![w] = Goto(w, where)] /\ task'[w] = Goto(w, where)
    BY <1>5, <1>i DEF Become, TypeOK
  <2>2. WriterInv(w)'
    BY <1>5, <1>i, <2>1, MoveOn DEF At
  <2>3. \A v \in Worker \ {w} : task[v].pc = "idle"
    BY <1>5, <1>a DEF Working
  <2> QED BY <1>5, <1>b, <1>i, <2>1, <2>2, <2>3, RowUnchanged
<1>6. ASSUME NEW w \in Worker, StopPlanning(w) \/ Hypothesize(w) \/ Diagnose(w)
                                 \/ RaiseUnexpected(w)
      PROVE  CaseInv'
  <2>1. Concluding(task[w].memory) \in Working
    BY <1>t, Places
  <2> QED BY <1>5, <1>6, <2>1
          DEF StopPlanning, Hypothesize, Diagnose, RaiseUnexpected, Working
<1>7. ASSUME NEW w \in Worker, NEW from \in Working, At(w, from), NEW planned \in BOOLEAN,
             NEW next \in Working, SaveRound(w, planned, next)
      PROVE  CaseInv'
  <2> DEFINE run == [task[w].copy EXCEPT !.state = Snapshot(task[w].memory, planned)]
  <2>1. Save(w, run, Goto(w, next), Goto(w, "failing"))
    BY <1>7 DEF SaveRound
  <2>2. \A v \in Worker \ {w} : task[v].pc = "idle"
    BY <1>7, <1>a DEF Working
  <2>3. /\ row.status = "running" /\ task[w].copy.status = "running" /\ InSync(w)
        /\ calls + task[w].memory.remaining = Budget
        /\ task[w].copy.recorded \cup task[w].noted \subseteq task[w].memory.facts
        /\ task[w].memory.remaining <= row.state.memory.remaining
    BY <1>7, <1>i DEF At, WriterInv
  <2>4. /\ run.status = "running" /\ run.follow_ups = row.follow_ups
        /\ run.results = row.results /\ run.recorded = row.recorded
        /\ run.state.memory = task[w].memory
    BY <1>t, <2>3 DEF Run, Snapshot, InSync
  <2> HIDE DEF run
  <2>5. RowInv'
    BY <1>i, <2>1, <2>3, <2>4, SaveOutcome, RowUnchanged, ThreadUnchanged
  <2>6. task[w].memory.remaining \in Int
    BY <1>t DEF Memory
  <2>7. ASSUME NEW where \in Working \cup {"failing"}, row' \in {row, run},
               task' = [task EXCEPT ![w] = Goto(w, where)], calls' = calls
        PROVE  CaseInv'
    <3>1. task'[w] = Goto(w, where)
      BY <1>i, <2>7 DEF TypeOK
    <3>2. /\ row'.status = "running" /\ InSync(w)'
          /\ task'[w].memory.remaining <= row'.state.memory.remaining
      BY <1>i, <2>3, <2>4, <2>6, <2>7, <3>1, GotoFields DEF InSync
    <3>3. WriterInv(w)'
      BY <1>i, <2>3, <2>7, <3>1, <3>2, GotoFields DEF WriterInv, Working
    <3> QED BY <1>b, <2>2, <2>5, <2>7, <3>3
  <2>8. row' \in {row, run} /\ calls' = calls
    BY <2>1, SaveOutcome
  <2> QED BY <2>1, <2>7, <2>8, SaveOutcome
<1>8. ASSUME NEW w \in Worker, PlanRound(w) \/ CompleteRound(w) PROVE CaseInv'
  <2>1. /\ NextRound(task[w].memory) \in Working
        /\ Concluding(task[w].memory) \in Working
    BY <1>t, Places
  <2>2. CASE PlanRound(w)
    BY <1>7, <2>2 DEF PlanRound, Working
  <2>3. CASE At(w, "executed") /\ SaveRound(w, FALSE, NextRound(task[w].memory))
    BY <1>7, <2>1, <2>3 DEF Working
  <2>4. CASE At(w, "stalled") /\ SaveRound(w, FALSE, Concluding(task[w].memory))
    BY <1>7, <2>1, <2>4 DEF Working
  <2> QED BY <1>8, <2>2, <2>3, <2>4 DEF CompleteRound
<1>9. ASSUME NEW w \in Worker, CallTools(w) PROVE CaseInv'
  <2>1. PICK m \in Memory, next \in {"executed", "stalled"} :
          /\ RoundMoves(task[w].memory, m)
          /\ Become(w, [Goto(w, next) EXCEPT !.memory = m])
          /\ calls' = calls + (task[w].memory.remaining - m.remaining)
          /\ row' = row
          /\ At(w, "executing")
    BY <1>9 DEF CallTools
  <2> DEFINE t == [Goto(w, next) EXCEPT !.memory = m]
  <2>2. t.pc = next /\ t.copy = task[w].copy /\ t.memory = m /\ t.noted = task[w].noted
    BY <1>i DEF Goto, TypeOK
  <2>3. task' = [task EXCEPT ![w] = t] /\ task'[w] = t
    BY <1>i, <2>1 DEF Become, TypeOK
  <2> HIDE DEF t
  <2>4. \A v \in Worker \ {w} : task[v].pc = "idle"
    BY <2>1, <1>a
  <2>5. WriterInv(w) /\ task[w].pc = "executing"
    BY <1>i, <2>1 DEF At
  <2>6. /\ task[w].memory.remaining \in Nat /\ m.remaining \in Nat
        /\ row.state.memory.remaining \in Nat
    BY <1>t, <1>u DEF Run, Memory
  <2>7. m.remaining < task[w].memory.remaining /\ task[w].memory.facts \subseteq m.facts
    BY <2>1 DEF RoundMoves
  <2>8. /\ calls' + m.remaining = Budget
        /\ m.remaining <= row.state.memory.remaining
        /\ calls' <= Budget
    BY <1>u, <2>1, <2>5, <2>6, <2>7, MemoryAssumption DEF WriterInv, Working
  <2>9. WriterInv(w)'
    BY <2>1, <2>2, <2>3, <2>5, <2>7, <2>8 DEF WriterInv, Working, InSync
  <2>10. RowInv'
    BY <1>i, <2>1, <2>5, <2>8
    DEF RowInv, CallsWithinBudget, EveryTurnAnswered, CompletedCaseIsWhole, WriterInv, Working
  <2> QED BY <1>b, <2>3, <2>4, <2>9, <2>10
<1>10. ASSUME NEW w \in Worker, RecordFact(w) PROVE CaseInv'
  <2>1. PICK f \in ToRecord(w) :
          /\ At(w, "recording")
          /\ \/ Become(w, [task[w] EXCEPT !.tried = @ \cup {f}, !.noted = @ \cup {f}])
             \/ Become(w, [task[w] EXCEPT !.tried = @ \cup {f}])
          /\ UNCHANGED <<row, calls>>
    BY <1>10 DEF RecordFact
  <2>2. PICK t : /\ task' = [task EXCEPT ![w] = t] /\ task'[w] = t
                 /\ t.pc = "recording" /\ t.copy = task[w].copy /\ t.memory = task[w].memory
                 /\ t.noted \subseteq task[w].noted \cup {f}
    <3>1. /\ [task[w] EXCEPT !.tried = @ \cup {f}, !.noted = @ \cup {f}].pc = task[w].pc
          /\ [task[w] EXCEPT !.tried = @ \cup {f}, !.noted = @ \cup {f}].copy = task[w].copy
          /\ [task[w] EXCEPT !.tried = @ \cup {f}, !.noted = @ \cup {f}].memory = task[w].memory
          /\ [task[w] EXCEPT !.tried = @ \cup {f}, !.noted = @ \cup {f}].noted
               = task[w].noted \cup {f}
      BY <1>i DEF TypeOK
    <3>2. /\ [task[w] EXCEPT !.tried = @ \cup {f}].pc = task[w].pc
          /\ [task[w] EXCEPT !.tried = @ \cup {f}].copy = task[w].copy
          /\ [task[w] EXCEPT !.tried = @ \cup {f}].memory = task[w].memory
          /\ [task[w] EXCEPT !.tried = @ \cup {f}].noted = task[w].noted
      BY <1>i DEF TypeOK
    <3>3. \A t : Become(w, t) => task' = [task EXCEPT ![w] = t] /\ task'[w] = t
      BY <1>i DEF Become, TypeOK
    <3>4. CASE Become(w, [task[w] EXCEPT !.tried = @ \cup {f}, !.noted = @ \cup {f}])
      BY <2>1, <3>1, <3>3, <3>4 DEF At
    <3>5. CASE Become(w, [task[w] EXCEPT !.tried = @ \cup {f}])
      BY <2>1, <3>2, <3>3, <3>5 DEF At
    <3> QED BY <2>1, <3>4, <3>5
  <2>3. f \in task[w].memory.facts
    BY <2>1 DEF ToRecord
  <2>4. WriterInv(w)'
    BY <1>i, <2>1, <2>2, <2>3 DEF WriterInv, Working, InSync, At
  <2>5. \A v \in Worker \ {w} : task[v].pc = "idle"
    BY <2>1, <1>a
  <2> QED BY <1>b, <1>i, <2>1, <2>2, <2>4, <2>5, RowUnchanged
<1>11. ASSUME NEW w \in Worker, CompleteRun(w) PROVE CaseInv'
  <2>1. Save(w, Completed(w), IdleTask, Goto(w, "failing")) /\ At(w, "recording")
    BY <1>11 DEF CompleteRun
  <2>2. \A v \in Worker \ {w} : task[v].pc = "idle"
    BY <2>1, <1>a
  <2>3. /\ row.status = "running" /\ InSync(w)
        /\ calls + task[w].memory.remaining = Budget
        /\ task[w].copy.recorded \cup task[w].noted \subseteq task[w].memory.facts
    BY <1>i, <2>1 DEF At, WriterInv, Working
  <2>4. /\ Completed(w).status = "completed"
        /\ Completed(w).follow_ups = row.follow_ups
        /\ Completed(w).results = Append(row.results, NewAnswer(w))
        /\ Completed(w).recorded = task[w].copy.recorded \cup task[w].noted
        /\ Completed(w).state = Snapshot(task[w].memory, FALSE)
    BY <1>t, <2>3 DEF Completed, Run, InSync
  <2>5. calls' = calls /\ row' \in {row, Completed(w)}
    BY <2>1, SaveOutcome
  <2>6. RowInv'
    <3>1. CASE row' = row
      BY <1>i, <2>5, <3>1, RowUnchanged
    <3>2. CASE row' = Completed(w)
      <4>1. CallsWithinBudget'
        BY <1>i, <2>3, <2>4, <2>5, <3>2 DEF RowInv, CallsWithinBudget, Snapshot
      <4>2. EveryTurnAnswered'
        <5>1. /\ row.results \in Seq(Answer) /\ row.follow_ups \in Nat
              /\ Len(row.results) = row.follow_ups
              /\ \A i \in DOMAIN row.results : row.results[i].turn = i - 1
          BY <1>i, <1>u, <2>3 DEF Run, RowInv, EveryTurnAnswered
        <5>2. NewAnswer(w).turn = row.follow_ups
          BY <2>3 DEF NewAnswer, InSync
        <5> DEFINE a == NewAnswer(w)
        <5>3. a \in Answer
          <6>1. task[w].copy.follow_ups \in 0..MaxFollowUps
            BY <1>t, CaseAssumption DEF CaseInv, LimitKept, Run
          <6> QED BY <6>1 DEF NewAnswer, Answer
        <5> HIDE DEF a
        <5>4. /\ row'.results = Append(row.results, a) /\ row'.follow_ups = row.follow_ups
              /\ row'.status = "completed"
          BY <2>4, <3>2 DEF a
        <5>5. Len(row'.results) = row'.follow_ups + 1
          BY <5>1, <5>3, <5>4
        <5>6. ASSUME NEW i \in DOMAIN row'.results PROVE row'.results[i].turn = i - 1
          BY <5>1, <5>2, <5>3, <5>4, <5>5 DEF a
        <5> QED BY <5>4, <5>5, <5>6 DEF EveryTurnAnswered
      <4>3. CompletedCaseIsWhole'
        BY <2>3, <2>4, <3>2 DEF CompletedCaseIsWhole, Snapshot
      <4> QED BY <2>4, <3>2, <4>1, <4>2, <4>3 DEF RowInv
    <3> QED BY <2>5, <3>1, <3>2
  <2>7. CASE task' = [task EXCEPT ![w] = IdleTask]
    <3>1. WriterInv(w)'
      BY <1>d, <1>i, <2>7 DEF WriterInv, Working, TypeOK
    <3> QED BY <1>b, <2>2, <2>6, <2>7, <3>1
  <2>8. CASE task' = [task EXCEPT ![w] = Goto(w, "failing")]
    <3>1. task'[w] = Goto(w, "failing")
      BY <1>i, <2>8 DEF TypeOK
    <3>2. WriterInv(w)'
      BY <1>i, <2>3, <2>4, <2>5, <3>1, GotoFields DEF WriterInv, Working, InSync
    <3> QED BY <1>b, <2>2, <2>6, <2>8, <3>2
  <2> QED BY <2>1, <2>7, <2>8, SaveOutcome
<1>12. ASSUME NEW w \in Worker, FailRun(w) PROVE CaseInv'
  <2> DEFINE run == [task[w].copy EXCEPT !.status = "failed", !.state = NoState]
  <2>1. Save(w, run, IdleTask, IdleTask) /\ At(w, "failing")
    BY <1>12 DEF FailRun
  <2>2. \A v \in Worker \ {w} : task[v].pc = "idle"
    BY <2>1, <1>a
  <2>3. row.status \in {"running", "completed"} /\ (row.status = "running" => InSync(w))
    BY <1>i, <2>1 DEF At, WriterInv, Working
  <2>4. /\ run.status = "failed" /\ run.follow_ups = task[w].copy.follow_ups
        /\ run.results = task[w].copy.results
    BY <1>t DEF Run
  <2> HIDE DEF run
  <2>5. row.status = "completed" => ~Accepts(row, run)
    BY <2>4 DEF Accepts, AllowedRunTransitions
  <2>6. RowInv'
    BY <1>i, <2>1, <2>3, <2>4, <2>5, SaveOutcome, RowUnchanged, ThreadUnchanged DEF InSync
  <2> QED BY <2>1, <2>2, <2>6, LastSave
<1>13. ASSUME NEW w \in Worker, ReadForCancel(w) PROVE CaseInv'
  <2> DEFINE t == [Goto(w, "saving_cancel") EXCEPT !.copy = row]
  <2>1. /\ At(w, "cancelling") /\ UNCHANGED <<row, calls>>
        /\ task' = [task EXCEPT ![w] = t] \/ task' = [task EXCEPT ![w] = IdleTask]
    BY <1>13 DEF ReadForCancel, Become
  <2>2. t.pc = "saving_cancel" /\ t.copy = row
    BY <1>i DEF Goto, TypeOK
  <2> HIDE DEF t
  <2>3. \A v \in Worker \ {w} : task[v].pc = "idle"
    BY <2>1, <1>a
  <2>4. row.status = "running"
    BY <1>i, <2>1 DEF At, WriterInv
  <2>5. WriterInv(w)'
    BY <1>d, <1>i, <2>1, <2>2, <2>4 DEF WriterInv, Working, TypeOK
  <2> QED BY <1>b, <1>i, <2>1, <2>3, <2>5, RowUnchanged
<1>14. ASSUME NEW w \in Worker, CancelRun(w) PROVE CaseInv'
  <2> DEFINE run == [task[w].copy EXCEPT !.status = "cancelled"]
  <2>1. Save(w, run, IdleTask, IdleTask) /\ At(w, "saving_cancel")
    BY <1>14 DEF CancelRun
  <2>2. \A v \in Worker \ {w} : task[v].pc = "idle"
    BY <2>1, <1>a
  <2>3. row.status = "running" /\ task[w].copy = row
    BY <1>i, <2>1 DEF At, WriterInv
  <2>4. /\ run.status = "cancelled" /\ run.follow_ups = row.follow_ups
        /\ run.results = row.results
    BY <1>u, <2>3 DEF Run
  <2> HIDE DEF run
  <2>5. RowInv'
    BY <1>i, <2>1, <2>3, <2>4, SaveOutcome, RowUnchanged, ThreadUnchanged
  <2> QED BY <2>1, <2>2, <2>5, LastSave
<1>15. ASSUME NEW p \in Process, Shutdown(p) \/ Restart(p) \/ Crash(p) PROVE CaseInv'
  <2>1. UNCHANGED <<row, calls>>
    BY <1>15 DEF Shutdown, Restart, Crash
  <2>2. \A w \in Worker : \/ task'[w] = task[w]
                          \/ task'[w] = IdleTask
                          \/ task[w].pc \in Awaiting /\ task'[w] = [task[w] EXCEPT !.pc = "cancelling"]
    BY <1>15, <1>i DEF Shutdown, Restart, Crash, Interrupted, TypeOK
  <2>3. \A w \in Worker : [task[w] EXCEPT !.pc = "cancelling"].pc = "cancelling"
                          /\ [task[w] EXCEPT !.pc = "cancelling"].copy = task[w].copy
    BY <1>i DEF TypeOK
  <2>4. ASSUME NEW w \in Worker PROVE WriterInv(w)'
    <3>1. CASE task'[w] = task[w]
      BY <1>i, <2>1, <3>1 DEF WriterInv, InSync
    <3>2. CASE task'[w] = IdleTask
      BY <1>d, <3>2 DEF WriterInv, Working
    <3>3. CASE task[w].pc \in Awaiting /\ task'[w] = [task[w] EXCEPT !.pc = "cancelling"]
      <4>1. /\ task'[w].pc = "cancelling" /\ task'[w].copy = task[w].copy
            /\ row.status = "running" /\ InSync(w)
        BY <1>i, <2>3, <3>3 DEF WriterInv, Working
      <4> QED BY <2>1, <4>1 DEF WriterInv, Working, InSync
    <3> QED BY <2>2, <3>1, <3>2, <3>3
  <2>5. OneWriter'
    BY <1>d, <1>i, <2>2 DEF OneWriter, Holds
  <2> QED BY <1>i, <2>1, <2>4, <2>5, RowUnchanged DEF CaseInv
<1>16. CASE UNCHANGED vars
  BY <1>16 DEF vars, CaseInv, TypeOK, LimitKept, OneWriter, Holds, WriterInv, InSync,
               RowInv, CallsWithinBudget, EveryTurnAnswered, CompletedCaseIsWhole
<1> QED
  BY <1>1, <1>2, <1>3, <1>4, <1>6, <1>8, <1>9, <1>10, <1>11, <1>12, <1>13, <1>14,
     <1>15, <1>16
  DEF Next, Progress

(* The inductive invariant of a case that one process serves, for any      *)
(* number of requests, any faults, budget, limits and facts.               *)
THEOREM CaseInvariant ==
  ASSUME OneProcess
  PROVE  Spec => []CaseInv
<1>1. Init => CaseInv
  <2>1. IdleTask.copy = Absent /\ IdleTask.pc = "idle"
    BY DEF IdleTask
  <2>2. Init => TypeOK /\ LimitKept
    BY <2>1, ValueTypes, CaseAssumption DEF Init, TypeOK, LimitKept, TaskState, Absent
  <2>3. Init => OneWriter /\ \A w \in Worker : WriterInv(w)
    BY <2>1 DEF Init, OneWriter, Holds, WriterInv, Working
  <2>4. Init => RowInv
    BY MemoryAssumption
    DEF Init, Absent, RowInv, CallsWithinBudget, EveryTurnAnswered, CompletedCaseIsWhole
  <2> QED BY <2>2, <2>3, <2>4 DEF CaseInv
<1>2. CaseInv /\ [Next]_vars => CaseInv'
  <2>1. CaseInv /\ [Next]_vars => TypeOK' /\ LimitKept'
    BY TypeStep, LimitStep DEF CaseInv
  <2> QED BY <2>1, CaseStep
<1> QED BY <1>1, <1>2, PTL DEF Spec

(* What a run served by one process shows its readers: one current writer  *)
(* at a time, every call paid from the case's budget, one answer for every *)
(* turn, and a whole case when it is completed.                            *)
THEOREM CaseIsSafe ==
  ASSUME OneProcess
  PROVE  Spec => [](OneCurrentWriter /\ CallsWithinBudget /\ EveryTurnAnswered
                    /\ CompletedCaseIsWhole)
<1>1. CaseInv => OneCurrentWriter
  <2> SUFFICES ASSUME CaseInv, NEW w \in Worker, Holds(w), row.status \in {"pending", "running"}
               PROVE  InSync(w)
    BY DEF OneCurrentWriter, CaseInv
  <2> QED BY DEF CaseInv, TypeOK, WriterInv, Working, InSync, Holds
<1>2. CaseInv => CallsWithinBudget /\ EveryTurnAnswered /\ CompletedCaseIsWhole
  BY DEF CaseInv, RowInv
<1> QED BY <1>1, <1>2, CaseInvariant, PTL

(* With one process the thread holds one answer for each turn that ended    *)
(* well, in order, also where a turn failed, was resumed or is in progress *)
(* (_complete_adaptive_run).                                               *)
THEOREM TurnsAreAnswered ==
  ASSUME OneProcess
  PROVE  Spec => []EveryTurnAnswered
BY CaseIsSafe, PTL

(* With one process a completed case shows no round that was planned and    *)
(* did not run, and knows all the facts that it reported as recurring.     *)
THEOREM CompletedCasesAreWhole ==
  ASSUME OneProcess
  PROVE  Spec => []CompletedCaseIsWhole
BY CaseIsSafe, PTL

-----------------------------------------------------------------------------
(* Every step of the case is a step of the ledger or does not concern it.  *)
LEMMA LedgerStep ==
  ASSUME CaseInv, [Next]_vars
  PROVE  [Ledger!Next]_(Ledger!ledger)
<1>i. /\ TypeOK /\ LimitKept /\ RowInv
      /\ \A w \in Worker : WriterInv(w)
  BY DEF CaseInv
<1>t. \A w \in Worker : task[w].copy \in Run /\ task[w].memory \in Memory
  BY DEF CaseInv, TypeOK
<1>u. row \in Run /\ row.state.memory.remaining \in Nat
  BY DEF CaseInv, TypeOK, Run, Memory
<1>s. ASSUME row' = row PROVE [Ledger!Next]_(Ledger!ledger)
  BY <1>s DEF Ledger!ledger
<1>1. ASSUME NEW w \in Worker, CreateRun(w) PROVE [Ledger!Next]_(Ledger!ledger)
  <2>1. row.status = "absent" /\ row' \in {row, PendingRun}
    BY <1>1, SaveOutcome DEF CreateRun
  <2>2. CASE row' = PendingRun
    <3>1. row = Absent
      BY <1>i, <2>1 DEF RowInv
    <3>2. /\ row'.status = "pending" /\ row'.results = row.results
          /\ row'.follow_ups = row.follow_ups /\ row'.state = row.state
      BY <2>2, <3>1 DEF PendingRun, Absent
    <3>3. Ledger!Open
      BY <2>1, <3>2 DEF Ledger!Open
    <3> QED BY <3>3 DEF Ledger!Next
  <2> QED BY <1>s, <2>1, <2>2
<1>2. ASSUME NEW w \in Worker, Reopen(w) PROVE [Ledger!Next]_(Ledger!ledger)
  <2> DEFINE reopened == [task[w].copy EXCEPT !.status = "running", !.follow_ups = @ + 1]
  <2>1. row.status = "completed" /\ task[w].copy = row
    BY <1>2, <1>i DEF Reopen, At, WriterInv
  <2>2. row' = row \/ (row' = reopened /\ Accepts(row, reopened))
    BY <1>2, SaveOutcome DEF Reopen
  <2>3. /\ reopened.status = "running" /\ reopened.follow_ups = row.follow_ups + 1
        /\ reopened.results = row.results /\ reopened.state = row.state
    BY <1>u, <2>1 DEF Run
  <2> HIDE DEF reopened
  <2>4. CASE row' = reopened /\ Accepts(row, reopened)
    <3>1. row.follow_ups < MaxFollowUps
      BY <2>1, <2>3, <2>4 DEF Accepts, ReopenIsValid
    <3>2. Ledger!Reopen
      BY <2>1, <2>3, <2>4, <3>1 DEF Ledger!Reopen
    <3> QED BY <3>2 DEF Ledger!Next
  <2> QED BY <1>s, <2>2, <2>4
<1>3. ASSUME row.status \in {"pending", "running"}, row'.status = "running",
             row'.results = row.results, row'.follow_ups = row.follow_ups,
             row'.state.memory.remaining \in 0..row.state.memory.remaining
      PROVE  [Ledger!Next]_(Ledger!ledger)
  BY <1>3 DEF Ledger!Work, Ledger!Next
<1>4. ASSUME NEW w \in Worker, Begin(w) PROVE [Ledger!Next]_(Ledger!ledger)
  <2> DEFINE state == StateToResume(task[w].copy)
             running == [task[w].copy EXCEPT !.status = "running", !.state = state]
  <2>1. row.status \in {"pending", "running"} /\ task[w].copy = row
    BY <1>4, <1>i DEF Begin, At, WriterInv
  <2>2. row' \in {row, running}
    BY <1>4, SaveOutcome DEF Begin
  <2>3. /\ running.status = "running" /\ running.follow_ups = row.follow_ups
        /\ running.results = row.results /\ running.state = state
    BY <1>u, <2>1 DEF Run
  <2>4. state.memory = row.state.memory
    <3>1. CASE row.status = "pending"
      <4>1. row = PendingRun
        BY <1>i, <3>1 DEF RowInv
      <4> QED BY <2>1, <3>1, <4>1
              DEF StateToResume, PendingRun, Absent, NoState, Snapshot
    <3>2. CASE row.status = "running"
      BY <2>1, <3>2 DEF StateToResume
    <3> QED BY <2>1, <3>1, <3>2
  <2> HIDE DEF running, state
  <2> QED BY <1>3, <1>s, <1>u, <2>1, <2>2, <2>3, <2>4
<1>5. ASSUME NEW w \in Worker, NEW from \in Working, At(w, from), NEW planned \in BOOLEAN,
             NEW next, SaveRound(w, planned, next)
      PROVE  [Ledger!Next]_(Ledger!ledger)
  <2> DEFINE run == [task[w].copy EXCEPT !.state = Snapshot(task[w].memory, planned)]
  <2>1. row' \in {row, run}
    BY <1>5, SaveOutcome DEF SaveRound
  <2>2. /\ row.status = "running" /\ task[w].copy.status = "running" /\ InSync(w)
        /\ task[w].memory.remaining <= row.state.memory.remaining
    BY <1>5, <1>i DEF At, WriterInv
  <2>3. /\ run.status = "running" /\ run.follow_ups = row.follow_ups
        /\ run.results = row.results /\ run.state.memory = task[w].memory
    BY <1>t, <2>2 DEF Run, Snapshot, InSync
  <2>4. task[w].memory.remaining \in Nat
    BY <1>t DEF Memory
  <2> HIDE DEF run
  <2> QED BY <1>3, <1>s, <1>u, <2>1, <2>2, <2>3, <2>4
<1>6. ASSUME NEW w \in Worker, PlanRound(w) \/ CompleteRound(w)
      PROVE  [Ledger!Next]_(Ledger!ledger)
  BY <1>5, <1>6 DEF PlanRound, CompleteRound, Working
<1>7. ASSUME NEW w \in Worker, CompleteRun(w) PROVE [Ledger!Next]_(Ledger!ledger)
  <2>1. row' \in {row, Completed(w)}
    BY <1>7, SaveOutcome DEF CompleteRun
  <2>2. /\ row.status = "running" /\ InSync(w)
        /\ task[w].memory.remaining <= row.state.memory.remaining
    BY <1>7, <1>i DEF CompleteRun, At, WriterInv, Working
  <2>3. /\ Completed(w).status = "completed"
        /\ Completed(w).follow_ups = row.follow_ups
        /\ Completed(w).results = Append(row.results, NewAnswer(w))
        /\ Completed(w).state.memory = task[w].memory
    BY <1>t, <2>2 DEF Completed, Run, InSync, Snapshot
  <2>4. NewAnswer(w) \in Answer
    <3>1. task[w].copy.follow_ups \in 0..MaxFollowUps
      BY <1>i, <1>t, CaseAssumption DEF LimitKept, Run
    <3> QED BY <3>1 DEF NewAnswer, Answer
  <2>5. task[w].memory.remaining \in Nat
    BY <1>t DEF Memory
  <2>6. CASE row' = Completed(w)
    <3>1. Ledger!Conclude
      BY <1>u, <2>2, <2>3, <2>4, <2>5, <2>6 DEF Ledger!Conclude
    <3> QED BY <3>1 DEF Ledger!Next
  <2> QED BY <1>s, <2>1, <2>6
<1>8. ASSUME NEW w \in Worker, FailRun(w) PROVE [Ledger!Next]_(Ledger!ledger)
  <2> DEFINE run == [task[w].copy EXCEPT !.status = "failed", !.state = NoState]
  <2>1. row' = row \/ (row' = run /\ Accepts(row, run))
    BY <1>8, SaveOutcome DEF FailRun
  <2>2. row.status \in {"running", "completed"} /\ (row.status = "running" => InSync(w))
    BY <1>8, <1>i DEF FailRun, At, WriterInv, Working
  <2>3. /\ run.status = "failed" /\ run.follow_ups = task[w].copy.follow_ups
        /\ run.results = task[w].copy.results
    BY <1>t DEF Run
  <2> HIDE DEF run
  <2>4. CASE row' = run /\ Accepts(row, run)
    <3>1. row.status = "running"
      BY <2>2, <2>3, <2>4 DEF Accepts, AllowedRunTransitions
    <3>2. Ledger!Abandon
      BY <1>u, <2>2, <2>3, <2>4, <3>1 DEF Ledger!Abandon, InSync
    <3> QED BY <3>2 DEF Ledger!Next
  <2> QED BY <1>s, <2>1, <2>4
<1>9. ASSUME NEW w \in Worker, CancelRun(w) PROVE [Ledger!Next]_(Ledger!ledger)
  <2> DEFINE run == [task[w].copy EXCEPT !.status = "cancelled"]
  <2>1. row' \in {row, run}
    BY <1>9, SaveOutcome DEF CancelRun
  <2>2. row.status = "running" /\ task[w].copy = row
    BY <1>9, <1>i DEF CancelRun, At, WriterInv
  <2>3. /\ run.status = "cancelled" /\ run.follow_ups = row.follow_ups
        /\ run.results = row.results /\ run.state = row.state
    BY <1>u, <2>2 DEF Run
  <2> HIDE DEF run
  <2>4. CASE row' = run
    <3>1. Ledger!Abandon
      BY <1>u, <2>2, <2>3, <2>4 DEF Ledger!Abandon
    <3> QED BY <3>1 DEF Ledger!Next
  <2> QED BY <1>s, <2>1, <2>4
<1>10. ASSUME NEW w \in Worker,
              ReadForFollowUp(w) \/ StopPlanning(w) \/ CallTools(w) \/ Hypothesize(w)
                \/ Diagnose(w) \/ RaiseUnexpected(w) \/ RecordFact(w) \/ ReadForCancel(w)
       PROVE  row' = row
  BY <1>10 DEF ReadForFollowUp, StopPlanning, CallTools, Hypothesize, Diagnose,
               RaiseUnexpected, RecordFact, ReadForCancel
<1>11. ASSUME NEW p \in Process, Shutdown(p) \/ Restart(p) \/ Crash(p)
       PROVE  row' = row
  BY <1>11 DEF Shutdown, Restart, Crash
<1> QED
  BY <1>1, <1>2, <1>4, <1>6, <1>7, <1>8, <1>9, <1>10, <1>11, <1>s DEF Next, Progress, vars

(* A case that one process serves is the ledger of ADR-033, for any number *)
(* of requests and whatever faults: opened once, reopened within its limit, *)
(* answered by appending, its budget only drawn down, final once abandoned. *)
THEOREM CaseImplementsLedger ==
  ASSUME OneProcess
  PROVE  Spec => CaseIsALedger
<1>1. Init => Ledger!Init
  BY DEF Init, Ledger!Init, Absent, NoState, EmptyMemory
<1>2. CaseInv /\ [Next]_vars => [Ledger!Next]_(Ledger!ledger)
  BY LedgerStep
<1> QED BY <1>1, <1>2, CaseInvariant, PTL DEF Spec, CaseIsALedger, Ledger!Spec

(* With one process no answer is ever removed or replaced.  (With several, *)
(* TLC finds a behaviour that loses one.)                                  *)
THEOREM AnswersAreKept ==
  ASSUME OneProcess
  PROVE  Spec => ResultsAppendOnly
<1> DEFINE Kept == /\ Len(row.results) <= Len(row'.results)
                   /\ \A i \in DOMAIN row.results : row'.results[i] = row.results[i]
<1>1. ASSUME CaseInv, [Next]_vars PROVE Kept
  <2>1. row.results \in Seq(Answer)
    BY <1>1 DEF CaseInv, TypeOK, Run
  <2>2. row'.results = row.results \/ \E a \in Answer : row'.results = Append(row.results, a)
    BY <1>1, LedgerStep
    DEF Ledger!Next, Ledger!ledger, Ledger!Open, Ledger!Work, Ledger!Conclude,
        Ledger!Abandon, Ledger!Reopen
  <2>3. ASSUME NEW a \in Answer, row'.results = Append(row.results, a) PROVE Kept
    BY <2>1, <2>3
  <2>4. CASE row'.results = row.results
    BY <2>1, <2>4
  <2> QED BY <2>2, <2>3, <2>4
<1>2. CaseInv /\ [Next]_vars => [Kept]_vars
  BY <1>1
<1> QED BY <1>2, CaseInvariant, PTL DEF Spec, ResultsAppendOnly

-----------------------------------------------------------------------------
(* What was counted, and which worker knows of it.                         *)
Counted == {f \in Fact : counted[f] = 1}

CountInv ==
  /\ \A f \in Fact : counted[f] \in {0, 1}
  /\ row.status \in {"absent", "pending"} => Counted = {}
  /\ row.status = "completed" => row.recorded = Counted
  /\ \A w \in Worker :
       /\ task[w].pc = "scheduled" => row.recorded = Counted
       /\ task[w].pc \in Working =>
            /\ task[w].copy.recorded \cup task[w].noted = Counted
            /\ task[w].noted \subseteq task[w].tried

(* A step that counts nothing keeps the counts if what it leaves in the row *)
(* and in its own task agrees with them.                                   *)
LEMMA CountUpdate ==
  ASSUME CaseInv, CountInv, NEW w \in Worker, NEW t,
         \A v \in Worker \ {w} : task[v].pc = "idle",
         task' = [task EXCEPT ![w] = t], counted' = counted,
         row'.status \in {"absent", "pending"} => row.status \in {"absent", "pending"},
         row'.status = "completed" => row'.recorded = Counted,
         t.pc = "scheduled" => row'.recorded = Counted,
         t.pc \in Working => /\ t.copy.recorded \cup t.noted = Counted
                             /\ t.noted \subseteq t.tried
  PROVE  CountInv'
<1>1. Counted' = Counted
  BY DEF Counted
<1>2. \A v \in Worker : task'[v] = IF v = w THEN t ELSE task[v]
  BY DEF CaseInv, TypeOK
<1>3. "idle" \notin Working /\ "idle" # "scheduled"
  BY DEF Working
<1> QED BY <1>1, <1>2, <1>3 DEF CountInv

(* Without ambiguous counter commits every step keeps the counts.          *)
LEMMA CountStep ==
  ASSUME OneProcess, "count_landed" \notin Faults, CaseInv, CountInv, [Next]_vars
  PROVE  CountInv'
<1>i. /\ TypeOK /\ RowInv
      /\ \A w \in Worker : WriterInv(w)
  BY DEF CaseInv
<1>t. \A w \in Worker : task[w].copy \in Run /\ task[w].memory \in Memory
  BY DEF CaseInv, TypeOK
<1>u. row \in Run
  BY DEF CaseInv, TypeOK
<1>d. IdleTask.pc = "idle" /\ "idle" \notin Working /\ "scheduled" \notin Working
  BY DEF IdleTask, Working
<1>a. ASSUME NEW w \in Worker, NEW where, At(w, where), where # "idle"
      PROVE  \A v \in Worker \ {w} : task[v].pc = "idle"
  BY <1>a, ActsAlone DEF At, Holds
<1>g. ASSUME NEW w \in Worker, NEW where
      PROVE  /\ Goto(w, where).pc = where /\ Goto(w, where).copy = task[w].copy
             /\ Goto(w, where).noted = task[w].noted /\ Goto(w, where).tried = task[w].tried
  BY <1>i DEF Goto, TypeOK
<1>1. ASSUME NEW w \in Worker, CreateRun(w) PROVE CountInv'
  <2> DEFINE saved == [IdleTask EXCEPT !.pc = "scheduled", !.copy = PendingRun]
  <2>1. row.status = "absent" /\ Save(w, PendingRun, saved, IdleTask)
    BY <1>1 DEF CreateRun
  <2>2. \A v \in Worker \ {w} : task[v].pc = "idle"
    BY <1>1, ActsAlone DEF CreateRun, Serving, At
  <2>3. /\ saved.pc = "scheduled"
        /\ PendingRun.status = "pending" /\ PendingRun.recorded = {}
    BY DEF IdleTask, PendingRun, Absent
  <2>4. Counted = {}
    BY <2>1 DEF CountInv
  <2> HIDE DEF saved
  <2> QED BY <1>d, <2>1, <2>2, <2>3, <2>4, SaveOutcome, CountUpdate
<1>2. ASSUME NEW w \in Worker, ReadForFollowUp(w) PROVE CountInv'
  <2> DEFINE t == [IdleTask EXCEPT !.pc = "reopening", !.copy = row]
  <2>1. \A v \in Worker \ {w} : task[v].pc = "idle"
    BY <1>2, ActsAlone DEF ReadForFollowUp, Serving, At
  <2>2. t.pc = "reopening"
    BY DEF IdleTask
  <2>3. task' = [task EXCEPT ![w] = t] /\ UNCHANGED <<row, counted>>
    BY <1>2 DEF ReadForFollowUp, Become
  <2> HIDE DEF t
  <2> QED BY <2>1, <2>2, <2>3, CountUpdate DEF CountInv, Working
<1>3. ASSUME NEW w \in Worker, Reopen(w) PROVE CountInv'
  <2> DEFINE reopened == [task[w].copy EXCEPT !.status = "running", !.follow_ups = @ + 1]
             saved == [IdleTask EXCEPT !.pc = "scheduled", !.copy = reopened]
  <2>1. Save(w, reopened, saved, IdleTask)
    BY <1>3 DEF Reopen
  <2>2. \A v \in Worker \ {w} : task[v].pc = "idle"
    BY <1>3, <1>a DEF Reopen
  <2>3. row.status = "completed" /\ task[w].copy = row
    BY <1>3, <1>i DEF Reopen, At, WriterInv
  <2>4. /\ reopened.status = "running" /\ reopened.recorded = row.recorded
        /\ row.recorded = Counted
    BY <1>u, <2>3 DEF Run, CountInv
  <2>5. saved.pc = "scheduled"
    BY DEF IdleTask
  <2> HIDE DEF reopened, saved
  <2> QED BY <1>d, <2>1, <2>2, <2>3, <2>4, <2>5, SaveOutcome, CountUpdate
<1>4. ASSUME NEW w \in Worker, Begin(w) PROVE CountInv'
  <2> DEFINE state == StateToResume(task[w].copy)
             running == [task[w].copy EXCEPT !.status = "running", !.state = state]
             saved == [IdleTask EXCEPT !.pc = NextRound(state.memory), !.copy = running,
                                       !.memory = state.memory]
  <2>1. Save(w, running, saved, IdleTask)
    BY <1>4 DEF Begin
  <2>2. \A v \in Worker \ {w} : task[v].pc = "idle"
    BY <1>4, <1>a DEF Begin
  <2>3. /\ row.status \in {"pending", "running"} /\ task[w].copy = row
        /\ row.recorded = Counted
    BY <1>4, <1>i DEF Begin, At, WriterInv, CountInv
  <2>4. running.status = "running" /\ running.recorded = row.recorded
    BY <1>u, <2>3 DEF Run
  <2>5. state.memory \in Memory
    BY <1>u, <2>3, ValueTypes DEF StateToResume, Run, Snapshot
  <2>6. /\ saved.pc \in Working /\ saved.copy = running
        /\ saved.noted = {} /\ saved.tried = {}
    BY <2>5, Places DEF IdleTask
  <2> HIDE DEF running, saved, state
  <2> QED BY <1>d, <2>1, <2>2, <2>3, <2>4, <2>6, SaveOutcome, CountUpdate
<1>5. ASSUME NEW w \in Worker, NEW from \in Working, At(w, from), NEW where,
             where # "scheduled", Become(w, Goto(w, where)), UNCHANGED <<row, counted>>
      PROVE  CountInv'
  <2>1. \A v \in Worker \ {w} : task[v].pc = "idle"
    BY <1>5, <1>a DEF Working
  <2> DEFINE t == Goto(w, where)
  <2>2. task' = [task EXCEPT ![w] = t]
    BY <1>5 DEF Become
  <2>3. /\ t.pc # "scheduled" /\ t.copy = task[w].copy
        /\ t.noted = task[w].noted /\ t.tried = task[w].tried
    BY <1>5, <1>g
  <2>4. /\ task[w].copy.recorded \cup task[w].noted = Counted
        /\ task[w].noted \subseteq task[w].tried
    BY <1>5 DEF At, CountInv
  <2>5. row.status = "completed" => row.recorded = Counted
    BY DEF CountInv
  <2> HIDE DEF t
  <2> QED BY <1>5, <2>1, <2>2, <2>3, <2>4, <2>5, CountUpdate
<1>6. ASSUME NEW w \in Worker, StopPlanning(w) \/ Hypothesize(w) \/ Diagnose(w)
                                 \/ RaiseUnexpected(w)
      PROVE  CountInv'
  <2>1. Concluding(task[w].memory) # "scheduled"
    BY DEF Concluding
  <2> QED BY <1>5, <1>6, <2>1
          DEF StopPlanning, Hypothesize, Diagnose, RaiseUnexpected, Working
<1>7. ASSUME NEW w \in Worker, NEW from \in Working, At(w, from), NEW planned \in BOOLEAN,
             NEW next \in Working, SaveRound(w, planned, next)
      PROVE  CountInv'
  <2> DEFINE run == [task[w].copy EXCEPT !.state = Snapshot(task[w].memory, planned)]
  <2>1. Save(w, run, Goto(w, next), Goto(w, "failing"))
    BY <1>7 DEF SaveRound
  <2>2. \A v \in Worker \ {w} : task[v].pc = "idle"
    BY <1>7, <1>a DEF Working
  <2>3. /\ row.status = "running" /\ task[w].copy.status = "running"
        /\ task[w].copy.recorded \cup task[w].noted = Counted
        /\ task[w].noted \subseteq task[w].tried
    BY <1>7, <1>i DEF At, WriterInv, CountInv
  <2>4. run.status = "running"
    BY <1>t, <2>3 DEF Run
  <2> HIDE DEF run
  <2> QED BY <1>d, <1>g, <2>1, <2>2, <2>3, <2>4, SaveOutcome, CountUpdate
<1>8. ASSUME NEW w \in Worker, PlanRound(w) \/ CompleteRound(w) PROVE CountInv'
  <2>1. /\ NextRound(task[w].memory) \in Working
        /\ Concluding(task[w].memory) \in Working
    BY <1>t, Places
  <2> QED BY <1>7, <1>8, <2>1 DEF PlanRound, CompleteRound, Working
<1>9. ASSUME NEW w \in Worker, CallTools(w) PROVE CountInv'
  <2>1. PICK m \in Memory, next \in {"executed", "stalled"} :
          /\ Become(w, [Goto(w, next) EXCEPT !.memory = m])
          /\ UNCHANGED <<row, counted>>
          /\ At(w, "executing")
    BY <1>9 DEF CallTools
  <2> DEFINE t == [Goto(w, next) EXCEPT !.memory = m]
  <2>2. /\ t.pc = next /\ t.copy = task[w].copy
        /\ t.noted = task[w].noted /\ t.tried = task[w].tried
    BY <1>i DEF Goto, TypeOK
  <2>3. task' = [task EXCEPT ![w] = t]
    BY <2>1 DEF Become
  <2>4. task[w].pc \in Working
    BY <2>1 DEF At, Working
  <2> HIDE DEF t
  <2> QED BY <1>a, <2>1, <2>2, <2>3, <2>4, CountUpdate DEF CountInv
<1>10. ASSUME NEW w \in Worker, RecordFact(w) PROVE CountInv'
  <2>1. PICK f \in ToRecord(w) :
          /\ At(w, "recording")
          /\ row' = row
          /\ \/ /\ Become(w, [task[w] EXCEPT !.tried = @ \cup {f}, !.noted = @ \cup {f}])
                /\ Increment(f)
             \/ /\ Become(w, [task[w] EXCEPT !.tried = @ \cup {f}])
                /\ UNCHANGED counted
    BY <1>10 DEF RecordFact
  <2>2. \A v \in Worker \ {w} : task[v].pc = "idle"
    BY <2>1, <1>a
  <2>3. /\ task[w].pc = "recording" /\ task[w].pc \in Working /\ row.status = "running"
        /\ task[w].copy.recorded \cup task[w].noted = Counted
        /\ task[w].noted \subseteq task[w].tried
    BY <1>i, <2>1 DEF At, Working, WriterInv, CountInv
  <2>4. f \in Fact /\ f \notin task[w].copy.recorded /\ f \notin task[w].noted
    BY <1>t, <2>1, <2>3 DEF ToRecord, Memory
  <2>5. CASE Become(w, [task[w] EXCEPT !.tried = @ \cup {f}]) /\ UNCHANGED counted
    <3> DEFINE t == [task[w] EXCEPT !.tried = @ \cup {f}]
    <3>1. /\ t.pc = "recording" /\ t.copy = task[w].copy
          /\ t.noted = task[w].noted /\ t.tried = task[w].tried \cup {f}
      BY <1>i, <2>3 DEF TypeOK
    <3>2. task' = [task EXCEPT ![w] = t]
      BY <2>5 DEF Become
    <3> HIDE DEF t
    <3> QED BY <2>1, <2>2, <2>3, <2>5, <3>1, <3>2, CountUpdate
  <2>6. CASE /\ Become(w, [task[w] EXCEPT !.tried = @ \cup {f}, !.noted = @ \cup {f}])
             /\ Increment(f)
    <3> DEFINE t == [task[w] EXCEPT !.tried = @ \cup {f}, !.noted = @ \cup {f}]
    <3>1. /\ t.pc = "recording" /\ t.copy = task[w].copy
          /\ t.noted = task[w].noted \cup {f} /\ t.tried = task[w].tried \cup {f}
      BY <1>i, <2>3 DEF TypeOK
    <3>2. task' = [task EXCEPT ![w] = t]
      BY <2>6 DEF Become
    <3> HIDE DEF t
    <3>3. \A v \in Worker : task'[v] = IF v = w THEN t ELSE task[v]
      BY <1>i, <3>2 DEF TypeOK
    <3>4. counted[f] = 0
      BY <2>3, <2>4 DEF Counted, CountInv
    <3>5. \A g \in Fact : counted'[g] = IF g = f THEN 1 ELSE counted[g]
      BY <1>i, <2>6, <3>4 DEF Increment, TypeOK
    <3>6. Counted' = Counted \cup {f}
      BY <2>4, <3>5 DEF Counted
    <3>7. \A g \in Fact : counted'[g] \in {0, 1}
      BY <3>5 DEF CountInv
    <3> QED BY <1>d, <2>1, <2>2, <2>3, <3>1, <3>3, <3>6, <3>7 DEF CountInv
  <2> QED BY <2>1, <2>5, <2>6
<1>11. ASSUME NEW w \in Worker, CompleteRun(w) PROVE CountInv'
  <2>1. Save(w, Completed(w), IdleTask, Goto(w, "failing")) /\ At(w, "recording")
    BY <1>11 DEF CompleteRun
  <2>2. \A v \in Worker \ {w} : task[v].pc = "idle"
    BY <2>1, <1>a
  <2>3. /\ row.status = "running"
        /\ task[w].copy.recorded \cup task[w].noted = Counted
    BY <1>i, <2>1 DEF At, WriterInv, Working, CountInv
  <2>4. /\ Completed(w).status = "completed"
        /\ Completed(w).recorded = task[w].copy.recorded \cup task[w].noted
    BY <1>t DEF Completed, Run
  <2>5. /\ counted' = counted
        /\ row' \in {row, Completed(w)}
        /\ row'.status = "completed" => row'.recorded = Counted
    BY <2>1, <2>3, <2>4, SaveOutcome
  <2>6. row'.status \notin {"absent", "pending"}
    BY <2>3, <2>4, <2>5
  <2>7. Goto(w, "failing").pc = "failing" /\ "failing" \notin Working
    BY <1>g DEF Working
  <2>8. CASE task' = [task EXCEPT ![w] = IdleTask]
    BY <1>d, <2>2, <2>5, <2>6, <2>8, CountUpdate
  <2>9. CASE task' = [task EXCEPT ![w] = Goto(w, "failing")]
    BY <2>2, <2>5, <2>6, <2>7, <2>9, CountUpdate
  <2> QED BY <2>1, <2>8, <2>9, SaveOutcome
<1>12. ASSUME NEW w \in Worker, FailRun(w) \/ CancelRun(w) PROVE CountInv'
  <2>1. PICK run : /\ Save(w, run, IdleTask, IdleTask)
                   /\ run.status \in {"failed", "cancelled"}
    <3>1. /\ [task[w].copy EXCEPT !.status = "failed", !.state = NoState].status = "failed"
          /\ [task[w].copy EXCEPT !.status = "cancelled"].status = "cancelled"
      BY <1>t DEF Run
    <3>2. CASE FailRun(w)
      BY <3>1, <3>2 DEF FailRun
    <3>3. CASE CancelRun(w)
      BY <3>1, <3>3 DEF CancelRun
    <3> QED BY <1>12, <3>2, <3>3
  <2>2. \A v \in Worker \ {w} : task[v].pc = "idle"
    BY <1>12, <1>a DEF FailRun, CancelRun
  <2> QED BY <1>d, <2>1, <2>2, SaveOutcome, CountUpdate DEF CountInv
<1>13. ASSUME NEW w \in Worker, ReadForCancel(w) PROVE CountInv'
  <2> DEFINE t == [Goto(w, "saving_cancel") EXCEPT !.copy = row]
  <2>1. /\ At(w, "cancelling") /\ UNCHANGED <<row, counted>>
        /\ task' = [task EXCEPT ![w] = t] \/ task' = [task EXCEPT ![w] = IdleTask]
    BY <1>13 DEF ReadForCancel, Become
  <2>2. t.pc = "saving_cancel"
    BY <1>i DEF Goto, TypeOK
  <2> HIDE DEF t
  <2>3. \A v \in Worker \ {w} : task[v].pc = "idle"
    BY <2>1, <1>a
  <2> QED BY <1>d, <2>1, <2>2, <2>3, CountUpdate DEF CountInv, Working
<1>14. ASSUME NEW p \in Process, Shutdown(p) \/ Restart(p) \/ Crash(p) PROVE CountInv'
  <2>1. UNCHANGED <<row, counted>> /\ Counted' = Counted
    BY <1>14 DEF Shutdown, Restart, Crash, Counted
  <2>2. \A w \in Worker : task'[w] = task[w] \/ task'[w].pc \in {"idle", "cancelling"}
    BY <1>14, <1>d, <1>i DEF Shutdown, Restart, Crash, Interrupted, TypeOK
  <2> QED BY <2>1, <2>2 DEF CountInv, Working
<1>15. CASE UNCHANGED vars
  BY <1>15 DEF vars, CountInv, Counted
<1> QED
  BY <1>1, <1>2, <1>3, <1>4, <1>6, <1>8, <1>9, <1>10, <1>11, <1>12, <1>13, <1>14, <1>15
  DEF Next, Progress

(* If no counter commit is reported as failed after it took effect, a case *)
(* counts each of its facts at most once in its life, and a completed run  *)
(* records exactly the counted ones.                                       *)
THEOREM FactsAreCountedOnce ==
  ASSUME OneProcess, "count_landed" \notin Faults
  PROVE  Spec => []CountedOncePerCase
<1>1. Init => CountInv
  BY DEF Init, CountInv, Counted, Absent, IdleTask, Working
<1>2. CaseInv /\ CountInv /\ [Next]_vars => CountInv'
  BY CountStep
<1>3. CountInv => CountedOncePerCase
  BY DEF CountInv, Counted, CountedOncePerCase
<1> QED BY <1>1, <1>2, <1>3, CaseInvariant, PTL DEF Spec

=============================================================================
