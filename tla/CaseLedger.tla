----------------------------- MODULE CaseLedger ----------------------------
(***************************************************************************)
(* What an investigation case promises its reader (ADR-033, Invariants):   *)
(* it is opened once, worked on, and ends answered or abandoned; an        *)
(* answered case may be reopened a bounded number of times; answers are    *)
(* only ever appended; the tool-call budget is only ever drawn down; an    *)
(* abandoned case never changes again.                                     *)
(***************************************************************************)
EXTENDS Naturals, Sequences

CONSTANTS
  Answer,          \* what may be appended to the thread
  Budget,          \* calls granted to the case
  MaxFollowUps     \* times it may be reopened

VARIABLES status, answers, follow_ups, left

ledger == <<status, answers, follow_ups, left>>

Init ==
  /\ status = "absent"
  /\ answers = <<>>
  /\ follow_ups = 0
  /\ left = Budget

Open ==
  /\ status = "absent"
  /\ status' = "pending"
  /\ UNCHANGED <<answers, follow_ups, left>>

(* Work starts, or a round has been paid for.                              *)
Work ==
  /\ status \in {"pending", "running"}
  /\ status' = "running"
  /\ left' \in 0..left
  /\ UNCHANGED <<answers, follow_ups>>

Conclude ==
  /\ status = "running"
  /\ status' = "completed"
  /\ \E a \in Answer : answers' = Append(answers, a)
  /\ left' \in 0..left
  /\ UNCHANGED follow_ups

Abandon ==
  /\ status = "running"
  /\ status' \in {"failed", "cancelled"}
  /\ left' \in 0..left
  /\ UNCHANGED <<answers, follow_ups>>

Reopen ==
  /\ status = "completed"
  /\ follow_ups < MaxFollowUps
  /\ status' = "running"
  /\ follow_ups' = follow_ups + 1
  /\ UNCHANGED <<answers, left>>

Next == Open \/ Work \/ Conclude \/ Abandon \/ Reopen

Spec == Init /\ [][Next]_ledger
=============================================================================
