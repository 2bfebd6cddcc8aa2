------------------------------ MODULE RunContracts ------------------------------
(***************************************************************************)
(* What the API may answer about a run (the validators of runtime/models.py *)
(* and investigation_models.py and of the response models) and what the     *)
(* browser takes for well formed (responseValidation.ts).  The two were     *)
(* written apart, in two languages.  A field's content is whether it is     *)
(* there, except the numbers, whose ranges the two sides both state.        *)
(***************************************************************************)
EXTENDS Integers

CONSTANT None

Terminal == {"completed", "failed", "cancelled"}
Statuses == Terminal \cup {"pending", "running"}
Providers == {"fake", "gemini", "groq", "openai", "openrouter"}

OrNone(set) == set \cup {None}
AtLeast(n, x) == x # None => x >= n

-----------------------------------------------------------------------------
(* The API's side.                                                         *)

StepAdmitted(s) ==
  /\ AtLeast(0, s.duration) /\ s.attempt > 0
  /\ s.status = "pending" => ~s.started /\ ~s.ended /\ s.duration = None
  /\ s.status = "running" => s.started /\ ~s.ended /\ s.duration = None
  /\ s.status \in Terminal => s.started /\ s.ended /\ s.duration # None
  /\ s.error <=> s.status = "failed"

MergeRunAdmitted(v) ==
  /\ v.step # None => StepAdmitted(v.step)
  /\ v.started <=> v.status # "pending"
  /\ v.ended <=> v.status \in Terminal
  /\ v.status \in {"pending", "running", "completed"} => ~v.error
  /\ v.status = "failed" => v.error
  /\ v.results = IF v.status = "completed" THEN 1 ELSE 0

MergeResponseAdmitted(v) ==
  /\ MergeRunAdmitted(v)
  /\ v.explanation # "differs"
  /\ v.status # "completed" => v.explanation = None /\ ~v.unexplained
  /\ v.status = "completed" => (v.explanation = None <=> v.unexplained)

\* ExecutionState, its rounds and steps, the findings and the token counts.
StateAdmitted(s) ==
  s.round >= 1 /\ s.attempts >= 0 /\ s.calls >= 0 /\ s.rejected >= 0
  /\ AtLeast(1, s.line) /\ AtLeast(0, s.tokens)

InvestigationAdmitted(v) ==
  /\ v.state # None => StateAdmitted(v.state)
  /\ v.started <=> v.status # "pending"
  /\ v.ended <=> v.status \in Terminal
  /\ v.status = "pending" => v.state = None /\ v.results = 0
  /\ v.status \in {"pending", "running", "completed"} => ~v.error
  /\ v.status = "completed" => v.state # None /\ v.results > 0

-----------------------------------------------------------------------------
(* The browser's side.                                                     *)

StepAccepted(s) ==
  s.status \in Statuses /\ AtLeast(0, s.duration) /\ s.attempt > 0

SourcesAccepted(provider) == provider \in OrNone(Providers \ {"openrouter"})

CompletedState(v) == v.status = "completed" /\ ~v.error /\ v.results = 1
Bare(v) == v.results = 0 /\ v.explanation = None /\ ~v.unexplained
FailedState(v) == v.status = "failed" /\ v.error /\ Bare(v)
ActiveState(v) == v.status \in {"pending", "running"} /\ ~v.error /\ Bare(v)
CancelledState(v) == v.status = "cancelled" /\ Bare(v)

MergeAccepted(v) ==
  /\ CompletedState(v) \/ FailedState(v) \/ ActiveState(v) \/ CancelledState(v)
  /\ v.step # None => StepAccepted(v.step)
  /\ v.status = "completed" => ((v.explanation # None) # v.unexplained)
  /\ SourcesAccepted(v.provider)
  /\ v.explanation # "differs"

RoundAccepted(s) == s.attempts >= 0 /\ s.round > 0
FindingAccepted(s) == AtLeast(1, s.line)
MetadataAccepted(s) == AtLeast(0, s.tokens)
StateAccepted(s) ==
  RoundAccepted(s) /\ FindingAccepted(s) /\ MetadataAccepted(s) /\ s.rejected >= 0 /\ s.calls >= 0

\* Mutant: results only where the run has ended, as before follow-ups existed.
InvestigationAcceptedBeforeFollowUps(v) ==
  /\ v.status \in Statuses
  /\ v.state # None => StateAccepted(v.state)
  /\ v.status \in {"pending", "running"} => ~v.error /\ v.results = 0
  /\ v.status = "completed" => ~v.error /\ v.state # None /\ v.results > 0
  /\ v.status = "failed" => v.error

InvestigationAccepted(v) ==
  /\ v.status \in Statuses
  /\ v.state # None => StateAccepted(v.state)
  /\ v.status = "pending" => ~v.error /\ v.results = 0
  /\ v.status = "running" => ~v.error
  /\ v.status = "completed" => ~v.error /\ v.state # None /\ v.results > 0
  /\ v.status = "failed" => v.error

Admitted(v) == IF v.kind = "investigation" THEN InvestigationAdmitted(v) ELSE MergeResponseAdmitted(v)
Accepted(v) == IF v.kind = "investigation" THEN InvestigationAccepted(v) ELSE MergeAccepted(v)
=============================================================================
