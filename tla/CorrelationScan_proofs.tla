------------------------- MODULE CorrelationScan_proofs -------------------------
(***************************************************************************)
(* Proofs about one correlation scan, for any listing of issues, whatever   *)
(* the sources hold and the models propose: no failure of a call loses the  *)
(* scan, each result accounts for its own issue's calls, and findings and   *)
(* fixes rest on the evidence of their own issue.                           *)
(***************************************************************************)
EXTENDS CorrelationScan, FiniteSums, TLAPS

-----------------------------------------------------------------------------
(* Lists that grow at their end.                                           *)

IsList(s) == \E S : s \in Seq(S)

(* The indices of a list.                                                  *)
LEMMA ListShape ==
  ASSUME NEW s, IsList(s)
  PROVE  Len(s) \in Nat /\ DOMAIN s = 1..Len(s)
BY DEF IsList

(* A list with one element more.                                           *)
LEMMA ListAppended ==
  ASSUME NEW s, IsList(s), NEW x
  PROVE  /\ IsList(Append(s, x)) /\ Len(s) \in Nat /\ Len(Append(s, x)) = Len(s) + 1
         /\ DOMAIN s = 1..Len(s) /\ DOMAIN Append(s, x) = 1..(Len(s) + 1)
         /\ \A i \in 1..Len(s) : Append(s, x)[i] = s[i]
         /\ Append(s, x)[Len(s) + 1] = x
<1>1. PICK S : s \in Seq(S)
  BY DEF IsList
<1>2. s \in Seq(S \cup {x}) /\ x \in S \cup {x}
  BY <1>1
<1>3. Append(s, x) \in Seq(S \cup {x})
  BY <1>2
<1> QED BY <1>2, <1>3 DEF IsList

(* A list with one element changed.                                        *)
LEMMA ListReplaced ==
  ASSUME NEW s, IsList(s), NEW k, NEW x, NEW new, new = [s EXCEPT ![k] = x]
  PROVE  IsList(new) /\ Len(new) = Len(s)
<1>1. PICK S : s \in Seq(S)
  BY DEF IsList
<1>2. Len(s) \in Nat /\ s \in [1..Len(s) -> S]
  BY <1>1
<1>3. new \in [1..Len(s) -> S \cup {x}]
  BY <1>2
<1>4. new \in Seq(S \cup {x}) /\ Len(new) = Len(s)
  BY <1>2, <1>3
<1> QED BY <1>4 DEF IsList

(* What may be proposed: a scan's answers are lists, and what GitHub has of *)
(* a commit is finite, as pydantic and the file list's limit have it.      *)
AnswersAreWellFormed ==
  /\ \A sha : \A content \in Commits(sha) : IsFiniteSet(content)
  /\ \A facts : \A candidates \in HypothesisAnswers(facts) : IsList(candidates)
  /\ \A hypotheses, facts, evidence :
       \A candidates \in FindingAnswers(hypotheses, facts, evidence) : IsList(candidates)
  /\ \A input : \A candidate \in FixAnswers(input) : IsList(candidate.lines)

-----------------------------------------------------------------------------
(* What a step of the scan does to the request as a whole.                 *)

Analysing == {"gate", "hypothesize", "diagnose", "fix"}
Active == Analysing \cup {"step"}

\* A call of an issue is answered, and the issue goes on.
CallAnswered ==
  /\ pc = "step" /\ pc' \in {"step", "gate"}
  /\ UNCHANGED <<open, results, analysis, response>>

\* The models are asked, or are answered.
AnalysisGoesOn ==
  /\ pc \in Analysing /\ pc' \in Analysing \ {"gate"}
  /\ UNCHANGED <<open, results, issue, response, told>>

\* The issue has its result.
IssueFinished(status, a) ==
  /\ pc \in Analysing /\ FinishIssue(status, a)
  /\ a = FreshAnalysis \/ (pc = "fix" /\ a = analysis)

(* The steps of a scan, sorted by what they do to the loop.                *)
LEMMA StepsOfScans ==
  ASSUME [ScanNext]_vars
  PROVE  \/ ListIssues \/ ListingFails \/ RequestBreaks \/ UNCHANGED vars
         \/ (SourceAnswers \/ SourceFails) /\ CallAnswered
         \/ (Gate \/ Hypothesize \/ Diagnose \/ DiagnosisFails \/ NoSourceContext \/ FixAnswered)
              /\ AnalysisGoesOn
         \/ \E status, a : IssueFinished(status, a)
<1>1. ASSUME SourceAnswers \/ SourceFails PROVE CallAnswered
  <2>1. ASSUME NEW local, Advance(local) PROVE pc' \in {"step", "gate"}
    BY <2>1 DEF Advance
  <2>2. CASE SourceAnswers
    BY <2>1, <2>2 DEF SourceAnswers, FailureLocation, LinkedJiraKey, IssueCommitSha, CommitEvidence,
                      CommitChangedFileEvidence, StepReturns, CallAnswered
  <2>3. CASE SourceFails
    BY <2>1, <2>3 DEF SourceFails, CallAnswered
  <2> QED BY <1>1, <2>2, <2>3
<1>2. ASSUME Gate \/ Hypothesize \/ HypothesisFails \/ Diagnose \/ DiagnosisFails \/ NoSourceContext
             \/ FixAnswered \/ FixInputRefused \/ FinishAnalysis \/ AnalysisBreaks
      PROVE  \/ (Gate \/ Hypothesize \/ Diagnose \/ DiagnosisFails \/ NoSourceContext \/ FixAnswered)
                  /\ AnalysisGoesOn
             \/ \E status, a : IssueFinished(status, a)
  <2>1. ASSUME NEW status, NEW a, FinishIssue(status, a), pc \in Analysing,
               a = FreshAnalysis \/ (pc = "fix" /\ a = analysis)
        PROVE  \E st, b : IssueFinished(st, b)
    BY <2>1 DEF IssueFinished
  <2>2. CASE Gate
    BY <2>1, <2>2 DEF Gate, AnalysisGoesOn, Analysing
  <2>3. CASE Hypothesize
    BY <2>1, <2>3 DEF Hypothesize, AnalysisGoesOn, Analysing
  <2>4. CASE HypothesisFails \/ AnalysisBreaks \/ FixInputRefused \/ FinishAnalysis
    BY <2>1, <2>4 DEF HypothesisFails, AnalysisBreaks, FixInputRefused, FinishAnalysis, AnalysisError,
                      Analysing
  <2>5. CASE Diagnose \/ DiagnosisFails
    BY <2>5 DEF Diagnose, DiagnosisFails, Diagnosed, AnalysisGoesOn, Analysing
  <2>6. CASE NoSourceContext \/ FixAnswered
    BY <2>6 DEF NoSourceContext, FixAnswered, FixAttempted, AnalysisGoesOn, Analysing
  <2> QED BY <1>2, <2>2, <2>3, <2>4, <2>5, <2>6
<1> QED BY <1>1, <1>2 DEF ScanNext, ScanGoesOn

-----------------------------------------------------------------------------
(* The loop over the issues.                                               *)

Limit == IF Len(open) <= MaxIssues THEN Len(open) ELSE MaxIssues

LoopInv ==
  /\ pc \in Active \cup {"listing", "answered"}
  /\ IsList(open) /\ IsList(results) /\ IsList(told)
  /\ pc = "listing" => open = <<>> /\ results = <<>> /\ told = <<>>
  /\ pc \in Active => Len(results) < Limit /\ Len(told) = Len(results) + 1
  /\ pc = "answered" =>
       /\ open = <<>> \/ response = "error" \/ (response = "ok" /\ Len(results) = Limit)
       /\ Len(results) <= Len(told)
  /\ \A n \in DOMAIN results : results[n].issue = open[n]

(* The loop has not begun.                                                 *)
LEMMA LoopStarts == ScanInit => LoopInv
<1>1. IsList(<<>>)
  BY DEF IsList
<1> QED BY <1>1 DEF ScanInit, LoopInv, Active, Analysing

(* Every step keeps the loop's invariant.                                  *)
LEMMA LoopKept == LoopInv /\ [ScanNext]_vars => LoopInv'
<1>1. SUFFICES ASSUME LoopInv, [ScanNext]_vars PROVE LoopInv'
  OBVIOUS
<1>2. /\ IsList(open) /\ Len(open) \in Nat /\ IsList(results) /\ Len(results) \in Nat
      /\ IsList(told) /\ Len(told) \in Nat /\ MaxIssues \in Nat /\ Limit \in Nat
  <2>1. IsList(open) /\ Len(open) \in Nat /\ MaxIssues \in Nat
    BY <1>1, ListShape, ScanAssumption DEF LoopInv
  <2> QED BY <1>1, <2>1, ListShape DEF LoopInv, Limit
<1>3. ASSUME NEW list, IsList(list), NEW n \in Nat, open' = list, Continue(n, list), Len(told) = n,
             IsList(results'), Len(results') = n,
             n <= IF Len(list) <= MaxIssues THEN Len(list) ELSE MaxIssues,
             \A i \in DOMAIN results' : results'[i].issue = list[i]
      PROVE  LoopInv'
  <2>1. Len(list) \in Nat
    BY <1>3, ListShape
  <2>2. CASE n < Len(list) /\ n < MaxIssues
    <3>1. pc' = "step" /\ told' = Append(told, NothingTold)
      BY <1>3, <2>2 DEF Continue
    <3>2. IsList(told') /\ Len(told') = n + 1
      BY <1>2, <1>3, <3>1, ListAppended
    <3> QED BY <1>2, <1>3, <2>1, <2>2, <3>1, <3>2 DEF LoopInv, Active, Analysing, Limit
  <2>3. CASE ~(n < Len(list) /\ n < MaxIssues)
    <3>1. pc' = "answered" /\ response' = "ok" /\ told' = told
      BY <1>3, <2>3 DEF Continue, Answer
    <3> QED BY <1>2, <1>3, <2>1, <2>3, <3>1 DEF LoopInv, Active, Analysing, Limit
  <2> QED BY <2>2, <2>3
<1>4. CASE ListIssues
  <2>1. PICK list \in Listings : open' = list /\ Continue(0, list)
    BY <1>4 DEF ListIssues
  <2>2. results' = <<>> /\ told = <<>>
    BY <1>1, <1>4 DEF ListIssues, LoopInv
  <2>3. IsList(list)
    BY <2>1, ListingsAssumption DEF IsList
  <2>4. Len(list) \in Nat
    BY <2>3, ListShape
  <2> QED BY <1>1, <1>2, <1>3, <2>1, <2>2, <2>3, <2>4
<1>5. CASE ListingFails \/ RequestBreaks
  <2>1. UNCHANGED <<open, results, told>> /\ pc' = "answered"
    BY <1>5 DEF ListingFails, RequestBreaks, Answer
  <2>2. response' = "error" \/ open = <<>>
    BY <1>1, <1>5 DEF ListingFails, RequestBreaks, Answer, LoopInv
  <2>3. Len(results) <= Len(told)
    BY <1>1, <1>2, <1>5 DEF ListingFails, RequestBreaks, LoopInv, Active
  <2> QED BY <1>1, <2>1, <2>2, <2>3 DEF LoopInv, Active, Analysing, Limit
<1>6. CASE CallAnswered /\ (SourceAnswers \/ SourceFails)
  <2>1. IsList(told') /\ Len(told') = Len(told)
    <3>1. PICK x : told' = [told EXCEPT ![Len(told)] = x]
      BY <1>6 DEF SourceAnswers, SourceFails, FailureLocation, LinkedJiraKey, IssueCommitSha,
                  CommitEvidence, CommitChangedFileEvidence, Tell
    <3>2. PICK new : new = [told EXCEPT ![Len(told)] = x]
      OBVIOUS
    <3>3. IsList(told)
      BY <1>1 DEF LoopInv
    <3>4. IsList(new) /\ Len(new) = Len(told)
      BY <3>2, <3>3, ListReplaced
    <3> QED BY <3>1, <3>2, <3>4
  <2> QED BY <1>1, <1>6, <2>1 DEF CallAnswered, LoopInv, Active, Analysing, Limit
<1>7. CASE AnalysisGoesOn
  BY <1>1, <1>7 DEF AnalysisGoesOn, LoopInv, Active, Analysing, Limit
<1>8. ASSUME NEW status, NEW a, IssueFinished(status, a) PROVE LoopInv'
  <2>1. PICK r : /\ r.issue = open[Len(results) + 1]
                 /\ results' = Append(results, r) /\ open' = open /\ Continue(Len(results) + 1, open)
    BY <1>8 DEF IssueFinished, FinishIssue, Result, Current
  <2>2. Len(results) < Limit /\ Len(told) = Len(results) + 1
    BY <1>1, <1>8 DEF IssueFinished, LoopInv, Active
  <2>3. /\ IsList(results') /\ Len(results') = Len(results) + 1
        /\ \A i \in DOMAIN results' : results'[i].issue = open[i]
    <3>1. \A i \in 1..(Len(results) + 1) : i \in 1..Len(results) \/ i = Len(results) + 1
      BY <1>2
    <3> QED BY <1>1, <1>2, <2>1, <3>1, ListAppended DEF LoopInv
  <2> QED BY <1>2, <1>3, <2>1, <2>2, <2>3 DEF Limit
<1>9. CASE UNCHANGED vars
  BY <1>1, <1>9 DEF vars, LoopInv, Limit
<1> QED BY <1>1, <1>4, <1>5, <1>6, <1>7, <1>8, <1>9, StepsOfScans

(* The scan takes the listed issues one by one, up to its limit, and has a  *)
(* result for each it is done with (run_correlation_scan).                 *)
THEOREM LoopHolds == ScanSpec => []LoopInv
BY LoopStarts, LoopKept, PTL DEF ScanSpec

(* Once the issues are listed no connector's and no model's failure loses  *)
(* the scan: unless the request itself breaks, the answer has one result   *)
(* for each issue up to the limit, in order (run_correlation_scan).        *)
THEOREM ScanSurvives == ScanSpec => []ScanSurvivesItsIssues
<1>1. LoopInv => ScanSurvivesItsIssues
  BY DEF LoopInv, ScanSurvivesItsIssues, Limit
<1> QED BY <1>1, LoopHolds, PTL

-----------------------------------------------------------------------------
(* What an issue's calls are answered, and what the issue makes of it.     *)

IssueFields == {"step", "evidence", "failures", "jira", "sha", "truncated"}
Collected == {"commit_evidence", "commit_changed_file_evidence", "failure_location"}

\* A step is over after one call, or after the second where the first may pass.
CallsOver(c) ==
  \/ \E a : c = <<a>> /\ a.failure # Retryable
  \/ \E a, b : c = <<a, b>> /\ a.failure = Retryable
CallsBegun(c) == c = <<>> \/ \E a : c = <<a>> /\ a.failure = Retryable

ValueOf(calls, s) == IF Succeeded(calls[s]) THEN Last(calls[s]).value ELSE None

\* The issue holds what its calls were answered, but for a failure of a step
\* that may still be called again.
Accounts(i, calls, waiting) ==
  /\ i.failures = {s \in Step \ waiting : Failed(calls[s])}
  /\ i.evidence = UNION {Last(calls[s]).value : s \in {c \in Collected : Succeeded(calls[c])}}
  /\ i.jira = ValueOf(calls, "linked_jira_key")
  /\ i.sha = ValueOf(calls, "issue_commit_sha")

(* The five steps of an issue.                                             *)
LEMMA StepsKnown ==
  /\ Step = {"failure_location", "linked_jira_key", "issue_commit_sha",
             "commit_evidence", "commit_changed_file_evidence"}
  /\ Steps[1] = "failure_location" /\ Steps[2] = "linked_jira_key"
  /\ Steps[3] = "issue_commit_sha" /\ Steps[4] = "commit_evidence"
  /\ Steps[5] = "commit_changed_file_evidence"
<1>1. /\ Steps[1] = "failure_location" /\ Steps[2] = "linked_jira_key"
      /\ Steps[3] = "issue_commit_sha" /\ Steps[4] = "commit_evidence"
      /\ Steps[5] = "commit_changed_file_evidence" /\ DOMAIN Steps = 1..5
  BY DEF Steps
<1>2. \A i : i \in 1..5 <=> i = 1 \/ i = 2 \/ i = 3 \/ i = 4 \/ i = 5
  OBVIOUS
<1> QED BY <1>1, <1>2 DEF Step, Elements

(* They are five.                                                          *)
LEMMA StepsApart ==
  /\ \A i \in 1..5 : Steps[i] \in Step
  /\ \A i, j \in 1..5 : Steps[i] = Steps[j] => i = j
  /\ \A s \in Step : \E i \in 1..5 : s = Steps[i]
<1>1. \A i : i \in 1..5 <=> i = 1 \/ i = 2 \/ i = 3 \/ i = 4 \/ i = 5
  OBVIOUS
<1> QED BY <1>1, StepsKnown

Grown(c, e, new) == new = Append(c, e)

Reply(e) == e.failure \in {None, Retryable, Permanent}

\* What one more answer e makes of the calls c of a step.
Longer(c, e, new) ==
  /\ ~Succeeded(c) /\ Last(new) = e /\ new # <<>>
  /\ Succeeded(new) <=> e.failure = None
  /\ Failed(new) <=> e.failure # None
  /\ e.failure = Retryable /\ c = <<>> => CallsBegun(new)
  /\ ~(e.failure = Retryable /\ c = <<>>) => CallsOver(new)

(* One more answer of a step whose calls are not over.                     *)
LEMMA CallAppended ==
  ASSUME NEW c, CallsBegun(c), NEW e, Reply(e), NEW new, Grown(c, e, new)
  PROVE  Longer(c, e, new)
<1>0. new = Append(c, e)
  BY DEF Grown
<1>1. CASE c = <<>>
  <2>1. new = <<e>>
    BY <1>0, <1>1
  <2>2. Len(new) = 1 /\ new[1] = e /\ new # <<>>
    BY <2>1
  <2>3. Last(new) = e /\ ~Succeeded(c) /\ (e.failure # Retryable => CallsOver(new))
    BY <1>1, <2>1, <2>2 DEF Last, Succeeded, CallsOver
  <2>4. e.failure = Retryable => CallsBegun(new)
    BY <2>1 DEF CallsBegun
  <2> QED BY <1>1, <2>2, <2>3, <2>4 DEF Succeeded, Failed, Longer
<1>2. ASSUME NEW a, c = <<a>>, a.failure = Retryable
      PROVE  /\ ~Succeeded(c) /\ Last(new) = e /\ new # <<>> /\ c # <<>>
             /\ Succeeded(new) <=> e.failure = None
             /\ Failed(new) <=> e.failure # None
             /\ CallsOver(new)
  <2>1. new = <<a, e>>
    <3>1. <<a>> \in Seq({a, e}) /\ Len(<<a>>) = 1 /\ <<a>>[1] = a
      OBVIOUS
    <3>2. /\ Append(<<a>>, e) \in Seq({a, e}) /\ Len(Append(<<a>>, e)) = 2
          /\ Append(<<a>>, e)[1] = a /\ Append(<<a>>, e)[2] = e
      BY <3>1
    <3>3. <<a, e>> \in Seq({a, e}) /\ Len(<<a, e>>) = 2 /\ <<a, e>>[1] = a /\ <<a, e>>[2] = e
      OBVIOUS
    <3>4. ASSUME NEW x, NEW y, x \in Seq({a, e}), y \in Seq({a, e}), Len(x) = 2, Len(y) = 2,
                 x[1] = y[1], x[2] = y[2]
          PROVE  x = y
      <4>1. x \in [1..2 -> {a, e}] /\ y \in [1..2 -> {a, e}]
        BY <3>4
      <4>2. \A i \in 1..2 : i = 1 \/ i = 2
        OBVIOUS
      <4> QED BY <3>4, <4>1, <4>2
    <3> QED BY <1>0, <1>2, <3>2, <3>3, <3>4
  <2>2. Len(new) = 2 /\ new[2] = e /\ new # <<>>
    BY <2>1
  <2>3. Last(new) = e
    BY <2>2 DEF Last
  <2>4. Len(c) = 1 /\ c[1] = a /\ c # <<>>
    BY <1>2
  <2>5. ~Succeeded(c)
    BY <1>2, <2>4, NoneAssumption DEF Succeeded, Last
  <2>6. CallsOver(new)
    BY <1>2, <2>1 DEF CallsOver
  <2> QED BY <2>2, <2>3, <2>4, <2>5, <2>6 DEF Succeeded, Failed
<1> QED BY <1>1, <1>2 DEF CallsBegun, Longer

(* The issue's locals i become j, once step s is over with this answer.    *)
Took(i, s, e, j) ==
  /\ e.failure = None =>
       /\ j.failures = i.failures
       /\ j.evidence = i.evidence \cup (IF s \in Collected THEN e.value ELSE {})
       /\ j.jira = IF s = "linked_jira_key" THEN e.value ELSE i.jira
       /\ j.sha = IF s = "issue_commit_sha" THEN e.value ELSE i.sha
  /\ e.failure # None =>
       /\ j.failures = i.failures \cup {s}
       /\ j.evidence = i.evidence /\ j.jira = i.jira /\ j.sha = i.sha

StaysFinite(local) ==
  AnswersAreWellFormed /\ IsFiniteSet(issue.evidence) => IsFiniteSet(local.evidence)

Takes(local, e) ==
  /\ DOMAIN local = IssueFields /\ local.step = issue.step /\ Took(issue, CurrentStep, e, local)
  /\ StaysFinite(local)

Told(e) ==
  /\ told' = [told EXCEPT ![Len(told)][CurrentStep] = Append(@, e)]
  /\ e.failure \in {None, Retryable, Permanent}

(* An answered call is repeated, or what it was answered is taken and the  *)
(* next step begins.                                                       *)
LEMMA CallsAnswered ==
  ASSUME pc = "step", DOMAIN issue = IssueFields, SourceAnswers \/ SourceFails
  PROVE  \/ \E e : Told(e) /\ CanCallAgain(e.failure) /\ UNCHANGED <<pc, issue>>
         \/ \E e, local : Told(e) /\ ~CanCallAgain(e.failure) /\ Takes(local, e) /\ Advance(local)
<1> DEFINE Entry(failure, value) == [failure |-> failure, value |-> value]
<1>1. ASSUME NEW failure \in {None, Retryable, Permanent}, NEW value, Tell(failure, value)
      PROVE  /\ Told(Entry(failure, value))
             /\ Entry(failure, value).failure = failure /\ Entry(failure, value).value = value
  BY <1>1 DEF Tell, Told, Calls
<1> HIDE DEF Entry
<1>2. ASSUME NEW value, Tell(None, value), NEW local, Advance(local), DOMAIN local = IssueFields,
             local.step = issue.step, local.failures = issue.failures,
             local.evidence = issue.evidence \cup (IF CurrentStep \in Collected THEN value ELSE {}),
             local.jira = IF CurrentStep = "linked_jira_key" THEN value ELSE issue.jira,
             local.sha = IF CurrentStep = "issue_commit_sha" THEN value ELSE issue.sha,
             StaysFinite(local)
      PROVE  \E e, l : Told(e) /\ ~CanCallAgain(e.failure) /\ Takes(l, e) /\ Advance(l)
  <2>1. PICK e : Told(e) /\ e.failure = None /\ e.value = value
    BY <1>1, <1>2
  <2>2. ~CanCallAgain(e.failure) /\ Takes(local, e)
    BY <1>2, <2>1, NoneAssumption DEF CanCallAgain, Takes, Took
  <2> QED BY <1>2, <2>1, <2>2
<1>3. CASE FailureLocation
  <2>1. PICK frame : Tell(None, {frame}) /\ Advance(Collect({frame})) /\ CurrentStep = "failure_location"
    BY <1>3 DEF FailureLocation, StepReturns
  <2>2. PICK local : local = Collect({frame})
    OBVIOUS
  <2>3. /\ DOMAIN local = IssueFields /\ local.evidence = issue.evidence \cup {frame}
        /\ local.step = issue.step /\ local.failures = issue.failures
        /\ local.jira = issue.jira /\ local.sha = issue.sha
    BY <2>2 DEF Collect, IssueFields
  <2>4. StaysFinite(local)
    BY <2>3, FS_AddElement DEF StaysFinite
  <2> QED BY <1>2, <2>1, <2>2, <2>3, <2>4 DEF Collected
<1>4. CASE LinkedJiraKey
  <2>1. PICK key : /\ Tell(None, key) /\ Advance([issue EXCEPT !.jira = key])
                   /\ CurrentStep = "linked_jira_key"
    BY <1>4 DEF LinkedJiraKey, StepReturns
  <2>2. PICK local : local = [issue EXCEPT !.jira = key]
    OBVIOUS
  <2>3. /\ DOMAIN local = IssueFields /\ local.evidence = issue.evidence
        /\ local.step = issue.step /\ local.failures = issue.failures
        /\ local.jira = key /\ local.sha = issue.sha
    BY <2>2 DEF IssueFields
  <2>4. StaysFinite(local)
    BY <2>3 DEF StaysFinite
  <2> QED BY <1>2, <2>1, <2>2, <2>3, <2>4 DEF Collected
<1>5. CASE IssueCommitSha
  <2>1. PICK sha : /\ Tell(None, sha) /\ Advance([issue EXCEPT !.sha = sha])
                   /\ CurrentStep = "issue_commit_sha"
    BY <1>5 DEF IssueCommitSha, StepReturns
  <2>2. PICK local : local = [issue EXCEPT !.sha = sha]
    OBVIOUS
  <2>3. /\ DOMAIN local = IssueFields /\ local.evidence = issue.evidence
        /\ local.step = issue.step /\ local.failures = issue.failures
        /\ local.jira = issue.jira /\ local.sha = sha
    BY <2>2 DEF IssueFields
  <2>4. StaysFinite(local)
    BY <2>3 DEF StaysFinite
  <2> QED BY <1>2, <2>1, <2>2, <2>3, <2>4 DEF Collected
<1>6. CASE CommitEvidence
  <2>1. PICK commit : /\ Tell(None, {commit}) /\ Advance(Collect({commit}))
                      /\ CurrentStep = "commit_evidence"
    BY <1>6 DEF CommitEvidence, StepReturns
  <2>2. PICK local : local = Collect({commit})
    OBVIOUS
  <2>3. /\ DOMAIN local = IssueFields /\ local.evidence = issue.evidence \cup {commit}
        /\ local.step = issue.step /\ local.failures = issue.failures
        /\ local.jira = issue.jira /\ local.sha = issue.sha
    BY <2>2 DEF Collect, IssueFields
  <2>4. StaysFinite(local)
    BY <2>3, FS_AddElement DEF StaysFinite
  <2> QED BY <1>2, <2>1, <2>2, <2>3, <2>4 DEF Collected
<1>7. CASE CommitChangedFileEvidence
  <2>1. PICK content, truncated :
               /\ content \in Commits(issue.sha)
               /\ Tell(None, content) /\ Advance([Collect(content) EXCEPT !.truncated = truncated])
               /\ CurrentStep = "commit_changed_file_evidence"
    BY <1>7 DEF CommitChangedFileEvidence, StepReturns
  <2>2. PICK local : local = [Collect(content) EXCEPT !.truncated = truncated]
    OBVIOUS
  <2>3. /\ DOMAIN local = IssueFields /\ local.evidence = issue.evidence \cup content
        /\ local.step = issue.step /\ local.failures = issue.failures
        /\ local.jira = issue.jira /\ local.sha = issue.sha
    BY <2>2 DEF Collect, IssueFields
  <2>4. StaysFinite(local)
    BY <2>1, <2>3, FS_Union DEF StaysFinite, AnswersAreWellFormed
  <2> QED BY <1>2, <2>1, <2>2, <2>3, <2>4 DEF Collected
<1>8. CASE SourceFails
  <2>1. PICK failure \in {Retryable, Permanent} :
               /\ Tell(failure, None)
               /\ IF CanCallAgain(failure) THEN UNCHANGED <<pc, issue>>
                  ELSE Advance([issue EXCEPT !.failures = issue.failures \cup {CurrentStep}])
    BY <1>8 DEF SourceFails
  <2>2. PICK e : Told(e) /\ e.failure = failure
    BY <1>1, <2>1
  <2>3. PICK local : local = [issue EXCEPT !.failures = issue.failures \cup {CurrentStep}]
    OBVIOUS
  <2>4. Takes(local, e)
    BY <2>2, <2>3, NoneAssumption DEF Takes, Took, IssueFields, StaysFinite
  <2> QED BY <2>1, <2>2, <2>3, <2>4
<1> QED BY <1>3, <1>4, <1>5, <1>6, <1>7, <1>8 DEF SourceAnswers

-----------------------------------------------------------------------------
(* What an issue has come to when a step waits, and when its steps are over. *)

Now == told[Len(told)]

IssueHolds(i, calls, phase) ==
  LET current == Steps[i.step] IN
  /\ DOMAIN i = IssueFields /\ i.step \in 1..5 /\ DOMAIN calls = Step
  /\ \A n \in 1..5 : n < i.step => CallsOver(calls[Steps[n]])
  /\ \A n \in 1..5 : n > i.step => calls[Steps[n]] = <<>>
  /\ phase = "step" =>
       /\ CallsBegun(calls[current]) /\ Accounts(i, calls, {current})
       /\ i.step > 3 => i.sha # None
  /\ phase \in Analysing =>
       /\ CallsOver(calls[current]) /\ Accounts(i, calls, {})
       /\ (i.step = 5 /\ i.sha # None) \/ (i.step = 3 /\ i.sha = None)

TellingHolds == pc \in Active => IssueHolds(issue, Now, pc)

TellingInv ==
  /\ TellingHolds
  /\ \A n \in DOMAIN results : ResultAccounts(results[n], told[n])

(* A new issue begins.                                                     *)
LEMMA IssueBegins == IssueHolds(FreshIssue, NothingTold, "step")
<1>1. PICK calls : calls = NothingTold
  OBVIOUS
<1>2. DOMAIN calls = Step /\ \A s \in Step : calls[s] = <<>>
  BY <1>1 DEF NothingTold
<1>3. \A s \in Step : ~Failed(calls[s]) /\ ~Succeeded(calls[s])
  BY <1>2 DEF Failed, Succeeded
<1>4. Accounts(FreshIssue, calls, {Steps[1]})
  <2>1. Collected \subseteq Step /\ "linked_jira_key" \in Step /\ "issue_commit_sha" \in Step
    BY StepsKnown DEF Collected
  <2>2. {c \in Collected : Succeeded(calls[c])} = {}
    BY <1>3, <2>1
  <2> QED BY <1>3, <2>1, <2>2 DEF Accounts, ValueOf, FreshIssue
<1>5. FreshIssue.step = 1 /\ DOMAIN FreshIssue = IssueFields
  BY DEF FreshIssue, IssueFields
<1>6. \A n \in 1..5 : calls[Steps[n]] = <<>>
  BY <1>2, StepsApart
<1>7. IssueHolds(FreshIssue, calls, "step")
  <2>1. 1 \in 1..5 /\ ~(1 > 3) /\ "step" \notin Analysing /\ \A n \in 1..5 : ~(n < 1)
    BY DEF Analysing
  <2>2. CallsBegun(calls[Steps[1]])
    BY <1>6, <2>1 DEF CallsBegun
  <2> QED BY <1>2, <1>4, <1>5, <1>6, <2>1, <2>2 DEF IssueHolds
<1> QED BY <1>1, <1>7

Heard(calls, s, e, new) == new = [calls EXCEPT ![s] = Append(calls[s], e)]

\* What one more answer e of step s makes of an issue's calls.
OneMore(calls, s, e, i, new) ==
  /\ DOMAIN new = Step /\ Longer(calls[s], e, new[s])
  /\ \A t \in Step : t # s => new[t] = calls[t]
  /\ e.failure # None => Accounts(i, new, {s})
  /\ \A j : Took(i, s, e, j) => Accounts(j, new, {})

(* The calls of one step are one longer.                                   *)
LEMMA CallsGrow ==
  ASSUME NEW calls, DOMAIN calls = Step, NEW s \in Step, CallsBegun(calls[s]),
         NEW e, Reply(e), NEW i, Accounts(i, calls, {s}), NEW new, Heard(calls, s, e, new)
  PROVE  OneMore(calls, s, e, i, new)
<1>1. /\ DOMAIN new = Step /\ new[s] = Append(calls[s], e)
      /\ \A t \in Step : t # s => new[t] = calls[t]
  BY DEF Heard
<1>0. Longer(calls[s], e, new[s])
  <2>1. Grown(calls[s], e, new[s])
    BY <1>1 DEF Grown
  <2> QED BY <2>1, CallAppended
<1>2. /\ ~Succeeded(calls[s]) /\ Last(new[s]) = e
      /\ Succeeded(new[s]) <=> e.failure = None
      /\ Failed(new[s]) <=> e.failure # None
  BY <1>0 DEF Longer
<1>3. \A t \in Step : t # s => /\ Succeeded(new[t]) <=> Succeeded(calls[t])
                               /\ Failed(new[t]) <=> Failed(calls[t])
                               /\ Last(new[t]) = Last(calls[t])
  BY <1>1
<1>4. Collected \subseteq Step /\ {"linked_jira_key", "issue_commit_sha"} \subseteq Step
  BY StepsKnown DEF Collected
<1>7. SUFFICES /\ e.failure # None => Accounts(i, new, {s})
               /\ \A j : Took(i, s, e, j) => Accounts(j, new, {})
  BY <1>0, <1>1, <1>7 DEF OneMore
<1> DEFINE Values(f) == {Last(f[t]).value : t \in {u \in Collected : Succeeded(f[u])}}
<1>5. CASE e.failure # None
  <2>1. Values(new) = Values(calls)
    BY <1>2, <1>3, <1>4, <1>5
  <2>2. /\ ValueOf(new, "linked_jira_key") = ValueOf(calls, "linked_jira_key")
        /\ ValueOf(new, "issue_commit_sha") = ValueOf(calls, "issue_commit_sha")
    BY <1>2, <1>3, <1>4, <1>5 DEF ValueOf
  <2>3. {t \in Step \ {s} : Failed(new[t])} = {t \in Step \ {s} : Failed(calls[t])}
    BY <1>3
  <2>4. {t \in Step : Failed(new[t])} = {t \in Step \ {s} : Failed(calls[t])} \cup {s}
    BY <1>2, <1>3, <1>5
  <2> QED BY <1>1, <1>5, <2>1, <2>2, <2>3, <2>4 DEF Accounts, Took
<1>6. CASE e.failure = None
  <2>1. (UNION Values(new)) = (UNION Values(calls)) \cup (IF s \in Collected THEN e.value ELSE {})
    <3>1. \A v : v \in Values(new) <=> v \in Values(calls) \/ (s \in Collected /\ v = e.value)
      BY <1>2, <1>3, <1>4, <1>6
    <3>2. ASSUME NEW V, NEW W, NEW v, \A x : x \in W <=> x \in V \/ (s \in Collected /\ x = v)
          PROVE  UNION W = (UNION V) \cup (IF s \in Collected THEN v ELSE {})
      BY <3>2
    <3>3. PICK V, W : V = Values(calls) /\ W = Values(new)
      OBVIOUS
    <3> HIDE DEF Values
    <3>4. UNION W = (UNION V) \cup (IF s \in Collected THEN e.value ELSE {})
      <4>1. \A x : x \in W <=> x \in V \/ (s \in Collected /\ x = e.value)
        BY <3>1, <3>3
      <4> QED BY <3>2, <4>1
    <3> QED BY <3>3, <3>4
  <2>2. \A t \in {"linked_jira_key", "issue_commit_sha"} :
          ValueOf(new, t) = IF s = t THEN e.value ELSE ValueOf(calls, t)
    BY <1>2, <1>3, <1>4, <1>6 DEF ValueOf
  <2>3. {t \in Step : Failed(new[t])} = {t \in Step \ {s} : Failed(calls[t])}
    BY <1>2, <1>3, <1>6
  <2> QED BY <1>1, <1>6, <2>1, <2>2, <2>3 DEF Accounts, Took
<1> QED BY <1>5, <1>6

(* A failure that may pass: the step is called again.                      *)
LEMMA SameStep ==
  ASSUME NEW i, NEW calls, IssueHolds(i, calls, "step"), NEW s, s = Steps[i.step],
         NEW e, e.failure = Retryable, calls[s] = <<>>,
         NEW new, Heard(calls, s, e, new)
  PROVE  IssueHolds(i, new, "step")
<1>1. /\ DOMAIN i = IssueFields /\ i.step \in 1..5 /\ DOMAIN calls = Step
      /\ \A n \in 1..5 : n < i.step => CallsOver(calls[Steps[n]])
      /\ \A n \in 1..5 : n > i.step => calls[Steps[n]] = <<>>
      /\ CallsBegun(calls[s]) /\ Accounts(i, calls, {s})
      /\ i.step > 3 => i.sha # None
  BY DEF IssueHolds
<1>2. s \in Step /\ \A n \in 1..5 : n # i.step => Steps[n] \in Step /\ Steps[n] # s
  BY <1>1, StepsApart
<1>3. OneMore(calls, s, e, i, new)
  <2>1. Reply(e)
    BY DEF Reply
  <2> QED BY <1>1, <1>2, <2>1, CallsGrow
<1>4. /\ DOMAIN new = Step /\ Accounts(i, new, {s}) /\ CallsBegun(new[s])
      /\ \A t \in Step : t # s => new[t] = calls[t]
  BY <1>3, NoneAssumption DEF OneMore, Longer
<1>5. \A n \in 1..5 : n < i.step => CallsOver(new[Steps[n]])
  BY <1>1, <1>2, <1>4
<1>6. \A n \in 1..5 : n > i.step => new[Steps[n]] = <<>>
  BY <1>1, <1>2, <1>4
<1> QED BY <1>1, <1>4, <1>5, <1>6 DEF IssueHolds, Analysing

\* Where the step just answered leaves the issue.
Advanced(local, new, next) ==
  IF local.step = 5 \/ (local.step = 3 /\ local.sha = None)
  THEN IssueHolds(local, new, "gate") ELSE IssueHolds(next, new, "step")

Onwards(local, next) == next = [local EXCEPT !.step = local.step + 1]

(* The step is over: its answer is taken, and the next step begins or the  *)
(* issue's facts are looked at.                                            *)
LEMMA StepOver ==
  ASSUME NEW i, NEW calls, IssueHolds(i, calls, "step"), NEW s, s = Steps[i.step],
         NEW e, Reply(e), ~(e.failure = Retryable /\ calls[s] = <<>>),
         NEW new, Heard(calls, s, e, new),
         NEW local, DOMAIN local = IssueFields, local.step = i.step, Took(i, s, e, local),
         NEW next, Onwards(local, next)
  PROVE  Advanced(local, new, next)
<1>1. /\ DOMAIN i = IssueFields /\ i.step \in 1..5 /\ DOMAIN calls = Step
      /\ \A n \in 1..5 : n < i.step => CallsOver(calls[Steps[n]])
      /\ \A n \in 1..5 : n > i.step => calls[Steps[n]] = <<>>
      /\ CallsBegun(calls[s]) /\ Accounts(i, calls, {s})
      /\ i.step > 3 => i.sha # None
  BY DEF IssueHolds
<1>2. s \in Step /\ \A n \in 1..5 : n # i.step => Steps[n] \in Step /\ Steps[n] # s
  BY <1>1, StepsApart
<1>0. OneMore(calls, s, e, i, new)
  BY <1>1, <1>2, CallsGrow
<1>3. /\ DOMAIN new = Step /\ Accounts(local, new, {})
      /\ \A t \in Step : t # s => new[t] = calls[t]
  BY <1>0 DEF OneMore
<1>4. CallsOver(new[s])
  BY <1>0 DEF OneMore, Longer
<1>5. \A n \in 1..5 : n <= i.step => CallsOver(new[Steps[n]])
  <2>1. \A n \in 1..5 : n <= i.step => n < i.step \/ n = i.step
    BY <1>1
  <2> QED BY <1>1, <1>2, <1>3, <1>4, <2>1
<1>6. \A n \in 1..5 : n > i.step => new[Steps[n]] = <<>>
  BY <1>1, <1>2, <1>3
<1>7. i.step > 3 => local.sha # None
  <2>1. i.step > 3 => s # "issue_commit_sha"
    BY <1>1, StepsKnown
  <2> QED BY <1>1, <2>1 DEF Took
<1>8. CASE local.step = 5 \/ (local.step = 3 /\ local.sha = None)
  <2>1. (local.step = 5 /\ local.sha # None) \/ (local.step = 3 /\ local.sha = None)
    BY <1>7, <1>8
  <2>2. \A n \in 1..5 : n < local.step => n <= i.step
    BY <1>1
  <2> QED BY <1>1, <1>3, <1>4, <1>5, <1>6, <1>8, <2>1, <2>2 DEF IssueHolds, Advanced
<1>9. CASE ~(local.step = 5 \/ (local.step = 3 /\ local.sha = None))
  <2>1. /\ DOMAIN next = IssueFields /\ next.step = i.step + 1
        /\ next.failures = local.failures /\ next.evidence = local.evidence
        /\ next.jira = local.jira /\ next.sha = local.sha
    BY DEF Onwards, IssueFields
  <2>2. /\ next.step \in 1..5 /\ next.step > i.step
        /\ \A n \in 1..5 : n < next.step => n <= i.step
        /\ \A n \in 1..5 : n > next.step => n > i.step
    BY <1>1, <1>9, <2>1
  <2>3. next.step > 3 => next.sha # None
    BY <1>1, <1>7, <1>9, <2>1
  <2>4. PICK t : t = Steps[next.step]
    OBVIOUS
  <2>5. new[t] = <<>> /\ t \in Step
    BY <1>6, <2>2, <2>4, StepsApart
  <2>6. Accounts(next, new, {t}) /\ CallsBegun(new[t])
    BY <1>3, <2>1, <2>5 DEF Accounts, Failed, CallsBegun
  <2>7. "step" \notin Analysing
    BY DEF Analysing
  <2> QED BY <1>3, <1>5, <1>6, <1>9, <2>1, <2>2, <2>3, <2>4, <2>6, <2>7 DEF IssueHolds, Advanced
<1> QED BY <1>8, <1>9 DEF Advanced

(* An issue that is finished tells what its calls were answered.           *)
LEMMA FinishedAccounts ==
  ASSUME pc \in Analysing, TellingHolds, NEW status, NEW a
  PROVE  ResultAccounts(Result(status, a), Now)
<1> DEFINE OfCommit == {"commit_evidence", "commit_changed_file_evidence"}
<1>1. PICK r : r = Result(status, a)
  OBVIOUS
<1>2. /\ r.failures = issue.failures /\ r.evidence = issue.evidence
      /\ r.jira = issue.jira /\ r.sha = issue.sha /\ r.status = CorrelationStatus
      /\ r.facts = DerivedFacts(issue.evidence)
  BY <1>1 DEF Result
<1>3. /\ issue.step \in 1..5 /\ Accounts(issue, Now, {}) /\ CallsOver(Now[Steps[issue.step]])
      /\ \A n \in 1..5 : n < issue.step => CallsOver(Now[Steps[n]])
      /\ \A n \in 1..5 : n > issue.step => Now[Steps[n]] = <<>>
      /\ (issue.step = 5 /\ issue.sha # None) \/ (issue.step = 3 /\ issue.sha = None)
  BY DEF TellingHolds, IssueHolds, Active
<1>4. \A s \in Step : IF issue.sha = None /\ s \in OfCommit THEN Now[s] = <<>> ELSE CallsOver(Now[s])
  <2>1. ASSUME NEW n \in 1..5
        PROVE  IF issue.sha = None /\ Steps[n] \in OfCommit THEN Now[Steps[n]] = <<>>
               ELSE CallsOver(Now[Steps[n]])
    <3>1. n > 3 <=> Steps[n] \in OfCommit
      BY StepsKnown
    <3> QED BY <1>3, <3>1
  <2> QED BY <2>1, StepsApart
<1>5. ASSUME NEW c, CallsOver(c)
      PROVE  c # <<>> /\ Len(c) <= 2 /\ (Len(c) = 2 <=> c[1].failure = Retryable)
  <2>1. ASSUME NEW x PROVE <<x>> # <<>> /\ Len(<<x>>) = 1 /\ <<x>>[1] = x
    OBVIOUS
  <2>2. ASSUME NEW x, NEW y PROVE <<x, y>> # <<>> /\ Len(<<x, y>>) = 2 /\ <<x, y>>[1] = x
    OBVIOUS
  <2>3. CASE \E x : c = <<x>> /\ x.failure # Retryable
    <3>1. PICK x : c = <<x>> /\ x.failure # Retryable
      BY <2>3
    <3> QED BY <2>1, <3>1
  <2>4. CASE \E x, y : c = <<x, y>> /\ x.failure = Retryable
    <3>1. PICK x, y : c = <<x, y>> /\ x.failure = Retryable
      BY <2>4
    <3> QED BY <2>2, <3>1
  <2> QED BY <1>5, <2>3, <2>4 DEF CallsOver
<1>6. \A s \in Step :
        /\ (Now[s] = <<>>) <=> (issue.sha = None /\ s \in OfCommit)
        /\ Len(Now[s]) <= 2
        /\ Now[s] # <<>> => (Len(Now[s]) = 2 <=> Now[s][1].failure = Retryable)
  BY <1>4, <1>5
<1>7. r.status = "failed" => r.facts = {}
  <2>1. DerivedFacts({}) = {}
    BY DEF DerivedFacts, ChangedFileFacts, MatchFacts, OverlapFacts, FailedFiles, OfKind
  <2> QED BY <1>2, <2>1 DEF CorrelationStatus
<1>8. /\ issue.failures = {s \in Step : Failed(Now[s])}
      /\ issue.evidence = UNION {Last(Now[s]).value :
                                   s \in {c \in OfCommit \cup {"failure_location"} : Succeeded(Now[c])}}
  BY <1>3 DEF Accounts, Collected
<1> HIDE DEF OfCommit
<1>9. ResultAccounts(r, Now)
  BY <1>2, <1>3, <1>6, <1>7, <1>8 DEF ResultAccounts, Accounts, ValueOf, OfCommit
<1> QED BY <1>1, <1>9


(* No issue has been called for.                                           *)
LEMMA TellingStarts == ScanInit => TellingInv
BY DEF ScanInit, TellingInv, TellingHolds, Active, Analysing

(* Every step keeps what the issue says of its calls.                      *)
LEMMA TellingKept == LoopInv /\ TellingInv /\ [ScanNext]_vars => TellingInv'
<1>1. SUFFICES ASSUME LoopInv, TellingInv, [ScanNext]_vars PROVE TellingInv'
  OBVIOUS
<1>2. /\ IsList(results) /\ IsList(told) /\ Len(results) \in Nat /\ Len(told) \in Nat
      /\ \A n : n \in DOMAIN results <=> n \in 1..Len(results)
      /\ \A n : n \in DOMAIN told <=> n \in 1..Len(told)
      /\ pc \in Active => Len(told) = Len(results) + 1
      /\ Len(results) <= Len(told)
  <2>1. IsList(results) /\ IsList(told)
    BY <1>1 DEF LoopInv
  <2>2. pc = "listing" => Len(results) = 0 /\ Len(told) = 0
    BY <1>1 DEF LoopInv
  <2> QED BY <1>1, <2>1, <2>2, ListShape DEF LoopInv
<1>3. ASSUME Continue(Len(results'), open'), Len(told) = Len(results'), Len(results') \in Nat,
             \A n \in DOMAIN results' : n \in DOMAIN told /\ ResultAccounts(results'[n], told[n])
      PROVE  TellingInv'
  <2>1. CASE pc' = "answered" /\ told' = told
    BY <1>3, <2>1 DEF TellingInv, TellingHolds, Active, Analysing
  <2>2. CASE pc' = "step" /\ issue' = FreshIssue /\ told' = Append(told, NothingTold)
    <3>1. /\ Len(told') = Len(told) + 1 /\ told'[Len(told) + 1] = NothingTold
          /\ \A n \in DOMAIN told : told'[n] = told[n]
      <4>1. PICK longer : longer = Append(told, NothingTold)
        OBVIOUS
      <4>2. /\ Len(longer) = Len(told) + 1 /\ longer[Len(told) + 1] = NothingTold
            /\ \A n \in DOMAIN told : longer[n] = told[n]
        BY <1>2, <4>1, ListAppended
      <4> QED BY <2>2, <4>1, <4>2
    <3>2. issue' = FreshIssue /\ pc' = "step" /\ Now' = NothingTold
      BY <2>2, <3>1 DEF Now
    <3>3. IssueHolds(issue', Now', pc')
      BY <3>2, IssueBegins
    <3>4. TellingHolds'
      BY <3>3 DEF TellingHolds
    <3> QED BY <1>3, <3>1, <3>4 DEF TellingInv
  <2> QED BY <1>3, <2>1, <2>2 DEF Continue, Answer
<1>4. CASE ListIssues
  <2>1. results = <<>> /\ told = <<>> /\ UNCHANGED results /\ Continue(0, open')
    BY <1>1, <1>4 DEF ListIssues, LoopInv
  <2>2. Len(results') = 0 /\ Len(told) = 0 /\ DOMAIN results' = {}
    BY <2>1
  <2> QED BY <1>3, <2>1, <2>2
<1>5. CASE ListingFails \/ RequestBreaks
  <2>1. UNCHANGED <<results, told>> /\ pc' = "answered"
    BY <1>5 DEF ListingFails, RequestBreaks, Answer
  <2> QED BY <1>1, <2>1 DEF TellingInv, TellingHolds, Active, Analysing
<1>6. CASE AnalysisGoesOn
  BY <1>1, <1>6 DEF AnalysisGoesOn, TellingInv, TellingHolds, IssueHolds, Active, Analysing, Now
<1>7. CASE UNCHANGED vars
  BY <1>1, <1>7 DEF vars, TellingInv, TellingHolds, Now
<1>8. ASSUME NEW status, NEW a, IssueFinished(status, a) PROVE TellingInv'
  <2>1. PICK r : /\ r = Result(status, a) /\ results' = Append(results, r)
                 /\ Continue(Len(results) + 1, open) /\ open' = open
    BY <1>8 DEF IssueFinished, FinishIssue
  <2>2. ResultAccounts(r, Now) /\ pc \in Active
    BY <1>1, <1>8, <2>1, FinishedAccounts DEF IssueFinished, TellingInv, Active
  <2>3. /\ Len(results') = Len(results) + 1
        /\ \A n \in DOMAIN results' : n \in 1..Len(results) \/ n = Len(results) + 1
        /\ \A n \in 1..Len(results) : results'[n] = results[n]
        /\ results'[Len(results) + 1] = r
    <3>1. PICK longer : longer = Append(results, r)
      OBVIOUS
    <3>2. /\ Len(longer) = Len(results) + 1
          /\ \A n \in DOMAIN longer : n \in 1..Len(results) \/ n = Len(results) + 1
          /\ \A n \in 1..Len(results) : longer[n] = results[n]
          /\ longer[Len(results) + 1] = r
      BY <1>2, <3>1, ListAppended
    <3> QED BY <2>1, <3>1, <3>2
  <2>4. \A n \in DOMAIN results' : n \in DOMAIN told /\ ResultAccounts(results'[n], told[n])
    <3>1. \A n \in DOMAIN results' : n \in 1..Len(results) \/ n = Len(results) + 1
      BY <2>3
    <3>2. Len(told) = Len(results) + 1
      BY <1>2, <2>2
    <3> QED BY <1>1, <1>2, <2>2, <2>3, <3>1, <3>2 DEF TellingInv, Now
  <2> QED BY <1>2, <1>3, <2>1, <2>2, <2>3, <2>4
<1>9. CASE CallAnswered /\ (SourceAnswers \/ SourceFails)
  <2>1. pc = "step" /\ IssueHolds(issue, Now, pc)
    BY <1>1, <1>9 DEF CallAnswered, TellingInv, TellingHolds, Active
  <2>2. PICK i, calls : i = issue /\ calls = Now
    OBVIOUS
  <2>3. PICK s : s = Steps[i.step]
    OBVIOUS
  <2>10. s = CurrentStep /\ s \in Step /\ IssueHolds(i, calls, "step")
    BY <2>1, <2>2, <2>3, StepsApart DEF CurrentStep, IssueHolds
  <2>4. \/ \E e : Told(e) /\ CanCallAgain(e.failure) /\ UNCHANGED <<pc, issue>>
        \/ \E e, local : Told(e) /\ ~CanCallAgain(e.failure) /\ Takes(local, e) /\ Advance(local)
    BY <1>9, <2>1, CallsAnswered DEF CallAnswered, IssueHolds
  <2>5. Len(told) \in DOMAIN told /\ UNCHANGED results /\ Len(told) \notin DOMAIN results
    BY <1>2, <1>9 DEF CallAnswered, Active
  <2>6. ASSUME NEW e, Told(e)
        PROVE  /\ Now' = [calls EXCEPT ![s] = Append(calls[s], e)]
               /\ \A n \in DOMAIN results : told'[n] = told[n]
    <3>1. told' = [told EXCEPT ![Len(told)] = [calls EXCEPT ![s] = Append(calls[s], e)]]
      BY <2>2, <2>10, <2>6 DEF Told, Now
    <3>2. Len(told') = Len(told)
      <4>1. PICK new : new = [calls EXCEPT ![s] = Append(calls[s], e)]
        OBVIOUS
      <4>2. PICK list : list = [told EXCEPT ![Len(told)] = new]
        OBVIOUS
      <4>3. Len(list) = Len(told)
        BY <1>2, <4>2, ListReplaced
      <4> QED BY <3>1, <4>1, <4>2, <4>3
    <3> QED BY <2>5, <3>1, <3>2 DEF Now
  <2>7. SUFFICES TellingHolds'
    <3>1. \A n \in DOMAIN results : told'[n] = told[n]
      BY <2>4, <2>6
    <3> QED BY <1>1, <2>5, <2>7, <3>1 DEF TellingInv
  <2>8. ASSUME NEW e, Told(e), CanCallAgain(e.failure), UNCHANGED <<pc, issue>> PROVE TellingHolds'
    <3>1. e.failure = Retryable /\ calls[s] = <<>>
      BY <2>2, <2>8, <2>10 DEF CanCallAgain, Calls, Now
    <3>2. PICK new : Heard(calls, s, e, new)
      BY DEF Heard
    <3>3. IssueHolds(i, new, "step")
      BY <2>3, <2>10, <3>1, <3>2, SameStep
    <3>4. issue' = i /\ Now' = new /\ pc' = "step"
      BY <2>1, <2>2, <2>6, <2>8, <3>2 DEF Heard
    <3> QED BY <3>3, <3>4 DEF TellingHolds
  <2>9. ASSUME NEW e, NEW local, Told(e), ~CanCallAgain(e.failure), Takes(local, e), Advance(local)
        PROVE  TellingHolds'
    <3>1. Reply(e) /\ ~(e.failure = Retryable /\ calls[s] = <<>>)
      BY <2>2, <2>9, <2>10 DEF CanCallAgain, Calls, Now, Told, Reply
    <3>2. PICK new : Heard(calls, s, e, new)
      BY DEF Heard
    <3>3. DOMAIN local = IssueFields /\ local.step = i.step /\ Took(i, s, e, local)
      BY <2>2, <2>9, <2>10 DEF Takes
    <3>4. Now' = new
      BY <2>6, <2>9, <3>2 DEF Heard
    <3>5. PICK next : Onwards(local, next)
      BY DEF Onwards
    <3>6. Advanced(local, new, next)
      BY <2>3, <2>10, <3>1, <3>2, <3>3, <3>5, StepOver
    <3>7. CASE local.step = 5 \/ (local.step = 3 /\ local.sha = None)
      <4>1. IssueHolds(local, new, "gate") /\ issue' = local /\ pc' = "gate"
        BY <2>9, <3>6, <3>7 DEF Advance, Advanced
      <4> QED BY <3>4, <4>1 DEF TellingHolds
    <3>8. CASE ~(local.step = 5 \/ (local.step = 3 /\ local.sha = None))
      <4>1. IssueHolds(next, new, "step") /\ issue' = next /\ pc' = "step"
        BY <2>9, <3>5, <3>6, <3>8 DEF Advance, Advanced, Onwards
      <4> QED BY <3>4, <4>1 DEF TellingHolds
    <3> QED BY <3>7, <3>8
  <2> QED BY <2>4, <2>8, <2>9
<1> QED BY <1>1, <1>4, <1>5, <1>6, <1>7, <1>8, <1>9, StepsOfScans

(* It holds throughout.                                                    *)
LEMMA TellingHeld == ScanSpec => []TellingInv
BY LoopHolds, TellingStarts, TellingKept, PTL DEF ScanSpec

(* A result holds what its own issue's calls were answered, whatever the   *)
(* others ran into: no failed step unreported, no evidence dropped, and no *)
(* step called again but where its first failure may pass                  *)
(* (_correlate_issue, _call_step).                                         *)
THEOREM ResultsAccount == ScanSpec => []ResultsAccountForCalls
<1>1. TellingInv => ResultsAccountForCalls
  BY DEF TellingInv, ResultsAccountForCalls
<1> QED BY <1>1, TellingHeld, PTL

-----------------------------------------------------------------------------
(* Lists with gaps, stripped text and facts.                               *)

(* An identifier among the hypotheses names one of them.                   *)
LEMMA HypothesisFound ==
  ASSUME NEW n \in Nat, NEW hypotheses, DOMAIN hypotheses \subseteq 1..n, NEW id,
         id \in Ids(hypotheses)
  PROVE  HypothesisOf(id, hypotheses) \in Elements(hypotheses)
         /\ HypothesisOf(id, hypotheses).id = id
<1> DEFINE Named == {i \in DOMAIN hypotheses : hypotheses[i].id = id}
           Found(i) == /\ hypotheses[i].id = id
                       /\ \A j \in DOMAIN hypotheses : hypotheses[j].id = id => j <= i
<1>1. Named \in SUBSET (1..n) /\ Named # {}
  BY DEF Ids, Elements
<1>2. \E i \in Named : \A j \in Named : j <= i
  <2> HIDE DEF Named
  <2> QED BY <1>1, FirstAndLast
<1>3. \E i \in DOMAIN hypotheses : Found(i)
  BY <1>2
<1>4. HypothesisOf(id, hypotheses) = hypotheses[CHOOSE i \in DOMAIN hypotheses : Found(i)]
  BY DEF HypothesisOf
<1>5. PICK i \in DOMAIN hypotheses :
         Found(i) /\ HypothesisOf(id, hypotheses) = hypotheses[i]
  <2> HIDE DEF Found
  <2> QED BY <1>3, <1>4
<1> QED BY <1>5 DEF Elements

(* What is left of lines without the blank ones at both ends is not empty. *)
LEMMA StrippedLength ==
  ASSUME NEW text, IsList(text), Stripped(text) # <<>>
  PROVE  Len(Stripped(text)) \in Nat /\ Len(Stripped(text)) > 0
<1> DEFINE Kept == {i \in DOMAIN text : text[i] # "blank"}
           First == CHOOSE i \in Kept : \A j \in Kept : i <= j
           Final == CHOOSE i \in Kept : \A j \in Kept : j <= i
           Line(i) == IF i = 1 /\ text[First] = "indented" THEN "flush" ELSE text[First + i - 1]
<1>1. Kept # {} /\ Stripped(text) = [i \in 1..(Final - First + 1) |-> Line(i)]
  BY DEF Stripped
<1>2. Kept \in SUBSET (1..Len(text)) /\ Len(text) \in Nat
  BY ListShape
<1>3. (\E i \in Kept : \A j \in Kept : i <= j) /\ (\E i \in Kept : \A j \in Kept : j <= i)
  <2> HIDE DEF Kept
  <2> QED BY <1>1, <1>2, FirstAndLast
<1>4. First \in Kept /\ Final \in Kept /\ First <= Final
  <2> HIDE DEF Kept
  <2> QED BY <1>3
<1>5. PICK n : n = Final - First + 1
  OBVIOUS
<1>6. n \in Nat /\ n > 0
  <2> HIDE DEF Kept, First, Final
  <2> QED BY <1>2, <1>4, <1>5
<1> HIDE DEF Kept, First, Final, Line
<1>7. [i \in 1..n |-> Line(i)] \in Seq({Line(i) : i \in 1..n})
  BY <1>6
<1>8. PICK s : s = [i \in 1..n |-> Line(i)]
  OBVIOUS
<1>9. Len(s) = n
  BY <1>6, <1>7, <1>8
<1> QED BY <1>1, <1>5, <1>6, <1>8, <1>9

(* A failure's frame is cited only together with the changed file that it  *)
(* matches.                                                                *)
LEMMA FramesMatchFiles ==
  ASSUME NEW evidence, NEW cited, cited \subseteq DerivedFacts(evidence),
         NEW frame \in References(cited), frame.kind = "frame"
  PROVE  \E file \in OfKind("file", References(cited)) : AtPath(frame, file.path)
<1>1. PICK f \in cited : frame \in f.refs
  BY DEF References
<1>2. ASSUME NEW m \in FailedFiles(evidence), {m[1], m[2]} \subseteq f.refs, frame = m[1] \/ frame = m[2]
      PROVE  \E file \in OfKind("file", References(cited)) : AtPath(frame, file.path)
  <2>1. m[1].kind = "file" /\ m[2].kind = "frame" /\ AtPath(m[2], m[1].path)
    BY <1>2 DEF FailedFiles, OfKind
  <2>2. frame = m[2] /\ m[1] \in References(cited)
    BY <1>1, <1>2, <2>1 DEF References
  <2> QED BY <2>1, <2>2 DEF OfKind
<1>3. CASE f \in ChangedFileFacts(evidence)
  BY <1>1, <1>3 DEF ChangedFileFacts, OfKind
<1>4. CASE f \in MatchFacts(evidence)
  <2>1. PICK m \in FailedFiles(evidence) : f.refs = {m[1], m[2]}
    BY <1>4 DEF MatchFacts
  <2> QED BY <1>1, <1>2, <2>1
<1>5. CASE f \in OverlapFacts(evidence)
  <2>1. PICK o \in FailedFiles(evidence) \X OfKind("hunk", evidence) :
           f.refs = {o[1][1], o[1][2], o[2]}
    BY <1>5 DEF OverlapFacts
  <2>2. PICK m, hunk : /\ m \in FailedFiles(evidence) /\ hunk.kind = "hunk"
                      /\ f.refs = {m[1], m[2], hunk}
    BY <2>1 DEF OfKind
  <2> QED BY <1>1, <1>2, <2>2
<1> QED BY <1>1, <1>3, <1>4, <1>5 DEF DerivedFacts

(* Facts are as finite as their evidence.                                  *)
LEMMA FactsAreFinite ==
  ASSUME NEW evidence, IsFiniteSet(evidence)
  PROVE  IsFiniteSet(DerivedFacts(evidence))
<1>1. ASSUME NEW S, IsFiniteSet(S), NEW T, NEW f, f \in [S -> T], \A t \in T : \E x \in S : f[x] = t
      PROVE  IsFiniteSet(T)
  <2>1. f \in Surjection(S, T)
    BY <1>1 DEF Surjection
  <2> QED BY <1>1, <2>1, FS_Surjection
<1>2. \A kind : IsFiniteSet(OfKind(kind, evidence))
  <2>1. \A kind : OfKind(kind, evidence) \in SUBSET evidence
    BY DEF OfKind
  <2> QED BY <2>1, FS_Subset
<1>3. IsFiniteSet(FailedFiles(evidence))
  <2>1. FailedFiles(evidence) \in SUBSET (OfKind("file", evidence) \X OfKind("frame", evidence))
    BY DEF FailedFiles
  <2>2. IsFiniteSet(OfKind("file", evidence) \X OfKind("frame", evidence))
    BY <1>2, FS_Product
  <2> QED BY <2>1, <2>2, FS_Subset
<1>4. IsFiniteSet(ChangedFileFacts(evidence))
  <2> DEFINE f == [file \in OfKind("file", evidence) |->
                     [type |-> "changed_file", path |-> file.path, line |-> None, refs |-> {file}]]
  <2>1. /\ f \in [OfKind("file", evidence) -> ChangedFileFacts(evidence)]
        /\ \A t \in ChangedFileFacts(evidence) : \E x \in OfKind("file", evidence) : f[x] = t
    BY DEF ChangedFileFacts
  <2> HIDE DEF f
  <2> QED BY <1>1, <1>2, <2>1
<1>5. IsFiniteSet(MatchFacts(evidence))
  <2> DEFINE f == [m \in FailedFiles(evidence) |->
                     [type |-> "matches_failure_file", path |-> m[2].path, line |-> None,
                      refs |-> {m[1], m[2]}]]
  <2>1. /\ f \in [FailedFiles(evidence) -> MatchFacts(evidence)]
        /\ \A t \in MatchFacts(evidence) : \E x \in FailedFiles(evidence) : f[x] = t
    BY DEF MatchFacts
  <2> HIDE DEF f
  <2> QED BY <1>1, <1>3, <2>1
<1>6. IsFiniteSet(OverlapFacts(evidence))
  <2> DEFINE Overlaps == {p \in FailedFiles(evidence) \X OfKind("hunk", evidence) :
                            OverlapsFailure(p[1][1], p[1][2], p[2])}
             f == [o \in Overlaps |->
                     [type |-> "hunk_overlaps_failure_line", path |-> o[1][2].path,
                      line |-> o[1][2].line, refs |-> {o[1][1], o[1][2], o[2]}]]
  <2>1. /\ f \in [Overlaps -> OverlapFacts(evidence)]
        /\ \A t \in OverlapFacts(evidence) : \E x \in Overlaps : f[x] = t
    BY DEF OverlapFacts
  <2>2. Overlaps \in SUBSET (FailedFiles(evidence) \X OfKind("hunk", evidence))
    OBVIOUS
  <2>3. IsFiniteSet(FailedFiles(evidence) \X OfKind("hunk", evidence))
    BY <1>2, <1>3, FS_Product
  <2>4. IsFiniteSet(Overlaps)
    <3> HIDE DEF Overlaps
    <3> QED BY <2>2, <2>3, FS_Subset
  <2> HIDE DEF f, Overlaps
  <2> QED BY <1>1, <2>1, <2>4
<1> QED BY <1>4, <1>5, <1>6, FS_Union DEF DerivedFacts

-----------------------------------------------------------------------------
(* What is accepted of the models' proposals.                              *)

\* FindingIsGrounded of a finding whose issue is not finished.
Grounded(f, hypotheses, facts, evidence, findings) ==
  /\ \E h \in Elements(hypotheses) : /\ h.id = f.hypothesis /\ h.facts = f.facts
                                     /\ PathsMatch(h.subject, f.path)
  /\ f.facts \subseteq facts /\ f.evidence \subseteq evidence
  /\ \E file \in OfKind("file", f.evidence), frame \in OfKind("frame", f.evidence) :
       AtPath(frame, file.path) /\ AtPath(frame, f.path)
  /\ \A g \in findings : g.id = f.id => g = f

\* FixFits, likewise, but for there being no other fix of the finding.
Fits(x, findings, facts, evidence) ==
  /\ \E f \in findings :
       /\ f.id = x.finding /\ f.path = x.path /\ f.facts \subseteq x.facts
       /\ f.line # None => x.start <= f.line /\ f.line <= x.end
  /\ x.hunk \in evidence \cap x.evidence /\ PathsMatch(x.hunk.path, x.path)
  /\ x.facts \subseteq facts /\ Cardinality(x.facts) <= MaxFacts
  /\ Len(x.corrected) \in 1..MaxFixLines

(* The validator accepts findings that are grounded.                       *)
LEMMA FindingsAccepted ==
  ASSUME NEW candidates, IsList(candidates), NEW n \in Nat, NEW hypotheses,
         DOMAIN hypotheses \subseteq 1..n, NEW evidence, NEW facts, facts = DerivedFacts(evidence),
         NEW findings, findings = AcceptedFindings(candidates, hypotheses, facts, evidence)
  PROVE  \A f \in findings : Grounded(f, hypotheses, facts, evidence, findings)
<1> DEFINE Taken == {i \in DOMAIN candidates :
                         /\ ~\E j \in 1..(i - 1) : candidates[j].id = candidates[i].id
                         /\ FindingAccepted(candidates[i], hypotheses, facts, evidence)}
<1>1. findings = {ValidatedFinding(candidates[i]) : i \in Taken}
  BY DEF AcceptedFindings
<1>2. SUFFICES ASSUME NEW i \in Taken, NEW f, f = ValidatedFinding(candidates[i])
      PROVE  Grounded(f, hypotheses, facts, evidence, findings)
  BY <1>1
<1>3. PICK c : c = candidates[i]
  OBVIOUS
<1>4. /\ f.id = c.id /\ f.hypothesis = c.hypothesis /\ f.path = c.path
      /\ f.facts = c.facts /\ f.evidence = c.evidence
  BY <1>2, <1>3 DEF ValidatedFinding
<1>5. FindingAccepted(c, hypotheses, facts, evidence)
  BY <1>3
<1>6. PICK h \in Elements(hypotheses) : /\ h.id = c.hypothesis /\ h.facts = c.facts
                                        /\ PathsMatch(c.path, h.subject)
  <2>1. PICK h : h = HypothesisOf(c.hypothesis, hypotheses)
    OBVIOUS
  <2>2. h \in Elements(hypotheses) /\ h.id = c.hypothesis
    BY <1>5, <2>1, HypothesisFound DEF FindingAccepted
  <2>3. PathsMatch(c.path, h.subject) /\ c.facts = h.facts
    BY <1>5, <2>1 DEF FindingAccepted
  <2> QED BY <2>2, <2>3
<1>7. \E file \in OfKind("file", c.evidence), frame \in OfKind("frame", c.evidence) :
        AtPath(frame, file.path) /\ AtPath(frame, c.path)
  <2>1. PICK frame \in OfKind("frame", c.evidence) : AtPath(frame, c.path)
    BY <1>5 DEF FindingAccepted
  <2>2. c.evidence = References(c.facts) /\ c.facts \subseteq DerivedFacts(evidence)
    BY <1>5 DEF FindingAccepted
  <2>3. PICK file \in OfKind("file", References(c.facts)) : AtPath(frame, file.path)
    <3>1. frame \in References(c.facts) /\ frame.kind = "frame"
      BY <2>1, <2>2 DEF OfKind
    <3> QED BY <2>2, <3>1, FramesMatchFiles
  <2> QED BY <2>1, <2>2, <2>3
<1>8. \A g \in findings : g.id = f.id => g = f
  <2>1. SUFFICES ASSUME NEW k \in Taken, ValidatedFinding(candidates[k]).id = f.id PROVE k = i
    BY <1>1, <1>2
  <2>2. candidates[k].id = candidates[i].id
    BY <1>3, <1>4, <2>1 DEF ValidatedFinding
  <2>3. i \in 1..Len(candidates) /\ k \in 1..Len(candidates) /\ Len(candidates) \in Nat
    BY ListShape
  <2>4. i \notin 1..(k - 1) /\ k \notin 1..(i - 1)
    BY <2>2
  <2> QED BY <2>3, <2>4
<1>9. c.facts \subseteq facts /\ c.evidence \subseteq evidence /\ PathsMatch(h.subject, c.path)
  BY <1>5, <1>6 DEF FindingAccepted, PathsMatch
<1> QED BY <1>4, <1>6, <1>7, <1>8, <1>9 DEF Grounded

(* The validator accepts fixes that fit their finding.                     *)
LEMMA FixIsFit ==
  ASSUME NEW findings, NEW finding \in findings, NEW facts, IsFiniteSet(facts), NEW evidence,
         finding.facts \subseteq facts, NEW hunk \in FixHunks(finding, evidence),
         NEW input, input = FixInput(finding, hunk, facts), ~InputIsRefused(input),
         NEW candidate, IsList(candidate.lines), FixAccepted(candidate, input),
         NEW x, x = ProposedFix(candidate, input)
  PROVE  Fits(x, findings, facts, evidence) /\ x.finding = finding.id
<1>1. /\ input.finding = finding /\ input.hunk = hunk /\ input.evidence = finding.evidence \cup {hunk}
      /\ finding.facts \subseteq input.facts /\ input.facts \subseteq facts
  BY DEF FixInput
<1>2. /\ x.finding = candidate.finding /\ x.path = candidate.path /\ x.hunk = hunk
      /\ x.start = hunk.start /\ x.end = HunkEnd(hunk) /\ x.corrected = Stripped(candidate.lines)
      /\ x.facts = input.facts /\ x.evidence = input.evidence
  BY <1>1 DEF ProposedFix
<1>3. candidate.finding = finding.id /\ candidate.path = finding.path
  BY <1>1 DEF FixAccepted
<1>4. Len(x.corrected) \in 1..MaxFixLines
  <2>1. Stripped(candidate.lines) # <<>> /\ Len(Stripped(candidate.lines)) <= MaxFixLines
    BY DEF FixAccepted
  <2>2. Len(Stripped(candidate.lines)) \in Nat /\ Len(Stripped(candidate.lines)) > 0
    BY <2>1, StrippedLength
  <2>3. MaxFixLines \in Nat
    BY BoundsAssumption
  <2> QED BY <1>2, <2>1, <2>2, <2>3
<1>5. Cardinality(x.facts) <= MaxFacts
  <2>1. IsFiniteSet(input.facts)
    BY <1>1, FS_Subset
  <2>2. Cardinality(input.facts) \in Nat /\ MaxFacts \in Nat
    BY <2>1, FS_CardinalityType, BoundsAssumption
  <2>3. ~(Cardinality(input.facts) > MaxFacts)
    BY DEF InputIsRefused
  <2> QED BY <1>2, <2>2, <2>3
<1>6. /\ hunk \in evidence /\ PathsMatch(hunk.path, finding.path)
      /\ finding.line # None => hunk.start <= finding.line /\ finding.line <= HunkEnd(hunk)
  BY DEF FixHunks, OfKind, Covers
<1>7. \E f \in findings :
        /\ f.id = x.finding /\ f.path = x.path /\ f.facts \subseteq x.facts
        /\ f.line # None => x.start <= f.line /\ f.line <= x.end
  BY <1>1, <1>2, <1>3, <1>6
<1> QED BY <1>1, <1>2, <1>3, <1>4, <1>5, <1>6, <1>7 DEF Fits

-----------------------------------------------------------------------------
(* What an analysis holds: proposals of its own issue only.                *)

AnalysisFields == {"facts", "hypotheses", "todo", "findings", "fixes"}

AnalysisHolds(a, evidence, phase) ==
  /\ DOMAIN a = AnalysisFields
  /\ phase \in {"hypothesize", "diagnose", "fix"} => a.facts = DerivedFacts(evidence)
  /\ phase \in {"hypothesize", "diagnose"} => a.fixes = {}
  /\ phase \in {"diagnose", "fix"} => \E n \in Nat : DOMAIN a.hypotheses \subseteq 1..n
  /\ phase = "fix" =>
       /\ a.todo \subseteq a.findings
       /\ \A f \in a.findings : Grounded(f, a.hypotheses, a.facts, evidence, a.findings)
       /\ \A x \in a.fixes : Fits(x, a.findings, a.facts, evidence)
       /\ \A x \in a.fixes : \A f \in a.todo : f.id # x.finding
       /\ \A x, y \in a.fixes : x.finding = y.finding => x = y

Reports(r) ==
  /\ \A f \in r.findings : FindingIsGrounded(f, r)
  /\ \A x \in r.fixes : FixFits(x, r)

GroundInv ==
  /\ IsFiniteSet(issue.evidence)
  /\ AnalysisHolds(analysis, issue.evidence, pc)
  /\ \A n \in DOMAIN results : Reports(results[n])

(* An issue that was not analysed.                                         *)
LEMMA FreshHolds ==
  ASSUME NEW phase \in {"listing", "step", "answered"}
  PROVE  IsFiniteSet(FreshIssue.evidence) /\ AnalysisHolds(FreshAnalysis, FreshIssue.evidence, phase)
<1>1. FreshIssue.evidence = {} /\ DOMAIN FreshAnalysis = AnalysisFields
  BY DEF FreshIssue, FreshAnalysis, AnalysisFields
<1> QED BY <1>1, FS_EmptySet DEF AnalysisHolds

(* Nothing has been found.                                                 *)
LEMMA GroundStarts == ScanInit => GroundInv
BY FreshHolds DEF ScanInit, GroundInv

(* One finding is done with, with at most one fix.                         *)
LEMMA FindingDoneWith ==
  ASSUME NEW a, NEW evidence, AnalysisHolds(a, evidence, "fix"), NEW finding \in a.todo, NEW fixes,
         \A x \in fixes : Fits(x, a.findings, a.facts, evidence) /\ x.finding = finding.id,
         \A x, y \in fixes : x = y, NEW b,
         b = [a EXCEPT !.todo = a.todo \ {finding}, !.fixes = a.fixes \cup fixes]
  PROVE  AnalysisHolds(b, evidence, "fix")
<1>1. /\ DOMAIN b = AnalysisFields /\ b.todo = a.todo \ {finding} /\ b.fixes = a.fixes \cup fixes
      /\ b.facts = a.facts /\ b.hypotheses = a.hypotheses /\ b.findings = a.findings
  BY DEF AnalysisHolds, AnalysisFields
<1>2. /\ a.facts = DerivedFacts(evidence) /\ \E n \in Nat : DOMAIN a.hypotheses \subseteq 1..n
      /\ a.todo \subseteq a.findings
      /\ \A f \in a.findings : Grounded(f, a.hypotheses, a.facts, evidence, a.findings)
      /\ \A x \in a.fixes : Fits(x, a.findings, a.facts, evidence)
      /\ \A x \in a.fixes : \A f \in a.todo : f.id # x.finding
      /\ \A x, y \in a.fixes : x.finding = y.finding => x = y
  BY DEF AnalysisHolds
<1>3. \A x \in b.fixes : Fits(x, b.findings, b.facts, evidence)
  BY <1>1, <1>2
<1>4. \A x \in b.fixes : \A f \in b.todo : f.id # x.finding
  <2>1. \A f \in b.todo : f.id # finding.id
    <3>1. \A f, g \in a.findings : f.id = g.id => f = g
      BY <1>2 DEF Grounded
    <3> QED BY <1>1, <1>2, <3>1
  <2> QED BY <1>1, <1>2, <2>1
<1>5. \A x, y \in b.fixes : x.finding = y.finding => x = y
  BY <1>1, <1>2
<1> QED BY <1>1, <1>2, <1>3, <1>4, <1>5 DEF AnalysisHolds

(* What FixAttempted does is to be done with a finding.                    *)
LEMMA FixAttempts ==
  ASSUME GroundInv, pc = "fix", NEW finding \in analysis.todo, NEW fixes, FixAttempted(finding, fixes),
         \A x \in fixes : Fits(x, analysis.findings, analysis.facts, issue.evidence)
                          /\ x.finding = finding.id,
         \A x, y \in fixes : x = y
  PROVE  GroundInv'
<1>1. PICK b : b = [analysis EXCEPT !.todo = analysis.todo \ {finding},
                                    !.fixes = analysis.fixes \cup fixes]
  OBVIOUS
<1>2. analysis' = b /\ UNCHANGED <<pc, issue, results>>
  BY <1>1 DEF FixAttempted
<1>3. PICK a, evidence : a = analysis /\ evidence = issue.evidence
  OBVIOUS
<1>4. AnalysisHolds(a, evidence, "fix")
  BY <1>3 DEF GroundInv
<1>5. AnalysisHolds(b, evidence, "fix")
  BY <1>1, <1>3, <1>4, FindingDoneWith
<1>6. issue'.evidence = evidence /\ pc' = "fix" /\ issue' = issue
  BY <1>2, <1>3
<1>7. AnalysisHolds(analysis', issue'.evidence, pc')
  BY <1>2, <1>5, <1>6
<1> QED BY <1>2, <1>7 DEF GroundInv

(* A finished issue reports what was analysed.                             *)
LEMMA ResultReports ==
  ASSUME GroundInv, NEW status, NEW a, a = FreshAnalysis \/ (pc = "fix" /\ a = analysis)
  PROVE  Reports(Result(status, a))
<1>1. PICK r : r = Result(status, a)
  OBVIOUS
<1>2. /\ r.evidence = issue.evidence /\ r.facts = DerivedFacts(issue.evidence)
      /\ r.hypotheses = a.hypotheses /\ r.findings = a.findings /\ r.fixes = a.fixes
  BY <1>1 DEF Result
<1>3. CASE a = FreshAnalysis
  BY <1>1, <1>2, <1>3 DEF FreshAnalysis, Reports
<1>4. CASE pc = "fix" /\ a = analysis
  <2>1. /\ r.facts = a.facts
        /\ \A f \in a.findings : Grounded(f, a.hypotheses, a.facts, issue.evidence, a.findings)
        /\ \A x \in a.fixes : Fits(x, a.findings, a.facts, issue.evidence)
        /\ \A x, y \in a.fixes : x.finding = y.finding => x = y
    BY <1>2, <1>4 DEF GroundInv, AnalysisHolds
  <2>2. \A f \in r.findings : FindingIsGrounded(f, r)
    BY <1>2, <2>1 DEF Grounded, FindingIsGrounded
  <2>3. \A x \in r.fixes : FixFits(x, r)
    BY <1>2, <2>1 DEF Fits, FixFits
  <2> QED BY <1>1, <2>2, <2>3 DEF Reports
<1> QED BY <1>3, <1>4

(* Every step keeps findings grounded and fixes fitting.                   *)
LEMMA GroundKept ==
  ASSUME AnswersAreWellFormed
  PROVE  LoopInv /\ TellingInv /\ GroundInv /\ [ScanNext]_vars => GroundInv'
<1>1. SUFFICES ASSUME LoopInv, TellingInv, GroundInv, [ScanNext]_vars PROVE GroundInv'
  OBVIOUS
<1>2. ASSUME NEW n, NEW list, Continue(n, list), \A k \in DOMAIN results' : Reports(results'[k])
      PROVE  GroundInv'
  <2>1. issue' = FreshIssue /\ analysis' = FreshAnalysis /\ pc' \in {"listing", "step", "answered"}
    BY <1>2 DEF Continue, Answer
  <2>2. IsFiniteSet(issue'.evidence) /\ AnalysisHolds(analysis', issue'.evidence, pc')
    BY <2>1, FreshHolds
  <2> QED BY <1>2, <2>2 DEF GroundInv
<1>3. CASE ListIssues
  BY <1>1, <1>2, <1>3 DEF ListIssues, GroundInv
<1>4. CASE ListingFails \/ RequestBreaks
  <2>1. UNCHANGED <<results, issue, analysis>> /\ pc' = "answered"
    BY <1>4 DEF ListingFails, RequestBreaks, Answer
  <2> QED BY <1>1, <2>1 DEF GroundInv, AnalysisHolds
<1>5. CASE UNCHANGED vars
  BY <1>1, <1>5 DEF vars, GroundInv
<1>6. CASE CallAnswered /\ (SourceAnswers \/ SourceFails)
  <2>1. pc = "step" /\ DOMAIN issue = IssueFields
    BY <1>1, <1>6 DEF CallAnswered, TellingInv, TellingHolds, IssueHolds, Active
  <2>2. IsFiniteSet(issue'.evidence)
    <3>1. CASE \E e : UNCHANGED issue
      BY <1>1, <3>1 DEF GroundInv
    <3>2. ASSUME NEW e, NEW local, Takes(local, e), Advance(local) PROVE IsFiniteSet(issue'.evidence)
      <4>1. IsFiniteSet(local.evidence) /\ DOMAIN local = IssueFields
        BY <1>1, <3>2 DEF Takes, StaysFinite, GroundInv
      <4>2. PICK next : next = [local EXCEPT !.step = local.step + 1]
        OBVIOUS
      <4>3. next.evidence = local.evidence
        BY <4>1, <4>2 DEF IssueFields
      <4>4. issue' = local \/ issue' = next
        BY <3>2, <4>2 DEF Advance
      <4> QED BY <4>1, <4>3, <4>4
    <3> QED BY <1>6, <2>1, <3>1, <3>2, CallsAnswered
  <2>3. UNCHANGED <<results, analysis>> /\ pc' \in {"step", "gate"}
    BY <1>6 DEF CallAnswered
  <2> QED BY <1>1, <2>2, <2>3 DEF GroundInv, AnalysisHolds
<1>7. ASSUME NEW status, NEW a, IssueFinished(status, a) PROVE GroundInv'
  <2>1. PICK r : /\ r = Result(status, a) /\ results' = Append(results, r)
                 /\ Continue(Len(results) + 1, open)
    BY <1>7 DEF IssueFinished, FinishIssue
  <2>2. Reports(r)
    BY <1>1, <1>7, <2>1, ResultReports DEF IssueFinished
  <2>3. \A k \in DOMAIN results' : Reports(results'[k])
    <3>1. PICK longer : longer = Append(results, r)
      OBVIOUS
    <3>2. /\ IsList(results) /\ Len(results) \in Nat
          /\ \A k : k \in DOMAIN results <=> k \in 1..Len(results)
      BY <1>1, ListShape DEF LoopInv
    <3>3. /\ \A k \in DOMAIN longer : k \in 1..Len(results) \/ k = Len(results) + 1
          /\ \A k \in 1..Len(results) : longer[k] = results[k]
          /\ longer[Len(results) + 1] = r
      BY <3>1, <3>2, ListAppended
    <3>4. \A k \in DOMAIN longer : Reports(longer[k])
      BY <1>1, <2>2, <3>2, <3>3 DEF GroundInv
    <3> QED BY <2>1, <3>1, <3>4
  <2> QED BY <1>2, <2>1, <2>3
<1>8. ~\E status, b : FinishIssue(status, b) /\ AnalysisGoesOn
  BY DEF FinishIssue, Continue, Answer, Analysing, AnalysisGoesOn
<1>9. ASSUME NEW b, NEW evidence, evidence = issue.evidence, NEW phase, AnalysisHolds(b, evidence, phase),
             analysis' = b, pc' = phase, UNCHANGED <<issue, results>>
      PROVE  GroundInv'
  <2>1. issue'.evidence = evidence
    BY <1>9
  <2>2. AnalysisHolds(analysis', issue'.evidence, pc')
    BY <1>9, <2>1
  <2> QED BY <1>1, <1>9, <2>2 DEF GroundInv
<1>10. CASE AnalysisGoesOn /\ Gate
  <2>1. PICK b, evidence : /\ b = [FreshAnalysis EXCEPT !.facts = DerivedFacts(evidence)]
                           /\ evidence = issue.evidence
    OBVIOUS
  <2>2. pc' = "hypothesize" /\ UNCHANGED <<issue, results>> /\ analysis' = b
    BY <1>8, <1>10, <2>1 DEF Gate
  <2>3. AnalysisHolds(b, evidence, "hypothesize")
    BY <2>1 DEF AnalysisHolds, FreshAnalysis, AnalysisFields
  <2> QED BY <1>9, <2>1, <2>2, <2>3
<1>11. CASE AnalysisGoesOn /\ Hypothesize
  <2>1. PICK candidates, accepted :
           /\ candidates \in HypothesisAnswers(analysis.facts)
           /\ accepted = AcceptedHypotheses(candidates, analysis.facts)
           /\ pc' = "diagnose" /\ analysis' = [analysis EXCEPT !.hypotheses = accepted]
           /\ UNCHANGED <<issue, results>>
    BY <1>8, <1>11 DEF Hypothesize
  <2>2. DOMAIN accepted \subseteq 1..Len(candidates) /\ Len(candidates) \in Nat
    <3>1. IsList(candidates)
      BY <2>1 DEF AnswersAreWellFormed
    <3>2. Len(candidates) \in Nat /\ DOMAIN candidates = 1..Len(candidates)
      BY <3>1, ListShape
    <3>3. DOMAIN accepted \subseteq DOMAIN candidates
      BY <2>1 DEF AcceptedHypotheses
    <3> QED BY <3>2, <3>3
  <2>3. PICK a, b, evidence : /\ a = analysis /\ evidence = issue.evidence
                              /\ b = [a EXCEPT !.hypotheses = accepted]
    OBVIOUS
  <2>4. AnalysisHolds(a, evidence, "hypothesize")
    BY <1>1, <1>11, <2>3 DEF GroundInv, Hypothesize
  <2>5. AnalysisHolds(b, evidence, "diagnose")
    <3>1. /\ DOMAIN b = AnalysisFields /\ b.facts = a.facts /\ b.fixes = a.fixes
          /\ b.hypotheses = accepted
      BY <2>3, <2>4 DEF AnalysisHolds, AnalysisFields
    <3> QED BY <2>2, <2>4, <3>1 DEF AnalysisHolds
  <2> QED BY <1>9, <2>1, <2>3, <2>5
<1>12. CASE AnalysisGoesOn /\ (Diagnose \/ DiagnosisFails)
  <2>1. PICK a, evidence : a = analysis /\ evidence = issue.evidence
    OBVIOUS
  <2>2. AnalysisHolds(a, evidence, "diagnose")
    BY <1>1, <1>12, <2>1 DEF GroundInv, Diagnose, DiagnosisFails
  <2>3. PICK n \in Nat : DOMAIN a.hypotheses \subseteq 1..n
    BY <2>2 DEF AnalysisHolds
  <2>4. a.facts = DerivedFacts(evidence) /\ DOMAIN a = AnalysisFields /\ a.fixes = {}
    BY <2>2 DEF AnalysisHolds
  <2>5. \E findings : /\ Diagnosed(findings)
                      /\ \A f \in findings : Grounded(f, a.hypotheses, a.facts, evidence, findings)
    <3>1. CASE DiagnosisFails
      BY <3>1 DEF DiagnosisFails
    <3>2. CASE Diagnose
      <4>1. PICK candidates, findings :
               /\ candidates \in FindingAnswers(a.hypotheses, a.facts, evidence)
               /\ findings = AcceptedFindings(candidates, a.hypotheses, a.facts, evidence)
               /\ Diagnosed(findings)
        BY <2>1, <3>2 DEF Diagnose
      <4>2. IsList(candidates)
        BY <4>1 DEF AnswersAreWellFormed
      <4>3. \A f \in findings : Grounded(f, a.hypotheses, a.facts, evidence, findings)
        BY <2>3, <2>4, <4>1, <4>2, FindingsAccepted
      <4> QED BY <4>1, <4>3
    <3> QED BY <1>12, <3>1, <3>2
  <2>6. PICK findings : /\ Diagnosed(findings)
                        /\ \A f \in findings : Grounded(f, a.hypotheses, a.facts, evidence, findings)
    BY <2>5
  <2>7. PICK b : b = [a EXCEPT !.findings = findings, !.todo = findings]
    OBVIOUS
  <2>8. /\ DOMAIN b = AnalysisFields /\ b.findings = findings /\ b.todo = findings
        /\ b.facts = a.facts /\ b.fixes = a.fixes /\ b.hypotheses = a.hypotheses
    BY <2>4, <2>7 DEF AnalysisFields
  <2>9. AnalysisHolds(b, evidence, "fix")
    BY <2>3, <2>4, <2>6, <2>8 DEF AnalysisHolds
  <2>10. pc' = "fix" /\ analysis' = b /\ UNCHANGED <<issue, results>>
    BY <2>1, <2>6, <2>7 DEF Diagnosed
  <2> QED BY <1>9, <2>1, <2>9, <2>10
<1>13. CASE NoSourceContext
  <2>1. PICK finding \in analysis.todo : FixAttempted(finding, {})
    BY <1>13 DEF NoSourceContext
  <2> QED BY <1>1, <1>13, <2>1, FixAttempts DEF NoSourceContext
<1>14. CASE FixAnswered
  <2>0. PICK finding \in analysis.todo : \E hunk \in FixHunks(finding, issue.evidence) :
           LET input == FixInput(finding, hunk, analysis.facts)
           IN  /\ ~InputIsRefused(input)
               /\ \/ FixAttempted(finding, {})
                  \/ \E candidate \in FixAnswers(input) :
                       /\ FixAccepted(candidate, input)
                       /\ FixAttempted(finding, {ProposedFix(candidate, input)})
    BY <1>14 DEF FixAnswered, InputOf
  <2>1. PICK hunk, input :
           /\ hunk \in FixHunks(finding, issue.evidence)
           /\ input = FixInput(finding, hunk, analysis.facts) /\ ~InputIsRefused(input)
           /\ \/ FixAttempted(finding, {})
              \/ \E candidate \in FixAnswers(input) :
                   /\ FixAccepted(candidate, input)
                   /\ FixAttempted(finding, {ProposedFix(candidate, input)})
    BY <2>0
  <2>2. CASE FixAttempted(finding, {})
    BY <1>1, <1>14, <2>2, FixAttempts DEF FixAnswered
  <2>3. ASSUME NEW candidate \in FixAnswers(input), FixAccepted(candidate, input), NEW x,
               x = ProposedFix(candidate, input), FixAttempted(finding, {x})
        PROVE  GroundInv'
    <3>1. /\ pc = "fix" /\ finding \in analysis.findings
          /\ analysis.facts = DerivedFacts(issue.evidence) /\ finding.facts \subseteq analysis.facts
      BY <1>1, <1>14 DEF FixAnswered, GroundInv, AnalysisHolds, Grounded
    <3>2. IsFiniteSet(analysis.facts)
      BY <1>1, <3>1, FactsAreFinite DEF GroundInv
    <3>3. IsList(candidate.lines)
      BY DEF AnswersAreWellFormed
    <3>4. Fits(x, analysis.findings, analysis.facts, issue.evidence) /\ x.finding = finding.id
      BY <2>1, <2>3, <3>1, <3>2, <3>3, FixIsFit
    <3> QED BY <1>1, <2>3, <3>1, <3>4, FixAttempts
  <2> QED BY <2>1, <2>2, <2>3
<1> QED BY <1>1, <1>3, <1>4, <1>5, <1>6, <1>7, <1>10, <1>11, <1>12, <1>13, <1>14, StepsOfScans

(* They are so throughout.                                                 *)
LEMMA GroundHolds ==
  ASSUME AnswersAreWellFormed PROVE ScanSpec => []GroundInv
BY LoopHolds, TellingHeld, GroundStarts, GroundKept, PTL DEF ScanSpec

(* A reported finding rests, through a hypothesis of its own result, on     *)
(* facts and evidence of the same issue, among them a changed file and the  *)
(* failure that match each other and the finding's path                    *)
(* (DeterministicCodeFindingValidator).                                    *)
THEOREM FindingsGrounded ==
  ASSUME AnswersAreWellFormed PROVE ScanSpec => []FindingsAreGrounded
<1>1. GroundInv => FindingsAreGrounded
  BY DEF GroundInv, FindingsAreGrounded, Reported, Reports
<1> QED BY <1>1, GroundHolds, PTL

(* A proposed fix is the only one of a finding of its result, replaces a    *)
(* hunk of the finding's file around the finding's line, stays within the  *)
(* limits and cites facts of its issue (FixProposalContextBuilder,         *)
(* DeterministicCodeFixValidator).                                         *)
THEOREM FixesFit ==
  ASSUME AnswersAreWellFormed PROVE ScanSpec => []FixesFitTheirFindings
<1>1. GroundInv => FixesFitTheirFindings
  BY DEF GroundInv, FixesFitTheirFindings, Reported, Reports
<1> QED BY <1>1, GroundHolds, PTL

=============================================================================
