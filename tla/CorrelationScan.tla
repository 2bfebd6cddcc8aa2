--------------------------- MODULE CorrelationScan ---------------------------
(***************************************************************************)
(* One correlation scan (workflows/correlation_scan.py, served by           *)
(* api/v1/correlation_scan_router.py): the project's open issues, up to a  *)
(* limit, one after the other; for each, five connector calls with one     *)
(* retry and without any step depending on the success of another but for  *)
(* the commit, the facts they support, and, where the facts bear it, a     *)
(* hypothesis, code findings and fixes proposed by models and validated.   *)
(* A scan stores nothing: its state is the request's.                      *)
(***************************************************************************)
EXTENDS CodeEvidence

CONSTANTS
  Listings,      \* what list_open_issues may return: sequences of issues
  MaxIssues,     \* MAX_ISSUES_PER_SCAN
  FileListCap,   \* GITHUB_COMMIT_FILE_LIST_SUSPECTED_CAP
  Frames(_),     \* the failure location Sentry may have of an issue
  Tickets(_),    \* the Jira key linked to an issue, or None
  Shas(_),       \* the commit of its first release, or None
  Commits(_),    \* what GitHub may have of that commit: sets of evidence
  HypothesisAnswers(_),        \* what the models may propose, given the facts,
  FindingAnswers(_, _, _),     \* the hypotheses, the facts and the evidence,
  FixAnswers(_),               \* the input of a fix
  MaxTrouble,    \* bound on failed calls in a scan
  Unexpected     \* whether exceptions nobody raises on purpose occur

ASSUME ScanAssumption ==
  /\ {MaxIssues, FileListCap, MaxTrouble} \subseteq Nat /\ MaxIssues > 0
  /\ Unexpected \in BOOLEAN

ASSUME ListingsAssumption == \A listing \in Listings : listing \in Seq(Elements(listing))

VARIABLES
  pc,        \* the await the request is suspended at
  open,      \* open_issues
  results,   \* results
  issue,     \* the locals of _correlate_issue
  analysis,  \* the locals of _generate_issue_analysis
  response,  \* the HTTP response
  told,      \* history: what each step's calls were answered, per issue
  trouble    \* calls failed so far, at most MaxTrouble

vars == <<pc, open, results, issue, analysis, response, told, trouble>>

Steps == <<"failure_location", "linked_jira_key", "issue_commit_sha",
           "commit_evidence", "commit_changed_file_evidence">>
Step == Elements(Steps)

FreshIssue == [step |-> 1, evidence |-> {}, failures |-> {}, jira |-> None,
               sha |-> None, truncated |-> FALSE]
FreshAnalysis == [facts |-> {}, hypotheses |-> <<>>, todo |-> {}, findings |-> {},
                  fixes |-> {}]
NothingTold == [s \in Step |-> <<>>]

Current == open[Len(results) + 1]

ScanInit ==
  /\ pc = "listing" /\ open = <<>> /\ results = <<>> /\ response = "none"
  /\ issue = FreshIssue /\ analysis = FreshAnalysis /\ told = <<>> /\ trouble = 0

-----------------------------------------------------------------------------
Answer(status) == pc' = "answered" /\ response' = status

(* Mutant of Continue: the evidence of one issue is still there when the   *)
(* next begins.                                                            *)
ContinueWithLeftovers(n, issues) ==
  /\ issue' = [FreshIssue EXCEPT !.evidence = issue.evidence] /\ analysis' = FreshAnalysis
  /\ IF n < Len(issues) /\ n < MaxIssues
       THEN pc' = "step" /\ UNCHANGED response /\ told' = Append(told, NothingTold)
       ELSE Answer("ok") /\ UNCHANGED told

(* The loop over scanned_issues, once n of them have their results.        *)
Continue(n, issues) ==
  /\ issue' = FreshIssue /\ analysis' = FreshAnalysis
  /\ IF n < Len(issues) /\ n < MaxIssues
       THEN pc' = "step" /\ UNCHANGED response /\ told' = Append(told, NothingTold)
       ELSE Answer("ok") /\ UNCHANGED told

ListIssues ==
  /\ pc = "listing"
  /\ \E listing \in Listings : open' = listing /\ Continue(0, listing)
  /\ UNCHANGED <<results, trouble>>

(* The router answers 502 or 503 to a Sentry error; only the listing lets  *)
(* one through.  Anything else is a 500.                                   *)
ListingFails ==
  /\ pc = "listing" /\ trouble < MaxTrouble /\ trouble' = trouble + 1
  /\ Answer("upstream_failed")
  /\ UNCHANGED <<open, results, issue, analysis, told>>

RequestBreaks ==
  /\ pc \in {"listing", "step"} /\ Unexpected
  /\ Answer("error")
  /\ UNCHANGED <<open, results, issue, analysis, told, trouble>>

-----------------------------------------------------------------------------
(* _call_step: the answer to the current call of the current step.         *)
CurrentStep == Steps[issue.step]
Calls == told[Len(told)][CurrentStep]
Tell(failure, value) ==
  told' = [told EXCEPT ![Len(told)][CurrentStep] =
             Append(@, [failure |-> failure, value |-> value])]

(* Without a commit the two GitHub steps are not made.                     *)
Advance(local) ==
  LET over == local.step = 5 \/ (local.step = 3 /\ local.sha = None)
  IN  /\ issue' = IF over THEN local ELSE [local EXCEPT !.step = @ + 1]
      /\ pc' = IF over THEN "gate" ELSE "step"

Collect(evidence) == [issue EXCEPT !.evidence = @ \cup evidence]

StepReturns(step) == pc = "step" /\ CurrentStep = step

FailureLocation ==
  /\ StepReturns("failure_location")
  /\ \E frame \in Frames(Current) : Tell(None, {frame}) /\ Advance(Collect({frame}))

(* No link is an answer as well.                                           *)
LinkedJiraKey ==
  /\ StepReturns("linked_jira_key")
  /\ \E key \in Tickets(Current) : Tell(None, key) /\ Advance([issue EXCEPT !.jira = key])

IssueCommitSha ==
  /\ StepReturns("issue_commit_sha")
  /\ \E sha \in Shas(Current) : Tell(None, sha) /\ Advance([issue EXCEPT !.sha = sha])

CommitEvidence ==
  /\ StepReturns("commit_evidence")
  /\ Tell(None, {Commit(issue.sha)}) /\ Advance(Collect({Commit(issue.sha)}))

CommitChangedFileEvidence ==
  /\ StepReturns("commit_changed_file_evidence")
  /\ \E content \in Commits(issue.sha) :
       /\ Tell(None, content)
       /\ Advance([Collect(content) EXCEPT
                     !.truncated = Cardinality(OfKind("file", content)) = FileListCap])

SourceAnswers ==
  /\ \/ FailureLocation \/ LinkedJiraKey \/ IssueCommitSha
     \/ CommitEvidence \/ CommitChangedFileEvidence
  /\ UNCHANGED <<open, results, analysis, response, trouble>>

(* Rate limits, timeouts and unavailable providers are tried once more.    *)
Retryable == "retryable"
Permanent == "permanent"
ASSUME NoneAssumption == None \notin {Retryable, Permanent}

CanCallAgain(failure) == failure = Retryable /\ Calls = <<>>

(* Its mutant: a failure the step reports on is raised to the router.      *)
SourceFailsTheScan ==
  /\ pc = "step" /\ trouble < MaxTrouble /\ trouble' = trouble + 1
  /\ \E failure \in {Retryable, Permanent} :
       /\ Tell(failure, None)
       /\ IF CanCallAgain(failure)
            THEN UNCHANGED <<pc, issue, response>>
            ELSE Answer("upstream_failed") /\ UNCHANGED issue
  /\ UNCHANGED <<open, results, analysis>>

SourceFails ==
  /\ pc = "step" /\ trouble < MaxTrouble /\ trouble' = trouble + 1
  /\ \E failure \in {Retryable, Permanent} :
       /\ Tell(failure, None)
       /\ IF CanCallAgain(failure)
            THEN UNCHANGED <<pc, issue>>
            ELSE Advance([issue EXCEPT !.failures = @ \cup {CurrentStep}])
  /\ UNCHANGED <<open, results, analysis, response>>

-----------------------------------------------------------------------------
CorrelationStatus ==
  IF issue.failures = {} THEN "ok" ELSE IF issue.evidence # {} THEN "partial" ELSE "failed"

(* The IssueCorrelationResult; the presentation is GroundingStrength.      *)
Result(status, a) ==
  [issue |-> Current, jira |-> issue.jira, sha |-> issue.sha,
   evidence |-> issue.evidence, facts |-> DerivedFacts(issue.evidence),
   failures |-> issue.failures, status |-> CorrelationStatus,
   truncated |-> issue.truncated,
   strength |-> GroundingStrength(DerivedFacts(issue.evidence)),
   analysis |-> status, hypotheses |-> a.hypotheses, findings |-> a.findings,
   fixes |-> a.fixes]

FinishIssue(status, a) ==
  /\ results' = Append(results, Result(status, a))
  /\ Continue(Len(results) + 1, open)
  /\ UNCHANGED <<open, trouble>>

(* _has_hypothesis_worthy_facts: without such a fact no model is asked.    *)
HypothesisWorthy(facts) == \E f \in facts : FailureFact(f)

Gate ==
  /\ pc = "gate"
  /\ LET facts == DerivedFacts(issue.evidence)
     IN  IF HypothesisWorthy(facts)
         THEN /\ pc' = "hypothesize" /\ analysis' = [FreshAnalysis EXCEPT !.facts = facts]
              /\ UNCHANGED <<open, results, issue, response, told, trouble>>
         ELSE FinishIssue("insufficient_evidence", FreshAnalysis)

Hypothesize ==
  /\ pc = "hypothesize"
  /\ \E candidates \in HypothesisAnswers(analysis.facts) :
       LET accepted == AcceptedHypotheses(candidates, analysis.facts)
       IN  IF DOMAIN accepted = {}
           THEN FinishIssue("no_validated_hypothesis", FreshAnalysis)
           ELSE /\ pc' = "diagnose" /\ analysis' = [analysis EXCEPT !.hypotheses = accepted]
                /\ UNCHANGED <<open, results, issue, response, told, trouble>>

HypothesisFails ==
  /\ pc = "hypothesize" /\ FinishIssue("hypothesis_generation_failed", FreshAnalysis)

(* A diagnosis that cannot be had leaves the hypotheses without findings.  *)
Diagnosed(findings) ==
  /\ pc' = "fix"
  /\ analysis' = [analysis EXCEPT !.findings = findings, !.todo = findings]
  /\ UNCHANGED <<open, results, issue, response, told, trouble>>

Diagnose ==
  /\ pc = "diagnose"
  /\ \E candidates \in FindingAnswers(analysis.hypotheses, analysis.facts, issue.evidence) :
       Diagnosed(AcceptedFindings(candidates, analysis.hypotheses, analysis.facts,
                                  issue.evidence))

DiagnosisFails == pc = "diagnose" /\ Diagnosed({})

-----------------------------------------------------------------------------
(* The loop over the validated findings.                                   *)
(* Its mutant: the loop does not move on without a fix.                    *)
FixRetried(finding, fixes) ==
  /\ analysis' = [analysis EXCEPT !.todo = IF fixes = {} THEN @ ELSE @ \ {finding},
                                  !.fixes = @ \cup fixes]
  /\ UNCHANGED <<pc, open, results, issue, response, told, trouble>>

FixAttempted(finding, fixes) ==
  /\ analysis' = [analysis EXCEPT !.todo = @ \ {finding}, !.fixes = @ \cup fixes]
  /\ UNCHANGED <<pc, open, results, issue, response, told, trouble>>

NoSourceContext ==
  /\ pc = "fix"
  /\ \E finding \in analysis.todo :
       LET hunks == FixHunks(finding, issue.evidence)
       IN  /\ hunks = {} \/ \E hunk \in hunks : TooLong(hunk)
           /\ FixAttempted(finding, {})

InputOf(finding, hunk) == FixInput(finding, hunk, analysis.facts)

(* The provider fails, finds no safe fix, or proposes one that is accepted *)
(* or not.                                                                 *)
FixAnswered ==
  /\ pc = "fix"
  /\ \E finding \in analysis.todo : \E hunk \in FixHunks(finding, issue.evidence) :
       LET input == InputOf(finding, hunk)
       IN  /\ ~TooLong(hunk) /\ ~InputIsRefused(input)
           /\ \/ FixAttempted(finding, {})
              \/ \E candidate \in FixAnswers(input) :
                   /\ FixAccepted(candidate, input)
                   /\ FixAttempted(finding, {ProposedFix(candidate, input)})

(* _run_issue_analysis: any other exception ends the analysis, and what was *)
(* accepted so far goes with it.                                           *)
AnalysisError == FinishIssue("analysis_error", FreshAnalysis)

FixInputRefused ==
  /\ pc = "fix"
  /\ \E finding \in analysis.todo : \E hunk \in FixHunks(finding, issue.evidence) :
       ~TooLong(hunk) /\ InputIsRefused(InputOf(finding, hunk))
  /\ AnalysisError

AnalysisBreaks == pc \in {"hypothesize", "diagnose", "fix"} /\ Unexpected /\ AnalysisError

FinishAnalysis ==
  /\ pc = "fix" /\ analysis.todo = {}
  /\ FinishIssue(IF analysis.findings # {} THEN "completed" ELSE "code_finding_unavailable",
                 analysis)

-----------------------------------------------------------------------------
ScanGoesOn ==
  \/ ListIssues \/ ListingFails \/ SourceAnswers \/ SourceFails
  \/ Gate \/ Hypothesize \/ HypothesisFails \/ Diagnose \/ DiagnosisFails
  \/ NoSourceContext \/ FixAnswered \/ FixInputRefused \/ FinishAnalysis

ScanNext == ScanGoesOn \/ RequestBreaks \/ AnalysisBreaks

ScanSpec == ScanInit /\ [][ScanNext]_vars

(* Every call returns or times out, so the request goes on; nothing says   *)
(* that an unexpected exception will come.                                 *)
FairScan == ScanSpec /\ WF_vars(ScanGoesOn)

-----------------------------------------------------------------------------
Last(calls) == calls[Len(calls)]
Failed(calls) == calls # <<>> /\ Last(calls).failure # None
Succeeded(calls) == calls # <<>> /\ Last(calls).failure = None

Reported == {results[n] : n \in DOMAIN results}

(* A result holds what this issue's own calls were answered, whatever the  *)
(* others ran into: every failed step is reported, no evidence collected   *)
(* before or after it is dropped, and a missing ticket or commit without a *)
(* reported failure is one that does not exist (ADR-037's reading of       *)
(* jira_ticket = None).  A step was called again, once, exactly where its  *)
(* first failure may pass, also if the second one fails in another way.    *)
ResultAccounts(r, calls) ==
  LET OfCommit == {"commit_evidence", "commit_changed_file_evidence"}
      collected == {s \in OfCommit \cup {"failure_location"} : Succeeded(calls[s])}
      Value(s) == IF Succeeded(calls[s]) THEN Last(calls[s]).value ELSE None
  IN  /\ r.failures = {s \in Step : Failed(calls[s])}
      /\ r.evidence = UNION {Last(calls[s]).value : s \in collected}
      /\ r.jira = Value("linked_jira_key") /\ r.sha = Value("issue_commit_sha")
      /\ \A s \in Step :
           /\ (calls[s] = <<>>) <=> (r.sha = None /\ s \in OfCommit)
           /\ Len(calls[s]) <= 2
           /\ calls[s] # <<>> => (Len(calls[s]) = 2 <=> calls[s][1].failure = Retryable)
      /\ r.status = "failed" => r.facts = {}

ResultsAccountForCalls ==
  \A n \in DOMAIN results : ResultAccounts(results[n], told[n])

(* Once the issues are listed no connector's and no model's failure loses  *)
(* the scan: the answer has one result for each issue up to the limit, in  *)
(* the listing's order, unless the request broke.                          *)
ScanSurvivesItsIssues ==
  pc = "answered" /\ open # <<>> =>
    \/ response = "error"
    \/ /\ response = "ok"
       /\ Len(results) = (IF Len(open) <= MaxIssues THEN Len(open) ELSE MaxIssues)
       /\ \A n \in DOMAIN results : results[n].issue = open[n]

(* What is reported as a finding rests, through a hypothesis of the same   *)
(* result, on facts and evidence of the same issue, among them a changed   *)
(* file and the failure that match each other, not only the finding's path: *)
(* suffix matching is not transitive, so the validators' checks of each    *)
(* against the finding do not say so.                                      *)
FindingIsGrounded(f, r) ==
  /\ \E h \in Elements(r.hypotheses) : /\ h.id = f.hypothesis /\ h.facts = f.facts
                                       /\ PathsMatch(h.subject, f.path)
  /\ f.facts \subseteq r.facts /\ f.evidence \subseteq r.evidence
  /\ \E file \in OfKind("file", f.evidence), frame \in OfKind("frame", f.evidence) :
       AtPath(frame, file.path) /\ AtPath(frame, f.path)
  /\ \A g \in r.findings : g.id = f.id => g = f

FindingsAreGrounded ==
  \A r \in Reported : \A f \in r.findings : FindingIsGrounded(f, r)

(* A fix belongs to one finding of the same result, replaces a hunk of the *)
(* finding's file among the issue's evidence, around the finding's line if *)
(* it has one, stays within the limits, and cites facts of that issue.     *)
FixFits(x, r) ==
  /\ \E f \in r.findings :
       /\ f.id = x.finding /\ f.path = x.path /\ f.facts \subseteq x.facts
       /\ f.line # None => x.start <= f.line /\ f.line <= x.end
  /\ x.hunk \in r.evidence \cap x.evidence /\ PathsMatch(x.hunk.path, x.path)
  /\ x.facts \subseteq r.facts /\ Cardinality(x.facts) <= MaxFacts
  /\ Len(x.corrected) \in 1..MaxFixLines
  /\ \A y \in r.fixes : y.finding = x.finding => y = x

FixesFitTheirFindings == \A r \in Reported : \A x \in r.fixes : FixFits(x, r)

(* Whatever its calls are answered, and without an unexpected exception to  *)
(* end it, the request ends.                                               *)
ScanEnds == <>(pc = "answered")

=============================================================================
