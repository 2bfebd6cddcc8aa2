------------------------------ MODULE MergePolicy ------------------------------
(***************************************************************************)
(* The merge-readiness policy (policy/evaluator.py) over the normalised     *)
(* facts of a pull request and of the Jira issue it links, and what an      *)
(* explanation of its result may say (explanations/validator.py).           *)
(*                                                                         *)
(* github is None or one of GitHubFacts, jira None or one of JiraFacts.     *)
(* Messages are left out.                                                  *)
(***************************************************************************)
EXTENDS Integers, Sequences, FiniteSets, FiniteSetsExt, SequencesExt

CONSTANT None

CheckStatus == {"passed", "pending", "failed"}
Check == [name : Int, status : CheckStatus]
Key == STRING \cup {None}
GitHubFacts ==
  [state : {"open", "closed", "merged"}, draft : BOOLEAN,
   mergeability : {"mergeable", "conflicting", "unknown"}, checks : Seq(Check),
   checksKnown : BOOLEAN, approvals : Nat, required : Nat \cup {None}, reviewsKnown : BOOLEAN,
   changesRequested : BOOLEAN, key : Key]
JiraStatus == {"to_do", "in_progress", "done"}
JiraFacts == [key : STRING, status : JiraStatus, named : BOOLEAN, blocked : BOOLEAN]

Refusals ==
  {"decision_mismatch", "duplicate_reason", "duplicate_action", "contradictory_claim",
   "unknown_missing_evidence", "unsupported_reason", "missing_required_reason",
   "unsupported_action", "missing_required_action"}

(* None stands for Python's None, which is no fact, status or refusal.     *)
ASSUME NoneAssumption == None \notin Nat \cup GitHubFacts \cup JiraFacts \cup CheckStatus \cup Refusals

(* A finding is kept with the action it asks for; blocking tells the two    *)
(* lists of the result apart.                                              *)
If(condition, finding) == IF condition THEN <<finding>> ELSE <<>>
Cite(fields, index) == {<<field, index>> : field \in fields}

Blocker(reason, fields, action) ==
  [blocking |-> TRUE, reason |-> reason, cites |-> Cite(fields, 0), action |-> action]
Missing(fields) ==
  [blocking |-> FALSE, reason |-> "evidence_unavailable", cites |-> Cite(fields, 0),
   action |-> "retry_evidence"]

-----------------------------------------------------------------------------
(* Every fact the policy looks at is recorded as a reference findings cite: *)
(* its field and, for a check, the check's place.                          *)
OfCheck(i) == Cite({"check.name", "check.status"}, i)

GitHubReferences(github) ==
  Cite({"state", "is_draft", "mergeability", "approvals.count", "required_approval_count",
        "reviews_known", "changes_requested", "linked_jira_key", "required_checks_known"}, 0)
    \cup UNION {OfCheck(i) : i \in DOMAIN github.checks}

JiraReferences(github, jira) ==
  Cite({"issue_key"} \cup
         IF jira.key # github.key THEN {}
         ELSE {"status_category", "blocker_state"} \cup IF jira.named THEN {"status_name"} ELSE {}, 0)

References(github, jira) ==
  IF github = None THEN {}
  ELSE GitHubReferences(github)
         \cup IF github.key = None \/ jira = None THEN {} ELSE JiraReferences(github, jira)

-----------------------------------------------------------------------------
PullFindings(github) ==
  If(github.draft, Blocker("pr_is_draft", {"is_draft"}, "mark_pr_ready"))
    \o If(github.state = "closed", Blocker("pr_closed_unmerged", {"state"}, "reopen_pr"))
    \o If(github.mergeability = "conflicting",
          Blocker("merge_conflict", {"mergeability"}, "resolve_merge_conflict"))
    \o If(github.mergeability = "unknown", Missing({"mergeability"}))

(* Failed checks before pending ones, each in the order of the checks.     *)
ChecksThatAre(checks, status, reason, action) ==
  FlattenSeq([i \in DOMAIN checks |->
    If(checks[i].status = status, [Blocker(reason, {}, action) EXCEPT !.cites = OfCheck(i)])])

CheckFindings(github) ==
  IF ~github.checksKnown THEN <<Missing({"required_checks_known"})>>
  ELSE ChecksThatAre(github.checks, "failed", "ci_check_failed", "fix_ci_check")
         \o ChecksThatAre(github.checks, "pending", "ci_check_pending", "wait_for_ci_check")

ReviewFindings(github) ==
  (IF ~github.reviewsKnown THEN <<Missing({"reviews_known"})>>
   ELSE IF github.required = None THEN <<Missing({"required_approval_count"})>>
   ELSE If(github.approvals < github.required,
           Blocker("approval_missing", {"approvals.count", "required_approval_count"},
                   "get_required_approval")))
    \o If(github.reviewsKnown /\ github.changesRequested,
          Blocker("changes_requested", {"changes_requested"}, "address_requested_changes"))

JiraFindings(github, jira) ==
  IF github.key = None
  THEN <<Blocker("jira_link_missing", {"linked_jira_key"}, "link_jira_issue")>>
  ELSE IF jira = None THEN <<Missing({})>>
  ELSE IF jira.key # github.key THEN <<Missing({"linked_jira_key", "issue_key"})>>
  ELSE If(jira.status # "done",
          Blocker("jira_not_complete", {"issue_key", "status_category"}, "complete_jira_issue"))
         \o If(jira.blocked,
               Blocker("jira_blocker_present", {"issue_key", "blocker_state"}, "clear_jira_blocker"))

Findings(github, jira) ==
  IF github = None THEN <<Missing({})>> \o If(jira = None, Missing({}))
  ELSE PullFindings(github) \o CheckFindings(github) \o ReviewFindings(github)
         \o JiraFindings(github, jira)

(* The two lists of the result that findings are appended to.              *)
Blockers(findings) ==
  FoldLeft(LAMBDA list, f : IF f.blocking THEN Append(list, f) ELSE list, <<>>, findings)
MissingInformation(findings) ==
  FoldLeft(LAMBDA list, f : IF f.blocking THEN list ELSE Append(list, f), <<>>, findings)

(* A verified blocker comes before missing evidence, missing evidence       *)
(* before ready.                                                           *)
Verdict(github, jira) ==
  LET findings == Findings(github, jira)
      blockers == Blockers(findings)
  IN [findings |-> findings, references |-> References(github, jira),
      decision |-> IF blockers # <<>> THEN "blocked"
                   ELSE IF findings # <<>> THEN "unknown" ELSE "ready",
      reason |-> IF blockers # <<>> THEN blockers[1].reason
                 ELSE IF findings # <<>> THEN "evidence_unavailable" ELSE "ready"]

-----------------------------------------------------------------------------
(* What an explanation has to claim, and which ones it may not.            *)
Distinct(codes) == FoldLeft(LAMBDA kept, c : IF Contains(kept, c) THEN kept ELSE Append(kept, c), <<>>, codes)

RequiredReasons(verdict) ==
  LET all == Blockers(verdict.findings) \o MissingInformation(verdict.findings) IN
  IF all = <<>> THEN <<verdict.reason>> ELSE Distinct([i \in DOMAIN all |-> all[i].reason])

RequiredActions(verdict) ==
  Distinct([i \in DOMAIN verdict.findings |-> verdict.findings[i].action])

Repeats(codes) == Cardinality(ToSet(codes)) # Len(codes)

\* Mutant: a claim that is left out goes unnoticed.
RefusedUnlessContradictory(verdict, claims) ==
  LET reasons == ToSet(claims.reasons)  actions == ToSet(claims.actions) IN
  CASE claims.decision # verdict.decision -> "decision_mismatch"
    [] Repeats(claims.reasons) -> "duplicate_reason"
    [] Repeats(claims.actions) -> "duplicate_action"
    [] reasons \ ToSet(RequiredReasons(verdict)) # {} -> "unsupported_reason"
    [] actions \ ToSet(RequiredActions(verdict)) # {} -> "unsupported_action"
    [] OTHER -> None

Refused(verdict, claims) ==
  LET reasons == ToSet(claims.reasons)
      actions == ToSet(claims.actions)
      required == ToSet(RequiredReasons(verdict))
      wanted == ToSet(RequiredActions(verdict))
  IN CASE claims.decision # verdict.decision -> "decision_mismatch"
       [] Repeats(claims.reasons) -> "duplicate_reason"
       [] Repeats(claims.actions) -> "duplicate_action"
       [] verdict.decision = "ready" /\ (reasons # {"ready"} \/ actions # {}) -> "contradictory_claim"
       [] verdict.decision # "ready" /\ "ready" \in reasons -> "contradictory_claim"
       [] verdict.decision = "unknown" /\ "evidence_unavailable" \notin reasons ->
            "unknown_missing_evidence"
       [] reasons \ required # {} -> "unsupported_reason"
       [] required \ reasons # {} -> "missing_required_reason"
       [] actions \ wanted # {} -> "unsupported_action"
       [] wanted \ actions # {} -> "missing_required_action"
       [] OTHER -> None
=============================================================================
