----------------------------- MODULE MergeEvidence -----------------------------
(***************************************************************************)
(* How the facts of a merge-readiness run come about and what is said of    *)
(* them: HttpGitHubConnector reads a pull request in up to six listings     *)
(* (connectors/github_http.py), the Jira issue it links is read             *)
(* (workflows/merge_readiness.py, connectors/jira_http.py), the policy      *)
(* decides, and a language model explains the decision whenever the         *)
(* completed run is returned (explanations/).                              *)
(*                                                                         *)
(* The requests are not one snapshot: reviews, checks, pushes and the issue *)
(* change between them.  A listing that is refused (403, 404) may leave its *)
(* facts unknown; any other error ends the run.                            *)
(***************************************************************************)
EXTENDS MergePolicy

CONSTANTS
  PageSize, MaxPages,   \* PAGE_SIZE and MAX_PAGES
  MaxClaims,            \* findings an explanation's input may list (50)
  Worlds,               \* what GitHub and Jira may hold at first
  Responses,            \* answers that are not the one hoped for
  Outputs,              \* what each provider's model may answer
  Reviews, Reports,     \* reviews and check results that may come in
  MaxChanges            \* bound of the model

(* The states of a review that decide, and what may keep an explanation     *)
(* from a response.                                                        *)
Decisive == {"APPROVED", "CHANGES_REQUESTED", "DISMISSED"}
ResponseErrors == {"raised", "provider_failure", "validation_failed"}

ASSUME EvidenceAssumption ==
  /\ {PageSize, MaxPages, MaxClaims} \subseteq Nat \ {0}
  /\ MaxChanges \in Nat
  /\ None \notin Decisive \cup ResponseErrors

(* What the response models accept.  Names stand for a check's in           *)
(* alphabetical order, heads for commits in the order of the pushes.        *)
PullAnswer ==
  [number : STRING, open : BOOLEAN, merged : BOOLEAN, draft : BOOLEAN,
   mergeability : {"mergeable", "conflicting", "unknown"}, keys : Seq(Key), head : Nat]
ReviewAnswer == [user : STRING, state : STRING]
RuleAnswer == [sound : BOOLEAN, names : SUBSET Int, count : Nat]
RunAnswer == [name : Int, status : STRING, conclusion : STRING \cup {None}]
StatusAnswer == [name : Int, state : STRING]

World ==
  [provider : {"openai", "groq", "gemini", "fake"}, jira : BOOLEAN, pull : PullAnswer,
   reviews : Seq(ReviewAnswer), rules : Seq(RuleAnswer), protection : RuleAnswer,
   runs : Seq(Seq(RunAnswer)), statuses : Seq(Seq(StatusAnswer)), ticket : JiraFacts]

ASSUME WorldsAssumption ==
  /\ Worlds \subseteq World
  /\ \A w \in Worlds :
       /\ w.pull.head \in DOMAIN w.runs /\ DOMAIN w.statuses = DOMAIN w.runs
       /\ \A s \in ToSet(w.rules) \cup {w.protection} : IsFiniteSet(s.names)
  /\ Reviews \subseteq ReviewAnswer /\ Reports \subseteq RunAnswer

INSTANCE ModelOutputs
E == INSTANCE ProviderErrors

VARIABLES
  world,        \* what GitHub and Jira hold
  read,         \* the run's reading in progress, or None
  result,       \* how the run ended, or None
  explanation,  \* what its last response said, or None
  changes

evidenceVars == <<world, read, result, explanation, changes>>

-----------------------------------------------------------------------------
(* The facts, from what each request answered: read.has maps a request to   *)
(* its answer, to None when it was refused.                                *)
Known(has, call) == call \in DOMAIN has /\ has[call] # None

Assign(f, x, v) == [y \in DOMAIN f \cup {x} |-> IF y = x THEN v ELSE f[y]]

(* The latest review of a user that decides something; a dismissal takes    *)
(* the user's earlier decision back.                                       *)

\* Mutant: a dismissal is passed over like a comment.
LatestDecisionsKeepingDismissed(reviews) ==
  FoldLeft(LAMBDA latest, r :
             IF r.state \in Decisive \ {"DISMISSED"} THEN Assign(latest, r.user, r.state) ELSE latest,
           <<>>, reviews)

AfterReview(latest, r) ==
  IF r.state = "DISMISSED" THEN [u \in DOMAIN latest \ {r.user} |-> latest[u]]
  ELSE IF r.state \in Decisive THEN Assign(latest, r.user, r.state)
  ELSE latest

LatestDecisions(reviews) == FoldLeft(AfterReview, <<>>, reviews)

Deciding(reviews, state) ==
  LET latest == LatestDecisions(reviews) IN {u \in DOMAIN latest : latest[u] = state}

(* Rules and protection add up; the highest approval count counts.          *)
Requirements(rules, protection) ==
  LET sources == ToSet(rules) \cup {protection} IN
  [malformed |-> \E s \in sources : ~s.sound,
   names |-> UNION {s.names : s \in sources},
   count |-> Max({0} \cup {s.count : s \in sources})]

RequirementsKnown(has) == Known(has, "rules") /\ Known(has, "protection")
Required(has) == Requirements(has["rules"], has["protection"])

CheckRunStatus(r) ==
  IF r.status # "completed" \/ r.conclusion = None THEN "pending"
  ELSE IF r.conclusion \in {"success", "neutral", "skipped"} THEN "passed" ELSE "failed"

StatusOf ==
  [success |-> "passed", failure |-> "failed", error |-> "failed", pending |-> "pending"]

Rank == [passed |-> 0, pending |-> 1, failed |-> 2]

WorseStatus(current, new) ==
  IF current = None \/ Rank[new] > Rank[current] THEN new ELSE current

(* A later run of a name takes the place of an earlier one, a status only    *)
(* makes it worse.                                                         *)
WithRun(seen, r) == Assign(seen, r.name, CheckRunStatus(r))

WithStatus(seen, s) ==
  Assign(seen, s.name,
         WorseStatus(IF s.name \in DOMAIN seen THEN seen[s.name] ELSE None, StatusOf[s.state]))

Observed(runs, statuses) == FoldLeft(WithStatus, FoldLeft(WithRun, <<>>, runs), statuses)

Listed(has, call) == IF Known(has, call) THEN has[call] ELSE <<>>

InOrder(names) ==
  [i \in 1..Cardinality(names) |->
     CHOOSE name \in names : Cardinality({other \in names : other < name}) = i - 1]

RequiredChecks(has) ==
  LET names == Required(has).names
      seen == Observed(Listed(has, "check_runs"), Listed(has, "statuses"))
      missing == names \ DOMAIN seen
  IN IF ~RequirementsKnown(has) THEN [known |-> FALSE, checks |-> <<>>]
     ELSE IF names = {} THEN [known |-> TRUE, checks |-> <<>>]
     ELSE IF missing # {} /\ ~(Known(has, "check_runs") /\ Known(has, "statuses"))
          THEN [known |-> FALSE, checks |-> <<>>]
     ELSE [known |-> TRUE,
           checks |-> [i \in 1..Cardinality(names) |->
                         LET name == InOrder(names)[i] IN
                         [name |-> name,
                          status |-> IF name \in DOMAIN seen THEN seen[name] ELSE "pending"]]]

(* The first of title, body and branch that holds a key.                    *)
LinkedKey(pull) ==
  LET found == {i \in DOMAIN pull.keys : pull.keys[i] # None} IN
  IF found = {} THEN None ELSE pull.keys[Min(found)]

Facts(has) ==
  LET pull == has["pull"]
      reviews == Listed(has, "reviews")
      required == RequiredChecks(has)
  IN [state |-> IF pull.merged THEN "merged" ELSE IF pull.open THEN "open" ELSE "closed",
      draft |-> pull.draft,
      mergeability |-> pull.mergeability,
      checks |-> required.checks, checksKnown |-> required.known,
      approvals |-> Cardinality(Deciding(reviews, "APPROVED")),
      required |-> IF RequirementsKnown(has) THEN Required(has).count ELSE None,
      reviewsKnown |-> Known(has, "reviews"),
      changesRequested |-> Deciding(reviews, "CHANGES_REQUESTED") # {},
      key |-> LinkedKey(pull)]

-----------------------------------------------------------------------------
(* The reading.                                                            *)
Begin ==
  /\ read = None /\ result = None
  /\ read' = [call |-> "pull", page |-> 1, got |-> <<>>, has |-> <<>>, facts |-> <<>>, seen |-> {world}]
  /\ UNCHANGED <<world, result, explanation, changes>>

End(has, status, error, verdict) ==
  /\ result' = [status |-> status, error |-> error, verdict |-> verdict, has |-> has, seen |-> read.seen]
  /\ read' = None
  /\ UNCHANGED <<world, explanation, changes>>

Fail(error) == End(read.has, "failed", error, None)
Decide(has, github, jira) == End(has, "completed", None, Verdict(github, jira))

Go(call, has) ==
  /\ read' = [read EXCEPT !.call = call, !.has = has, !.page = 1, !.got = <<>>]
  /\ UNCHANGED <<world, result, explanation, changes>>

(* The answers become facts.  A status in a state without a meaning ends    *)
(* the run.                                                                *)
Normalize(has) ==
  LET facts == Facts(has) IN
  IF \E s \in ToSet(Listed(has, "statuses")) : s.state \notin DOMAIN StatusOf
  THEN Fail("invalid_response")
  ELSE IF facts.key = None THEN Decide(has, facts, None)
  ELSE /\ read' = [read EXCEPT !.call = "jira", !.has = has, !.facts = facts]
       /\ UNCHANGED <<world, result, explanation, changes>>

(* The checks are asked for only when something requires them.              *)
AfterRequirements(has) ==
  IF Required(has).malformed THEN Fail("invalid_response")
  ELSE IF Required(has).names = {} THEN Normalize(has)
  ELSE Go("check_runs", has)

Learn(answer) ==
  LET has == Assign(read.has, read.call, answer) IN
  CASE read.call = "pull" -> Go("reviews", has)
    [] read.call = "reviews" -> Go("rules", has)
    [] read.call = "rules" -> IF answer = None THEN Normalize(has) ELSE Go("protection", has)
    [] read.call = "protection" -> IF answer = None THEN Normalize(has) ELSE AfterRequirements(has)
    [] read.call = "check_runs" -> Go("statuses", has)
    [] read.call = "statuses" -> Normalize(has)

Calling(call) == read # None /\ read.call = call

PullAnswered ==
  /\ Calling("pull")
  /\ IF world.pull.number # "asked" THEN Fail("invalid_response") ELSE Learn(world.pull)

Page(list) == SubSeq(list, (read.page - 1) * PageSize + 1, Min({read.page * PageSize, Len(list)}))

NextPage(got) ==
  IF read.page = MaxPages THEN Fail("incomplete_result")
  ELSE /\ read' = [read EXCEPT !.page = @ + 1, !.got = got]
       /\ UNCHANGED <<world, result, explanation, changes>>

(* A plain listing ends with a page that is not full.                       *)
ListAnswered(call, list) ==
  /\ Calling(call)
  /\ LET got == read.got \o Page(list) IN
     IF Len(Page(list)) < PageSize THEN Learn(got) ELSE NextPage(got)

(* One with a total also ends when as many have come.                       *)
CountedListAnswered(call, list) ==
  /\ Calling(call)
  /\ LET got == read.got \o Page(list) IN
     IF Len(got) >= Len(list) \/ Len(Page(list)) < PageSize THEN Learn(got) ELSE NextPage(got)

ReviewsAnswered == ListAnswered("reviews", world.reviews)
RulesAnswered == ListAnswered("rules", world.rules)
ProtectionAnswered == Calling("protection") /\ Learn(world.protection)
CheckRunsAnswered ==
  Calling("check_runs") /\ CountedListAnswered("check_runs", world.runs[read.has["pull"].head])
StatusesAnswered ==
  Calling("statuses") /\ CountedListAnswered("statuses", world.statuses[read.has["pull"].head])

(* A refusal leaves a listing's facts unknown; a protection that is not      *)
(* there, or may not be seen, is none.                                     *)
Listings == {"reviews", "rules", "protection", "check_runs", "statuses"}
NoProtection == [sound |-> TRUE, names |-> {}, count |-> 0]

RequestFails(r) ==
  /\ read # None /\ read.call # "jira"
  /\ LET error == E!GitHubError(r) IN
     /\ error # None
     /\ IF read.call = "protection" /\ error = "not_found" THEN Learn(NoProtection)
        ELSE IF read.call \in Listings /\ error \in {"forbidden", "not_found"} THEN Learn(None)
        ELSE Fail(error)

(* Jira.  No connector leaves its facts missing, an error ends the run.     *)
JiraAnswered ==
  /\ Calling("jira") /\ world.jira
  /\ IF world.ticket.key = "malformed" THEN Fail("invalid_response")
     ELSE Decide(read.has, read.facts, world.ticket)

JiraUnavailable == Calling("jira") /\ ~world.jira /\ Decide(read.has, read.facts, None)

JiraFails(r) ==
  /\ Calling("jira") /\ world.jira
  /\ E!JiraError(r) # None /\ Fail(E!JiraError(r))

-----------------------------------------------------------------------------
(* The explanation.  Its input holds a bounded number of findings and is    *)
(* built outside of every handler.                                         *)
InputFits(verdict) ==
  /\ Len(Blockers(verdict.findings)) <= MaxClaims
  /\ Len(MissingInformation(verdict.findings)) <= MaxClaims
  /\ Len(verdict.findings) <= MaxClaims

Structured(provider, output, verdict) ==
  LET reasons == RequiredReasons(verdict)  actions == RequiredActions(verdict) IN
  CASE provider = "openai" -> OpenAIStructured(output)
    [] provider = "groq" -> GroqStructured(output)
    [] provider = "gemini" -> GeminiStructured(output, reasons, actions)
    [] provider = "fake" ->
         Generated([decision |-> verdict.decision, reasons |-> reasons, actions |-> actions])

Claims(verdict) ==
  [decision |-> verdict.decision, reasons |-> RequiredReasons(verdict),
   actions |-> RequiredActions(verdict)]

(* claimed is what the model said, shown what the response says.            *)
Explained(output, verdict) ==
  LET structured == Structured(world.provider, output, verdict) IN
  IF structured.value = <<>>
  THEN [error |-> "provider_failure", category |-> structured.category, claimed |-> <<>>, shown |-> <<>>]
  ELSE IF Refused(verdict, structured.value[1]) # None
  THEN [error |-> "validation_failed", category |-> None, claimed |-> <<>>, shown |-> <<>>]
  ELSE [error |-> None, category |-> None, claimed |-> structured.value, shown |-> <<Claims(verdict)>>]

(* Every response that returns the completed run asks a model anew.         *)
Explain(output) ==
  /\ result # None /\ result.status = "completed" /\ explanation = None
  /\ explanation' =
       IF ~InputFits(result.verdict)
       THEN [error |-> "raised", category |-> None, claimed |-> <<>>, shown |-> <<>>]
       ELSE Explained(output, result.verdict)
  /\ UNCHANGED <<world, read, result, changes>>

ReturnAgain ==
  /\ explanation # None /\ explanation' = None
  /\ UNCHANGED <<world, read, result, changes>>

-----------------------------------------------------------------------------
(* What happens at GitHub and Jira meanwhile.                              *)
Change(changed) ==
  /\ read # None /\ changes < MaxChanges
  /\ world' = changed /\ changes' = changes + 1
  /\ read' = [read EXCEPT !.seen = @ \cup {changed}]
  /\ UNCHANGED <<result, explanation>>

ReviewComes(review) == Change([world EXCEPT !.reviews = Append(@, review)])

(* A check that has reported changes its run in place; a new one is first.  *)
CheckReports(report) ==
  \E head \in DOMAIN world.runs :
    LET runs == world.runs[head]
        known == {i \in DOMAIN runs : runs[i].name = report.name}
    IN Change([world EXCEPT !.runs[head] =
                 IF known = {} THEN <<report>> \o runs ELSE [runs EXCEPT ![Max(known)] = report]])

Push == world.pull.head + 1 \in DOMAIN world.runs /\ Change([world EXCEPT !.pull.head = @ + 1])
TicketMoves == Change([world EXCEPT !.ticket.status = IF @ = "done" THEN "in_progress" ELSE "done"])

-----------------------------------------------------------------------------
EvidenceInit ==
  /\ world \in Worlds /\ read = None /\ result = None /\ explanation = None /\ changes = 0

EvidenceNext ==
  \/ Begin
  \/ PullAnswered \/ ReviewsAnswered \/ RulesAnswered \/ ProtectionAnswered
  \/ CheckRunsAnswered \/ StatusesAnswered
  \/ JiraAnswered \/ JiraUnavailable
  \/ \E r \in Responses : RequestFails(r) \/ JiraFails(r)
  \/ \E output \in Outputs[world.provider] : Explain(output)
  \/ ReturnAgain
  \/ \E review \in Reviews : ReviewComes(review)
  \/ \E report \in Reports : CheckReports(report)
  \/ Push \/ TicketMoves

EvidenceSpec == EvidenceInit /\ [][EvidenceNext]_evidenceVars

-----------------------------------------------------------------------------
(* Properties.                                                             *)
Hidden(call) == result.has[call] = None
HeadRead == result.has["pull"].head

Names(has) == UNION {s.names : s \in ToSet(has["rules"]) \cup {has["protection"]}}
Counts(has) == {s.count : s \in ToSet(has["rules"]) \cup {has["protection"]}}

(* What a check source said of a name at some moment of the reading.        *)
Said(source, name) ==
  IF source \notin DOMAIN result.has \/ Hidden(source) THEN {}
  ELSE UNION {IF source = "check_runs"
              THEN {CheckRunStatus(r) : r \in {q \in ToSet(w.runs[HeadRead]) : q.name = name}}
              ELSE {StatusOf[s.state] : s \in {q \in ToSet(w.statuses[HeadRead]) : q.name = name}}
              : w \in result.seen}

Silent(source, name) ==
  \/ Hidden(source)
  \/ \E w \in result.seen :
       ~\E r \in ToSet(IF source = "check_runs" THEN w.runs[HeadRead] ELSE w.statuses[HeadRead]) :
         r.name = name

Checkers == {"check_runs", "statuses"}

(* A user's last review that decides, in one state of the world.            *)
Standing(w, user) ==
  LET decisive == {i \in DOMAIN w.reviews : w.reviews[i].user = user /\ w.reviews[i].state \in Decisive}
  IN IF decisive = {} THEN None ELSE w.reviews[Max(decisive)].state

Users(w) == {w.reviews[i].user : i \in DOMAIN w.reviews}
Approvals(w) == Cardinality({u \in Users(w) : Standing(w, u) = "APPROVED"})

Sometime(P(_)) == \E w \in result.seen : P(w)

ReadyIsEarned ==
  /\ ~result.has["pull"].draft /\ result.has["pull"].mergeability = "mergeable"
  /\ result.has["pull"].open \/ result.has["pull"].merged
  /\ \A name \in Names(result.has) :
       /\ \E source \in Checkers : "passed" \in Said(source, name)
       /\ \A source \in Checkers : "passed" \in Said(source, name) \/ Silent(source, name)
  /\ \A count \in Counts(result.has) : Sometime(LAMBDA w : Approvals(w) >= count)
  /\ Sometime(LAMBDA w : \A u \in Users(w) : Standing(w, u) # "CHANGES_REQUESTED")
  /\ world.jira /\ LinkedKey(result.has["pull"]) = world.ticket.key
  /\ Sometime(LAMBDA w : w.ticket.status = "done")

Holds(reason) ==
  CASE reason = "pr_is_draft" -> result.has["pull"].draft
    [] reason = "pr_closed_unmerged" -> ~result.has["pull"].open /\ ~result.has["pull"].merged
    [] reason = "merge_conflict" -> result.has["pull"].mergeability = "conflicting"
    [] reason = "ci_check_failed" ->
         \E name \in Names(result.has), source \in Checkers : "failed" \in Said(source, name)
    [] reason = "ci_check_pending" ->
         \E name \in Names(result.has) :
           \/ \E source \in Checkers : "pending" \in Said(source, name)
           \/ \A source \in Checkers : Silent(source, name) /\ ~Hidden(source)
    [] reason = "approval_missing" ->
         \E count \in Counts(result.has) : Sometime(LAMBDA w : Approvals(w) < count)
    [] reason = "changes_requested" ->
         Sometime(LAMBDA w : \E u \in Users(w) : Standing(w, u) = "CHANGES_REQUESTED")
    [] reason = "jira_link_missing" -> \A k \in ToSet(result.has["pull"].keys) : k = None
    [] reason = "jira_not_complete" -> Sometime(LAMBDA w : w.ticket.status # "done")
    [] reason = "jira_blocker_present" -> Sometime(LAMBDA w : w.ticket.blocked)

(* The decision is supported by what GitHub and Jira held at some moment of *)
(* the reading: ready only if every requirement that could be seen was met, *)
(* blocked only for reasons that held, unknown only if something was        *)
(* refused or undetermined.  Neither a bound on pages, nor a listing that   *)
(* moves, nor a refusal makes a ready or a reason that never was.           *)
DecisionIsSupported ==
  result # None /\ result.status = "completed" =>
    /\ result.verdict.decision = "ready" => ReadyIsEarned
    /\ \A f \in ToSet(Blockers(result.verdict.findings)) : Holds(f.reason)
    /\ result.verdict.decision = "unknown" =>
         \/ \E call \in DOMAIN result.has : Hidden(call)
         \/ result.has["pull"].mergeability = "unknown"
         \/ ~world.jira \/ LinkedKey(result.has["pull"]) # world.ticket.key

(* What a model claims is shown only when it is the policy's own decision,   *)
(* with each reason and action of its findings once and nothing else; and   *)
(* a completed run cannot be returned only when it has too many findings.   *)
ExplanationsAgree ==
  explanation # None =>
    /\ \A i \in DOMAIN explanation.claimed :
         LET claims == explanation.claimed[i]  findings == ToSet(result.verdict.findings) IN
         /\ claims.decision = result.verdict.decision
         /\ ToSet(claims.reasons) =
              IF findings = {} THEN {"ready"} ELSE {f.reason : f \in findings}
         /\ ToSet(claims.actions) = {f.action : f \in findings}
         /\ ToSet(explanation.shown[1].reasons) = ToSet(claims.reasons)
    /\ explanation.error = "raised" => Len(result.verdict.findings) > MaxClaims
=============================================================================
