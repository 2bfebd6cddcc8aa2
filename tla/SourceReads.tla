------------------------------ MODULE SourceReads ------------------------------
(***************************************************************************)
(* The investigation's tools over their sources: one call reads a provider  *)
(* in one or several requests, normalises what it got into evidence, and    *)
(* puts the evidence into the case's store (connectors/github_code_http.py, *)
(* sentry_http.py, jira_http.py, tools/adapters.py, evidence_store.py).     *)
(* The listings the correlation scan and the discovery page read from       *)
(* Sentry are here too; they return values and store nothing.               *)
(*                                                                         *)
(* The providers change while they are read.  What they hold is `world`; a  *)
(* commit never changes, a pull request is pushed to, issues come and go,   *)
(* a new event is the latest one.                                          *)
(***************************************************************************)
EXTENDS Integers, Sequences, FiniteSets, FiniteSetsExt, SequencesExt, TLC, PatchParsing

CONSTANTS
  PageSize, MaxPages,    \* PAGE_SIZE and max_file_pages of GitHub's listings
  MaxIssuePages,         \* MAX_ISSUE_PAGES of Sentry's
  CommitPage,            \* files GitHub answers for one commit, without a word of the rest
  Worlds,                \* what the providers may hold at first
  Requests,              \* calls with arguments the tools' models accept
  Responses,             \* answers that are not the one hoped for
  Paths,                 \* files a push may add
  MaxReads, MaxChanges   \* bounds of the model

ASSUME ReadsAssumption ==
  /\ {PageSize, MaxPages, MaxIssuePages, CommitPage} \subseteq Nat \ {0}
  /\ {MaxReads, MaxChanges} \subseteq Nat

(* What the providers list is a sequence of records.  A change lists each   *)
(* path once; a patch is a sequence of lines.                              *)
IsList(list) == list \in Seq(Range(list))
IsListing(files) ==
  /\ IsList(files)
  /\ \A i, j \in DOMAIN files : files[i].path = files[j].path => i = j
  /\ \A i \in DOMAIN files : files[i].patch = None \/ IsPatch(files[i].patch)

ASSUME WorldsAssumption ==
  \A w \in Worlds :
    /\ {"commit", "pull", "issues", "event", "events"} \subseteq DOMAIN w
    /\ {"head", "files"} \subseteq DOMAIN w.pull
    /\ IsListing(w.pull.files) /\ IsListing(w.commit.files) /\ IsList(w.issues)

INSTANCE ProviderErrors

VARIABLES
  world,      \* what the providers hold, and the tools the case asks them with
  read,       \* the call in progress, or None
  store,      \* the evidence store: identifier to content
  conflicts,  \* identifiers of evidence.conflicting_write_dropped events
  last,       \* the last call's end, or None
  reads, changes

vars == <<world, read, store, conflicts, last, reads, changes>>

Tools == {"commit", "commit_diff", "pull", "diff", "incident", "failure_location",
          "deployment", "telemetry", "jira"}
Listings == {"open_issues", "linked_key", "issue_commit"}

Provider(tool) ==
  CASE tool \in {"commit", "commit_diff", "pull", "diff"} -> "github"
    [] tool = "jira" -> "jira"
    [] OTHER -> "sentry"

ErrorOf(tool, r) ==
  CASE Provider(tool) = "github" -> GitHubError(r)
    [] Provider(tool) = "jira" -> JiraError(r)
    [] OTHER -> SentryError(r)

-----------------------------------------------------------------------------
(* The store.  Who puts first stays, and who differs is told.              *)
Item(id, content) == [id |-> id, content |-> content]
Ids(items) == {items[i].id : i \in DOMAIN items}

\* Mutant: the newer evidence takes the place of the older.
PutLastWins(stored, items) ==
  [id \in DOMAIN stored \cup Ids(items) |->
     IF id \in Ids(items)
     THEN items[Min({i \in DOMAIN items : items[i].id = id})].content
     ELSE stored[id]]

Put(stored, items) ==
  [id \in DOMAIN stored \cup Ids(items) |->
     IF id \in DOMAIN stored THEN stored[id]
     ELSE items[Min({i \in DOMAIN items : items[i].id = id})].content]

\* Mutant: the comparison is the wrong way round.
PutsThatAgree(stored, items) ==
  {items[i].id : i \in {j \in DOMAIN items :
     items[j].id \in DOMAIN stored /\ stored[items[j].id] = items[j].content}}

ConflictingPuts(stored, items) ==
  {items[i].id : i \in {j \in DOMAIN items : Put(stored, items)[items[j].id] # items[j].content}}

-----------------------------------------------------------------------------
(* How a call ends.  A tool that observed nothing cannot say so: ToolResult *)
(* wants evidence of an observation, and nothing makes an empty outcome.    *)
End(outcome, code, items) ==
  [tool |-> read.tool, outcome |-> outcome, code |-> code, items |-> items,
   disturbed |-> read.disturbed, listed |-> read.listed]

Finish(end) ==
  /\ last' = end /\ read' = None
  /\ store' = IF end.outcome = "observed" THEN Put(store, end.items) ELSE store
  /\ conflicts' = IF end.outcome = "observed"
                  THEN conflicts \cup ConflictingPuts(store, end.items) ELSE conflicts
  /\ UNCHANGED <<world, reads, changes>>

Fail(error) == Finish(End("failed", FailureCode(error), <<>>))

Observe(items) ==
  Finish(IF items = <<>> THEN End("raised", None, <<>>)
         ELSE End("observed", None, items))

Return(items) == Finish(End("returned", None, items))

Go(next) ==
  /\ read' = [read EXCEPT !.call = next]
  /\ UNCHANGED <<world, store, conflicts, last, reads, changes>>

Calling(call) == read # None /\ read.call = call

-----------------------------------------------------------------------------
(* A call begins with the request that depends on nothing.                 *)
FirstCall ==
  [commit |-> "commit", commit_diff |-> "commit", pull |-> "pull", diff |-> "files",
   incident |-> "issue", failure_location |-> "issue", issue_commit |-> "issue",
   deployment |-> "release", telemetry |-> "stats", jira |-> "jira",
   open_issues |-> "issues", linked_key |-> "integrations"]

(* Rejected before any request: a telemetry signal without a query, a       *)
(* deployment reference without a version or an environment.               *)
Rejected ==
  [telemetry |-> "unsupported_signal", deployment |-> "invalid_deployment_reference"]

Listed(tool) ==
  CASE tool = "diff" -> world.pull.files
    [] tool = "commit_diff" -> world.commit.files
    [] tool = "open_issues" -> world.issues
    [] OTHER -> <<>>

Begin(request) ==
  /\ read = None /\ reads < MaxReads
  /\ reads' = reads + 1
  /\ LET started == [tool |-> request.tool, arg |-> request.arg,
                     call |-> FirstCall[request.tool], page |-> 1, got |-> <<>>,
                     listed |-> Listed(request.tool), disturbed |-> FALSE]
     IN IF request.tool \in DOMAIN Rejected /\ request.arg = None
        THEN /\ last' = [tool |-> request.tool, outcome |-> "failed",
                         code |-> FailureCode(Rejected[request.tool]), items |-> <<>>,
                         disturbed |-> FALSE, listed |-> <<>>]
             /\ UNCHANGED read
        ELSE read' = started /\ UNCHANGED last
  /\ UNCHANGED <<world, store, conflicts, changes>>

(* A request fails.  Only an issue that is not found under the reference is *)
(* looked for once more, under its short identifier.                       *)
RequestFails(r) ==
  /\ read # None
  /\ LET error == ErrorOf(read.tool, r) IN
     /\ error # None
     /\ IF read.call = "issue" /\ error = "not_found" THEN Go("short_id") ELSE Fail(error)

(* ToolInvoker gives query_telemetry thirty seconds.                       *)
ToolTimesOut == Calling("stats") /\ Fail("timeout")

-----------------------------------------------------------------------------
(* GitHub.  A commit holds its message, parents and files; a file holds a   *)
(* status, numbers that agree or not, and a patch or none.                 *)
ChangeTypes == {"added", "modified", "removed", "renamed"}

HunkItems(of, file, hunks) ==
  [i \in DOMAIN hunks |-> Item(of \o <<"hunk", file.path, i>>, hunks[i])]

FileItem(of, file) ==
  Item(of \o <<"file", file.path>>, [status |-> file.status, patched |-> file.patch # None])

(* The first file that cannot be normalised ends the call.                 *)
NormalizeFile(of, state, file) ==
  LET parsed == ParsePatch(file.patch) IN
  IF state.error # None THEN state
  ELSE IF file.status \notin ChangeTypes \/ ~file.sound
       THEN [state EXCEPT !.error = "invalid_response"]
  ELSE IF file.patch = None THEN [state EXCEPT !.items = Append(@, FileItem(of, file))]
  ELSE IF parsed.error # None THEN [state EXCEPT !.error = parsed.error]
  ELSE [state EXCEPT !.items = @ \o <<FileItem(of, file)>> \o HunkItems(of, file, parsed.hunks)]

NormalizeFiles(of, files) ==
  FoldLeft(LAMBDA state, file : NormalizeFile(of, state, file),
           [error |-> None, items |-> <<>>], files)

ObserveFiles(of, files) ==
  LET normalized == NormalizeFiles(of, files) IN
  IF normalized.error # None THEN Fail(normalized.error) ELSE Observe(normalized.items)

(* The commit's other files are on pages nobody asks for.                  *)
AnsweredFiles(commit) == SubSeq(commit.files, 1, Min({CommitPage, Len(commit.files)}))

CommitAnswered ==
  /\ Calling("commit")
  /\ IF world.commit.sha # read.arg THEN Fail("invalid_response")
     ELSE IF read.tool = "commit_diff" THEN ObserveFiles(<<"commit">>, AnsweredFiles(world.commit))
     ELSE IF world.commit.large THEN Fail("incomplete_result")
     ELSE Observe(<<Item(<<"commit">>, world.commit.sha)>>)

PullAnswered ==
  /\ Calling("pull")
  /\ IF world.pull.number # read.arg THEN Fail("invalid_response")
     ELSE Observe(<<Item(<<"pull">>, [head |-> world.pull.head, merged |-> world.pull.merged])>>)

Page(list, size, number) ==
  SubSeq(list, (number - 1) * size + 1, Min({number * size, Len(list)}))

\* Mutant: what was read when the pages ran out is taken for the whole.
FilesAnsweredUpToTheBound ==
  /\ Calling("files")
  /\ LET page == Page(world.pull.files, PageSize, read.page)
         files == read.got \o page
     IN IF Len(page) < PageSize \/ read.page = MaxPages THEN ObserveFiles(<<"pull">>, files)
        ELSE /\ read' = [read EXCEPT !.page = @ + 1, !.got = files]
             /\ UNCHANGED <<world, store, conflicts, last, reads, changes>>

(* _get_paginated_list: a short page is the last one; a listing that fills  *)
(* every page it may is refused, the one it fills exactly included.        *)
FilesAnswered ==
  /\ Calling("files")
  /\ LET page == Page(world.pull.files, PageSize, read.page)
         files == read.got \o page
     IN IF Len(page) < PageSize THEN ObserveFiles(<<"pull">>, files)
        ELSE IF read.page = MaxPages THEN Fail("incomplete_result")
        ELSE /\ read' = [read EXCEPT !.page = @ + 1, !.got = files]
             /\ UNCHANGED <<world, store, conflicts, last, reads, changes>>

-----------------------------------------------------------------------------
(* Sentry.  An issue is found by its identifier or by its short one.       *)
IssueFound ==
  CASE read.tool = "incident" ->
         IF ~world.issue.dated THEN Fail("invalid_response")
         ELSE Observe(<<Item(<<"incident">>, [reference |-> read.arg, status |-> world.issue.status])>>)
    [] read.tool = "failure_location" -> Go("event")
    [] OTHER ->
         LET release == world.issue.release IN
         IF release = None THEN Return(<<None>>)
         ELSE IF release.commit # None
              THEN IF release.commit = "malformed" THEN Fail("invalid_response")
                   ELSE Return(<<release.commit>>)
         ELSE Return(<<IF release.version = "sha" THEN "sha" ELSE None>>)

IssueAnswered == Calling("issue") /\ read.arg = "id" /\ IssueFound
ShortIdAnswered == Calling("short_id") /\ read.arg = "short" /\ IssueFound

(* The innermost frame of the first exception; frames holds which parts     *)
(* each one names.                                                         *)
EventAnswered ==
  /\ Calling("event")
  /\ LET frames == world.event.frames IN
     IF frames = <<>> \/ ("file" \notin Last(frames) /\ ("line" \in Last(frames) \/ ~world.event.typed))
     THEN Fail("invalid_response")
     ELSE Observe(<<Item(<<"failure_location", read.arg, world.event.id>>, Last(frames))>>)

ReleaseAnswered ==
  /\ Calling("release")
  /\ IF world.release.commit = None THEN Fail("release_missing_commit")
     ELSE IF ~world.release.projects THEN Fail("invalid_response")
     ELSE Go("deploys")

DeploysAnswered ==
  /\ Calling("deploys")
  /\ LET matching == SelectSeq(world.release.deploys, LAMBDA d : d.environment = read.arg) IN
     IF Len(matching) # 1 THEN Fail("deploy_not_found")
     ELSE IF matching[1].finished = None \/ world.release.commit = "malformed"
          THEN Fail("invalid_response")
     ELSE Observe(<<Item(<<"deployment", read.arg>>, matching[1].finished)>>)

(* The identifier names the service, the signal and the start of the        *)
(* window; the end and the filters, here one of the argument's parts, not.  *)
StatsAnswered ==
  /\ Calling("stats")
  /\ Observe(<<Item(<<"telemetry">>, [end |-> read.arg, count |-> world.events])>>)

(* Cursor pages.  A link to the next page is followed while it has results; *)
(* one that has no cursor is a KeyError no handler expects.                *)
IssuesAnswered ==
  /\ Calling("issues")
  /\ LET page == Page(world.issues, PageSize, read.page)
         issues == read.got \o page
         more == Len(world.issues) > read.page * PageSize
     IN IF \E i \in DOMAIN page : ~page[i].dated THEN Fail("invalid_response")
        ELSE IF ~more THEN Return(issues)
        ELSE IF ~world.cursors THEN Finish(End("raised", None, <<>>))
        ELSE IF read.page = MaxIssuePages THEN Fail("incomplete_result")
        ELSE /\ read' = [read EXCEPT !.page = @ + 1, !.got = issues]
             /\ UNCHANGED <<world, store, conflicts, last, reads, changes>>

(* The first Jira integration's first issue, if it has one.                *)
IntegrationsAnswered ==
  /\ Calling("integrations")
  /\ LET jira == SelectSeq(world.integrations, LAMBDA i : i.provider = "jira") IN
     IF jira = <<>> \/ jira[1].keys = <<>> THEN Return(<<None>>)
     ELSE IF jira[1].keys[1] = "malformed" THEN Fail("invalid_response")
     ELSE Return(<<jira[1].keys[1]>>)

-----------------------------------------------------------------------------
(* Jira answers for the key it was asked, or for the one the issue now has. *)
JiraAnswered ==
  /\ Calling("jira")
  /\ IF world.ticket.key = "malformed" THEN Fail("invalid_response")
     ELSE Observe(<<Item(<<"jira", world.ticket.key>>, world.ticket.status)>>)

-----------------------------------------------------------------------------
(* The providers change, also between two pages.  A call is disturbed when  *)
(* what it has yet to read moves forward in the listing.                   *)
Change(changed, readers, disturbs) ==
  /\ changes < MaxChanges /\ changes' = changes + 1
  /\ readers \cap world.asked # {}   \* others do not see it
  /\ world' = changed
  /\ read' = IF read # None /\ read.tool \in disturbs
             THEN [read EXCEPT !.disturbed = TRUE] ELSE read
  /\ UNCHANGED <<store, conflicts, last, reads>>

Without(files, path) ==
  LET places == {i \in DOMAIN files : files[i].path = path}
  IN  IF places = {} THEN files ELSE RemoveAt(files, Min(places))

Push ==
  \E path \in Paths, patch \in {None, <<Header(0, 1), Line("addition")>>} :
    Change([world EXCEPT !.pull.head = @ + 1,
              !.pull.files = <<[path |-> path, status |-> "modified", sound |-> TRUE,
                                patch |-> patch]>>
                             \o Without(@, path)], {"pull", "diff"}, {"diff"})

IssueOpens ==
  Change([world EXCEPT !.issues = <<[id |-> changes + 100, dated |-> TRUE]>> \o @], {"open_issues"}, {})
IssueResolves == world.issues # <<>> /\
  Change([world EXCEPT !.issues = Tail(@)], {"open_issues"}, {"open_issues"})
EventArrives ==
  Change([world EXCEPT !.event.id = @ + 1, !.event.frames = <<{"file", "line"}>>, !.events = @ + 1],
         {"failure_location", "telemetry"}, {})

-----------------------------------------------------------------------------
Init ==
  /\ world \in Worlds /\ read = None /\ store = <<>> /\ conflicts = {}
  /\ last = None /\ reads = 0 /\ changes = 0

Next ==
  \/ \E request \in Requests : request.tool \in world.asked /\ Begin(request)
  \/ \E r \in Responses : RequestFails(r)
  \/ ToolTimesOut
  \/ CommitAnswered \/ PullAnswered \/ FilesAnswered
  \/ IssueAnswered \/ ShortIdAnswered \/ EventAnswered
  \/ ReleaseAnswered \/ DeploysAnswered \/ StatsAnswered
  \/ IssuesAnswered \/ IntegrationsAnswered \/ JiraAnswered
  \/ Push \/ IssueOpens \/ IssueResolves \/ EventArrives

Spec == Init /\ [][Next]_vars

-----------------------------------------------------------------------------
(* Properties.                                                             *)
Picked(list, wanted) ==
  FoldLeft(LAMBDA kept, x : IF x \in wanted THEN Append(kept, x) ELSE kept, <<>>, list)
Contents(lines) == Picked(lines, {l \in Range(lines) : l.is \in Content})
Headers(lines) == Picked(lines, {l \in Range(lines) : l.is = "header"})
LinesOf(hunks) == FoldLeft(LAMBDA lines, hunk : lines \o hunk.lines, <<>>, hunks)

HunksOf(items, path) ==
  LET found == Picked(items, {i \in Range(items) : Len(i.id) = 4 /\ i.id[3] = path})
  IN [i \in DOMAIN found |-> found[i].content]

FileIsWhole(items, file) ==
  LET hunks == HunksOf(items, file.path) IN
  /\ \E i \in DOMAIN items :
       /\ Len(items[i].id) = 3 /\ items[i].id[3] = file.path
       /\ items[i].content.patched = (file.patch # None)
  /\ file.patch = None => hunks = <<>>
  /\ file.patch # None =>
       /\ LinesOf(hunks) = Contents(file.patch)
       /\ [i \in DOMAIN hunks |-> hunks[i].header] = Headers(file.patch)
       /\ \A i \in DOMAIN hunks : CountsAgree(hunks[i].header, hunks[i].lines)

(* A call that ends well has read everything: every file of the change with *)
(* every line of its patch, unless the request was pushed to in between or  *)
(* the commit has more files than one answer holds, and every issue that    *)
(* was open when the listing began, unless one was resolved in between.     *)
(* Bounds and unreadable patches end in an error, never in less evidence.   *)
ReadsAreWhole ==
  last # None /\ ~last.disturbed =>
    /\ last.outcome = "observed" /\ last.tool \in {"diff", "commit_diff"} =>
         \/ last.tool = "commit_diff" /\ Len(last.listed) > CommitPage
         \/ /\ \A i \in DOMAIN last.listed : FileIsWhole(last.items, last.listed[i])
            /\ Cardinality({i \in DOMAIN last.items : Len(last.items[i].id) = 3}) = Len(last.listed)
    /\ last.outcome = "returned" /\ last.tool = "open_issues" =>
         Range(last.listed) \subseteq Range(last.items)

(* What a tool reported as observed is in the store as it was read, or the  *)
(* log says that the identifier already stood for something else: a pull    *)
(* request pushed to since, an event's new frame, another telemetry window. *)
NoSilentLoss ==
  last # None /\ last.outcome = "observed" =>
    \A i \in DOMAIN last.items :
      LET item == last.items[i] IN
      /\ item.id \in DOMAIN store
      /\ store[item.id] = item.content \/ item.id \in conflicts

(* Facts and findings cite evidence by its identifier, so what an           *)
(* identifier stands for never changes while the case lives.               *)
EvidenceNeverChanges ==
  [][\A id \in DOMAIN store : id \in DOMAIN store' /\ store'[id] = store[id]]_vars

(* A tool call ends in a ToolResult: observed, empty or failed.            *)
EveryCallIsAnswered == last # None => last.outcome # "raised"
=============================================================================
