---------------------------- MODULE MCSourceReads ----------------------------
(***************************************************************************)
(* Small providers for TLC: a base world and, in turn, the parts of it that *)
(* one tool reads.                                                         *)
(***************************************************************************)
EXTENDS SourceReads

File(path, patch) == [path |-> path, status |-> "modified", sound |-> TRUE, patch |-> patch]

Lines == {Header(0, 1), Header(1, 1), Header(0, 0)}
           \cup {Line(k) : k \in {"context", "addition", "deletion", "long", "no_newline", "other"}}
Added == <<Header(0, 1), Line("addition")>>
Patches == {<<>>} \cup UNION {[1..n -> Lines] : n \in 1..2}
             \cup {<<Header(1, 1), a, b>> : a, b \in Lines}
             \cup {Added \o <<Header(1, 1), a, b>> : a, b \in Lines}
             \cup {Added \o Added \o Added}

Plain(n) == [i \in 1..n |-> File(i, IF i = 2 THEN Added ELSE None)]

Base ==
  [commit |-> [sha |-> "c", large |-> FALSE, files |-> Plain(2)],
   pull |-> [number |-> "7", head |-> 1, merged |-> FALSE, files |-> Plain(1)],
   issue |-> [status |-> "active", dated |-> TRUE, release |-> None],
   event |-> [id |-> 1, typed |-> TRUE, frames |-> <<{"file"}>>],
   release |-> [commit |-> "c", projects |-> TRUE, deploys |-> <<[environment |-> "prod", finished |-> 1]>>],
   events |-> 3,
   issues |-> <<[id |-> 1, dated |-> TRUE]>>, cursors |-> TRUE,
   integrations |-> <<>>,
   ticket |-> [key |-> "K-1", status |-> "done"]]

CommitWorlds ==
  {[Base EXCEPT !.commit.files = Plain(n)] : n \in 0..3}
    \cup {[Base EXCEPT !.commit.large = TRUE], [Base EXCEPT !.commit.sha = "other"],
          [Base EXCEPT !.commit.files = <<[File(1, None) EXCEPT !.sound = FALSE]>>],
          [Base EXCEPT !.commit.files = <<File(1, None), [File(2, Added) EXCEPT !.status = "copied"]>>]}
PatchWorlds == {[Base EXCEPT !.pull.files = <<File(1, patch)>>] : patch \in Patches}
PullWorlds ==
  {[Base EXCEPT !.pull.files = Plain(n)] : n \in 0..5} \cup {[Base EXCEPT !.pull.number = "8"]}
Frames == {<<>>} \cup {<<f>> : f \in SUBSET {"file", "line"}} \cup {<<{"file"}, {"line"}>>}
IssueWorlds ==
  {[Base EXCEPT !.event.frames = f, !.event.typed = t] : f \in Frames, t \in BOOLEAN}
    \cup {[Base EXCEPT !.issue.release = [commit |-> c, version |-> v]] :
            c \in {None, "sha", "malformed"}, v \in {"sha", "1.0"}}
    \cup {[Base EXCEPT !.issue.dated = FALSE]}
Deploys == UNION {[1..n -> [environment : {"prod", "test"}, finished : {None, 1}]] : n \in 0..2}
ReleaseWorlds ==
  {[Base EXCEPT !.release = [commit |-> c, projects |-> p, deploys |-> d]] :
     c \in {None, "c", "malformed"}, p \in BOOLEAN, d \in Deploys}
ListWorlds ==
  {[Base EXCEPT !.issues = [i \in 1..n |-> [id |-> i, dated |-> i # undated]], !.cursors = c] :
     n \in 0..6, undated \in {0, 3}, c \in BOOLEAN}
    \cup {[Base EXCEPT !.integrations = l] :
            l \in {<<[provider |-> "jira", keys |-> k]>> : k \in {<<>>, <<"K-1">>, <<"malformed">>}}
                  \cup {<<[provider |-> "other", keys |-> <<"X">>], [provider |-> "jira", keys |-> <<"K-2">>]>>}}
    \cup {[Base EXCEPT !.ticket.key = "malformed"]}

MCWorlds ==
  {w @@ [asked |-> {"commit", "commit_diff"}] : w \in CommitWorlds}
    \cup {w @@ [asked |-> {"diff"}] : w \in PatchWorlds}
    \cup {w @@ [asked |-> {"pull", "diff"}] : w \in PullWorlds}
    \cup {w @@ [asked |-> {"incident", "failure_location", "issue_commit"}] : w \in IssueWorlds}
    \cup {w @@ [asked |-> {"deployment", "telemetry"}] : w \in ReleaseWorlds}
    \cup {w @@ [asked |-> {"open_issues", "linked_key", "jira"}] : w \in ListWorlds}

Request(tool, arg) == [tool |-> tool, arg |-> arg]
MCRequests ==
  {Request("commit", "c"), Request("commit_diff", "c"), Request("pull", "7"), Request("diff", "7"),
   Request("deployment", "prod"), Request("deployment", None),
   Request("telemetry", "1"), Request("telemetry", "2"), Request("telemetry", None),
   Request("jira", "K-1"), Request("open_issues", "p"), Request("linked_key", "id")}
    \cup {Request(t, ref) : t \in {"incident", "failure_location", "issue_commit"}, ref \in {"id", "short"}}

MCResponses ==
  {TimedOut, Unreachable, Http(200, FALSE, FALSE), Http(403, TRUE, FALSE), Http(302, FALSE, TRUE)}
    \cup {Http(s, FALSE, TRUE) : s \in {401, 403, 404, 422, 429, 503}}

(* A world that shows that an answer without evidence is not answered.      *)
EmptyWorlds ==
  {[Base EXCEPT !.commit.files = <<>>] @@ [asked |-> {"commit_diff"}]}
=============================================================================
