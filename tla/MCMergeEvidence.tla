---------------------------- MODULE MCMergeEvidence ----------------------------
(***************************************************************************)
(* Small pull requests for TLC: a ready one, and in turn the parts of it    *)
(* one request reads; and models that claim too little, too much or         *)
(* something else.                                                         *)
(***************************************************************************)
EXTENDS MergeEvidence

Rule(names, count) == [sound |-> TRUE, names |-> names, count |-> count]
Review(user, state) == [user |-> user, state |-> state]
CheckRun(name, status, conclusion) == [name |-> name, status |-> status, conclusion |-> conclusion]
Success(name) == CheckRun(name, "completed", "success")
Failure(name) == CheckRun(name, "completed", "failure")
Status(name, state) == [name |-> name, state |-> state]

Base ==
  [provider |-> "fake", jira |-> TRUE,
   pull |-> [number |-> "asked", open |-> TRUE, merged |-> FALSE, draft |-> FALSE,
             mergeability |-> "mergeable", keys |-> <<None, "K", "L">>, head |-> 1],
   reviews |-> <<Review("ann", "APPROVED")>>,
   rules |-> <<Rule({1}, 0)>>, protection |-> Rule({}, 1),
   runs |-> <<<<Success(1)>>, <<>>>>, statuses |-> <<<<>>, <<>>>>,
   ticket |-> [key |-> "K", status |-> "done", named |-> TRUE, blocked |-> FALSE]]

PullWorlds ==
  {[Base EXCEPT !.pull = [@ EXCEPT !.open = o, !.merged = m, !.draft = d, !.mergeability = g]] :
     o \in BOOLEAN, m \in BOOLEAN, d \in BOOLEAN, g \in {"mergeable", "conflicting", "unknown"}}
    \cup {[Base EXCEPT !.pull.number = "other"], [Base EXCEPT !.pull.keys = <<None, None, None>>],
          [Base EXCEPT !.pull.keys = <<None, None, "L">>]}
Decisions == {Review("ann", s) : s \in Decisive \cup {"COMMENTED"}} \cup {Review("bob", "APPROVED")}
ReviewWorlds ==
  {[Base EXCEPT !.reviews = r, !.protection.count = 1] :
     r \in UNION {[1..n -> Decisions] : n \in 0..1}
           \cup {<<a, b, c>> : a \in {Review("ann", "APPROVED")}, b, c \in Decisions}}
RuleWorlds ==
  {[Base EXCEPT !.rules = r, !.protection = p] :
     r \in {<<>>, <<Rule({}, 2)>>, <<Rule({1, 2}, 0), Rule({}, 1)>>, <<Rule({1}, 0), Rule({2}, 0), Rule({}, 1)>>,
            <<Rule({}, 0), Rule({}, 0), Rule({}, 0), Rule({1}, 3)>>,
            <<[sound |-> FALSE, names |-> {}, count |-> 0]>>},
     p \in {NoProtection, Rule({1}, 1), [sound |-> FALSE, names |-> {}, count |-> 0]}}
CheckWorlds ==
  {[Base EXCEPT !.rules = <<Rule({1, 2}, 0)>>, !.runs[1] = r, !.statuses[1] = s] :
     r \in {<<>>, <<Success(1)>>, <<Failure(1)>>, <<CheckRun(1, "queued", None)>>,
            <<Failure(1), Success(1)>>, <<Success(3), Success(2), Success(1)>>,
            <<Success(3), Success(4), Success(5), Success(1), Success(2)>>},
     s \in {<<>>, <<Status(1, "success")>>, <<Status(1, "failure")>>,
            <<Status(1, "success"), Status(2, "success")>>, <<Status(2, "strange")>>}}
TicketWorlds ==
  {[Base EXCEPT !.ticket = [@ EXCEPT !.key = k, !.status = s, !.named = n], !.jira = j] :
     k \in {"K", "M", "malformed"}, s \in {"to_do", "done"}, n, j \in BOOLEAN}
ModelWorlds ==
  {[w EXCEPT !.provider = p] :
     w \in {Base, [Base EXCEPT !.reviews = <<>>], [Base EXCEPT !.pull.mergeability = "unknown"],
            [Base EXCEPT !.pull.draft = TRUE, !.pull.mergeability = "unknown"],
            [Base EXCEPT !.pull.draft = TRUE, !.reviews = <<>>, !.pull.mergeability = "unknown",
                         !.ticket.status = "to_do"]},
     p \in {"openai", "groq", "gemini"}}

MCWorlds == PullWorlds \cup ReviewWorlds \cup RuleWorlds \cup CheckWorlds \cup TicketWorlds \cup ModelWorlds

MCResponses ==
  {E!TimedOut, E!Http(200, FALSE, FALSE), E!Http(403, TRUE, FALSE)}
    \cup {E!Http(s, FALSE, TRUE) : s \in {403, 404, 422}}

ShortSeq(S) == UNION {[1..n -> S] : n \in 0..2}
Codes == [decision : {"ready", "blocked", "unknown"},
          reasons : ShortSeq({"ready", "evidence_unavailable", "approval_missing"}),
          actions : ShortSeq({"retry_evidence", "get_required_approval"})]
Indexes == [decision : {"ready", "blocked", "unknown"},
            reasons : ShortSeq({0, 1}), actions : ShortSeq({0, 1})]
Claimed ==
  {Raised(e) : e \in DOMAIN ErrorCategory}
    \cup {Responded(r, <<>>) : r \in BOOLEAN}
    \cup {Responded(FALSE, <<c>>) : c \in Codes}
MCOutputs ==
  [fake |-> {Responded(FALSE, <<>>)}, openai |-> Claimed, groq |-> Claimed,
   gemini |-> {Raised("UnknownApiKey"), Responded(TRUE, <<>>)} \cup {Responded(FALSE, <<c>>) : c \in Indexes}]

MCReviews == {Review("ann", "DISMISSED"), Review("bob", "CHANGES_REQUESTED"), Review("bob", "APPROVED")}
MCReports == {Success(1), Failure(1), Success(2), CheckRun(2, "in_progress", None)}
=============================================================================
