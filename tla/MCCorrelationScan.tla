-------------------------- MODULE MCCorrelationScan --------------------------
(***************************************************************************)
(* Small instances of CorrelationScan for TLC.  Two issues: a rich one,    *)
(* whose commit may touch two files that both end the failure's path, and a *)
(* plain one after it.                                                     *)
(***************************************************************************)
EXTENDS CorrelationScan

CONSTANTS rich, plain, third

Service == <<"srv", "app", "pay">>
App == <<"app", "pay">>
Library == <<"lib", "db">>
Deployed == <<"opt", "srv", "app", "pay">>

MCListings == {<<>>, <<plain>>, <<rich, plain, third>>}

MCFrames(i) ==
  IF i = rich THEN {Frame(Deployed, 2), Frame(Deployed, None), Frame(Library, 1)}
  ELSE {Frame(None, None)}

MCTickets(i) == IF i = rich THEN {i} ELSE {None}
MCShas(i) == IF i = rich THEN {i} ELSE {None}

(* A hunk over the failing line, one elsewhere, one that is too long to fix *)
(* and one of blank lines.                                                 *)
OverLine(i) == Hunk(i, Service, 1, <<"indented", "flush">>)
Elsewhere(i) == Hunk(i, App, 7, <<"flush", "flush">>)
LongHunk(i) == Hunk(i, Service, 2, <<"flush", "flush", "flush", "flush", "flush">>)
BlankHunk(i) == Hunk(i, Library, 4, <<"blank">>)

MCCommits(i) ==
  IF i = rich
  THEN {{ChangedFile(i, Service, TRUE), OverLine(i)},
        {ChangedFile(i, Service, TRUE), ChangedFile(i, App, TRUE), OverLine(i), Elsewhere(i)},
        {ChangedFile(i, Service, FALSE), LongHunk(i)},
        {ChangedFile(i, Library, FALSE), BlankHunk(i)}}
  ELSE {{}}

Stray == [type |-> "changed_file", path |-> Service, line |-> None, refs |-> {}]

(* One hypothesis on a path of its facts, or two of one identifier, the     *)
(* last of them, when it is accepted, on other facts or another file.      *)
FactChoices(facts) ==
  {S \in SUBSET (facts \cup {Stray}) : Cardinality(S) = MaxFacts}
  \cup {{f, g} : f, g \in {x \in facts : x.path # App}}
HypothesisOn(subject, S) == [id |-> "h1", subject |-> subject, facts |-> S, repeats |-> FALSE]
MCHypothesisAnswers(facts) ==
  LET changed == {f \in facts : f.type = "changed_file"}
      matched == {f \in facts : f.type = "matches_failure_file"}
      Two == {HypothesisOn(Service, changed \cup matched), HypothesisOn(Deployed, facts \ matched),
              HypothesisOn(Library, facts)}
  IN  UNION {{<<HypothesisOn(f.path, S)>> : f \in S} : S \in FactChoices(facts)}
      \cup {<<h, g>> : h, g \in Two}

(* A finding on the hypothesis's path or a shorter one, at each of its     *)
(* evidence, with its facts or all, and their evidence or all; two with    *)
(* one identifier or two.                                                  *)
MCFindingAnswers(hypotheses, facts, evidence) ==
  LET h == hypotheses[CHOOSE i \in DOMAIN hypotheses : \A j \in DOMAIN hypotheses : j <= i]
      On(id, p, l, S, E) == [id |-> id, hypothesis |-> "h1", path |-> p, location |-> l,
                             facts |-> S, evidence |-> E, repeats |-> FALSE]
      Good(id, p) == {On(id, p, l, h.facts, References(h.facts)) : l \in References(h.facts)}
      Odd == {On("f1", h.subject, l, S, E) :
                l \in evidence, S \in {h.facts, facts}, E \in {References(h.facts), evidence}}
      AtFrame(id) == {f \in Good(id, h.subject) : f.location.kind = "frame"}
  IN  {<<f>> : f \in Good("f1", h.subject) \cup Good("f1", App) \cup Odd}
      \cup {<<f, g>> : f \in AtFrame("f1") \cup AtFrame("f2"),
                      g \in {x \in Good("f2", h.subject) : x.location.kind = "file"}}

MCFixAnswers(input) ==
  {[finding |-> input.finding.id, path |-> p, copies |-> TRUE, lines |-> l] :
     p \in {input.finding.path, <<"other">>},
     l \in {<<"indented">>, <<"blank">>, <<"flush", "import">>,
            <<"flush", "flush", "flush", "flush">>}}
=============================================================================
