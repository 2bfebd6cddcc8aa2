-------------------------- MODULE MCPlanExecution --------------------------
(***************************************************************************)
(* Small instances for TLC: every dependency graph of three steps, known or *)
(* not; every kind of argument between two; and four shapes of a plan that  *)
(* tell the executor's branches apart, which are followed to their end.     *)
(***************************************************************************)
EXTENDS PlanProposals, TLC

CONSTANTS s1, s2, s3, s9, sha, e1, e2, timeout, not_found

MCStepId == {s1, s2, s3}
MCField == {sha}
MCEvidence == {e1, e2}
MCFailureCode == {timeout, not_found}
MCRetryableCode == {timeout}

(* One fact per item and one that needs both: a correlation.               *)
MCDeriveFacts(known) == known \cup (IF known = MCEvidence THEN {"correlated"} ELSE {})

Plan(order, depends, references) ==
  [order |-> order,
   depends_on |-> [s \in MCStepId |-> IF s \in DOMAIN depends THEN depends[s] ELSE {}],
   references |-> [s \in MCStepId |-> IF s \in DOMAIN references THEN references[s] ELSE {}]]

MCPlans ==
  { Plan(<<s1>>, <<>>, <<>>),
    \* three independent steps
    Plan(<<s1, s2, s3>>, <<>>, <<>>),
    \* a chain whose second step reads the first one's output
    Plan(<<s1, s2, s3>>, s2 :> {s1} @@ s3 :> {s2}, s2 :> {<<s1, sha>>}),
    \* a join, listed by the planner in another order than it runs
    Plan(<<s3, s1, s2>>, s2 :> {s1, s3}, s2 :> {<<s3, sha>>}) }

T(member) == [members |-> {member}, typing |-> FALSE]
Input(type, required) == [type |-> type, required |-> required]

MCTools ==
  [resolve |-> [inputs |-> [name |-> Input(T("text"), TRUE)], outputs |-> [sha |-> T("sha")]],
   commit |-> [inputs |-> [sha |-> Input([members |-> {"sha", "none"}, typing |-> TRUE], TRUE)],
               outputs |-> [sha |-> T("sha")]],
   exact |-> [inputs |-> [sha |-> Input([members |-> {"sha", "none"}, typing |-> FALSE], TRUE)],
              outputs |-> <<>>],
   window |-> [inputs |-> [start |-> Input(T("time"), TRUE), end |-> Input(T("time"), FALSE)],
               outputs |-> <<>>],
   secret |-> [inputs |-> <<>>, outputs |-> <<>>]]
MCAllowedTools == {"resolve", "commit", "exact", "window"}

Lit(value, types) == [is |-> "literal", value |-> value, types |-> types]
Ref(id, field) == [is |-> "ref", step |-> id, field |-> field]
Arg(name, value) == [name |-> name, value |-> value]

(* A time window that is not empty.                                        *)
MCCoherent(tool, arguments) ==
  tool = "window" =>
    \A i, j \in DOMAIN arguments :
      i # j => arguments[i].value.value # arguments[j].value.value

Step(id, tool, arguments, depends) ==
  [id |-> id, tool |-> tool, arguments |-> arguments, depends_on |-> depends]
Name == <<Arg("name", Lit("n", {"text"}))>>
Sha(id) == <<Arg("sha", Ref(id, "sha"))>>

Some(S) == SetToSeq(S)
Graphs ==
  {<<Step(s1, "resolve", Name, Some(a)), Step(s2, "resolve", Name, Some(b)), Step(s3, "resolve", Name, Some(c))>> :
     a \in SUBSET {s2, s3, s9}, b \in SUBSET {s1, s2, s3}, c \in SUBSET {s1, s2}}
    \cup {<<Step(a, "resolve", Name, b), Step(s2, "resolve", Name, c), Step(s1, "resolve", Name, d)>> :
            a \in {s1, s2}, b, c, d \in {<<>>, <<s1>>, <<s2>>, <<s2, s1>>}}

Calls ==
  {<<Step(s1, source, IF source = "resolve" THEN Name ELSE <<>>, <<>>),
     Step(s2, tool, IF b = <<>> THEN <<a>> ELSE <<a, b[1]>>, depends)>> :
     source \in {"resolve", "secret", "unknown"},
     tool \in {"commit", "exact", "window", "unknown"},
     a \in {Arg("sha", Lit("x", {"sha"})), Arg("sha", Lit("1", {"time"})),
            Arg("sha", Ref(s1, "sha")), Arg("sha", Ref(s1, "nothing")), Arg("sha", Ref(s9, "sha")),
            Arg("start", Lit("1", {"time"})), Arg("start", Ref(s1, "sha"))},
     b \in {<<>>, <<Arg("end", Lit("1", {"time"}))>>, <<Arg("end", Lit("2", {"time"}))>>,
            <<Arg("end", Ref(s1, "sha"))>>, <<Arg("sha", Lit("x", {"sha"}))>>},
     depends \in {<<>>, <<s1>>}}

Followed ==
  { <<Step(s1, "resolve", Name, <<>>)>>,
    <<Step(s1, "resolve", Name, <<>>), Step(s2, "commit", Sha(s1), <<s1>>), Step(s3, "resolve", Name, <<s2>>)>>,
    <<Step(s2, "commit", Sha(s3), <<s1, s3>>), Step(s3, "resolve", Name, <<>>), Step(s1, "resolve", Name, <<>>)>> }

Tall(n) == [i \in 1..n |-> Step(IF i = 1 THEN s1 ELSE s2, "resolve", Name, <<>>)]
Proposed == Graphs \cup Calls \cup Followed \cup {Tall(4), Tall(6), <<>>}

Answered(providers, said) == [provider : providers, output : said]
MCAnswers ==
  Answered({"openai", "groq", "gemini"},
           {M!Raised("RateLimitError"), M!Responded(TRUE, <<>>), M!Responded(FALSE, <<>>)})
    \cup Answered({"openai"}, {M!Responded(FALSE, <<p>>) : p \in Proposed})
=============================================================================
