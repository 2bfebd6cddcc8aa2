-------------------------- MODULE MCAdaptiveRounds -------------------------
(* A small instance of AdaptiveRounds for TLC: one plan of one step, one   *)
(* of two independent steps and one of two dependent steps.                *)
EXTENDS AdaptiveRounds, TLC

CONSTANTS s1, s2, sha, e1, e2, timeout

MCStepId == {s1, s2}
MCField == {sha}
MCEvidence == {e1, e2}
MCFailureCode == {timeout}
MCDeriveFacts(collected) ==
  collected \cup (IF collected = MCEvidence THEN {"correlated"} ELSE {})

NoLinks == [s \in MCStepId |-> {}]

MCPlans ==
  { [order |-> <<s1>>, depends_on |-> NoLinks, references |-> NoLinks],
    [order |-> <<s1, s2>>, depends_on |-> [NoLinks EXCEPT ![s2] = {s1}],
     references |-> [NoLinks EXCEPT ![s2] = {<<s1, sha>>}]] }
=============================================================================
