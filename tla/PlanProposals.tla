---------------------------- MODULE PlanProposals ----------------------------
(***************************************************************************)
(* From a planner's answer to the end of the plan's execution: one round of *)
(* the planning loop (investigations/replanning.py) from TypedLLMPlanner    *)
(* (planning/service.py) over PlanValidator to AgentExecutor.  A plan runs  *)
(* exactly as it was accepted, in the validator's order.                   *)
(***************************************************************************)
EXTENDS PlanExecution, PlanValidation

CONSTANTS
  Answers,                \* the planner's provider and what its model answers
  MaxAdaptivePlanSteps    \* MAX_ADAPTIVE_PLAN_STEPS

M == INSTANCE ModelOutputs

(* What is parsed is an InvestigationPlan, its lists lists; and a reference *)
(* to a tool's output names one of its fields.                             *)
IsPlan(p) ==
  /\ p \in Seq(ToSet(p))
  /\ \A s \in ToSet(p) : /\ s.id \in StepId
                         /\ s.arguments \in Seq(ToSet(s.arguments))
                         /\ s.depends_on \in Seq(ToSet(s.depends_on))
ASSUME AnswersAssumption ==
  \A a \in Answers : a.output.parsed # <<>> => IsPlan(a.output.parsed[1])
ASSUME ToolsAssumption == \A t \in DOMAIN Tools : DOMAIN Tools[t].outputs \subseteq Field

VARIABLES
  answer,       \* the planner's provider and what its model answers
  verdict,      \* why it is not run, or None
  failures      \* what the validator found wrong with it

vars == <<execVars, answer, verdict, failures>>

(* The executor's view of an accepted plan.                                *)
Validated(p) ==
  LET steps(id) == {i \in DOMAIN p : p[i].id = id}
      arguments(id) == UNION {ToSet(p[i].arguments) : i \in steps(id)}
  IN [order |-> TopologicalOrder(p),
      depends_on |-> [id \in StepId |-> UNION {ToSet(p[i].depends_on) : i \in steps(id)}],
      references |-> [id \in StepId |->
        {<<a.value.step, a.value.field>> : a \in {b \in arguments(id) : ~IsLiteral(b.value)}}]]

NoPlan ==
  [order |-> <<>>, depends_on |-> [s \in StepId |-> {}], references |-> [s \in StepId |-> {}]]

NotRun(why, found) ==
  /\ verdict' = why /\ failures' = found
  /\ phase' = "returned"
  /\ UNCHANGED <<answer, plan, position, step, outputs, evidence, facts, missing, budget, termination>>

(* Only plans in Plans are followed further than their acceptance: a bound  *)
(* of the model.                                                           *)
Accepted(p) ==
  /\ verdict' = "accepted" /\ UNCHANGED <<answer, failures>>
  /\ IF Validated(p) \in Plans
     THEN \E max \in 0..MaxToolCalls, known \in SUBSET Evidence :
            /\ plan' = Validated(p) /\ phase' = "deciding"
            /\ budget' = [budget EXCEPT !.max = max]
            /\ evidence' = known /\ facts' = DeriveFacts(known)
            /\ UNCHANGED <<position, step, outputs, missing, termination>>
     ELSE /\ phase' = "returned"
          /\ UNCHANGED <<plan, position, step, outputs, evidence, facts, missing, budget, termination>>

(* The answer, its schema, its size and its validation; nothing is awaited  *)
(* in between.                                                             *)
PlannerAnswers ==
  /\ phase = "asking"
  /\ LET typed == M!Typed(answer.provider, answer.output)
         p == typed.value[1]
     IN IF typed.value = <<>> THEN NotRun("provider_failure", {})
        ELSE IF ~FitsSchema(p) THEN NotRun("plan_schema_invalid", {})
        ELSE IF Len(p) > MaxAdaptivePlanSteps THEN NotRun("adaptive_plan_too_large", {})
        ELSE IF Failures(p) # {} THEN NotRun("rejected", Failures(p))
        ELSE Accepted(p)

Init ==
  /\ answer \in Answers
  /\ verdict = None /\ failures = {}
  /\ plan = NoPlan
  /\ position = 1
  /\ step = [s \in StepId |-> Pending]
  /\ outputs = [s \in StepId |-> {}]
  /\ evidence = {} /\ facts = {} /\ missing = {}
  /\ budget = [max |-> 0, used |-> 0]
  /\ termination = "completed"
  /\ phase = "asking"

Next == PlannerAnswers \/ (ExecutorStep /\ UNCHANGED <<answer, verdict, failures>>)

Spec == Init /\ [][Next]_vars

(* Every await ends, the planner's too: the clients have timeouts.          *)
FairSpec == Spec /\ WF_vars(Next)

-----------------------------------------------------------------------------
(* Properties.                                                             *)
Precedes(order, a, b) == \E j \in DOMAIN order : order[j] = b /\ \E i \in 1..(j - 1) : order[i] = a

Proposal == answer.output.parsed[1]

(* What runs is what was accepted, and safe to run: every step once, after  *)
(* all it depends on or reads from; and it runs in the planner's order but  *)
(* for steps that had to wait for a dependency.                            *)
AcceptedPlansAreRunnable ==
  verdict = "accepted" =>
    LET p == Proposal  validated == Validated(p) IN
    /\ ValidPlan(validated)
    /\ StepsOf(validated) = Ids(p) /\ Len(validated.order) = Len(p)
    /\ \A i, j \in DOMAIN p :
         i < j /\ Precedes(validated.order, p[j].id, p[i].id) =>
           \E d \in ToSet(p[i].depends_on) : ~Precedes(validated.order, d, p[j].id)
    /\ phase # "returned" => plan = validated

(* The graph of a plan, whatever else is wrong with it, is cyclic when some *)
(* steps each wait for another of them.                                    *)
Cyclic(p) == \E S \in (SUBSET Ids(p)) \ {{}} : \A id \in S : Awaited(p, id) \cap S # {}

StepNamed(p, id) == p[CHOOSE i \in DOMAIN p : p[i].id = id]

Serves(p, s, argument) ==
  LET type == Tools[s.tool].inputs[argument.name].type  value == argument.value IN
  IF IsLiteral(value) THEN LiteralFits(value, type)
  ELSE /\ value.step \in ToSet(s.depends_on)
       /\ LET source == Tools[StepNamed(p, value.step).tool] IN
          value.field \in DOMAIN source.outputs /\ Compatible(source.outputs[value.field], type)

(* A plan nothing is wrong with.                                           *)
Sound(p) ==
  /\ Cardinality(Ids(p)) = Len(p)
  /\ \A s \in ToSet(p) : /\ s.tool \in AllowedTools \cap DOMAIN Tools
                          /\ ToSet(s.depends_on) \subseteq Ids(p) \ {s.id}
  /\ ~Cyclic(p)
  /\ \A s \in ToSet(p) :
       /\ \A name \in DOMAIN Tools[s.tool].inputs :
            Tools[s.tool].inputs[name].required => \E a \in ToSet(s.arguments) : a.name = name
       /\ \A a \in ToSet(s.arguments) : a.name \in DOMAIN Tools[s.tool].inputs /\ Serves(p, s, a)
       /\ (\A a \in ToSet(s.arguments) : IsLiteral(a.value)) => Coherent(s.tool, s.arguments)

(* The validator accepts the sound plans and no other; and it reports a     *)
(* cycle exactly when there is one, also when identifiers are repeated,     *)
(* dependencies unknown or steps depend on themselves.                     *)
ValidationIsExact ==
  verdict \in {"accepted", "rejected"} =>
    /\ (verdict = "accepted") = Sound(Proposal)
    /\ (\E f \in failures : f[1] = "cycle_detected") = Cyclic(Proposal)

(* Whatever the planner answers, the round ends: it returns or raises.      *)
RoundEnds == <>(phase \in {"returned", "raised"})
=============================================================================
