---------------------------- MODULE PlanValidation ----------------------------
(***************************************************************************)
(* PlanValidator (investigations/planning/validation.py): what is checked   *)
(* of a plan a language model proposed, before any of it runs.              *)
(*                                                                         *)
(* A plan is a sequence of steps [id, tool, arguments, depends_on]; an      *)
(* argument is a name with a literal value or a reference to an output      *)
(* field of another step.  A type is the set of its union's members; only   *)
(* typing.Union is looked into.                                            *)
(***************************************************************************)
EXTENDS Integers, Sequences, FiniteSets, FiniteSetsExt, SequencesExt

CONSTANTS
  Tools,              \* the registry: tool id -> [inputs, outputs]
  AllowedTools,       \* the tools this run may use
  Coherent(_, _),     \* a tool's rules across its literal arguments
  MaxPlanSteps        \* MAX_PLAN_STEPS

ASSUME SizeAssumption == MaxPlanSteps \in Nat

(* The schema: what InvestigationPlan refuses before it is validated.       *)
FitsSchema(plan) ==
  /\ Len(plan) \in 1..MaxPlanSteps
  /\ \A i \in DOMAIN plan :
       /\ IsInjective(plan[i].depends_on)
       /\ IsInjective([k \in DOMAIN plan[i].arguments |-> plan[i].arguments[k].name])

Ids(plan) == {plan[i].id : i \in DOMAIN plan}
When(condition, code, id) == IF condition THEN {<<code, id>>} ELSE {}

IdentifierFailures(plan) ==
  When(Len(plan) > MaxPlanSteps, "plan_too_large", "plan")
    \cup {<<"duplicate_step_id", plan[i].id>> :
            i \in {j \in DOMAIN plan : \E k \in 1..(j - 1) : plan[k].id = plan[j].id}}

ToolFailures(step) ==
  When(step.tool \notin DOMAIN Tools, "unknown_tool", step.id)
    \cup When(step.tool \in DOMAIN Tools \ AllowedTools, "tool_not_allowed", step.id)

DependencyFailures(plan, step) ==
  When(~ToSet(step.depends_on) \subseteq Ids(plan), "unknown_dependency", step.id)
    \cup When(step.id \in ToSet(step.depends_on), "self_dependency", step.id)

(* The edges of the graph: those that do name another step.                 *)
Awaited(plan, id) ==
  (UNION {ToSet(plan[i].depends_on) : i \in {j \in DOMAIN plan : plan[j].id = id}})
    \cap (Ids(plan) \ {id})

Position(plan, id) == Max({i \in DOMAIN plan : plan[i].id = id})

EarliestOf(plan, ready) ==
  CHOOSE id \in ready : \A other \in ready : Position(plan, id) <= Position(plan, other)

\* Mutant: a step is ready when one of its dependencies has run.
TopologicalOrderEager(plan) ==
  LET From[order \in Seq(Ids(plan))] ==
        LET ready == {id \in Ids(plan) \ ToSet(order) :
                        Awaited(plan, id) = {} \/ Awaited(plan, id) \cap ToSet(order) # {}}
        IN IF ready = {} THEN order ELSE From[Append(order, EarliestOf(plan, ready))]
  IN From[<<>>]

(* Kahn's algorithm: of the steps that wait for nothing, the one that was   *)
(* listed first.  Steps on a cycle, or behind one, never come up.           *)
TopologicalOrder(plan) ==
  LET From[order \in Seq(Ids(plan))] ==
        LET ready == {id \in Ids(plan) \ ToSet(order) : Awaited(plan, id) \subseteq ToSet(order)}
        IN IF ready = {} THEN order ELSE From[Append(order, EarliestOf(plan, ready))]
  IN From[<<>>]

CycleFailures(plan) ==
  When(Len(TopologicalOrder(plan)) # Cardinality(Ids(plan)), "cycle_detected", "plan")

(* An identifier stands for the tool of its first step that has one.        *)
Definition(plan, id) ==
  LET known == {i \in DOMAIN plan : plan[i].id = id /\ plan[i].tool \in DOMAIN Tools} IN
  IF known = {} THEN <<>> ELSE <<Tools[plan[Min(known)].tool]>>

Compatible(source, destination) ==
  \/ source.members = destination.members
  \/ destination.typing /\ \E member \in destination.members : source.members = {member}

IsLiteral(value) == value.is = "literal"
LiteralFits(literal, type) == literal.types \cap type.members # {}

\* Mutant: a reference is not asked to be a dependency as well.
ReferenceFailuresUndeclared(plan, step, reference, destination) ==
  LET source == Definition(plan, reference.step) IN
  IF reference.step \notin Ids(plan) THEN {<<"unknown_output_reference_step", step.id>>}
  ELSE IF source # <<>> /\ reference.field \notin DOMAIN source[1].outputs
       THEN {<<"unknown_output_field", step.id>>}
       ELSE {}

ReferenceFailures(plan, step, reference, destination) ==
  LET source == Definition(plan, reference.step) IN
  IF reference.step \notin Ids(plan) THEN {<<"unknown_output_reference_step", step.id>>}
  ELSE When(reference.step \notin ToSet(step.depends_on), "missing_reference_dependency", step.id)
         \cup IF source = <<>> THEN {}
              ELSE IF reference.field \notin DOMAIN source[1].outputs
                   THEN {<<"unknown_output_field", step.id>>}
                   ELSE When(~Compatible(source[1].outputs[reference.field], destination),
                             "reference_type_mismatch", step.id)

Required(tool) == {name \in DOMAIN tool.inputs : tool.inputs[name].required}
Given(step) == {step.arguments[i].name : i \in DOMAIN step.arguments}

(* ToolDefinition.validate_arguments, tried when all arguments are literal. *)
LiteralsSatisfy(tool, step) ==
  /\ Required(tool) \subseteq Given(step) /\ Given(step) \subseteq DOMAIN tool.inputs
  /\ \A i \in DOMAIN step.arguments :
       LiteralFits(step.arguments[i].value, tool.inputs[step.arguments[i].name].type)
  /\ Coherent(step.tool, step.arguments)

ArgumentFailures(plan, step, argument, tool) ==
  IF argument.name \notin DOMAIN tool.inputs THEN {<<"unknown_argument", step.id>>}
  ELSE IF IsLiteral(argument.value)
       THEN When(~LiteralFits(argument.value, tool.inputs[argument.name].type),
                 "invalid_literal_argument", step.id)
       ELSE ReferenceFailures(plan, step, argument.value, tool.inputs[argument.name].type)

CallFailures(plan, step) ==
  LET definition == Definition(plan, step.id)
      arguments == ToSet(step.arguments)
  IN IF definition = <<>> THEN {}
     ELSE When(~Required(definition[1]) \subseteq Given(step), "missing_required_argument", step.id)
            \cup (UNION {ArgumentFailures(plan, step, a, definition[1]) : a \in arguments})
            \cup When((\A a \in arguments : IsLiteral(a.value)) /\ ~LiteralsSatisfy(definition[1], step),
                      "invalid_literal_argument", step.id)

Failures(plan) ==
  IdentifierFailures(plan) \cup CycleFailures(plan)
    \cup UNION {ToolFailures(s) \cup DependencyFailures(plan, s) \cup CallFailures(plan, s) : s \in ToSet(plan)}
=============================================================================
