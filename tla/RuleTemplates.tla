---------------------------- MODULE RuleTemplates ----------------------------
(***************************************************************************)
(* What a learned rule is and does (rules/schema.py, rules/templates.py,   *)
(* rules/gate.py): an instance of a vetted template, fenced by the bounds  *)
(* of its parameters, silent on the known dossiers it is gated on.         *)
(*                                                                         *)
(* There is one template, capital_age_ceiling. A dossier is kept down to   *)
(* what it reads: the age of the company at the date of the registry and   *)
(* its capital, or no registry at all. A parameter is a number, or NaN,    *)
(* which Python's comparisons are all false of.                            *)
(***************************************************************************)
EXTENDS Integers

CONSTANTS
  NaN,
  MinAge, MaxAge,          \* the ParamSpec of max_age_days
  MinCapital, MaxCapital,  \* the ParamSpec of max_capital
  Templates                \* the template ids a proposal may name

ASSUME NaNAssumption == NaN \notin Int

ASSUME BoundsAssumption == {MinAge, MaxAge, MinCapital, MaxCapital} \subseteq Int

Registered == {"capital_age_ceiling"}

ASSUME TemplatesAssumption == Registered \subseteq Templates

Numbers == Int \cup {NaN}

Dossiers == [registry : BOOLEAN, age : Int, capital : Int]

(* Python's < on floats.                                                   *)
Below(x, y) == x # NaN /\ y # NaN /\ x < y

(* validate_params on the two parameters: no error is reported. Where the  *)
(* age is NaN the conversion to an integer raises instead.                 *)
InSpec(value, low, high) == ~Below(value, low) /\ ~Below(high, value)

ValidParams(params) ==
  /\ InSpec(params.maxAge, MinAge, MaxAge)
  /\ InSpec(params.maxCapital, MinCapital, MaxCapital)

ValidationRaises(params) == params.maxAge = NaN

(* What validate_params promises.                                          *)
WithinBounds(params) ==
  /\ params.maxAge \in MinAge..MaxAge
  /\ params.maxCapital \in MinCapital..MaxCapital

(* _evaluate_capital_age_ceiling: the rule has a finding on the dossier.   *)
Fires(params, dossier) ==
  /\ dossier.registry
  /\ dossier.age >= 0
  /\ ~Below(params.maxAge, dossier.age)
  /\ ~(Below(dossier.capital, params.maxCapital) \/ dossier.capital = params.maxCapital)

(* evaluate_rule raises: the template is unknown or the parameters are not *)
(* valid ones.                                                             *)
EvaluationRaises(rule) ==
  \/ rule.template \notin Registered
  \/ ValidationRaises(rule.params)
  \/ ~ValidParams(rule.params)

(* Wrong: the parameters are not validated again before the corpus is run. *)
BugGateSkipsValidation(rule, known) ==
  [ id |-> rule.id, template |-> rule.template,
    passed |-> \A d \in known : ~Fires(rule.params, d) ]

(* run_validation_gate.                                                    *)
RunValidationGate(rule, known) ==
  [ id |-> rule.id, template |-> rule.template,
    passed |-> /\ rule.template \in Registered
               /\ ValidParams(rule.params)
               /\ \A d \in known : ~Fires(rule.params, d) ]

=============================================================================
