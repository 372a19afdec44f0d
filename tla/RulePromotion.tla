---------------------------- MODULE RulePromotion ----------------------------
(***************************************************************************)
(* The loop that makes a rule permanent: a proposal, of a human or of the  *)
(* model, the validation gate, the approval, and the store                 *)
(* (rules/run_gate.py, rules/propose.py, rules/proposer.py,                *)
(* rules/store.py). Each operator runs one of the command lines at a time, *)
(* each in a process of its own; screening runs read the store meanwhile.  *)
(*                                                                         *)
(* promote_rule reads the file, appends, and writes it whole again:        *)
(* write_text truncates and then writes, so the file is torn in between.   *)
(* What it writes leaves in one piece, when the file is closed.            *)
(***************************************************************************)
EXTENDS RuleTemplates, SequencesExt

CONSTANTS
  Operators,     \* who runs the command lines
  Ids,           \* rule ids
  AgeLimits,     \* values proposed for max_age_days
  CapitalLimits, \* values proposed for max_capital
  Seeds,         \* the seed fixtures, which every gate checks
  Corpora,       \* the generated corpora an operator may have them checked with
  MayCrash       \* TRUE: a process may stop while it writes

ASSUME KnownAssumption == Seeds \subseteq Dossiers /\ Corpora \subseteq SUBSET Dossiers

ASSUME LimitsAssumption == AgeLimits \cup CapitalLimits \subseteq Numbers

ASSUME CrashAssumption == MayCrash \in BOOLEAN

Rules == [ id : Ids, template : Templates,
           params : [maxAge : AgeLimits, maxCapital : CapitalLimits] ]

Reports == [id : Ids, template : Templates, passed : BOOLEAN]

NoRule == [id |-> "none"]

NoReport == [passed |-> FALSE]

VARIABLES
  whole,    \* the file parses: FALSE between truncation and the end of writing
  stored,   \* the rules last written to the file, and those in it when it parses
  pc,       \* where each operator is
  rule,     \* the candidate of each operator
  report,   \* the GateResult each operator holds
  existing, \* what promote_rule loaded
  promoted, \* the rules whose promotion returned
  inForce   \* the rules the last screening run loaded

vars == <<whole, stored, pc, rule, report, existing, promoted, inForce>>

Init ==
  /\ whole = TRUE
  /\ stored = << >>
  /\ pc = [o \in Operators |-> "idle"]
  /\ rule = [o \in Operators |-> NoRule]
  /\ report = [o \in Operators |-> NoReport]
  /\ existing = [o \in Operators |-> << >>]
  /\ promoted = {}
  /\ inForce = << >>

Goto(o, where) == pc' = [pc EXCEPT ![o] = where]

(* The process is over: what it held is gone.                              *)
Finish(o) ==
  /\ Goto(o, "idle")
  /\ rule' = [rule EXCEPT ![o] = NoRule]
  /\ report' = [report EXCEPT ![o] = NoReport]
  /\ existing' = [existing EXCEPT ![o] = << >>]

(* run_gate takes the candidate from its arguments, whatever they say.     *)
Submit(o) ==
  /\ pc[o] = "idle"
  /\ \E r \in Rules : rule' = [rule EXCEPT ![o] = r]
  /\ Goto(o, "gate")
  /\ UNCHANGED <<whole, stored, report, existing, promoted, inForce>>

(* propose_rule: of what the model answers, only a valid instance of a     *)
(* registered template becomes a candidate.                                *)
ModelProposes(o) ==
  /\ pc[o] = "idle"
  /\ \E r \in Rules :
       /\ ~EvaluationRaises(r)
       /\ rule' = [rule EXCEPT ![o] = r]
  /\ Goto(o, "gate")
  /\ UNCHANGED <<whole, stored, report, existing, promoted, inForce>>

(* The gate, over the seeds and the corpus generated as the operator says, *)
(* with --per-code and --seed: with --per-code 0 there is none.            *)
Gate(o) ==
  /\ pc[o] = "gate"
  /\ ~(rule[o].template \in Registered /\ ValidationRaises(rule[o].params))
  /\ \E corpus \in Corpora :
       report' = [report EXCEPT ![o] = RunValidationGate(rule[o], Seeds \cup corpus)]
  /\ Goto(o, "review")
  /\ UNCHANGED <<whole, stored, rule, existing, promoted, inForce>>

(* The conversion of a NaN age raises out of the gate.                     *)
GateRaises(o) ==
  /\ pc[o] = "gate"
  /\ rule[o].template \in Registered /\ ValidationRaises(rule[o].params)
  /\ Finish(o)
  /\ UNCHANGED <<whole, stored, promoted, inForce>>

(* Not promoted: the gate did not pass, or nobody approved.                *)
Decline(o) ==
  /\ pc[o] = "review"
  /\ Finish(o)
  /\ UNCHANGED <<whole, stored, promoted, inForce>>

(* Wrong: the report is not asked whether it passed.                       *)
BugPromotesRejected(o) ==
  /\ pc[o] = "review"
  /\ report[o].id = rule[o].id /\ report[o].template = rule[o].template
  /\ whole
  /\ \A i \in DOMAIN stored : stored[i].id # rule[o].id
  /\ existing' = [existing EXCEPT ![o] = stored]
  /\ Goto(o, "truncate")
  /\ UNCHANGED <<whole, stored, rule, report, promoted, inForce>>

(* Wrong: an id that is taken is not refused.                              *)
BugOverwritesId(o) ==
  /\ pc[o] = "review"
  /\ report[o].id = rule[o].id /\ report[o].template = rule[o].template
  /\ report[o].passed
  /\ whole
  /\ existing' = [existing EXCEPT ![o] = stored]
  /\ Goto(o, "truncate")
  /\ UNCHANGED <<whole, stored, rule, report, promoted, inForce>>

(* promote_rule with an approval: its checks, and the file as it is now.   *)
Load(o) ==
  /\ pc[o] = "review"
  /\ report[o].id = rule[o].id /\ report[o].template = rule[o].template
  /\ report[o].passed
  /\ whole
  /\ \A i \in DOMAIN stored : stored[i].id # rule[o].id
  /\ existing' = [existing EXCEPT ![o] = stored]
  /\ Goto(o, "truncate")
  /\ UNCHANGED <<whole, stored, rule, report, promoted, inForce>>

(* Its refusals: the file does not parse, or the id is taken. (A report    *)
(* that did not pass is refused before, by the command line: Decline.)     *)
Refuse(o) ==
  /\ pc[o] = "review"
  /\ report[o].passed
  /\ ~whole \/ \E i \in DOMAIN stored : stored[i].id = rule[o].id
  /\ Finish(o)
  /\ UNCHANGED <<whole, stored, promoted, inForce>>

(* write_text opens the file: its content is gone.                         *)
Truncate(o) ==
  /\ pc[o] = "truncate"
  /\ whole' = FALSE
  /\ stored' = << >>
  /\ Goto(o, "write")
  /\ UNCHANGED <<rule, report, existing, promoted, inForce>>

(* Wrong: the new rule replaces what was there.                            *)
BugWritesRuleAlone(o) ==
  /\ pc[o] = "write"
  /\ whole' = TRUE
  /\ stored' = <<rule[o]>>
  /\ promoted' = promoted \cup {rule[o]}
  /\ Finish(o)
  /\ UNCHANGED inForce

(* The whole list is written and closed: promote_rule returns. If another  *)
(* process has written since the file was truncated, and wrote more, the   *)
(* end of its text stays behind this one.                                  *)
Write(o) ==
  /\ pc[o] = "write"
  /\ whole' \in (IF stored = << >> THEN {TRUE} ELSE BOOLEAN)
  /\ stored' = Append(existing[o], rule[o])
  /\ promoted' = promoted \cup {rule[o]}
  /\ Finish(o)
  /\ UNCHANGED inForce

(* The process stops before the file is written.                           *)
CrashWriting(o) ==
  /\ MayCrash
  /\ pc[o] = "write"
  /\ Finish(o)
  /\ UNCHANGED <<whole, stored, promoted, inForce>>

(* Wrong: a file that does not parse is taken for an empty store.          *)
BugTornIsEmpty ==
  /\ inForce' = stored
  /\ UNCHANGED <<whole, stored, pc, rule, report, existing, promoted>>

(* A screening run loads the rules (run_agent). Where the file is torn the *)
(* load raises and there is no run.                                        *)
ScreeningLoads ==
  /\ whole
  /\ inForce' = stored
  /\ UNCHANGED <<whole, stored, pc, rule, report, existing, promoted>>

Step(o) ==
  \/ Submit(o) \/ ModelProposes(o) \/ Gate(o) \/ GateRaises(o)
  \/ Decline(o) \/ Load(o) \/ Refuse(o)
  \/ Truncate(o) \/ Write(o) \/ CrashWriting(o)

Next == (\E o \in Operators : Step(o)) \/ ScreeningLoads

(* A process that has started to write goes on, unless it crashes.         *)
Spec ==
  /\ Init /\ [][Next]_vars
  /\ \A o \in Operators : WF_vars(Truncate(o) \/ Write(o))

-----------------------------------------------------------------------------
(* The type of every variable.                                             *)
TypeOK ==
  /\ whole \in BOOLEAN
  /\ stored \in Seq(Rules)
  /\ pc \in [Operators -> {"idle", "gate", "review", "truncate", "write"}]
  /\ rule \in [Operators -> Rules \cup {NoRule}]
  /\ report \in [Operators -> Reports \cup {NoReport}]
  /\ existing \in [Operators -> Seq(Rules)]
  /\ promoted \in SUBSET Rules
  /\ inForce \in Seq(Rules)

(* A rule is fit to be in force when it evaluates without raising and has  *)
(* nothing to say of the seeds, nor of a corpus an operator may choose.    *)
(* With one corpus that is of all the dossiers the harness knows; where an *)
(* empty one may be chosen it is of no more than the seeds.                *)
Gated(r) ==
  /\ ~EvaluationRaises(r)
  /\ \E corpus \in Corpora : \A d \in Seeds \cup corpus : ~Fires(r.params, d)

(* No run, whatever the processes do to the file meanwhile, is made with a *)
(* rule that did not pass a gate: the dossiers of that gate keep their     *)
(* decisions and a promoted rule never fails at run time (rules/gate.py,   *)
(* rules/store.py).                                                        *)
RulesInForceAreGated == \A i \in DOMAIN inForce : Gated(inForce[i])

UniqueIds(s) == \A i, j \in DOMAIN s : s[i].id = s[j].id => i = j

(* At any time a rule id stands for one rule: in the run, and in the file, *)
(* whatever else is written to the store meanwhile (rules/store.py). Of a  *)
(* promotion that was lost the id is free again.                           *)
IdsAreUnique == UniqueIds(stored) /\ UniqueIds(inForce)

(* A promotion that returned is permanent: the file holds the rule         *)
(* whenever it can be read (rules/store.py:58, "a promotion is a one-way,  *)
(* auditable, non-overwriting action").                                    *)
PromotionIsPermanent == whole => promoted \subseteq ToSet(stored)

(***************************************************************************)
(* The inductive invariant behind RulesInForceAreGated and IdsAreUnique: a *)
(* report that passed is about the candidate the operator holds, and what  *)
(* is written is a list of gated rules, of one id each.                    *)
(***************************************************************************)
AllGated(s) == \A i \in DOMAIN s : Gated(s[i])

ReportIsOfCandidate ==
  \A o \in Operators :
    /\ pc[o] \in {"idle", "gate"} => ~report[o].passed
    /\ pc[o] \in {"gate", "review", "truncate", "write"} => rule[o] \in Rules
    /\ report[o].passed => Gated(rule[o])
    /\ pc[o] \in {"truncate", "write"} => report[o].passed

WhatIsWrittenIsGated ==
  /\ AllGated(stored) /\ AllGated(inForce)
  /\ \A o \in Operators : AllGated(existing[o])

WhatIsWrittenIsUnique ==
  /\ IdsAreUnique
  /\ \A o \in Operators :
       /\ UniqueIds(existing[o])
       /\ pc[o] \in {"truncate", "write"} =>
            \A i \in DOMAIN existing[o] : existing[o][i].id # rule[o].id

IInv ==
  /\ TypeOK /\ ReportIsOfCandidate
  /\ WhatIsWrittenIsGated /\ WhatIsWrittenIsUnique

(* Every rule in the file keeps to the bounds of its template              *)
(* (rules/schema.py:75, "within the template author's bounds").            *)
PromotedWithinBounds == \A i \in DOMAIN stored : WithinBounds(stored[i].params)

=============================================================================
