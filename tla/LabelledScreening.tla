------------------------- MODULE LabelledScreening -------------------------
(***************************************************************************)
(* Dossiers that come with a truth are screened and the result is scored   *)
(* against it: generate/run.py, eval/run.py, eval/metrics.py and the       *)
(* records of eval/scientific_report.py. The checks are the machine of     *)
(* DossierChecks; scoring a run is one more step after the last of them.   *)
(***************************************************************************)
EXTENDS HandAuthoredCases

VARIABLES
  expected,  \* the truth and the passes of a labelled case, or Unlabelled
  score      \* how one screening of it was scored, or NotScored

evalVars == <<vars, expected, score>>

Unlabelled == Case("none", None, None, FALSE)

NotScored == [pass |-> None]

Begin(d, case) ==
  /\ dossier = d
  /\ expected = case
  /\ pc = "check_identity_consistency"
  /\ results = {}
  /\ score = NotScored

(* generate_cases, load_case and build_compound_cases.                     *)
LabelledInit ==
  \/ Init /\ expected = Unlabelled /\ score = NotScored
  \/ \E base \in CleanBases, code \in Codes : \E d \in Variants(code, base) :
       Begin(d, GeneratedCase(GeneratedTruth(code, d)))
  \/ \E c \in CompoundCases \cup Seeds : Begin(c.dossier, c.case)

-----------------------------------------------------------------------------
(* One screening, given what the document checks reported.                 *)

CheckFindings == {CheckFinding(r[1], r[2], None) :
                    r \in UNION {{r.check} \X r.codes : r \in results}}

RuleFinding(rule) ==
  CASE rule = "fired"  -> {CheckFinding("check_learned_rules", "F1", None)}
    [] rule = "raised" -> {[ check |-> "check_learned_rules", code |-> "T1",
                             severity |-> "unexplainable", origin |-> "system",
                             kind |-> "rule_runtime_error", about |-> None ]}
    [] OTHER           -> {}

(* What the model says in triage, or that it could not be asked.           *)
TriageFindings(p) ==
  IF "ai_triage" \in p.failing THEN {SystemFinding("ai_triage", "timeout")}
  ELSE {TriageFinding(a) : a \in p.advised}

(* PolicyMirrorStub._synth: from the check results, which triage is not in *)
ProposalOf(p) ==
  IF "synthesize" \in p.failing THEN Unavailable
  ELSE IF p.proposer = "policy_mirror"
    THEN Available(DecisionForSeverities(
                     SeveritiesOf(CheckFindings \cup RuleFinding(p.rule))))
  ELSE Available(p.proposer)

FindingsUnder(p) ==
  CheckFindings \cup RuleFinding(p.rule) \cup TriageFindings(p)
  \cup {f \in {SystemFinding("synthesize", "timeout")} : "synthesize" \in p.failing}

-----------------------------------------------------------------------------
(* eval/metrics.py.                                                        *)

(* Wrong: operational failures are taken for findings about the company.   *)
BugFailuresAreFindings(findings) ==
  LET codes == {f.code : f \in findings} IN IF codes = {} THEN {"NONE"} ELSE codes

AgentFindingCodes(findings) ==
  LET codes == {f.code : f \in {g \in findings : g.origin # "system"}}
  IN  IF codes = {} THEN {"NONE"} ELSE codes

(* trajectory_match; the order of the nodes is ScreeningGraph's.           *)
TrajectoryMatch(truth) ==
  LET ran     == {r.check : r \in {s \in results : s.ran}}
      skipped == {r.check : r \in {s \in results : ~s.ran}}
  IN  truth.runs \subseteq ran /\ truth.skips \subseteq skipped /\ ran \cap skipped = {}

(* _counterfactual_without_system: the decision had there been no failure. *)
WithoutSystem(findings) ==
  DecisionForSeverities(SeveritiesOf({f \in findings : f.origin # "system"}))

(* evaluate_case and _record_from_result.                                  *)
EvaluateCase(p, truth) ==
  LET findings  == FindingsUnder(p)
      guardrail == ApplyGuardrail(findings, ProposalOf(p))
      failures  == {f.kind : f \in {g \in findings : g.origin = "system"}}
  IN  [ pass         |-> p,
        decision     |-> guardrail.final,
        overridden   |-> guardrail.overridden,
        decisionOk   |-> guardrail.final = truth.decision,
        findingOk    |-> AgentFindingCodes(findings) = truth.codes,
        trajectoryOk |-> TrajectoryMatch(truth),
        failures     |-> failures,
        induced      |-> /\ failures # {}
                         /\ DecisionRank(WithoutSystem(findings))
                              < DecisionRank(guardrail.final) ]

Score ==
  /\ pc = "done" /\ score = NotScored /\ expected.corpus # "none"
  /\ \E p \in Passes(expected) : score' = EvaluateCase(p, expected.truth)
  /\ UNCHANGED <<vars, expected>>

LabelledNext ==
  \/ Next /\ UNCHANGED <<expected, score>>
  \/ Score

LabelledSpec == LabelledInit /\ [][LabelledNext]_evalVars

-----------------------------------------------------------------------------
Scored == score # NotScored

(* The generator compares names letter by letter when it draws people who  *)
(* are to be different, the checks do not. No two of the dossier's are.    *)
DifferentPeople(list) ==
  \A i, j \in DOMAIN list : i # j => ~SamePerson(list[i].name, list[j].name)

ToldApart ==
  /\ "registry" \in DOMAIN dossier => DifferentPeople(dossier.registry.holders)
  /\ "ubo" \in DOMAIN dossier => DifferentPeople(dossier.ubo.holders)
  /\ expected.truth.codes \cap {"C1a", "C1b"} # {} =>
       LET signatories == dossier.circular.signatories
       IN  \A i \in DOMAIN signatories :
             ~SamePerson(dossier.ubo.declarant, signatories[i].name)

(* Nothing beyond the documents spoke: no concern, no rule.                *)
OnlyDocuments == score.pass.rule # "fired" /\ TriageFindings(score.pass) \subseteq
                   {SystemFinding("ai_triage", "timeout")}

(* Labels are right: five checks run on a dossier changed in one respect   *)
(* report that code and no other, at both ends of every range and on the   *)
(* edges, with the checks that were expected to run and to be skipped; the *)
(* compound cases and the seeds come out as filed. A proposal is overridden*)
(* just when it was to be (tests/test_generator.py, "metamorphic").        *)
LabelsHold ==
  Scored /\ ToldApart /\ score.pass \in LabelledPasses(expected) =>
    /\ score.findingOk /\ score.decisionOk /\ score.trajectoryOk
    /\ score.overridden <=> ToBeOverridden(expected, score.pass)

(* A failure is not evidence: calls that fail and rules that raise leave   *)
(* the finding score as it would be without them and always escalate, and  *)
(* the report attributes the escalation to them just when the dossier did  *)
(* not deserve it ("attribution_method", eval/scientific_report.py).       *)
FailuresAreNotEvidence ==
  Scored /\ ToldApart /\ OnlyDocuments =>
    /\ score.findingOk
    /\ score.failures # {} => score.decision = "escalate"
    /\ score.induced <=> score.failures # {} /\ expected.truth.decision # "escalate"

(* No false approval: whatever is proposed, raised or fails, a decision is *)
(* never less cautious than the label, and it is the label's when nothing  *)
(* but the documents spoke and nothing failed (eval/metrics.py, "stays 0   *)
(* structurally").                                                         *)
NoFalseApproval ==
  Scored /\ ToldApart =>
    /\ DecisionRank(score.decision) >= DecisionRank(expected.truth.decision)
    /\ OnlyDocuments /\ score.failures = {} => score.decisionOk

=============================================================================
