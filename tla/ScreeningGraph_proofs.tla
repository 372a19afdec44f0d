------------------------ MODULE ScreeningGraph_proofs ------------------------
(***************************************************************************)
(* Proofs about ScreeningGraph, for every set of dossier shapes, promoted  *)
(* rules, error kinds and advised severities.                              *)
(***************************************************************************)
EXTENDS ScreeningGraph, TLAPS

(***************************************************************************)
(* Type correctness.                                                       *)
(***************************************************************************)

(* A code a document check can return makes a well-formed, typed finding.  *)
LEMMA CheckFindingType ==
  ASSUME NEW check \in DocumentChecks, NEW codes \in Outcomes(check, docs),
         NEW c \in codes
  PROVE  /\ CheckFinding(check, c, None) \in FindingRecords
         /\ WellFormedFinding(CheckFinding(check, c, None))
<1>1. c \in {"A1", "A2", "B1a", "B1b", "B2a", "B2b", "C1a", "C1b", "C2",
             "D1a", "D1b", "E1", "E2"}
  BY DEF DocumentChecks, Outcomes
<1>2. check \in Nodes
  BY DEF DocumentChecks, Nodes
<1>3. CodeSeverity(c) \in Severities
  BY <1>1 DEF CodeSeverity, Severities
<1> QED
  BY <1>1, <1>2, <1>3 DEF CheckFinding, FindingRecords, WellFormedFinding,
                          SystemCodes, Origins, None

LEMMA RuleFindingType ==
  ASSUME NEW r \in Rules, NEW outcome, NEW f \in RuleFindings(r, outcome)
  PROVE  f \in FindingRecords /\ WellFormedFinding(f)
BY DEF RuleFindings, CheckFinding, CodeSeverity, FindingRecords, Severities,
       WellFormedFinding, SystemCodes, Origins, None, Nodes

LEMMA TriageFindingType ==
  ASSUME NEW advised
  PROVE  TriageFinding(advised) \in FindingRecords /\ WellFormedFinding(TriageFinding(advised))
BY DEF TriageFinding, TriageCode, TriageSeverity, FindingRecords, Severities,
       WellFormedFinding, SystemCodes, Origins, None, Nodes

LEMMA SystemFindingType ==
  ASSUME NEW node \in Nodes, NEW kind \in LLMErrorKinds
  PROVE  /\ SystemFinding(node, kind) \in FindingRecords
         /\ WellFormedFinding(SystemFinding(node, kind))
BY ErrorKindsAssumption
   DEF SystemFinding, FindingRecords, Severities, WellFormedFinding,
       SystemCodes, Origins, None

LEMMA GuardrailType ==
  ASSUME NEW F, NEW p \in Proposals
  PROVE  /\ ApplyGuardrail(F, p) \in GuardrailDecisions
         /\ ApplyGuardrail(F, p).final = DecisionForSeverities(SeveritiesOf(F))
         /\ ApplyGuardrail(F, p) # NoDecisionYet
BY DEF ApplyGuardrail, GuardrailDecisions, DecisionForSeverities, Decisions,
       RequiredActions, NoDecisionYet, None

LEMMA CaseRecordType ==
  ASSUME NEW gd \in GuardrailDecisions \cup {NoDecisionYet}
  PROVE  CaseRecordOf(gd) \in CaseRecords \cup {NoRecordYet}
<1>1. CASE gd \in GuardrailDecisions
  <2>1. /\ gd.final \in Decisions
        /\ gd.actions \in SUBSET {"open_case", "escalate"}
    BY <1>1 DEF GuardrailDecisions
  <2>2. ("escalate" \in gd.actions) \in BOOLEAN
    OBVIOUS
  <2> QED
    BY <2>1, <2>2 DEF CaseRecordOf, CaseRecords
<1>2. CASE gd = NoDecisionYet
  <2>1. gd.final = None /\ gd.actions = {}
    BY <1>2 DEF NoDecisionYet
  <2>2. ("escalate" \in gd.actions) = FALSE
    BY <2>1
  <2>3. CaseRecordOf(gd) = NoRecordYet
    BY <2>1, <2>2, Zenon DEF CaseRecordOf, NoRecordYet
  <2> QED
    BY <2>3
<1> QED
  BY <1>1, <1>2

LEMMA AdvanceType ==
  ASSUME NEW node \in Nodes, TypeOK, Advance(node)
  PROVE  /\ pc' \in Nodes \cup {"end", "aborted"}
         /\ trajectory' \in Seq(Nodes)
<1>1. After[node] \in Nodes \cup {"end"}
  BY DEF After, Nodes
<1> QED
  BY <1>1 DEF Advance, TypeOK

LEMMA RanType ==
  ASSUME NEW node \in Nodes, NEW found \in SUBSET FindingRecords, TypeOK,
         \A f \in found : WellFormedFinding(f), Ran(node, found)
  PROVE  TypeOK'
<1>1. /\ pc' \in Nodes \cup {"end", "aborted"}
      /\ trajectory' \in Seq(Nodes)
  BY AdvanceType DEF Ran
<1>2. [check |-> node, ran |-> TRUE, findings |-> found]
        \in [check : Nodes, ran : BOOLEAN, findings : SUBSET FindingRecords]
  OBVIOUS
<1>3. checkResults' = checkResults \cup
        {[check |-> node, ran |-> TRUE, findings |-> found]}
  BY DEF Ran
<1>4. checkResults \subseteq
        [check : Nodes, ran : BOOLEAN, findings : SUBSET FindingRecords]
  BY DEF TypeOK
<1>5. checkResults' \subseteq
        [check : Nodes, ran : BOOLEAN, findings : SUBSET FindingRecords]
  BY <1>2, <1>3, <1>4
<1>6. findings' \subseteq FindingRecords /\ \A f \in findings' : WellFormedFinding(f)
  BY DEF Ran, TypeOK
<1> QED
  BY <1>1, <1>5, <1>6 DEF Ran, TypeOK

(* Every variable keeps its type, and every finding the contract of its    *)
(* validator, in every run.                                                *)
THEOREM TypeCorrect == Spec => []TypeOK
<1>1. Init => TypeOK
  BY ShapesAssumption
     DEF Init, TypeOK, Nodes, Proposals, NoProposalYet, NoDecisionYet, NoRecordYet
<1>2. TypeOK /\ [Next]_vars => TypeOK'
  <2> SUFFICES ASSUME TypeOK, [Next]_vars
               PROVE  TypeOK'
    OBVIOUS
  <2>1. CASE Extract
    <3>1. "extract" \in Nodes BY DEF Nodes
    <3> QED BY <2>1, <3>1, AdvanceType DEF Extract, TypeOK
  <2>2. CASE ExtractRejects
    BY <2>2 DEF ExtractRejects, Abort, TypeOK
  <2>3. CASE ResolveEntities
    <3>1. "resolve_entities" \in Nodes BY DEF Nodes
    <3> QED BY <2>3, <3>1, AdvanceType DEF ResolveEntities, TypeOK
  <2>4. CASE RunCheck
    <3>1. PICK codes \in Outcomes(pc, docs) :
            Ran(pc, {CheckFinding(pc, c, None) : c \in codes})
      BY <2>4 DEF RunCheck
    <3>2. pc \in DocumentChecks /\ pc \in Nodes
      BY <2>4 DEF RunCheck, DocumentChecks, Nodes
    <3>3. \A c \in codes : /\ CheckFinding(pc, c, None) \in FindingRecords
                           /\ WellFormedFinding(CheckFinding(pc, c, None))
      BY <3>2, CheckFindingType
    <3> QED
      BY <3>1, <3>2, <3>3, RanType
  <2>5. CASE SkipCheck
    <3>1. pc \in Nodes
      BY <2>5 DEF SkipCheck, DocumentChecks, Nodes
    <3>2. After[pc] \in Nodes \cup {"end"}
      BY <3>1 DEF After, Nodes
    <3>3. skipped' \in Seq(Nodes)
      BY <2>5, <3>1 DEF SkipCheck, Skip, TypeOK
    <3>4. [check |-> pc, ran |-> FALSE, findings |-> {}]
            \in [check : Nodes, ran : BOOLEAN, findings : SUBSET FindingRecords]
      BY <3>1
    <3>5. checkResults' = checkResults \cup
            {[check |-> pc, ran |-> FALSE, findings |-> {}]}
      BY <2>5 DEF SkipCheck, Skip
    <3>6. checkResults' \subseteq
            [check : Nodes, ran : BOOLEAN, findings : SUBSET FindingRecords]
      BY <3>4, <3>5 DEF TypeOK
    <3> QED
      BY <2>5, <3>2, <3>3, <3>6 DEF SkipCheck, Skip, TypeOK
  <2>6. CASE CheckLearnedRules
    <3>1. PICK outcome \in [Rules -> {"silent", "fired", "raised"}] :
            Ran("check_learned_rules",
                UNION {RuleFindings(r, outcome[r]) : r \in Rules})
      BY <2>6 DEF CheckLearnedRules
    <3>2. \A f \in UNION {RuleFindings(r, outcome[r]) : r \in Rules} :
            f \in FindingRecords /\ WellFormedFinding(f)
      BY RuleFindingType
    <3>3. "check_learned_rules" \in Nodes BY DEF Nodes
    <3> QED
      BY <3>1, <3>2, <3>3, RanType
  <2>7. CASE TriageAnswers
    <3>1. "ai_triage" \in Nodes BY DEF Nodes
    <3>2. PICK advised \in SUBSET AdvisedSeverities :
            findings' = findings \cup {TriageFinding(a) : a \in advised}
      BY <2>7 DEF TriageAnswers
    <3>3. \A a \in advised : TriageFinding(a) \in FindingRecords
                             /\ WellFormedFinding(TriageFinding(a))
      BY TriageFindingType
    <3> QED BY <2>7, <3>1, <3>2, <3>3, AdvanceType DEF TriageAnswers, TypeOK
  <2>8. CASE TriageFails
    <3>1. "ai_triage" \in Nodes BY DEF Nodes
    <3>2. PICK kind \in LLMErrorKinds :
            findings' = findings \cup {SystemFinding("ai_triage", kind)}
      BY <2>8 DEF TriageFails
    <3> QED BY <2>8, <3>1, <3>2, AdvanceType, SystemFindingType DEF TriageFails, TypeOK
  <2>9. CASE SynthesisAnswers
    <3>1. "synthesize" \in Nodes BY DEF Nodes
    <3>2. proposal' \in Proposals BY <2>9 DEF SynthesisAnswers, Proposals
    <3> QED BY <2>9, <3>1, <3>2, AdvanceType DEF SynthesisAnswers, TypeOK
  <2>10. ASSUME NEW kind \in LLMErrorKinds, RecordNoProposal(kind)
         PROVE  TypeOK'
    <3>1. "synthesize" \in Nodes BY DEF Nodes
    <3>2. proposal' \in Proposals BY <2>10 DEF RecordNoProposal, Proposals
    <3> QED BY <2>10, <3>1, <3>2, AdvanceType, SystemFindingType DEF RecordNoProposal, TypeOK
  <2>11. CASE SynthesisFails
    BY <2>10, <2>11 DEF SynthesisFails
  <2>12. CASE SynthesisDeclaresUnavailable
    BY <2>10, <2>12, ErrorKindsAssumption DEF SynthesisDeclaresUnavailable
  <2>13. CASE Guardrail
    <3>1. "guardrail" \in Nodes BY DEF Nodes
    <3>2. proposal \in Proposals BY DEF TypeOK
    <3>3. guardrail' \in GuardrailDecisions
      BY <2>13, <3>2, GuardrailType DEF Guardrail
    <3> QED BY <2>13, <3>1, <3>3, AdvanceType DEF Guardrail, TypeOK
  <2>14. CASE Act
    <3>1. "act" \in Nodes BY DEF Nodes
    <3>2. guardrail \in GuardrailDecisions \cup {NoDecisionYet}
      BY DEF TypeOK
    <3>3. record' \in CaseRecords \cup {NoRecordYet}
      BY <2>14, <3>2, CaseRecordType DEF Act
    <3> QED BY <2>14, <3>1, <3>3, AdvanceType DEF Act, TypeOK
  <2>15. CASE StoreFails
    <3>1. guardrail \in GuardrailDecisions \cup {NoDecisionYet}
      BY DEF TypeOK
    <3>2. record' \in CaseRecords \cup {NoRecordYet}
      BY <2>15, <3>1, CaseRecordType DEF StoreFails, TypeOK
    <3> QED BY <2>15, <3>2 DEF StoreFails, TypeOK
  <2>16. CASE UNCHANGED vars
    BY <2>16 DEF vars, TypeOK
  <2>17. QED
    BY <2>1, <2>2, <2>3, <2>4, <2>5, <2>6, <2>7, <2>8, <2>9, <2>11, <2>12,
       <2>13, <2>14, <2>15, <2>16 DEF Next
<1>3. QED
  BY <1>1, <1>2, PTL DEF Spec

(***************************************************************************)
(* The inductive invariant.                                                *)
(***************************************************************************)

(* What a check finds is neither operational nor the model's, and a        *)
(* missing document is always found.                                       *)
LEMMA CheckFindingsAreDeterministic ==
  ASSUME NEW check \in DocumentChecks, NEW c
  PROVE  /\ CheckFinding(check, c, None).origin = "deterministic"
         /\ CheckFinding(check, c, None).check = check
         /\ check # "synthesize"
BY DEF CheckFinding, DocumentChecks

LEMMA MissingDocumentIsFound ==
  ASSUME docs # Documents,
         NEW codes \in Outcomes("check_completeness", docs)
  PROVE  \E c \in codes :
           CheckFinding("check_completeness", c, None).severity = "explainable"
<1>1. "E1" \in codes
  BY DEF Outcomes
<1>2. CheckFinding("check_completeness", "E1", None).severity = "explainable"
  BY DEF CheckFinding, CodeSeverity
<1> QED
  BY <1>1, <1>2

LEMMA RuleFindingsAreSevere ==
  ASSUME NEW r, NEW outcome, NEW f \in RuleFindings(r, outcome)
  PROVE  /\ f.origin = "system" => f.severity = "unexplainable"
         /\ f.origin # "ai_triage"
         /\ f.check = "check_learned_rules"
BY DEF RuleFindings, CheckFinding

(* A check that is skipped lacks a document.                               *)
LEMMA SkipMeansMissing ==
  ASSUME NEW check \in DocumentChecks, ~CanRun(check, docs)
  PROVE  docs # Documents
<1>1. Documents = {"registry", "circular", "ubo"}
  BY DEF Documents
<1>2. CASE check = "check_identity_consistency"
  <2>1. ~\E d, e \in docs : d # e
    BY <1>2 DEF CanRun
  <2> QED
    BY <1>1, <2>1
<1>3. CASE check # "check_identity_consistency"
  BY <1>1, <1>3 DEF CanRun, DocumentChecks
<1> QED
  BY <1>2, <1>3

(* IInv holds of every reachable state.                                    *)
THEOREM Inductive == Spec => []IInv
<1>1. Init => IInv
  <2> SUFFICES ASSUME Init PROVE IInv
    OBVIOUS
  <2>1. TypeOK
    BY ShapesAssumption
       DEF Init, TypeOK, Nodes, Proposals, NoProposalYet, NoDecisionYet, NoRecordYet
  <2>2. ~Decided /\ ~Recorded
    BY DEF Init, Decided, Recorded
  <2> QED
    BY <2>1, <2>2
       DEF Init, IInv, FindingsAreSevere, MissingIsFound, PastCompleteness,
           ProposalIsHonest, DecisionIsPolicy, RecordIsDecision, NoProposalYet,
           Unavailable, None
<1>2. IInv /\ [Next]_vars /\ TypeOK' => IInv'
  <2> SUFFICES ASSUME IInv, [Next]_vars, TypeOK'
               PROVE  IInv'
    OBVIOUS
  <2> USE DEF IInv, FindingsAreSevere, MissingIsFound, PastCompleteness,
              ProposalIsHonest, DecisionIsPolicy, RecordIsDecision, Decided,
              Recorded, Ended
  <2>1. CASE Extract
    BY <2>1 DEF Extract, Advance, After, Nodes
  <2>2. CASE ExtractRejects
    BY <2>2 DEF ExtractRejects, Abort, Nodes
  <2>3. CASE ResolveEntities
    BY <2>3 DEF ResolveEntities, Advance, After, Nodes
  <2>4. CASE RunCheck
    <3>1. PICK codes \in Outcomes(pc, docs) :
            Ran(pc, {CheckFinding(pc, c, None) : c \in codes})
      BY <2>4 DEF RunCheck
    <3>2. pc \in DocumentChecks
      BY <2>4 DEF RunCheck
    <3>3. \A f \in findings' \ findings :
            f.origin = "deterministic" /\ f.check # "synthesize"
      BY <3>1, <3>2, CheckFindingsAreDeterministic DEF Ran
    <3>4. pc = "check_completeness" /\ docs # Documents =>
            \E f \in findings' : f.severity = "explainable"
      BY <3>1, MissingDocumentIsFound DEF Ran
    <3>5. /\ pc' \in Nodes \ {"ai_triage", "synthesize", "guardrail", "act"}
          /\ pc' = "check_learned_rules" => pc = "check_completeness"
          /\ pc \in Nodes \ {"guardrail", "act"}
      BY <3>1, <3>2 DEF Ran, Advance, After, DocumentChecks, Nodes
    <3>6. UNCHANGED <<docs, skipped, proposal, guardrail, record>>
          /\ findings \subseteq findings'
      BY <3>1 DEF Ran
    <3>7. FindingsAreSevere'
      BY <3>3
    <3>8. MissingIsFound'
      BY <3>4, <3>5, <3>6 DEF Nodes
    <3>9. ProposalIsHonest'
      BY <3>3, <3>5, <3>6 DEF Nodes
    <3>10. DecisionIsPolicy' /\ RecordIsDecision'
      BY <3>5, <3>6 DEF Nodes
    <3> QED
      BY <3>7, <3>8, <3>9, <3>10
  <2>5. CASE SkipCheck
    <3>1. pc \in DocumentChecks /\ ~CanRun(pc, docs) /\ Skip(pc)
      BY <2>5 DEF SkipCheck
    <3>2. docs # Documents
      BY <3>1, SkipMeansMissing
    <3>3. pc # "check_completeness"
      BY <3>1 DEF CanRun
    <3>4. /\ pc' \in Nodes \ {"check_learned_rules", "ai_triage", "synthesize",
                               "guardrail", "act"}
          /\ pc \in Nodes \ {"guardrail", "act"}
      BY <3>1, <3>3 DEF Skip, After, DocumentChecks, Nodes
    <3>5. UNCHANGED <<docs, findings, proposal, guardrail, record>>
      BY <3>1 DEF Skip
    <3> QED
      BY <3>2, <3>4, <3>5 DEF Nodes
  <2>6. CASE CheckLearnedRules
    <3>1. PICK outcome \in [Rules -> {"silent", "fired", "raised"}] :
            Ran("check_learned_rules",
                UNION {RuleFindings(r, outcome[r]) : r \in Rules})
      BY <2>6 DEF CheckLearnedRules
    <3>2. \A f \in findings' \ findings :
            /\ f.origin = "system" => f.severity = "unexplainable"
            /\ f.origin # "ai_triage"
            /\ f.check # "synthesize"
      BY <3>1, RuleFindingsAreSevere DEF Ran
    <3>3. pc = "check_learned_rules" /\ pc' = "ai_triage"
      BY <2>6, <3>1 DEF CheckLearnedRules, Ran, Advance, After
    <3>4. UNCHANGED <<docs, skipped, proposal, guardrail, record>>
          /\ findings \subseteq findings'
      BY <3>1 DEF Ran
    <3> QED
      BY <3>2, <3>3, <3>4 DEF Nodes
  <2>7. CASE TriageAnswers
    <3>1. PICK advised \in SUBSET AdvisedSeverities :
            findings' = findings \cup {TriageFinding(a) : a \in advised}
      BY <2>7 DEF TriageAnswers
    <3>2. \A f \in findings' \ findings :
            /\ f.origin = "ai_triage" /\ f.check # "synthesize"
            /\ f.severity \in {"explainable", "unexplainable"}
      BY <3>1 DEF TriageFinding, TriageSeverity
    <3>3. pc = "ai_triage" /\ pc' = "synthesize"
      BY <2>7 DEF TriageAnswers, Advance, After
    <3>4. UNCHANGED <<docs, skipped, proposal, guardrail, record>>
          /\ findings \subseteq findings'
      BY <2>7, <3>1 DEF TriageAnswers
    <3> QED
      BY <3>2, <3>3, <3>4 DEF Nodes
  <2>8. CASE TriageFails
    <3>1. PICK kind \in LLMErrorKinds :
            findings' = findings \cup {SystemFinding("ai_triage", kind)}
      BY <2>8 DEF TriageFails
    <3>2. \A f \in findings' \ findings :
            /\ f.origin = "system" /\ f.check # "synthesize"
            /\ f.severity = "unexplainable"
      BY <3>1 DEF SystemFinding
    <3>3. pc = "ai_triage" /\ pc' = "synthesize"
      BY <2>8 DEF TriageFails, Advance, After
    <3>4. UNCHANGED <<docs, skipped, proposal, guardrail, record>>
          /\ findings \subseteq findings'
      BY <2>8, <3>1 DEF TriageFails
    <3> QED
      BY <3>2, <3>3, <3>4 DEF Nodes
  <2>9. CASE SynthesisAnswers
    <3>1. proposal' # NoProposalYet /\ proposal' # Unavailable
      BY <2>9 DEF SynthesisAnswers, Available, Unavailable, NoProposalYet, None
    <3>2. proposal # Unavailable
      BY <2>9 DEF SynthesisAnswers, Unavailable, NoProposalYet, None, Nodes
    <3>3. pc = "synthesize" /\ pc' = "guardrail"
      BY <2>9 DEF SynthesisAnswers, Advance, After
    <3> QED
      BY <2>9, <3>1, <3>2, <3>3 DEF SynthesisAnswers, Nodes
  <2>10. ASSUME NEW kind \in LLMErrorKinds, pc = "synthesize", RecordNoProposal(kind)
         PROVE  IInv'
    <3>1. /\ proposal' # NoProposalYet /\ proposal' = Unavailable
          /\ findings' = findings \cup {SystemFinding("synthesize", kind)}
      BY <2>10 DEF RecordNoProposal, Unavailable, NoProposalYet, None
    <3>2. /\ SystemFinding("synthesize", kind).check = "synthesize"
          /\ SystemFinding("synthesize", kind).origin = "system"
          /\ SystemFinding("synthesize", kind).severity = "unexplainable"
      BY DEF SystemFinding
    <3>3. pc' = "guardrail"
      BY <2>10 DEF RecordNoProposal, Advance, After
    <3> QED
      BY <2>10, <3>1, <3>2, <3>3 DEF RecordNoProposal, Nodes
  <2>11. CASE SynthesisFails
    BY <2>10, <2>11 DEF SynthesisFails
  <2>12. CASE SynthesisDeclaresUnavailable
    BY <2>10, <2>12, ErrorKindsAssumption DEF SynthesisDeclaresUnavailable
  <2>13. CASE Guardrail
    <3>1. proposal \in Proposals
      BY DEF TypeOK
    <3>2. guardrail' = ApplyGuardrail(findings, proposal) /\ guardrail' # NoDecisionYet
      BY <2>13, <3>1, GuardrailType DEF Guardrail
    <3>3. pc = "guardrail" /\ pc' = "act"
      BY <2>13 DEF Guardrail, Advance, After
    <3> QED
      BY <2>13, <3>2, <3>3 DEF Guardrail, Nodes
  <2>14. CASE Act
    <3>1. pc = "act" /\ pc' = "end" /\ record' = CaseRecordOf(guardrail)
      BY <2>14 DEF Act, Advance, After
    <3>2. Decided
      BY <3>1
    <3>3. record' # NoRecordYet
      <4>1. guardrail.final \in Decisions
        BY <3>2 DEF TypeOK, GuardrailDecisions
      <4> QED
        BY <3>1, <4>1 DEF CaseRecordOf, NoRecordYet, Decisions, None
    <3> QED
      BY <2>14, <3>1, <3>2, <3>3 DEF Act, Nodes
  <2>15. CASE StoreFails
    <3>1. pc = "act" /\ pc' = "aborted" /\ record' \in {record, CaseRecordOf(guardrail)}
      BY <2>15 DEF StoreFails
    <3>2. Decided /\ ~Recorded
      BY <3>1
    <3>3. Recorded' => record' = CaseRecordOf(guardrail)
      BY <3>1, <3>2
    <3> QED
      BY <2>15, <3>1, <3>2, <3>3 DEF StoreFails, Nodes
  <2>16. CASE UNCHANGED vars
    BY <2>16 DEF vars
  <2>17. QED
    BY <2>1, <2>2, <2>3, <2>4, <2>5, <2>6, <2>7, <2>8, <2>9, <2>11, <2>12,
       <2>13, <2>14, <2>15, <2>16 DEF Next
<1>3. QED
  BY <1>1, <1>2, TypeCorrect, PTL DEF Spec

(***************************************************************************)
(* What the invariant gives.                                               *)
(***************************************************************************)

(* The policy on findings of which one is unexplainable, or one at least   *)
(* explainable.                                                            *)
LEMMA PolicyIsCautious ==
  ASSUME NEW F, NEW f \in F
  PROVE  /\ f.severity = "unexplainable" =>
              DecisionForSeverities(SeveritiesOf(F)) = "escalate"
         /\ f.severity = "explainable" =>
              DecisionForSeverities(SeveritiesOf(F)) # "approve"
BY DEF DecisionForSeverities, SeveritiesOf

(* More findings never make the decision laxer.                            *)
LEMMA PolicyIsMonotone ==
  ASSUME NEW F, NEW G \in SUBSET F
  PROVE  DecisionRank(DecisionForSeverities(SeveritiesOf(F))) >=
           DecisionRank(DecisionForSeverities(SeveritiesOf(G)))
<1>1. SeveritiesOf(G) \subseteq SeveritiesOf(F)
  BY DEF SeveritiesOf
<1> QED
  BY <1>1 DEF DecisionRank, DecisionForSeverities

LEMMA DecisionIsThePolicys ==
  ASSUME IInv, Decided
  PROVE  /\ guardrail = ApplyGuardrail(findings, proposal)
         /\ guardrail.final = DecisionForSeverities(SeveritiesOf(findings))
         /\ proposal \in Proposals
BY DEF IInv, DecisionIsPolicy, TypeOK, ApplyGuardrail

(* Every operational failure, wherever it strikes and whatever the model   *)
(* proposed, ends in an escalation.                                        *)
THEOREM FailClosed == Spec => []SystemFailureEscalates
<1>1. IInv => SystemFailureEscalates
  <2> SUFFICES ASSUME IInv, Decided, NEW f \in findings, f.origin = "system"
               PROVE  guardrail.final = "escalate"
    BY DEF SystemFailureEscalates
  <2>1. f.severity = "unexplainable"
    BY DEF IInv, FindingsAreSevere
  <2> QED
    BY <2>1, DecisionIsThePolicys, PolicyIsCautious
<1> QED
  BY <1>1, Inductive, PTL

(* No dossier with a document missing, or a check skipped, is approved.    *)
THEOREM IncompleteIsNotApproved == Spec => []IncompleteDossierNeverApproved
<1>1. IInv => IncompleteDossierNeverApproved
  <2> SUFFICES ASSUME IInv, Decided, docs # Documents \/ skipped # << >>
               PROVE  guardrail.final # "approve"
    BY DEF IncompleteDossierNeverApproved
  <2>1. PICK f \in findings : f.severity = "explainable"
    BY DEF IInv, MissingIsFound, PastCompleteness
  <2> QED
    BY <2>1, DecisionIsThePolicys, PolicyIsCautious
<1> QED
  BY <1>1, Inductive, PTL

(* The advisory layer of the model can only raise the decision above the   *)
(* one the other findings demand.                                          *)
THEOREM TriageRaises == Spec => []TriageOnlyRaises
<1>1. IInv => TriageOnlyRaises
  <2> SUFFICES ASSUME IInv, Decided
               PROVE  /\ DecisionRank(guardrail.final) >=
                           DecisionRank(DecisionForSeverities(SeveritiesOf(
                             {f \in findings : f.origin # "ai_triage"})))
                      /\ \A f \in findings :
                           f.origin = "ai_triage" => guardrail.final # "approve"
    BY DEF TriageOnlyRaises
  <2>1. guardrail.final = DecisionForSeverities(SeveritiesOf(findings))
    BY DecisionIsThePolicys
  <2>2. {f \in findings : f.origin # "ai_triage"} \in SUBSET findings
    OBVIOUS
  <2>3. ASSUME NEW f \in findings, f.origin = "ai_triage"
        PROVE  guardrail.final # "approve"
    <3>1. f.severity \in {"explainable", "unexplainable"}
      BY <2>3 DEF IInv, FindingsAreSevere
    <3>2. CASE f.severity = "explainable"
      BY <2>1, <3>2, PolicyIsCautious
    <3>3. CASE f.severity = "unexplainable"
      BY <2>1, <3>3, PolicyIsCautious
    <3> QED
      BY <3>1, <3>2, <3>3
  <2> QED
    BY <2>1, <2>2, <2>3, PolicyIsMonotone
<1> QED
  BY <1>1, Inductive, PTL

(* A run without a proposal is one whose synthesis failed; it escalates    *)
(* and is not called an override; any other run calls every disagreement   *)
(* an override.                                                            *)
THEOREM NoProposalIsRecorded == Spec => []NoProposalIsNotAgreement
<1>1. IInv => NoProposalIsNotAgreement
  <2> SUFFICES ASSUME IInv, Decided
               PROVE  NoProposalIsNotAgreement
    BY DEF NoProposalIsNotAgreement
  <2>1. /\ guardrail = ApplyGuardrail(findings, proposal)
        /\ guardrail.final = DecisionForSeverities(SeveritiesOf(findings))
        /\ proposal \in Proposals
    BY DecisionIsThePolicys
  <2>2. proposal # NoProposalYet
    BY DEF IInv, ProposalIsHonest
  <2>3. proposal = Unavailable \/ \E d \in Decisions : proposal = Available(d)
    BY <2>1, <2>2 DEF Proposals
  <2>4. proposal = Unavailable <=>
          \E f \in findings : f.check = "synthesize" /\ f.origin = "system"
    BY DEF IInv, ProposalIsHonest
  <2>5. CASE proposal = Unavailable
    <3>1. guardrail.mode = "fail_closed_no_proposal" /\ ~guardrail.overridden
      BY <2>1, <2>5 DEF ApplyGuardrail, Unavailable
    <3>2. PICK f \in findings : f.check = "synthesize" /\ f.origin = "system"
      BY <2>4, <2>5
    <3>3. f.severity = "unexplainable"
      BY <3>2 DEF IInv, FindingsAreSevere
    <3>4. guardrail.final = "escalate"
      BY <2>1, <3>3, PolicyIsCautious
    <3> QED
      BY <3>1, <3>2, <3>4 DEF NoProposalIsNotAgreement
  <2>6. CASE \E d \in Decisions : proposal = Available(d)
    <3>1. proposal # Unavailable /\ proposal.status = "available"
      BY <2>6 DEF Available, Unavailable
    <3>2. /\ guardrail.mode = "proposal_guarded"
          /\ guardrail.overridden <=> proposal.proposed # guardrail.final
      BY <2>1, <3>1 DEF ApplyGuardrail
    <3> QED
      BY <2>4, <3>1, <3>2 DEF NoProposalIsNotAgreement
  <2> QED
    BY <2>3, <2>5, <2>6
<1> QED
  BY <1>1, Inductive, PTL

(* The case store carries the decision of the guardrail and no other, with *)
(* the effects that decision calls for.                                    *)
THEOREM EffectIsTheDecision == Spec => []EffectFollowsDecision
<1>1. IInv => EffectFollowsDecision
  <2> SUFFICES ASSUME IInv
               PROVE  EffectFollowsDecision
    OBVIOUS
  <2>1. (pc = "end" => Recorded) /\ (Recorded => Ended)
    BY DEF IInv, RecordIsDecision
  <2>2. Recorded => Decided
    BY DEF IInv, RecordIsDecision
  <2>3. ASSUME Recorded
        PROVE  /\ record.decision = guardrail.final
               /\ record.escalated <=> guardrail.final = "escalate"
               /\ "open_case" \in record.actions <=> guardrail.final # "approve"
    <3>1. record = CaseRecordOf(guardrail)
      BY <2>3 DEF IInv, RecordIsDecision
    <3>2. /\ guardrail.final \in Decisions
          /\ guardrail.actions = RequiredActions(guardrail.final)
      BY <2>1, <2>2, <2>3, DecisionIsThePolicys
         DEF ApplyGuardrail, DecisionForSeverities, Decisions
    <3> QED
      BY <3>1, <3>2 DEF CaseRecordOf, RequiredActions, Decisions
  <2> QED
    BY <2>1, <2>2, <2>3 DEF EffectFollowsDecision
<1> QED
  BY <1>1, Inductive, PTL

(***************************************************************************)
(* Steps: what a node may do to the findings, and the promise they keep.   *)
(***************************************************************************)

(* Before the decision a step adds findings at most; the decision itself,  *)
(* and what comes after it, leaves the findings alone.                     *)
LEMMA Steps ==
  ASSUME IInv, [Next]_vars
  PROVE  \/ /\ ~Decided /\ findings \subseteq findings'
            /\ UNCHANGED <<guardrail, record>>
            /\ pc # "end" /\ pc' # "end"
         \/ Guardrail /\ ~Decided
         \/ (Act \/ StoreFails) /\ Decided
         \/ UNCHANGED vars
<1> USE DEF IInv, DecisionIsPolicy
<1>1. ASSUME NEW node, NEW found, Ran(node, found)
      PROVE  /\ findings \subseteq findings' /\ UNCHANGED <<guardrail, record>>
             /\ pc' = After[node]
  BY <1>1 DEF Ran, Advance
<1> HIDE DEF IInv, DecisionIsPolicy
<1>2. \A node \in Nodes \ {"act"} : After[node] # "end"
  BY DEF After, Nodes
<1>3. ASSUME pc \in Nodes \ {"act"}, pc' \in {After[pc], "aborted"},
             findings \subseteq findings', UNCHANGED <<guardrail, record>>
      PROVE  /\ ~Decided /\ findings \subseteq findings'
             /\ UNCHANGED <<guardrail, record>>
             /\ pc # "end" /\ pc' # "end"
  BY <1>2, <1>3 DEF IInv, DecisionIsPolicy, Nodes
<1>4. CASE Extract \/ ResolveEntities \/ ExtractRejects
  BY <1>3, <1>4 DEF Extract, ResolveEntities, ExtractRejects, Abort, Advance, Nodes
<1>5. CASE RunCheck
  BY <1>1, <1>3, <1>5 DEF RunCheck, DocumentChecks, Nodes
<1>6. CASE SkipCheck
  BY <1>3, <1>6 DEF SkipCheck, Skip, DocumentChecks, Nodes
<1>7. CASE CheckLearnedRules
  BY <1>1, <1>3, <1>7 DEF CheckLearnedRules, Nodes
<1>8. CASE TriageAnswers \/ TriageFails
  BY <1>3, <1>8 DEF TriageAnswers, TriageFails, Advance, Nodes
<1>9. CASE SynthesisAnswers
  BY <1>3, <1>9 DEF SynthesisAnswers, Advance, Nodes
<1>10. CASE SynthesisFails \/ SynthesisDeclaresUnavailable
  BY <1>3, <1>10 DEF SynthesisFails, SynthesisDeclaresUnavailable, RecordNoProposal,
                     Advance, Nodes
<1> USE DEF IInv, DecisionIsPolicy
<1>11. CASE Guardrail
  BY <1>11 DEF Guardrail, Nodes
<1>12. CASE Act \/ StoreFails
  BY <1>12 DEF Act, StoreFails
<1>13. CASE UNCHANGED vars
  BY <1>13
<1> HIDE DEF IInv, DecisionIsPolicy
<1> QED
  BY <1>4, <1>5, <1>6, <1>7, <1>8, <1>9, <1>10, <1>11, <1>12, <1>13 DEF Next

(* Caution is a level of the promise, grows with the findings and demands  *)
(* what the policy decides.                                                *)
LEMMA CautionGrows ==
  ASSUME findings \subseteq findings'
  PROVE  Caution' \in {level \in Promise!Levels : level >= Caution}
<1>1. SeveritiesOf(findings) \subseteq SeveritiesOf(findings')
  BY DEF SeveritiesOf
<1>2. SeveritiesOf(findings)' = SeveritiesOf(findings')
  BY DEF SeveritiesOf
<1> QED
  BY <1>1, <1>2 DEF Caution, Promise!Levels

LEMMA PolicyIsDemanded ==
  DecisionForSeverities(SeveritiesOf(findings)) = Promise!Demanded(Caution)
BY DEF DecisionForSeverities, Promise!Demanded, Caution

(* The graph implements the promise: nodes before the guardrail learn, the *)
(* guardrail decides what the caution demands, act makes it an effect, and *)
(* every other step is a stutter.                                          *)
THEOREM KeepsPromise == Spec => ImplementsPromise
<1>1. Init => Promise!Init
  BY DEF Init, Promise!Init, Caution, SeveritiesOf, NoDecisionYet, NoRecordYet,
         None, Promise!Undecided
<1>2. IInv /\ [Next]_vars /\ IInv' => [Promise!Next]_(Promise!vars)
  <2> SUFFICES ASSUME IInv, [Next]_vars, IInv'
               PROVE  [Promise!Next]_(Promise!vars)
    OBVIOUS
  <2>1. ~Decided => guardrail.final = Promise!Undecided
    BY DEF Decided, NoDecisionYet, None, Promise!Undecided
  <2>2. Decided => guardrail.final \in Decisions
    BY DEF IInv, TypeOK, Decided, GuardrailDecisions
  <2>3. CASE /\ ~Decided /\ findings \subseteq findings'
             /\ UNCHANGED <<guardrail, record>>
             /\ pc # "end" /\ pc' # "end"
    BY <2>1, <2>3, CautionGrows DEF Promise!Next, Promise!Learn
  <2>4. CASE Guardrail /\ ~Decided
    <3>1. guardrail'.final = Promise!Demanded(Caution)
      BY <2>4, PolicyIsDemanded DEF Guardrail, ApplyGuardrail
    <3>2. /\ Caution' = Caution /\ record' = record
          /\ pc # "end" /\ pc' # "end"
      BY <2>4 DEF Guardrail, Advance, After, Caution, SeveritiesOf
    <3> QED
      BY <2>1, <2>4, <3>1, <3>2 DEF Promise!Next, Promise!Decide
  <2>5. CASE (Act \/ StoreFails) /\ Decided
    <3>1. Caution' = Caution /\ guardrail' = guardrail
      BY <2>5 DEF Act, StoreFails, Caution, SeveritiesOf
    <3>2. /\ pc # "end"
          /\ \/ record' = record /\ pc' # "end"
             \/ record'.decision = guardrail.final
      BY <2>5 DEF Act, StoreFails, CaseRecordOf
    <3>3. record.decision = Promise!Undecided
      <4>1. pc = "act"
        BY <2>5 DEF Act, StoreFails
      <4>2. record = NoRecordYet
        BY <4>1 DEF IInv, RecordIsDecision, Recorded, Ended
      <4> QED
        BY <4>2 DEF NoRecordYet, None, Promise!Undecided
    <3>4. guardrail.final # Promise!Undecided
      BY <2>2, <2>5 DEF Decisions, Promise!Undecided
    <3> QED
      BY <3>1, <3>2, <3>3, <3>4 DEF Promise!Next, Promise!Act, Promise!vars
  <2>6. CASE UNCHANGED vars
    BY <2>6 DEF vars, Promise!vars, Caution, SeveritiesOf
  <2> QED
    BY <2>3, <2>4, <2>5, <2>6, Steps
<1> QED
  BY <1>1, <1>2, Inductive, PTL DEF Spec, ImplementsPromise, Promise!Spec

(***************************************************************************)
(* The audit trail. It is inductive as it stands, given the types: an      *)
(* order that breaks breaks at the node that is due.                       *)
(***************************************************************************)

(* The chain passes the places one by one, and no two nodes share a place. *)
LEMMA ChainIsCounted ==
  /\ \A n \in Nodes : Position[n] \in 1..12 /\ Position[After[n]] = Position[n] + 1
  /\ \A n, m \in Nodes : Position[n] = Position[m] => n = m
  /\ \A n \in Nodes : After[n] # "aborted"
<1>1. \A n \in Nodes : Position[n] \in 1..12 /\ Position[After[n]] = Position[n] + 1
  BY DEF Nodes, Position, After
<1>2. \A n, m \in Nodes : Position[n] = Position[m] => n = m
  BY DEF Nodes, Position
<1>3. \A n \in Nodes : After[n] # "aborted"
  BY DEF Nodes, After
<1> QED
  BY <1>1, <1>2, <1>3

LEMMA SetOfAppend ==
  ASSUME NEW s \in Seq(Nodes), NEW x \in Nodes
  PROVE  ToSet(Append(s, x)) = ToSet(s) \cup {x}
<1> DEFINE t == Append(s, x)
<1>1. \A i \in DOMAIN s : i \in DOMAIN t /\ t[i] = s[i]
  OBVIOUS
<1>2. Len(s) + 1 \in DOMAIN t /\ t[Len(s) + 1] = x
  OBVIOUS
<1>3. \A i \in DOMAIN t : i = Len(s) + 1 \/ i \in DOMAIN s
  OBVIOUS
<1> HIDE DEF t
<1>4. ToSet(t) = ToSet(s) \cup {x}
  BY <1>1, <1>2, <1>3 DEF ToSet
<1> QED
  BY <1>4 DEF t

(* An order is kept by a node whose place is after all the others'.        *)
LEMMA OrderOfAppend ==
  ASSUME NEW s \in Seq(Nodes), NEW x \in Nodes, InGraphOrder(s),
         \A n \in ToSet(s) : Position[n] < Position[x]
  PROVE  InGraphOrder(Append(s, x))
<1> DEFINE t == Append(s, x)
<1>1. SUFFICES ASSUME NEW i \in DOMAIN t, NEW j \in DOMAIN t, i < j
               PROVE  Position[t[i]] < Position[t[j]]
  BY DEF InGraphOrder
<1>2. i \in DOMAIN s /\ t[i] = s[i]
  BY <1>1
<1>3. s[i] \in ToSet(s)
  BY <1>2 DEF ToSet
<1>4. CASE j \in DOMAIN s
  <2>1. t[j] = s[j]
    BY <1>4
  <2>2. Position[s[i]] < Position[s[j]]
    BY <1>1, <1>2, <1>4 DEF InGraphOrder
  <2> QED
    BY <1>2, <2>1, <2>2
<1>5. CASE j \notin DOMAIN s
  <2>1. t[j] = x
    BY <1>5
  <2> QED
    BY <1>2, <1>3, <2>1
<1> QED
  BY <1>4, <1>5

(* What a step may do to the trail: pass the node that is due, as one that *)
(* ran or as one that was skipped, or leave it alone.                      *)
PassesAsRun ==
  /\ pc \in Nodes /\ Advance(pc)
  /\ skipped' = skipped
  /\ \/ checkResults' = checkResults
     \/ \E found : checkResults' =
          checkResults \cup {[check |-> pc, ran |-> TRUE, findings |-> found]}

LEMMA TrailSteps ==
  ASSUME [Next]_vars
  PROVE  \/ PassesAsRun
         \/ pc \in Nodes /\ Skip(pc)
         \/ pc' \in {pc, "aborted"} /\ UNCHANGED <<trajectory, skipped, checkResults>>
<1>1. ASSUME NEW found, pc \in Nodes, Ran(pc, found)
      PROVE  PassesAsRun
  BY <1>1 DEF Ran, PassesAsRun
<1>2. CASE Extract \/ ResolveEntities \/ TriageAnswers \/ TriageFails
           \/ SynthesisAnswers \/ Guardrail \/ Act
  BY <1>2 DEF PassesAsRun, Nodes, Extract, ResolveEntities, TriageAnswers, TriageFails,
              SynthesisAnswers, Guardrail, Act
<1>3. CASE SynthesisFails \/ SynthesisDeclaresUnavailable
  BY <1>3 DEF PassesAsRun, Nodes, SynthesisFails, SynthesisDeclaresUnavailable,
              RecordNoProposal
<1>4. CASE ExtractRejects \/ StoreFails
  BY <1>4 DEF ExtractRejects, StoreFails, Abort
<1>5. CASE RunCheck
  BY <1>1, <1>5 DEF RunCheck, DocumentChecks, Nodes
<1>6. CASE CheckLearnedRules
  BY <1>1, <1>6 DEF CheckLearnedRules, Nodes
<1>7. CASE SkipCheck
  BY <1>7 DEF SkipCheck, DocumentChecks, Nodes
<1>8. CASE UNCHANGED vars
  BY <1>8 DEF vars
<1> QED
  BY <1>2, <1>3, <1>4, <1>5, <1>6, <1>7, <1>8 DEF Next

(* The node that is due is in neither list yet, all in them are before it, *)
(* and what is behind the run when it was passed is what was before, and   *)
(* the node itself.                                                        *)
LEMMA DueIsNext ==
  ASSUME TypeOK, AuditTrail, pc \in Nodes
  PROVE  /\ pc \notin ToSet(trajectory) \cup ToSet(skipped)
         /\ \A n \in ToSet(trajectory) \cup ToSet(skipped) : Position[n] < Position[pc]
         /\ pc' = After[pc] =>
              \A n \in Nodes :
                ~Due(n)' <=> n = pc \/ n \in ToSet(trajectory) \cup ToSet(skipped)
<1>1. ToSet(trajectory) \subseteq Nodes /\ ToSet(skipped) \subseteq Nodes
  BY DEF TypeOK, ToSet
<1>2. pc # "aborted"
  BY DEF Nodes
<1>3. \A n \in Nodes : n \in ToSet(trajectory) \cup ToSet(skipped) <=> ~Due(n)
  BY <1>2 DEF AuditTrail
<1>4. \A n \in Nodes : ~Due(n) <=> Position[n] < Position[pc]
  BY <1>2, ChainIsCounted DEF Due
<1>5. ASSUME pc' = After[pc], NEW n \in Nodes
      PROVE  ~Due(n)' <=> n = pc \/ n \in ToSet(trajectory) \cup ToSet(skipped)
  <2>1. pc' # "aborted" /\ Position[pc'] = Position[pc] + 1
    BY <1>5, ChainIsCounted
  <2>2. ~Due(n)' <=> Position[n] < Position[pc] + 1
    BY <2>1, ChainIsCounted DEF Due
  <2>3. ~Due(n)' <=> Position[n] < Position[pc] \/ n = pc
    BY <2>2, ChainIsCounted
  <2> QED
    BY <1>3, <1>4, <2>3
<1> QED
  BY <1>1, <1>3, <1>4, <1>5, ChainIsCounted

LEMMA TrailIsKept ==
  ASSUME TypeOK, AuditTrail, [Next]_vars
  PROVE  AuditTrail'
<1>1. trajectory \in Seq(Nodes) /\ skipped \in Seq(Nodes)
  BY DEF TypeOK
<1>2. CASE PassesAsRun
  <2>1. /\ pc \in Nodes /\ pc' = After[pc]
        /\ trajectory' = Append(trajectory, pc) /\ skipped' = skipped
    BY <1>2 DEF PassesAsRun, Advance
  <2>2. ToSet(trajectory') = ToSet(trajectory) \cup {pc}
    BY <1>1, <2>1, SetOfAppend
  <2>3. InGraphOrder(trajectory')
    BY <1>1, <2>1, DueIsNext, OrderOfAppend DEF AuditTrail
  <2>4. \A r \in checkResults' : r \in checkResults \/ (r.ran /\ r.check = pc)
    BY <1>2 DEF PassesAsRun
  <2>5. checkResults \subseteq checkResults'
    BY <1>2 DEF PassesAsRun
  <2>6. \A n \in Nodes :
          n \in ToSet(skipped) <=> \E r \in checkResults' : r.check = n /\ ~r.ran
    BY <2>4, <2>5 DEF AuditTrail
  <2>7. \A r \in checkResults' : r.ran => r.check \in ToSet(trajectory')
    BY <2>2, <2>4 DEF AuditTrail
  <2>8. \A n \in Nodes : n \in ToSet(trajectory') \cup ToSet(skipped) <=> ~Due(n)'
    BY <2>1, <2>2, DueIsNext
  <2>9. ToSet(trajectory') \cap ToSet(skipped) = {}
    BY <2>1, <2>2, DueIsNext DEF AuditTrail
  <2> QED
    BY <2>1, <2>3, <2>6, <2>7, <2>8, <2>9 DEF AuditTrail
<1>3. CASE pc \in Nodes /\ Skip(pc)
  <2>1. /\ pc \in Nodes /\ pc' = After[pc]
        /\ skipped' = Append(skipped, pc) /\ trajectory' = trajectory
        /\ checkResults' =
             checkResults \cup {[check |-> pc, ran |-> FALSE, findings |-> {}]}
    BY <1>3 DEF Skip
  <2>2. ToSet(skipped') = ToSet(skipped) \cup {pc}
    BY <1>1, <2>1, SetOfAppend
  <2>3. InGraphOrder(skipped')
    BY <1>1, <2>1, DueIsNext, OrderOfAppend DEF AuditTrail
  <2>4. \A n \in Nodes :
          n \in ToSet(skipped') <=> \E r \in checkResults' : r.check = n /\ ~r.ran
    <3>1. checkResults \subseteq checkResults'
      BY <2>1
    <3> DEFINE new == [check |-> pc, ran |-> FALSE, findings |-> {}]
    <3>2. new \in checkResults' /\ new.check = pc /\ ~new.ran
      BY <2>1
    <3>3. \A r \in checkResults' : r \in checkResults \/ r = new
      BY <2>1
    <3> HIDE DEF new
    <3> QED
      BY <2>2, <3>1, <3>2, <3>3 DEF AuditTrail
  <2>5. \A r \in checkResults' : r.ran => r.check \in ToSet(trajectory)
    BY <2>1 DEF AuditTrail
  <2>6. \A n \in Nodes : n \in ToSet(trajectory) \cup ToSet(skipped') <=> ~Due(n)'
    BY <2>1, <2>2, DueIsNext
  <2>7. ToSet(trajectory) \cap ToSet(skipped') = {}
    BY <2>1, <2>2, DueIsNext DEF AuditTrail
  <2> QED
    BY <2>1, <2>3, <2>4, <2>5, <2>6, <2>7 DEF AuditTrail
<1>4. CASE pc' \in {pc, "aborted"} /\ UNCHANGED <<trajectory, skipped, checkResults>>
  BY <1>4 DEF AuditTrail, Due, InGraphOrder, ToSet
<1> QED
  BY <1>2, <1>3, <1>4, TrailSteps

(* The audit trail is what happened: every node the run has passed is in   *)
(* exactly one of trajectory and skipped_checks, each in graph order, and  *)
(* the check results agree, for every dossier and every answer.            *)
THEOREM TrailIsTrue == Spec => []AuditTrail
<1>1. Init => AuditTrail
  <2> SUFFICES ASSUME Init PROVE AuditTrail
    OBVIOUS
  <2>1. pc = "extract" /\ ToSet(trajectory) = {} /\ ToSet(skipped) = {}
    BY DEF Init, ToSet
  <2>2. \A n \in Nodes : Due(n)
    BY <2>1 DEF Due, Position, Nodes
  <2> QED
    BY <2>1, <2>2 DEF Init, AuditTrail, InGraphOrder
<1>2. TypeOK /\ AuditTrail /\ [Next]_vars => AuditTrail'
  BY TrailIsKept
<1> QED
  BY <1>1, <1>2, TypeCorrect, PTL DEF Spec

=============================================================================
