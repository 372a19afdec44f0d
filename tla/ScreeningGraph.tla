--------------------------- MODULE ScreeningGraph ---------------------------
(***************************************************************************)
(* One run of the screening graph (agent/graph.py, agent/runner.py): the   *)
(* nodes in their fixed order, each reading the state of the run and       *)
(* returning an update to it.                                              *)
(*                                                                         *)
(* What a deterministic check finds is a choice among the outcomes its     *)
(* function can return for the documents present (CheckOutcomes; module    *)
(* DossierChecks shows that they are all); what a learned rule and         *)
(* the model answer is a free choice, failures included. Names, amounts,   *)
(* dates and wording are abstracted: nothing below the finding codes       *)
(* reaches the policy.                                                     *)
(***************************************************************************)
EXTENDS CheckOutcomes, SequencesExt

CONSTANTS
  DossierShapes,   \* the sets of documents a dossier may consist of
  Rules,           \* the promoted rules the run was started with
  LLMErrorKinds,   \* the kinds of error a call of the model may end in
  AdvisedSeverities \* the severities the model may write in a concern

ASSUME ShapesAssumption == DossierShapes \subseteq SUBSET Documents

ASSUME ErrorKindsAssumption ==
  /\ LLMErrorKinds \subseteq
       {"timeout", "provider_error", "schema_invalid", "unexpected_exception"}
  /\ "schema_invalid" \in LLMErrorKinds

ASSUME AdvisedAssumption == None \notin Rules

(* No row in the case store for this run.                                  *)
NoRecordYet == [decision |-> None, actions |-> {}, escalated |-> FALSE]

VARIABLES
  docs,          \* the documents the dossier contains
  pc,            \* the next node, or how the run ended
  findings,      \* findings, over all nodes
  trajectory,    \* the nodes that ran, in order
  skipped,       \* skipped_checks: the checks that could not run, in order
  checkResults,  \* check_results: one entry per check node passed
  proposal,      \* the synthesis proposal
  guardrail,     \* the guardrail decision
  record         \* the CaseRecord this run wrote to the store

vars == <<docs, pc, findings, trajectory, skipped, checkResults, proposal,
          guardrail, record>>

Nodes == { "extract", "resolve_entities", "check_identity_consistency",
           "check_ownership_consistency", "check_authority_chain",
           "check_ubo_derivation", "check_completeness",
           "check_learned_rules", "ai_triage", "synthesize", "guardrail",
           "act" }

(* The edges of build_graph: a chain from the entry point to END.          *)
After == [ extract |-> "resolve_entities",
           resolve_entities |-> "check_identity_consistency",
           check_identity_consistency |-> "check_ownership_consistency",
           check_ownership_consistency |-> "check_authority_chain",
           check_authority_chain |-> "check_ubo_derivation",
           check_ubo_derivation |-> "check_completeness",
           check_completeness |-> "check_learned_rules",
           check_learned_rules |-> "ai_triage",
           ai_triage |-> "synthesize",
           synthesize |-> "guardrail",
           guardrail |-> "act",
           act |-> "end" ]

Ended == pc \in {"end", "aborted"}

-----------------------------------------------------------------------------
(* The outcome of the learned rules.                                       *)

(* check_learned_rules on one rule: silent, an F1, or a T1 when evaluating *)
(* it raised. The next rule is evaluated in every case.                    *)
RuleFindings(rule, outcome) ==
  CASE outcome = "fired" ->
         {CheckFinding("check_learned_rules", "F1", rule)}
    [] outcome = "raised" ->
         {[ check |-> "check_learned_rules", code |-> "T1",
            severity |-> "unexplainable", origin |-> "system",
            kind |-> "rule_runtime_error", about |-> rule ]}
    [] OTHER -> {}

-----------------------------------------------------------------------------
(* How a node updates the state of the run: _ran and _skipped, and the     *)
(* nodes that are not checks.                                              *)

Advance(node) ==
  /\ pc' = After[node]
  /\ trajectory' = Append(trajectory, node)

Ran(node, found) ==
  /\ Advance(node)
  /\ checkResults' =
       checkResults \cup {[check |-> node, ran |-> TRUE, findings |-> found]}
  /\ findings' = findings \cup found
  /\ UNCHANGED <<docs, skipped, proposal, guardrail, record>>

(* Wrong: a check that could not run is recorded as one that ran.          *)
BugSkipCountsAsRun(node) ==
  /\ Advance(node)
  /\ skipped' = Append(skipped, node)
  /\ checkResults' =
       checkResults \cup {[check |-> node, ran |-> FALSE, findings |-> {}]}
  /\ UNCHANGED <<docs, findings, proposal, guardrail, record>>

Skip(node) ==
  /\ pc' = After[node]
  /\ skipped' = Append(skipped, node)
  /\ checkResults' =
       checkResults \cup {[check |-> node, ran |-> FALSE, findings |-> {}]}
  /\ UNCHANGED <<docs, findings, trajectory, proposal, guardrail, record>>

(* An exception that leaves the node ends the run: invoke re-raises it.    *)
Abort ==
  /\ pc' = "aborted"
  /\ UNCHANGED <<docs, findings, trajectory, skipped, checkResults, proposal,
                 guardrail, record>>

-----------------------------------------------------------------------------
Init ==
  /\ docs \in DossierShapes
  /\ pc = "extract"
  /\ findings = {}
  /\ trajectory = << >>
  /\ skipped = << >>
  /\ checkResults = {}
  /\ proposal = NoProposalYet
  /\ guardrail = NoDecisionYet
  /\ record = NoRecordYet

Extract ==
  /\ pc = "extract"
  /\ Advance("extract")
  /\ UNCHANGED <<docs, findings, skipped, checkResults, proposal, guardrail, record>>

(* Dossier.model_validate refuses the raw dossier.                         *)
ExtractRejects ==
  /\ pc = "extract"
  /\ Abort

ResolveEntities ==
  /\ pc = "resolve_entities"
  /\ Advance("resolve_entities")
  /\ UNCHANGED <<docs, findings, skipped, checkResults, proposal, guardrail, record>>

(* The five check nodes: a check whose documents are present runs.         *)
RunCheck ==
  /\ pc \in DocumentChecks
  /\ CanRun(pc, docs)
  /\ \E codes \in Outcomes(pc, docs) :
       Ran(pc, {CheckFinding(pc, c, None) : c \in codes})

(* Wrong: only an empty dossier lets a check be skipped.                   *)
BugNeitherRunNorSkipped ==
  /\ pc \in DocumentChecks
  /\ docs = {}
  /\ Skip(pc)

SkipCheck ==
  /\ pc \in DocumentChecks
  /\ ~CanRun(pc, docs)
  /\ Skip(pc)

CheckLearnedRules ==
  /\ pc = "check_learned_rules"
  /\ \E outcome \in [Rules -> {"silent", "fired", "raised"}] :
       Ran("check_learned_rules",
           UNION {RuleFindings(r, outcome[r]) : r \in Rules})

(* ai_triage, when the model answers: concerns become findings, but no     *)
(* check result, so the synthesis prompt does not show them.               *)
TriageAnswers ==
  /\ pc = "ai_triage"
  /\ \E advised \in SUBSET AdvisedSeverities :
       findings' = findings \cup {TriageFinding(a) : a \in advised}
  /\ Advance("ai_triage")
  /\ UNCHANGED <<docs, skipped, checkResults, proposal, guardrail, record>>

TriageFails ==
  /\ pc = "ai_triage"
  /\ \E kind \in LLMErrorKinds :
       findings' = findings \cup {SystemFinding("ai_triage", kind)}
  /\ Advance("ai_triage")
  /\ UNCHANGED <<docs, skipped, checkResults, proposal, guardrail, record>>

(* The model proposes a decision, any decision.                            *)
SynthesisAnswers ==
  /\ pc = "synthesize"
  /\ \E d \in Decisions : proposal' = Available(d)
  /\ Advance("synthesize")
  /\ UNCHANGED <<docs, findings, skipped, checkResults, guardrail, record>>

(* _synthesis_unavailable.                                                 *)
RecordNoProposal(kind) ==
  /\ proposal' = Unavailable
  /\ findings' = findings \cup {SystemFinding("synthesize", kind)}
  /\ Advance("synthesize")
  /\ UNCHANGED <<docs, skipped, checkResults, guardrail, record>>

SynthesisFails ==
  /\ pc = "synthesize"
  /\ \E kind \in LLMErrorKinds : RecordNoProposal(kind)

(* The model answers that it is unavailable: that is not for it to say,    *)
(* and the answer is treated as out of contract.                           *)
SynthesisDeclaresUnavailable ==
  /\ pc = "synthesize"
  /\ RecordNoProposal("schema_invalid")

Guardrail ==
  /\ pc = "guardrail"
  /\ guardrail' = ApplyGuardrail(findings, proposal)
  /\ Advance("guardrail")
  /\ UNCHANGED <<docs, findings, skipped, checkResults, proposal, record>>

(* act: the record is built from the guardrail decision alone.             *)
CaseRecordOf(gd) ==
  [ decision  |-> gd.final,
    actions   |-> gd.actions,
    escalated |-> "escalate" \in gd.actions ]

Act ==
  /\ pc = "act"
  /\ record' = CaseRecordOf(guardrail)
  /\ Advance("act")
  /\ UNCHANGED <<docs, findings, skipped, checkResults, proposal, guardrail>>

(* Wrong: an exception of the store is caught, and the run goes on.        *)
BugStoreFailureSwallowed ==
  /\ pc = "act"
  /\ record' \in {record, CaseRecordOf(guardrail)}
  /\ Advance("act")
  /\ UNCHANGED <<docs, findings, skipped, checkResults, proposal, guardrail>>

(* write_record raises: the run ends. Another run on the same connection   *)
(* may have committed the row all the same (CaseStore).                    *)
StoreFails ==
  /\ pc = "act"
  /\ pc' = "aborted"
  /\ record' \in {record, CaseRecordOf(guardrail)}
  /\ UNCHANGED <<docs, findings, trajectory, skipped, checkResults, proposal,
                 guardrail>>

Next ==
  \/ Extract \/ ExtractRejects \/ ResolveEntities
  \/ RunCheck \/ SkipCheck \/ CheckLearnedRules
  \/ TriageAnswers \/ TriageFails
  \/ SynthesisAnswers \/ SynthesisFails \/ SynthesisDeclaresUnavailable
  \/ Guardrail \/ Act \/ StoreFails

(* invoke drives the graph to its end in one call: while a node is due, it *)
(* is run, and a call of the model returns or raises.                      *)
Spec == Init /\ [][Next]_vars /\ WF_vars(Next)

-----------------------------------------------------------------------------
FindingRecords ==
  [ check    : Nodes,
    code     : {"A1", "A2", "B1a", "B1b", "B2a", "B2b", "C1a", "C1b", "C2",
                "D1a", "D1b", "E1", "E2", "X1", "X2", "F1", "T0", "T1"},
    severity : Severities,
    origin   : Origins,
    kind     : LLMErrorKinds \cup {"rule_runtime_error", None},
    about    : Rules \cup {None} ]

CaseRecords == [ decision  : Decisions,
                 actions   : SUBSET {"open_case", "escalate"},
                 escalated : BOOLEAN ]

(* The type of every variable; a finding also satisfies the contract its   *)
(* validator enforces (contracts/findings.py).                             *)
TypeOK ==
  /\ docs \in SUBSET Documents
  /\ pc \in Nodes \cup {"end", "aborted"}
  /\ findings \subseteq FindingRecords
  /\ \A f \in findings : WellFormedFinding(f)
  /\ trajectory \in Seq(Nodes)
  /\ skipped \in Seq(Nodes)
  /\ checkResults \subseteq
       [check : Nodes, ran : BOOLEAN, findings : SUBSET FindingRecords]
  /\ proposal \in Proposals
  /\ guardrail \in GuardrailDecisions \cup {NoDecisionYet}
  /\ record \in CaseRecords \cup {NoRecordYet}

Decided == guardrail # NoDecisionYet

Recorded == record # NoRecordYet

(* The place of each node in the chain, the order a trajectory is scored   *)
(* against (eval/metrics.py, trajectory_match).                            *)
Position == [ extract |-> 1, resolve_entities |-> 2,
              check_identity_consistency |-> 3,
              check_ownership_consistency |-> 4, check_authority_chain |-> 5,
              check_ubo_derivation |-> 6, check_completeness |-> 7,
              check_learned_rules |-> 8, ai_triage |-> 9, synthesize |-> 10,
              guardrail |-> 11, act |-> 12, end |-> 13 ]

Due(node) == pc # "aborted" /\ Position[pc] <= Position[node]

(* An operational failure anywhere in the run, of the model or of a        *)
(* promoted rule, ends in an escalation and never in an approval           *)
(* (agent/graph.py, _system_finding: "Fail-closed").                       *)
SystemFailureEscalates ==
  Decided /\ (\E f \in findings : f.origin = "system")
    => guardrail.final = "escalate"

(* A check that could not run never counts as a clean one: a dossier with  *)
(* a document missing, hence with a check skipped, is never approved.      *)
IncompleteDossierNeverApproved ==
  Decided /\ (docs # Documents \/ skipped # << >>) => guardrail.final # "approve"

(* The triage layer can only raise caution: the decision is never laxer    *)
(* than the policy demands of the other findings alone, and a concern of   *)
(* whatever advised severity rules out an approval (agent/triage.py).      *)
TriageOnlyRaises ==
  Decided =>
    /\ DecisionRank(guardrail.final) >=
         DecisionRank(DecisionForSeverities(SeveritiesOf(
           {f \in findings : f.origin # "ai_triage"})))
    /\ (\E f \in findings : f.origin = "ai_triage") => guardrail.final # "approve"

(* The record never lets a failed synthesis read as agreement: a run is    *)
(* finalized without a proposal exactly when the synthesis left a T0, and  *)
(* then it escalates; with a proposal, every disagreement is an override.  *)
NoProposalIsNotAgreement ==
  Decided =>
    /\ guardrail.mode = "fail_closed_no_proposal"
         <=> \E f \in findings : f.check = "synthesize" /\ f.origin = "system"
    /\ guardrail.mode = "fail_closed_no_proposal" =>
         guardrail.final = "escalate" /\ ~guardrail.overridden
    /\ guardrail.mode = "proposal_guarded" =>
         (guardrail.overridden <=> proposal.proposed # guardrail.final)

(* The audit trail is what happened: every node the run has passed is in   *)
(* exactly one of trajectory and skipped_checks, each in graph order, and  *)
(* the check results tell the same story (agent/state.py, "audit           *)
(* backbone"; eval/metrics.py scores a run on it).                         *)
InGraphOrder(s) ==
  \A i, j \in DOMAIN s : i < j => Position[s[i]] < Position[s[j]]

AuditTrail ==
  /\ InGraphOrder(trajectory) /\ InGraphOrder(skipped)
  /\ ToSet(trajectory) \cap ToSet(skipped) = {}
  /\ pc # "aborted" =>
       \A n \in Nodes :
         n \in ToSet(trajectory) \cup ToSet(skipped) <=> ~Due(n)
  /\ \A n \in Nodes :
       n \in ToSet(skipped) <=> \E r \in checkResults : r.check = n /\ ~r.ran
  /\ \A r \in checkResults : r.ran => r.check \in ToSet(trajectory)

(* Only a decision of the guardrail becomes an effect, unchanged: a case   *)
(* is opened unless the dossier is approved, and flagged only when it is   *)
(* escalated; a run that reached its end left its record.                  *)
EffectFollowsDecision ==
  /\ Recorded =>
       /\ Ended
       /\ Decided /\ record.decision = guardrail.final
       /\ record.escalated <=> guardrail.final = "escalate"
       /\ "open_case" \in record.actions <=> guardrail.final # "approve"
  /\ pc = "end" => Recorded

(* The graph implements the promise of FailClosedScreening: among the rest,*)
(* no run returns a decision its store has refused (act, agent/graph.py).  *)
Caution ==
  IF "unexplainable" \in SeveritiesOf(findings) THEN 2
  ELSE IF "explainable" \in SeveritiesOf(findings) THEN 1
  ELSE 0

Promise == INSTANCE FailClosedScreening WITH
  caution  <- Caution,
  decision <- guardrail.final,
  effect   <- record.decision,
  returned <- pc = "end"

ImplementsPromise == Promise!Spec

(***************************************************************************)
(* The inductive invariant behind the safety properties: what each node    *)
(* relies on the nodes before it for.                                      *)
(***************************************************************************)

(* No operational failure and no concern of the model is ever benign.      *)
FindingsAreSevere ==
  \A f \in findings :
    /\ f.origin = "system" => f.severity = "unexplainable"
    /\ f.origin = "ai_triage" => f.severity \in {"explainable", "unexplainable"}

(* A skipped check means a missing document, and a missing document has    *)
(* been found once the completeness check is behind the run.               *)
PastCompleteness ==
  \/ pc \in {"check_learned_rules", "ai_triage", "synthesize", "guardrail",
             "act", "end"}
  \/ Decided

MissingIsFound ==
  /\ skipped # << >> => docs # Documents
  /\ PastCompleteness /\ docs # Documents =>
       \E f \in findings : f.severity = "explainable"

(* The proposal exists from the synthesis on, and it is unavailable just   *)
(* when the synthesis left its T0.                                         *)
ProposalIsHonest ==
  /\ pc \in {"guardrail", "act", "end"} \/ Decided => proposal # NoProposalYet
  /\ pc \in Nodes \ {"guardrail", "act"} => proposal = NoProposalYet
  /\ proposal = Unavailable <=> \E f \in findings : f.check = "synthesize"
  /\ \A f \in findings : f.check = "synthesize" => f.origin = "system"

DecisionIsPolicy ==
  /\ pc \in {"act", "end"} => Decided
  /\ pc \in Nodes \ {"act"} => ~Decided
  /\ Decided => guardrail = ApplyGuardrail(findings, proposal)

RecordIsDecision ==
  /\ pc = "end" => Recorded
  /\ Recorded => Ended /\ Decided /\ record = CaseRecordOf(guardrail)

IInv ==
  /\ TypeOK
  /\ FindingsAreSevere
  /\ MissingIsFound
  /\ ProposalIsHonest
  /\ DecisionIsPolicy
  /\ RecordIsDecision

(* A run ends, with its decision on record or aborted: no answer or        *)
(* failure of the model, a rule or the store leaves it halfway.            *)
RunEnds == <>Ended

=============================================================================
