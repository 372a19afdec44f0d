--------------------------- MODULE GuardrailPolicy ---------------------------
(***************************************************************************)
(* The deterministic policy of the harness: how the severities of the      *)
(* findings of a run become a decision, how that decision is reconciled    *)
(* with the model's proposal, and which actions it requires.               *)
(*                                                                         *)
(*   agent/guardrail.py       decision_for_severities, apply_guardrail     *)
(*   agent/triage.py          the clamp on the severity of a concern       *)
(*   contracts/findings.py    the vocabularies and the finding contract    *)
(*                                                                         *)
(* A finding is kept down to what the policy and the audit tell apart: the *)
(* check that raised it, its code, severity and origin, the kind of error  *)
(* of an operational failure, and what it is about (a rule, where several  *)
(* findings of one check differ only in the rule they name).               *)
(*                                                                         *)
(* Here and in the other modules a definition whose name starts with Bug   *)
(* is a deliberately wrong variant of the one that follows it; no          *)
(* specification uses one. They show that the properties would notice.     *)
(***************************************************************************)
EXTENDS Naturals

Severities == {"info", "explainable", "unexplainable"}

Decisions == {"approve", "request_more_info", "escalate"}

Origins == {"deterministic", "ai_triage", "system"}

SystemCodes == {"T0", "T1"}

(* Nothing: no error kind, no rule, no decision yet.                       *)
None == "none"

(* How cautious a decision is.                                             *)
DecisionRank(d) == CASE d = "escalate"          -> 2
                     [] d = "request_more_info" -> 1
                     [] OTHER                   -> 0

SeveritiesOf(findings) == {f.severity : f \in findings}

(* Wrong: the mildest finding that counts is looked for first.             *)
BugMildestFirst(sev) ==
  IF "explainable" \in sev THEN "request_more_info"
  ELSE IF "unexplainable" \in sev THEN "escalate"
  ELSE "approve"

(* decision_for_severities: strict precedence, info never counts.          *)
DecisionForSeverities(sev) ==
  IF "unexplainable" \in sev THEN "escalate"
  ELSE IF "explainable" \in sev THEN "request_more_info"
  ELSE "approve"

(* The table _ACTIONS: what the act node is told to do.                    *)
RequiredActions(decision) ==
  CASE decision = "escalate"          -> {"open_case", "escalate"}
    [] decision = "request_more_info" -> {"open_case"}
    [] OTHER                          -> {}

(* The two states a SynthesisProposal can be in; its validator keeps them  *)
(* apart (contracts/findings.py, _status_is_consistent).                   *)
Available(d) == [status |-> "available", proposed |-> d]

Unavailable == [status |-> "unavailable", proposed |-> None]

NoProposalYet == [status |-> None, proposed |-> None]

Proposals == {Available(d) : d \in Decisions} \cup {Unavailable, NoProposalYet}

(* Wrong: a run without a proposal is taken to disagree with it.           *)
BugNoProposalOverridden(findings, proposal) ==
  LET final == DecisionForSeverities(SeveritiesOf(findings))
  IN  [ final      |-> final,
        overridden |-> proposal.proposed # final,
        actions    |-> RequiredActions(final),
        mode       |-> IF proposal.status = "unavailable"
                         THEN "fail_closed_no_proposal"
                         ELSE "proposal_guarded" ]

(* apply_guardrail: the decision is the policy's; the proposal only shapes *)
(* the record of how it was reached.                                       *)
ApplyGuardrail(findings, proposal) ==
  LET final == DecisionForSeverities(SeveritiesOf(findings))
  IN  [ final      |-> final,
        overridden |-> /\ proposal.status = "available"
                       /\ proposal.proposed # final,
        actions    |-> RequiredActions(final),
        mode       |-> IF proposal.status = "unavailable"
                         THEN "fail_closed_no_proposal"
                         ELSE "proposal_guarded" ]

NoDecisionYet ==
  [final |-> None, overridden |-> FALSE, actions |-> {}, mode |-> None]

GuardrailDecisions ==
  [ final      : Decisions,
    overridden : BOOLEAN,
    actions    : SUBSET {"open_case", "escalate"},
    mode       : {"fail_closed_no_proposal", "proposal_guarded"} ]

(* triage_findings: the severity a concern carries is advisory. What is    *)
(* not exactly "unexplainable" is raised to "explainable", never dropped   *)
(* to "info".                                                              *)
TriageCode(advised) == IF advised = "unexplainable" THEN "X2" ELSE "X1"

(* Wrong: the severity the model wrote is taken as it is.                  *)
BugUnclamped(advised) == advised

TriageSeverity(advised) ==
  IF advised = "unexplainable" THEN "unexplainable" ELSE "explainable"

TriageFinding(advised) ==
  [ check |-> "ai_triage", code |-> TriageCode(advised),
    severity |-> TriageSeverity(advised), origin |-> "ai_triage",
    kind |-> None, about |-> None ]

(* Wrong: a failed call is something to ask the applicant about.           *)
BugMildFailure(node, kind) ==
  [ check |-> node, code |-> "T0", severity |-> "explainable",
    origin |-> "system", kind |-> kind, about |-> None ]

(* _system_finding: a failed call of the model at the boundary of a node.  *)
SystemFinding(node, kind) ==
  [ check |-> node, code |-> "T0", severity |-> "unexplainable",
    origin |-> "system", kind |-> kind, about |-> None ]

(* The Finding validator: a system code, the system origin and an error    *)
(* kind come together or not at all.                                       *)
WellFormedFinding(f) ==
  /\ f.code \in SystemCodes <=> f.origin = "system"
  /\ f.kind # None <=> f.origin = "system"

=============================================================================
