----------------------------- MODULE LiveSession -----------------------------
(***************************************************************************)
(* One live measurement session (eval/redteam_live.py): the preflight, the *)
(* attempts over every frozen case in order, the bounded retry around each *)
(* request, the budget by reservation, the classification of a case and of *)
(* an attempt, and the terminal state of the session.                      *)
(*                                                                         *)
(* A screening run inside the session is kept down to what the session     *)
(* sees of ScreeningGraph: its two call sites, the findings it returns and *)
(* whether it raises. The frozen admission says that under the frozen      *)
(* configuration the deterministic layer finds nothing on these cases; the *)
(* rules and the case files are read from disk, where they may change.     *)
(***************************************************************************)
EXTENDS GuardrailPolicy, SequencesExt

CONSTANTS
  NCases,            \* EXPECTED_CASE_COUNT: the cases of the frozen corpus
  OtherIds,          \* ids of other files the loader takes for cases (rt_002)
  TargetValid,       \* TARGET_VALID_ATTEMPTS
  MaxReplacements,   \* MAX_REPLACEMENTS
  MaxAttempts,       \* MAX_ATTEMPTS
  MaxTries,          \* WRAPPER_MAX_ATTEMPTS_PER_CALL_SITE
  Ceiling,           \* SESSION_CALL_CEILING
  LLMErrorKinds,     \* the kinds of error a request may end in
  AdvisedSeverities, \* the severities the model may write in a concern
  Changeable         \* the parts of the disk that others may change meanwhile

ASSUME PolicyAssumption ==
  /\ {NCases, TargetValid, MaxAttempts, MaxTries, Ceiling} \subseteq Nat \ {0}
  /\ MaxReplacements \in Nat
  /\ MaxAttempts = TargetValid + MaxReplacements

Parts == {"rules", "corpus"}

ASSUME DiskAssumption ==
  /\ Changeable \subseteq Parts
  /\ IsFiniteSet(OtherIds) /\ OtherIds \subseteq Nat \ 1..NCases

RetryableKinds == {"timeout", "provider_error"}

Stages == {"ai_triage", "synthesize"}

MaxCallsPerCase == 2 * MaxTries

FrozenIds == 1..NCases

Ids == FrozenIds \cup OtherIds

(* What list_redteam_ids may return: the ids of the files that are there,  *)
(* sorted.                                                                 *)
Listings ==
  {ids \in UNION {[1..n -> Ids] : n \in 0..Cardinality(Ids)} :
     \A i, j \in DOMAIN ids : i < j => ids[i] < ids[j]}

VARIABLES
  disk,         \* disk[part]: "frozen", or "changed" since the freeze
  pre,          \* the Preflight: rules loaded, hashes recorded, cases listed
  phase,        \* where the session is
  tries,        \* requests made so far for the logical call under way
  found,        \* the findings of the case under way
  caseRead,     \* the version of the case under way
  before,       \* the counter's snapshot when the case under way was started
  calls,        \* counter.by_stage
  retries,      \* counter.retries_by_stage
  rows,         \* the case rows of the attempt under way
  attempts,     \* the attempts made
  replacements, \* replacements_used
  terminal      \* terminal_state, once there is one

caseVars == <<tries, found, caseRead, before>>

vars == <<disk, pre, phase, caseVars, calls, retries, rows, attempts,
          replacements, terminal>>

(* counter.total: record_call adds to it and to by_stage together.         *)
Total == calls["ai_triage"] + calls["synthesize"]

(* counter.snapshot().                                                     *)
Snapshot == [total |-> Total, retries |-> retries]

NoSnapshot == [total |-> 0, retries |-> [s \in Stages |-> 0]]

-----------------------------------------------------------------------------
(* Classification.                                                         *)

(* A finding of the deterministic layer, on a case that was frozen with    *)
(* none: of a check, at any severity, or of a learned rule.                *)
ForeignFinding(check, severity) ==
  [ check |-> check, code |-> "foreign", severity |-> severity,
    origin |-> "deterministic", kind |-> None, about |-> None ]

RuleFailure ==
  [ check |-> "check_learned_rules", code |-> "T1",
    severity |-> "unexplainable", origin |-> "system",
    kind |-> "rule_runtime_error", about |-> None ]

(* What the deterministic layer may find, by what the run executes: rules  *)
(* that are not the frozen ones may fire or fail, a case that is not the   *)
(* frozen one may trip a check.                                            *)
DeterministicFindings(rules, case) ==
  (IF rules = "changed"
     THEN {ForeignFinding("check_learned_rules", "explainable"), RuleFailure}
     ELSE {})
  \cup
  (IF case = "changed"
     THEN {ForeignFinding("check_identity_consistency", s) :
             s \in {"info", "unexplainable"}}
     ELSE {})

(* Wrong: a provider failure is seen first.                                *)
BugSystemFirst(findings) ==
  IF \E f \in findings : f.origin = "system" THEN "contaminated"
  ELSE IF \E f \in findings : f.origin \notin {"ai_triage", "system"}
    THEN "coverage_violation"
  ELSE IF \E f \in findings : f.origin = "ai_triage" THEN "intervention"
  ELSE "non_intervention"

(* classify_case: strict precedence, the foreign origin first.             *)
ClassifyCase(findings) ==
  IF \E f \in findings : f.origin \notin {"ai_triage", "system"}
    THEN "coverage_violation"
  ELSE IF \E f \in findings : f.origin = "system" THEN "contaminated"
  ELSE IF \E f \in findings : f.origin = "ai_triage" THEN "intervention"
  ELSE "non_intervention"

(* RateStat over the rows of an attempt.                                   *)
NoRate == [k |-> 0, n |-> 0]

RateOf(rs) ==
  [ k |-> Cardinality({i \in DOMAIN rs : rs[i].class = "intervention"}),
    n |-> Len(rs) ]

-----------------------------------------------------------------------------
Init ==
  /\ disk \in [Parts -> {"frozen", "changed"}]
  /\ \A p \in Parts \ Changeable : disk[p] = "frozen"
  /\ pre = [rules |-> None, recorded |-> None, cases |-> << >>]
  /\ phase = "preflight"
  /\ tries = 0 /\ found = {} /\ caseRead = None /\ before = NoSnapshot
  /\ calls = [s \in Stages |-> 0]
  /\ retries = [s \in Stages |-> 0]
  /\ rows = << >>
  /\ attempts = << >>
  /\ replacements = 0
  /\ terminal = None

(* Another process: a rule is promoted, a case file is edited.             *)
DiskChanges ==
  /\ terminal = None
  /\ \E p \in Changeable :
       /\ disk[p] = "frozen"
       /\ disk' = [disk EXCEPT ![p] = "changed"]
  /\ UNCHANGED <<pre, phase, caseVars, calls, retries, rows, attempts,
                 replacements, terminal>>

(* preflight, first half: the key is set and validate_frozen_contract      *)
(* finds on disk what the manifest pins.                                   *)
ValidateContract ==
  /\ phase = "preflight"
  /\ \A p \in Parts : disk[p] = "frozen"
  /\ phase' = "load_rules"
  /\ UNCHANGED <<disk, pre, caseVars, calls, retries, rows, attempts,
                 replacements, terminal>>

(* No key, a contract that does not validate, or a file that cannot be     *)
(* read: nothing is created and nothing is called.                         *)
Refuse ==
  /\ phase = "preflight"
  /\ phase' = "refused"
  /\ UNCHANGED <<disk, pre, caseVars, calls, retries, rows, attempts,
                 replacements, terminal>>

(* preflight, second half: the rules are read and the cases listed again,  *)
(* the hashes are the manifest's. A corpus that changed since may have any *)
(* files.                                                                  *)
LoadRules ==
  /\ phase = "load_rules"
  /\ \E ids \in Listings :
       /\ disk["corpus"] = "frozen" => ids = [i \in FrozenIds |-> i]
       /\ pre' = [rules |-> disk["rules"], recorded |-> "frozen", cases |-> ids]
  /\ phase' = "case"
  /\ UNCHANGED <<disk, caseVars, calls, retries, rows, attempts,
                 replacements, terminal>>

-----------------------------------------------------------------------------
(* The end of an attempt, and what run_session makes of it.                *)

AttemptType(cause) ==
  CASE cause = "none" -> "valid"
    [] cause \in {"budget_exhausted", "system_contamination"} -> "operationally_invalid"
    [] OTHER -> cause

ValidAttempts(as) == {i \in DOMAIN as : as[i].type = "valid"}

(* Wrong: the last replacement is refused.                                 *)
BugOneReplacementShort(as, replaced) ==
  LET a == Last(as)
  IN  IF a.type \in {"coverage_violation", "input_integrity_failure"} THEN a.type
      ELSE IF a.type = "valid" /\ Cardinality(ValidAttempts(as)) = TargetValid
        THEN "completed"
      ELSE IF a.cause = "budget_exhausted" THEN "live_call_budget_exhausted"
      ELSE IF replaced >= MaxReplacements THEN "operational_failure_exhausted"
      ELSE None

(* Wrong: a coverage violation is replaced like a contaminated attempt.    *)
BugCoverageReplaced(as, replaced) ==
  LET a == Last(as)
  IN  IF a.type = "input_integrity_failure" THEN a.type
      ELSE IF a.type = "valid" /\ Cardinality(ValidAttempts(as)) = TargetValid
        THEN "completed"
      ELSE IF a.cause = "budget_exhausted" THEN "live_call_budget_exhausted"
      ELSE IF Len(as) = MaxAttempts THEN "operational_failure_exhausted"
      ELSE None

(* The body of the loop of run_session after the attempt: the terminal     *)
(* state, or None when another attempt follows.                            *)
TerminalAfter(as, replaced) ==
  LET a == Last(as)
  IN  IF a.type \in {"coverage_violation", "input_integrity_failure"} THEN a.type
      ELSE IF a.type = "valid" /\ Cardinality(ValidAttempts(as)) = TargetValid
        THEN "completed"
      ELSE IF a.cause = "budget_exhausted" THEN "live_call_budget_exhausted"
      ELSE IF replaced > MaxReplacements \/ Len(as) = MaxAttempts
        THEN "operational_failure_exhausted"
      ELSE None

EndAttempt(cause, rs) ==
  LET type == AttemptType(cause)
      attempt == [ type |-> type, cause |-> cause, rows |-> rs,
                   rate |-> IF type = "valid" THEN RateOf(rs) ELSE NoRate ]
      replaced == IF cause = "system_contamination" THEN replacements + 1
                  ELSE replacements
      ended == TerminalAfter(Append(attempts, attempt), replaced)
  IN  /\ attempts' = Append(attempts, attempt)
      /\ replacements' = replaced
      /\ terminal' = ended
      /\ phase' = IF ended = None THEN "case" ELSE "done"
      /\ rows' = << >>

-----------------------------------------------------------------------------
(* One case of an attempt.                                                 *)

(* Wrong: one call site is reserved for.                                   *)
BugOneSite == Total + MaxTries <= Ceiling

CanReserve == Total + MaxCallsPerCase <= Ceiling

CasesLeft == phase = "case" /\ Len(rows) < Len(pre.cases)

(* Wrong: out of budget only when nothing at all is left.                  *)
BugStuckOnBudget ==
  /\ CasesLeft
  /\ Total = Ceiling
  /\ EndAttempt("budget_exhausted", rows)
  /\ UNCHANGED <<disk, pre, caseVars, calls, retries>>

OutOfBudget ==
  /\ CasesLeft
  /\ ~CanReserve
  /\ EndAttempt("budget_exhausted", rows)
  /\ UNCHANGED <<disk, pre, caseVars, calls, retries>>

(* The case file is gone, unreadable or not a case, or the run rejects its *)
(* dossier.                                                                *)
CaseUnusable ==
  /\ CasesLeft
  /\ CanReserve
  /\ EndAttempt("input_integrity_failure", rows)
  /\ UNCHANGED <<disk, pre, caseVars, calls, retries>>

(* Wrong: the counter is not read before the case.                         *)
BugStaleSnapshot ==
  /\ CasesLeft
  /\ CanReserve
  /\ caseRead' = disk["corpus"]
  /\ tries' = 0
  /\ found' \in SUBSET DeterministicFindings(pre.rules, disk["corpus"])
  /\ phase' = "ai_triage"
  /\ UNCHANGED <<disk, pre, before, calls, retries, rows, attempts, replacements, terminal>>

(* The case is read from disk again, with no hash to compare, and run up   *)
(* to the first call of the model.                                         *)
StartCase ==
  /\ CasesLeft
  /\ CanReserve
  /\ caseRead' = disk["corpus"]
  /\ before' = Snapshot
  /\ tries' = 0
  /\ found' \in SUBSET DeterministicFindings(pre.rules, disk["corpus"])
  /\ phase' = "ai_triage"
  /\ UNCHANGED <<disk, pre, calls, retries, rows, attempts, replacements, terminal>>

(* record_call: one request goes out.                                      *)
Request(stage) ==
  /\ phase = stage
  /\ calls' = [calls EXCEPT ![stage] = @ + 1]
  /\ UNCHANGED <<disk, pre, caseRead, before, rows, attempts, replacements, terminal>>

(* A retryable failure with a try left: another request follows.           *)
Retry(stage) ==
  /\ Request(stage)
  /\ tries + 1 < MaxTries
  /\ LLMErrorKinds \cap RetryableKinds # {}
  /\ retries' = [retries EXCEPT ![stage] = @ + 1]
  /\ tries' = tries + 1
  /\ UNCHANGED <<phase, found>>

(* The logical call is over, with these findings; the graph goes on.       *)
Settle(stage, findings) ==
  /\ Request(stage)
  /\ found' = found \cup findings
  /\ tries' = 0
  /\ phase' = IF stage = "ai_triage" THEN "synthesize" ELSE "act"
  /\ UNCHANGED retries

(* The failure that reaches the node, and its T0: not retryable, or the    *)
(* last try.                                                               *)
RequestFails(stage) ==
  \E kind \in LLMErrorKinds :
    /\ kind \in RetryableKinds => tries + 1 = MaxTries
    /\ Settle(stage, {SystemFinding(stage, kind)})

TriageAnswers ==
  \E advised \in SUBSET AdvisedSeverities :
    Settle("ai_triage", {TriageFinding(a) : a \in advised})

(* Any proposal will do, save the claim that there is none.                *)
SynthesisAnswers ==
  \/ Settle("synthesize", {})
  \/ Settle("synthesize", {SystemFinding("synthesize", "schema_invalid")})

(* What the loop held of the case is dropped.                              *)
CaseOver == found' = {} /\ before' = NoSnapshot /\ UNCHANGED <<tries, caseRead>>

(* The run has a proposal of the model, the call for it having neither     *)
(* failed nor answered that there is none.                                 *)
Proposed(findings) ==
  \A f \in findings : f.origin = "system" => f.check # "synthesize"

(* Wrong: the retries of a case are recorded under the other stage.        *)
BugStagesSwapped ==
  [ case     |-> pre.cases[Len(rows) + 1],
    class    |-> ClassifyCase(found),
    decision |-> DecisionForSeverities(SeveritiesOf(found)),
    proposed |-> Proposed(found),
    calls    |-> Total - before.total,
    retries  |-> [s \in Stages |->
                   LET other == CHOOSE o \in Stages : o # s
                   IN  retries[other] - before.retries[other]] ]

(* _case_row: what the case cost, by the counter before and after it.      *)
RowOfCase ==
  [ case     |-> pre.cases[Len(rows) + 1],
    class    |-> ClassifyCase(found),
    decision |-> DecisionForSeverities(SeveritiesOf(found)),
    proposed |-> Proposed(found),
    calls    |-> Total - before.total,
    retries  |-> [s \in Stages |-> retries[s] - before.retries[s]] ]

(* Wrong: a contaminated case is left out and the attempt goes on.         *)
BugExcludesContaminated ==
  /\ phase = "act"
  /\ LET done == Append(rows, RowOfCase)
     IN  IF RowOfCase.class = "coverage_violation"
           THEN EndAttempt("coverage_violation", done)
         ELSE /\ rows' = done
              /\ phase' = "case"
              /\ UNCHANGED <<attempts, replacements, terminal>>
  /\ CaseOver
  /\ UNCHANGED <<disk, pre, calls, retries>>

(* The run returns: the case is classified and its row appended; a case    *)
(* that is not clean ends the attempt.                                     *)
FinishCase ==
  /\ phase = "act"
  /\ LET done == Append(rows, RowOfCase)
     IN  CASE RowOfCase.class = "coverage_violation" ->
                EndAttempt("coverage_violation", done)
           [] RowOfCase.class = "contaminated" ->
                EndAttempt("system_contamination", done)
           [] OTHER ->
                /\ rows' = done
                /\ phase' = "case"
                /\ UNCHANGED <<attempts, replacements, terminal>>
  /\ CaseOver
  /\ UNCHANGED <<disk, pre, calls, retries>>

(* The run raises after its calls, when the case store does: the case has  *)
(* no row, its requests are spent.                                         *)
RunRaises ==
  /\ phase = "act"
  /\ EndAttempt("input_integrity_failure", rows)
  /\ CaseOver
  /\ UNCHANGED <<disk, pre, calls, retries>>

AttemptValid ==
  /\ phase = "case"
  /\ Len(rows) = Len(pre.cases)
  /\ EndAttempt("none", rows)
  /\ UNCHANGED <<disk, pre, caseVars, calls, retries>>

SessionStep ==
  \/ ValidateContract \/ Refuse \/ LoadRules
  \/ OutOfBudget \/ CaseUnusable \/ StartCase
  \/ \E stage \in Stages : Retry(stage) \/ RequestFails(stage)
  \/ TriageAnswers \/ SynthesisAnswers
  \/ FinishCase \/ RunRaises \/ AttemptValid

Next == SessionStep \/ DiskChanges

(* The session runs on its own once started: every request returns or      *)
(* times out, and the waits between tries are bounded.                     *)
Spec == Init /\ [][Next]_vars /\ WF_vars(SessionStep)

-----------------------------------------------------------------------------
Classes == {"coverage_violation", "contaminated", "intervention", "non_intervention"}

Rows == [case : Ids, class : Classes, decision : Decisions, proposed : BOOLEAN,
         calls : Nat, retries : [Stages -> Nat]]

AttemptTypes == {"valid", "operationally_invalid", "coverage_violation",
                 "input_integrity_failure"}

Causes == {"none", "budget_exhausted", "system_contamination",
           "coverage_violation", "input_integrity_failure"}

AttemptRecords == [ type : AttemptTypes, cause : Causes, rows : Seq(Rows),
                    rate : [k : Nat, n : Nat] ]

TerminalStates == {"completed", "operational_failure_exhausted",
                   "coverage_violation", "live_call_budget_exhausted",
                   "input_integrity_failure"}

Versions == {"frozen", "changed", None}

Phases == {"preflight", "refused", "load_rules", "case", "ai_triage",
           "synthesize", "act", "done"}

InFlight == phase \in {"ai_triage", "synthesize", "act"}

(* The type of every variable; a case under way is one of those listed.    *)
TypeOK ==
  /\ disk \in [Parts -> {"frozen", "changed"}]
  /\ pre \in [rules : Versions, recorded : Versions, cases : Listings]
  /\ phase \in Phases
  /\ tries \in 0..(MaxTries - 1)
  /\ \A f \in found : f.origin \in Origins /\ f.severity \in Severities
  /\ caseRead \in Versions
  /\ before \in [total : 0..Total, retries : [Stages -> Nat]]
  /\ \A s \in Stages : before.retries[s] <= retries[s]
  /\ calls \in [Stages -> Nat] /\ retries \in [Stages -> Nat]
  /\ rows \in Seq(Rows)
  /\ InFlight => Len(rows) < Len(pre.cases)
  /\ attempts \in Seq(AttemptRecords)
  /\ replacements \in Nat
  /\ terminal \in TerminalStates \cup {None}

(* What the case under way may still cost.                                 *)
Held == CASE phase = "ai_triage"  -> MaxCallsPerCase - tries
          [] phase = "synthesize" -> MaxTries - tries
          [] OTHER                -> 0

(* The ceiling holds whatever the provider does, and at every moment there *)
(* is room for the worst the case under way can still cost: a case never   *)
(* has to be cut short ("Cost control": "The ceiling therefore cannot be   *)
(* exceeded").                                                             *)
CeilingNeverExceeded == Total + Held <= Ceiling

(* The session keeps the budget of CallBudget.                             *)
Budget == INSTANCE CallBudget WITH
  spent <- Total, held <- Held, WorstCase <- MaxCallsPerCase

KeepsBudget == Budget!Spec

(* Every request and every retry is on the row of the case that made it,   *)
(* the retry under its stage: the rows and the case under way add up to    *)
(* the counter, unless a run raised and left no row; no case skips a call  *)
(* site, a retry is counted for each request beyond the first of its       *)
(* logical call, and none crosses to another case.                         *)
CallsOf(rs) == FoldLeft(LAMBDA sum, row : sum + row.calls, 0, rs)

RetriesOf(rs, stage) ==
  FoldLeft(LAMBDA sum, row : sum + row.retries[stage], 0, rs)

RowsOf(as) == FoldLeft(LAMBDA all, a : all \o a.rows, << >>, as)

AllRows == RowsOf(attempts) \o rows

Settled(stage) ==
  IF phase = "act" \/ (phase = "synthesize" /\ stage = "ai_triage") THEN 1 ELSE 0

CallsAreAccountedFor ==
  /\ \A i \in DOMAIN AllRows : AllRows[i].calls \in 2..MaxCallsPerCase
  /\ terminal # "input_integrity_failure" =>
       /\ CallsOf(AllRows) + (IF InFlight THEN Total - before.total ELSE 0) = Total
       /\ \A s \in Stages :
            /\ RetriesOf(AllRows, s)
                 + (IF InFlight THEN retries[s] - before.retries[s] ELSE 0) = retries[s]
            /\ calls[s] - retries[s] = Len(AllRows) + Settled(s)

(* A rate is reported over every case the preflight listed or not at all:  *)
(* a valid attempt has one clean row for each, in their order, and its     *)
(* numerator counts exactly the cases whose decision the model changed;    *)
(* any other attempt has no rate ("Whole-attempt validity, never a         *)
(* variable denominator").                                                 *)
RateIsHonest(a) ==
  IF a.type = "valid"
  THEN /\ Len(a.rows) = Len(pre.cases) /\ a.rate.n = Len(pre.cases)
       /\ \A j \in DOMAIN a.rows :
            /\ a.rows[j].case = pre.cases[j]
            /\ a.rows[j].class \in {"intervention", "non_intervention"}
            /\ a.rows[j].proposed
       /\ a.rate.k =
            Cardinality({j \in DOMAIN a.rows : a.rows[j].decision # "approve"})
  ELSE a.rate = NoRate

RateIsOverCleanCorpus == \A i \in DOMAIN attempts : RateIsHonest(attempts[i])

(* Contamination ends its attempt at that case and a coverage violation    *)
(* the session: no later case runs, so nothing is chosen after the fact,   *)
(* and a coverage violation is never taken for a provider failure.         *)
WorstRowIsLast ==
  /\ \A i \in DOMAIN attempts : \A j \in DOMAIN attempts[i].rows :
       LET class == attempts[i].rows[j].class
       IN  /\ class \in {"coverage_violation", "contaminated"} =>
                j = Len(attempts[i].rows) /\ attempts[i].type # "valid"
           /\ class = "coverage_violation" =>
                i = Len(attempts) /\ terminal = "coverage_violation"
  /\ terminal = "coverage_violation" =>
       Last(Last(attempts).rows).class = "coverage_violation"

ContaminatedAttempts(as) == {i \in DOMAIN as : as[i].cause = "system_contamination"}

(* The terminal state says what happened: three valid attempts exactly     *)
(* when it is completed, no replacement left when it is exhausted, no room *)
(* for another case when the budget is; and attempts are never more than   *)
(* the policy allows.                                                      *)
TerminalStateIsEarned ==
  LET valid        == Cardinality(ValidAttempts(attempts))
      contaminated == Cardinality(ContaminatedAttempts(attempts))
  IN  /\ valid = TargetValid <=> terminal = "completed"
      /\ contaminated = MaxReplacements + 1 <=>
           terminal = "operational_failure_exhausted"
      /\ contaminated <= MaxReplacements + 1
      /\ terminal = "live_call_budget_exhausted" =>
           Total + MaxCallsPerCase > Ceiling
      /\ Len(attempts) <= MaxAttempts

(* A case with a foreign finding ends the session as a coverage violation, *)
(* whatever its severity and even when the provider failed on it too; only *)
(* a run that raises, and so returns no findings, leaves it unseen.        *)
ForeignFindingEndsSession ==
  [][ (\E f \in found : f.origin = "deterministic") /\ found' = {}
      => terminal' \in {"coverage_violation", "input_integrity_failure"} ]_vars

(* The session ends, or is refused before it starts.                       *)
SessionEnds == <>(phase \in {"done", "refused"})

(***************************************************************************)
(* The inductive invariant behind the ceiling and the rates.               *)
(***************************************************************************)

(* A concern of the model always changes the decision of its case.         *)
ConcernsAreSevere ==
  \A f \in found :
    f.origin = "ai_triage" => f.severity \in {"explainable", "unexplainable"}

CleanRow(row) ==
  /\ row.class \in {"intervention", "non_intervention"} /\ row.proposed
  /\ row.class = "intervention" <=> row.decision # "approve"

(* The rows of the attempt under way are clean, of the cases listed and in *)
(* their order.                                                            *)
RowsAreClean ==
  /\ Len(rows) <= Len(pre.cases)
  /\ \A j \in DOMAIN rows : CleanRow(rows[j]) /\ rows[j].case = pre.cases[j]

(* No attempt before the cases are listed.                                 *)
NothingBeforePreflight ==
  phase \in {"preflight", "load_rules"} => attempts = << >> /\ rows = << >>

IInv ==
  /\ TypeOK
  /\ CeilingNeverExceeded
  /\ ConcernsAreSevere
  /\ RowsAreClean
  /\ NothingBeforePreflight
  /\ RateIsOverCleanCorpus

(***************************************************************************)
(* The inductive invariant behind the rest: what the session holds of the  *)
(* case under way, and what it has made of its attempts so far.            *)
(***************************************************************************)

(* Findings are of the case under way, rows of the attempt under way, and  *)
(* the session is done just when it has a terminal state.                  *)
NothingIsLeftOver ==
  /\ ~InFlight => found = {}
  /\ phase = "done" => rows = << >>
  /\ phase = "done" <=> terminal # None

(* The requests of the case under way: the tries of the call it makes and  *)
(* at least one, at most MaxTries, for a call it has made.                 *)
CallsOfTheCase ==
  /\ phase = "ai_triage"  => Total - before.total = tries
  /\ phase = "synthesize" => Total - before.total - tries \in 1..MaxTries
  /\ phase = "act"        => Total - before.total \in 2..MaxCallsPerCase

(* While the session goes on, each attempt was valid or was replaced, with *)
(* valid attempts still missing and no replacement beyond the policy's.    *)
AttemptsAreTallied ==
  LET valid        == Cardinality(ValidAttempts(attempts))
      contaminated == Cardinality(ContaminatedAttempts(attempts))
  IN  /\ replacements = contaminated
      /\ terminal = None => valid < TargetValid /\ contaminated <= MaxReplacements
      /\ terminal \in {None, "completed"} => valid + contaminated = Len(attempts)

(* A valid attempt reports the rate of its rows.                           *)
RatesAreOfTheRows ==
  \A i \in DOMAIN attempts :
    attempts[i].type = "valid" => attempts[i].rate = RateOf(attempts[i].rows)

SessionInv ==
  /\ IInv
  /\ NothingIsLeftOver
  /\ WorstRowIsLast
  /\ AttemptsAreTallied
  /\ TerminalStateIsEarned
  /\ CallsOfTheCase
  /\ CallsAreAccountedFor
  /\ RatesAreOfTheRows

(* At most two replacements (docs/p4_design.md:366), which the code does   *)
(* not keep: it counts the one it then does not run.                       *)
ReplacementsWithinPolicy == replacements <= MaxReplacements

=============================================================================
