-------------------------- MODULE LiveSession_proofs --------------------------
(***************************************************************************)
(* Proofs about LiveSession, for every corpus size, every session policy,  *)
(* every number of tries and every ceiling.                                *)
(***************************************************************************)
EXTENDS PublicSummary, FiniteSetTheorems, TLAPS

(***************************************************************************)
(* Lemmas on the operators.                                                *)
(***************************************************************************)

LEMMA ClassType ==
  ASSUME NEW F
  PROVE  ClassifyCase(F) \in Classes
BY DEF ClassifyCase, Classes

LEMMA DecisionType ==
  ASSUME NEW sev
  PROVE  DecisionForSeverities(sev) \in Decisions
BY DEF DecisionForSeverities, Decisions

(* A case that is neither foreign nor contaminated is an intervention      *)
(* exactly when its decision is not an approval.                           *)
LEMMA CleanCase ==
  ASSUME NEW F,
         \A f \in F : f.origin = "ai_triage" =>
                        f.severity \in {"explainable", "unexplainable"},
         ClassifyCase(F) \notin {"coverage_violation", "contaminated"}
  PROVE  /\ ClassifyCase(F) \in {"intervention", "non_intervention"}
         /\ Proposed(F)
         /\ ClassifyCase(F) = "intervention" <=>
              DecisionForSeverities(SeveritiesOf(F)) # "approve"
<1>1. (\A f \in F : f.origin = "ai_triage") /\ Proposed(F)
  BY DEF ClassifyCase, Proposed
<1>2. CASE F = {}
  <2>1. SeveritiesOf(F) = {}
    BY <1>2 DEF SeveritiesOf
  <2> QED
    BY <1>1, <1>2, <2>1 DEF ClassifyCase, DecisionForSeverities
<1>3. CASE F # {}
  <2>1. PICK f \in F : TRUE
    BY <1>3
  <2>2. f.severity \in {"explainable", "unexplainable"}
    BY <1>1
  <2>3. f.severity \in SeveritiesOf(F)
    BY DEF SeveritiesOf
  <2>4. DecisionForSeverities(SeveritiesOf(F)) # "approve"
    BY <2>2, <2>3 DEF DecisionForSeverities
  <2>5. ClassifyCase(F) = "intervention"
    BY <1>1, <2>1 DEF ClassifyCase
  <2> QED
    BY <1>1, <2>4, <2>5
<1> QED
  BY <1>2, <1>3

LEMMA IdsAreNumbers == Ids \subseteq Nat
<1>1. NCases \in Nat
  BY PolicyAssumption
<1>2. 1..NCases \subseteq Nat
  BY <1>1
<1>3. OtherIds \subseteq Nat
  BY DiskAssumption
<1> QED
  BY <1>2, <1>3 DEF Ids, FrozenIds

(* What the preflight lists: distinct ids; the frozen ones when the corpus *)
(* is the frozen one.                                                      *)
LEMMA ListingType ==
  ASSUME NEW ids \in Listings
  PROVE  /\ ids \in Seq(Ids)
         /\ \A i, j \in DOMAIN ids : ids[i] = ids[j] => i = j
<1>1. PICK n \in 0..Cardinality(Ids) : ids \in [1..n -> Ids]
  BY DEF Listings
<1>2. n \in Nat
  OBVIOUS
<1>3. ids \in Seq(Ids)
  BY <1>1, <1>2
<1>4. Ids \subseteq Nat
  BY IdsAreNumbers
<1>5. \A i, j \in 1..n : i < j => ids[i] < ids[j]
  BY <1>1 DEF Listings
<1>6. \A i \in 1..n : ids[i] \in Nat
  BY <1>1, <1>4
<1>7. ASSUME NEW i \in 1..n, NEW j \in 1..n, ids[i] = ids[j]
      PROVE  i = j
  BY <1>2, <1>5, <1>6, <1>7
<1> QED
  BY <1>1, <1>3, <1>7

LEMMA CountOfFrozen == IsFiniteSet(FrozenIds) /\ Cardinality(FrozenIds) = NCases
<1>1. NCases \in Nat \ {0} /\ 1 \in Int /\ NCases \in Int
  BY PolicyAssumption
<1>2. IsFiniteSet(1..NCases) /\ Cardinality(1..NCases) = IF 1 > NCases THEN 0 ELSE NCases - 1 + 1
  BY <1>1, FS_Interval
<1> QED
  BY <1>1, <1>2 DEF FrozenIds

LEMMA FrozenIsListing == [i \in FrozenIds |-> i] \in Listings
<1> DEFINE ids == [i \in FrozenIds |-> i]
<1>1. IsFiniteSet(Ids)
  BY CountOfFrozen, DiskAssumption, FS_Union DEF Ids
<1>2. FrozenIds \subseteq Ids
  BY DEF Ids
<1>3. Cardinality(Ids) \in Nat /\ NCases <= Cardinality(Ids)
  BY <1>1, <1>2, CountOfFrozen, FS_Subset, FS_CardinalityType
<1>4. NCases \in 0..Cardinality(Ids)
  BY <1>3, PolicyAssumption
<1>5. ids \in [1..NCases -> Ids] /\ DOMAIN ids = 1..NCases
  BY <1>2 DEF FrozenIds
<1>6. \A i, j \in DOMAIN ids : i < j => ids[i] < ids[j]
  BY <1>5 DEF FrozenIds
<1> HIDE DEF ids
<1>7. ids \in UNION {[1..n -> Ids] : n \in 0..Cardinality(Ids)}
  BY <1>4, <1>5
<1>8. ids \in Listings
  BY <1>6, <1>7 DEF Listings
<1> QED
  BY <1>8 DEF ids

LEMMA RateType ==
  ASSUME NEW rs \in Seq(Rows)
  PROVE  RateOf(rs) \in [k : Nat, n : Nat]
<1>1. IsFiniteSet(1..Len(rs))
  BY FS_Interval
<1>2. {i \in DOMAIN rs : rs[i].class = "intervention"} \subseteq 1..Len(rs)
  OBVIOUS
<1>3. Cardinality({i \in DOMAIN rs : rs[i].class = "intervention"}) \in Nat
  BY <1>1, <1>2, FS_Subset, FS_CardinalityType
<1> QED
  BY <1>3 DEF RateOf

(***************************************************************************)
(* The end of an attempt.                                                  *)
(***************************************************************************)

(* The attempt that EndAttempt appends.                                    *)
AttemptOf(cause, rs) ==
  [ type |-> AttemptType(cause), cause |-> cause, rows |-> rs,
    rate |-> IF AttemptType(cause) = "valid" THEN RateOf(rs) ELSE NoRate ]

LEMMA AttemptRecordType ==
  ASSUME NEW cause \in Causes, NEW rs \in Seq(Rows)
  PROVE  AttemptOf(cause, rs) \in AttemptRecords
<1>1. AttemptType(cause) \in AttemptTypes
  BY DEF AttemptType, AttemptTypes, Causes
<1>2. NoRate \in [k : Nat, n : Nat]
  BY DEF NoRate
<1>3. (IF AttemptType(cause) = "valid" THEN RateOf(rs) ELSE NoRate) \in [k : Nat, n : Nat]
  BY <1>2, RateType
<1> QED
  BY <1>1, <1>3 DEF AttemptOf, AttemptRecords

LEMMA AttemptEnds ==
  ASSUME NEW cause \in Causes, NEW rs \in Seq(Rows), TypeOK, EndAttempt(cause, rs)
  PROVE  /\ attempts' = Append(attempts, AttemptOf(cause, rs))
         /\ attempts' \in Seq(AttemptRecords)
         /\ replacements' \in Nat
         /\ terminal' \in TerminalStates \cup {None}
         /\ phase' \in {"case", "done"}
         /\ rows' = << >>
<1>1. attempts' = Append(attempts, AttemptOf(cause, rs))
  BY DEF EndAttempt, AttemptOf
<1>2. AttemptOf(cause, rs) \in AttemptRecords
  BY AttemptRecordType
<1>3. attempts' \in Seq(AttemptRecords)
  BY <1>1, <1>2 DEF TypeOK
<1>4. \A as, replaced : TerminalAfter(as, replaced) \in TerminalStates \cup {None}
  BY DEF TerminalAfter, TerminalStates
<1>5. terminal' \in TerminalStates \cup {None}
  BY <1>4 DEF EndAttempt
<1>6. replacements' \in Nat
  BY DEF EndAttempt, TypeOK
<1> QED
  BY <1>1, <1>3, <1>5, <1>6 DEF EndAttempt

(***************************************************************************)
(* The ceiling.                                                            *)
(***************************************************************************)

(* What the proof of the ceiling needs of the types.                       *)
LEMMA HeldType ==
  ASSUME TypeOK
  PROVE  Held \in Nat /\ Total \in Nat /\ MaxCallsPerCase \in Nat /\ MaxTries \in Nat
<1>1. MaxTries \in Nat \ {0} /\ tries \in 0..(MaxTries - 1)
  BY PolicyAssumption DEF TypeOK
<1>2. Held \in Nat /\ MaxCallsPerCase \in Nat
  BY <1>1 DEF Held, MaxCallsPerCase
<1>3. calls["ai_triage"] \in Nat /\ calls["synthesize"] \in Nat
  BY DEF TypeOK, Stages
<1> QED
  BY <1>1, <1>2, <1>3 DEF Total

(* A request costs one of what is held, whatever comes of it.              *)
LEMMA RequestPays ==
  ASSUME TypeOK, NEW stage \in Stages, Request(stage)
  PROVE  /\ calls' \in [Stages -> Nat]
         /\ Total' = Total + 1
<1>1. calls \in [Stages -> Nat] /\ calls' = [calls EXCEPT ![stage] = @ + 1]
  BY DEF TypeOK, Request
<1>2. calls' \in [Stages -> Nat]
  BY <1>1
<1>3. CASE stage = "ai_triage"
  BY <1>1, <1>3 DEF Total, Stages
<1>4. CASE stage = "synthesize"
  BY <1>1, <1>4 DEF Total, Stages
<1> QED
  BY <1>2, <1>3, <1>4 DEF Stages

LEMMA RetryPays ==
  ASSUME TypeOK, NEW stage \in Stages, Retry(stage)
  PROVE  /\ TypeOK'
         /\ Total' = Total + 1 /\ Held' = Held - 1 /\ Held > 0
<1>1. calls' \in [Stages -> Nat] /\ Total' = Total + 1
  BY RequestPays DEF Retry
<1>2. tries' = tries + 1 /\ tries + 1 < MaxTries /\ tries \in Nat /\ MaxTries \in Nat
  BY PolicyAssumption DEF Retry, TypeOK
<1>3. phase' = phase /\ phase = stage
  BY DEF Retry, Request
<1>4. Held' = Held - 1 /\ Held > 0
  BY <1>2, <1>3 DEF Held, MaxCallsPerCase, Stages
<1>5. retries' \in [Stages -> Nat]
  BY DEF Retry, TypeOK, Stages
<1>6. tries' \in 0..(MaxTries - 1)
  BY <1>2
<1>7. before' \in [total : 0..Total', retries : [Stages -> Nat]]
      /\ \A s \in Stages : before'.retries[s] <= retries'[s]
  <2>1. /\ before' = before /\ Total' = Total + 1 /\ Total \in Nat
        /\ before \in [total : 0..Total, retries : [Stages -> Nat]]
    BY <1>1, HeldType DEF TypeOK, Retry, Request
  <2>2. \A s \in Stages : /\ before.retries[s] \in Nat /\ retries[s] \in Nat
                          /\ before.retries[s] <= retries[s]
                          /\ retries'[s] \in {retries[s], retries[s] + 1}
    BY <2>1 DEF TypeOK, Retry
  <2>3. \A s \in Stages : before.retries[s] <= retries'[s]
    BY <2>2
  <2>4. 0..Total \subseteq 0..Total'
    BY <2>1
  <2> QED
    BY <2>1, <2>3, <2>4
<1>8. InFlight' => Len(rows') < Len(pre'.cases)
  BY <1>3 DEF TypeOK, Retry, Request, InFlight
<1>9. TypeOK'
  BY <1>1, <1>3, <1>5, <1>6, <1>7, <1>8 DEF TypeOK, Retry, Request
<1> QED
  BY <1>1, <1>4, <1>9

LEMMA SettlePays ==
  ASSUME TypeOK, NEW stage \in Stages, NEW F, Settle(stage, F),
         \A f \in F : f.origin \in Origins /\ f.severity \in Severities
  PROVE  /\ TypeOK'
         /\ Total' = Total + 1 /\ Held' \in 0..(Held - 1) /\ Held > 0
<1>1. calls' \in [Stages -> Nat] /\ Total' = Total + 1
  BY RequestPays DEF Settle
<1>2. tries' = 0 /\ tries \in 0..(MaxTries - 1) /\ MaxTries \in Nat \ {0}
  BY PolicyAssumption DEF Settle, TypeOK
<1>3. phase = stage /\ phase' = IF stage = "ai_triage" THEN "synthesize" ELSE "act"
  BY DEF Settle, Request
<1>4. Held' \in 0..(Held - 1) /\ Held > 0
  BY <1>2, <1>3 DEF Held, MaxCallsPerCase, Stages
<1>5. phase' \in Phases
  BY <1>3 DEF Phases
<1>6. tries' \in 0..(MaxTries - 1)
  BY <1>2
<1>7. \A f \in found' : f.origin \in Origins /\ f.severity \in Severities
  BY DEF Settle, TypeOK
<1>8. before' \in [total : 0..Total', retries : [Stages -> Nat]]
      /\ \A s \in Stages : before'.retries[s] <= retries'[s]
  <2>1. /\ before' = before /\ retries' = retries /\ Total' = Total + 1 /\ Total \in Nat
        /\ before \in [total : 0..Total, retries : [Stages -> Nat]]
    BY <1>1, HeldType DEF TypeOK, Settle, Request
  <2>2. 0..Total \subseteq 0..Total'
    BY <2>1
  <2> QED
    BY <2>1, <2>2 DEF TypeOK
<1>9. InFlight' => Len(rows') < Len(pre'.cases)
  BY <1>3 DEF TypeOK, Settle, Request, InFlight, Stages
<1>10. TypeOK'
  BY <1>1, <1>5, <1>6, <1>7, <1>8, <1>9 DEF TypeOK, Settle, Request
<1> QED
  BY <1>1, <1>4, <1>10

(* The findings of the model and of a failed call.                         *)
LEMMA ModelFindings ==
  ASSUME NEW a, NEW stage, NEW kind
  PROVE  /\ TriageFinding(a).origin = "ai_triage"
         /\ TriageFinding(a).severity \in {"explainable", "unexplainable"}
         /\ SystemFinding(stage, kind).origin = "system"
         /\ SystemFinding(stage, kind).severity = "unexplainable"
BY DEF TriageFinding, TriageSeverity, SystemFinding

(* The counter's snapshots, and the row of the case under way.             *)
LEMMA SnapshotType ==
  ASSUME TypeOK
  PROVE  /\ Snapshot \in [total : 0..Total, retries : [Stages -> Nat]]
         /\ NoSnapshot \in [total : 0..Total, retries : [Stages -> Nat]]
         /\ \A s \in Stages : /\ Snapshot.retries[s] <= retries[s]
                             /\ NoSnapshot.retries[s] <= retries[s]
         /\ Snapshot.total = Total
         /\ \A s \in Stages : Snapshot.retries[s] = retries[s]
<1>1. Total \in Nat /\ 0 \in 0..Total /\ Total \in 0..Total
  BY HeldType
<1>2. retries \in [Stages -> Nat] /\ [s \in Stages |-> 0] \in [Stages -> Nat]
  BY DEF TypeOK
<1>3. \A s \in Stages : retries[s] \in Nat /\ retries[s] <= retries[s] /\ 0 <= retries[s]
  BY <1>2
<1> QED
  BY <1>1, <1>2, <1>3 DEF Snapshot, NoSnapshot

LEMMA RowType ==
  ASSUME TypeOK, InFlight
  PROVE  /\ RowOfCase \in Rows
         /\ RowOfCase.class = ClassifyCase(found)
         /\ RowOfCase.decision = DecisionForSeverities(SeveritiesOf(found))
         /\ RowOfCase.proposed = Proposed(found)
         /\ RowOfCase.case = pre.cases[Len(rows) + 1]
         /\ RowOfCase.calls = Total - before.total
         /\ \A s \in Stages : RowOfCase.retries[s] = retries[s] - before.retries[s]
         /\ Append(rows, RowOfCase) \in Seq(Rows)
<1>1. ClassifyCase(found) \in Classes
      /\ DecisionForSeverities(SeveritiesOf(found)) \in Decisions
  BY ClassType, DecisionType
<1>2. Total - before.total \in Nat
  <2>1. before.total \in 0..Total /\ Total \in Nat
    BY HeldType DEF TypeOK
  <2> QED
    BY <2>1
<1>3. [s \in Stages |-> retries[s] - before.retries[s]] \in [Stages -> Nat]
  <2>1. \A s \in Stages : /\ before.retries[s] \in Nat /\ retries[s] \in Nat
                          /\ before.retries[s] <= retries[s]
    BY DEF TypeOK
  <2>2. \A s \in Stages : retries[s] - before.retries[s] \in Nat
    BY <2>1
  <2> QED
    BY <2>2
<1>4. pre.cases[Len(rows) + 1] \in Ids
  <2>1. Len(rows) \in Nat /\ Len(rows) < Len(pre.cases) /\ pre.cases \in Listings
    BY DEF TypeOK
  <2>2. pre.cases \in Seq(Ids)
    BY <2>1, ListingType
  <2> QED
    BY <2>1, <2>2
<1>5. RowOfCase \in Rows
  BY <1>1, <1>2, <1>3, <1>4 DEF Rows, RowOfCase, Proposed
<1>6. Append(rows, RowOfCase) \in Seq(Rows)
  BY <1>5 DEF TypeOK
<1> QED
  BY <1>5, <1>6 DEF RowOfCase

(* Every step keeps the types and, for the budget, reserves, pays or       *)
(* releases.                                                               *)
LEMMA Steps ==
  ASSUME TypeOK, [Next]_vars
  PROVE  TypeOK' /\ [Budget!Next]_(Budget!vars)
<1> USE DEF Budget!Next, Budget!vars
<1>0. Held \in Nat /\ Total \in Nat /\ MaxCallsPerCase \in Nat
  BY HeldType
<1>1. ASSUME UNCHANGED <<calls, tries>>, phase' \notin {"ai_triage", "synthesize"}
      PROVE  [Budget!Next]_(Budget!vars)
  <2>1. Held' = 0 /\ Total' = Total
    BY <1>1 DEF Held, Total
  <2> QED
    BY <1>0, <2>1 DEF Budget!Release
<1>2. CASE ValidateContract
  <2>1. TypeOK' /\ phase' = "load_rules" /\ UNCHANGED <<calls, tries>>
    BY <1>2 DEF ValidateContract, TypeOK, Total, caseVars, Phases, InFlight
  <2> QED BY <1>1, <2>1
<1>3. CASE Refuse
  <2>1. TypeOK' /\ phase' = "refused" /\ UNCHANGED <<calls, tries>>
    BY <1>3 DEF Refuse, TypeOK, Total, caseVars, Phases, InFlight
  <2> QED BY <1>1, <2>1
<1>4. CASE LoadRules
  <2>1. disk["rules"] \in Versions
    BY DEF TypeOK, Versions, Parts
  <2>2. pre' \in [rules : Versions, recorded : Versions, cases : Listings]
    BY <1>4, <2>1 DEF LoadRules, Versions
  <2>3. TypeOK' /\ phase' = "case" /\ UNCHANGED <<calls, tries>>
    BY <1>4, <2>2 DEF LoadRules, TypeOK, Total, caseVars, Phases, InFlight
  <2> QED BY <1>1, <2>3
<1>5. ASSUME NEW cause \in Causes, NEW rs \in Seq(Rows), EndAttempt(cause, rs),
             \/ found' = found \/ found' = {},
             before' \in {before, NoSnapshot},
             UNCHANGED <<disk, pre, tries, caseRead, calls, retries>>
      PROVE  TypeOK' /\ [Budget!Next]_(Budget!vars)
  <2>1. /\ attempts' \in Seq(AttemptRecords) /\ replacements' \in Nat
        /\ terminal' \in TerminalStates \cup {None}
        /\ phase' \in {"case", "done"} /\ rows' = << >>
    BY <1>5, AttemptEnds
  <2>2. TypeOK'
    <3>1. Total' = Total
      BY <1>5 DEF Total
    <3>2. before' \in [total : 0..Total', retries : [Stages -> Nat]]
          /\ \A s \in Stages : before'.retries[s] <= retries'[s]
      BY <1>5, <3>1, SnapshotType DEF TypeOK
    <3>3. ~InFlight'
      BY <2>1 DEF InFlight
    <3> QED
      BY <1>5, <2>1, <3>1, <3>2, <3>3 DEF TypeOK, Phases
  <2> QED
    BY <1>1, <1>5, <2>1, <2>2
<1>6. CASE OutOfBudget \/ CaseUnusable \/ AttemptValid
  <2>1. PICK cause \in Causes : EndAttempt(cause, rows)
    BY <1>6 DEF OutOfBudget, CaseUnusable, AttemptValid, Causes
  <2>2. UNCHANGED <<disk, pre, tries, found, caseRead, before, calls, retries>>
    BY <1>6 DEF OutOfBudget, CaseUnusable, AttemptValid, caseVars
  <2> QED
    BY <1>5, <2>1, <2>2 DEF TypeOK
<1>7. CASE StartCase
  <2>1. disk["corpus"] \in Versions
    BY DEF TypeOK, Versions, Parts
  <2>2. \A f \in found' : f.origin \in Origins /\ f.severity \in Severities
    <3>1. found' \subseteq DeterministicFindings(pre.rules, disk["corpus"])
      BY <1>7 DEF StartCase
    <3>2. \A f \in DeterministicFindings(pre.rules, disk["corpus"]) :
            f.origin \in Origins /\ f.severity \in Severities
      BY DEF DeterministicFindings, ForeignFinding, RuleFailure, Origins, Severities
    <3> QED
      BY <3>1, <3>2
  <2>3. /\ before' = Snapshot /\ Total' = Total /\ retries' = retries
        /\ tries' = 0 /\ phase' = "ai_triage"
    BY <1>0, <1>7 DEF StartCase, Total
  <2>a. before' \in [total : 0..Total', retries : [Stages -> Nat]]
        /\ \A s \in Stages : before'.retries[s] <= retries'[s]
    BY <2>3, SnapshotType
  <2>b. Len(rows') < Len(pre'.cases)
    BY <1>7 DEF StartCase, CasesLeft
  <2>4. tries' \in 0..(MaxTries - 1)
    BY <2>3, PolicyAssumption
  <2>5. TypeOK'
    BY <1>7, <2>1, <2>2, <2>3, <2>a, <2>b, <2>4 DEF StartCase, TypeOK, Phases
  <2>6. Held = 0 /\ Total' = Total /\ Held' = MaxCallsPerCase
    BY <1>0, <1>7, <2>3 DEF StartCase, CasesLeft, Held, Total, MaxCallsPerCase
  <2>7. Total + MaxCallsPerCase <= Ceiling
    BY <1>7 DEF StartCase, CanReserve
  <2> QED
    BY <2>5, <2>6, <2>7 DEF Budget!Reserve
<1>8. ASSUME NEW stage \in Stages, Retry(stage)
      PROVE  TypeOK' /\ [Budget!Next]_(Budget!vars)
  BY <1>0, <1>8, RetryPays DEF Budget!Pay
<1>9. ASSUME NEW stage \in Stages, NEW F, Settle(stage, F),
             \A f \in F : f.origin \in Origins /\ f.severity \in Severities
      PROVE  TypeOK' /\ [Budget!Next]_(Budget!vars)
  BY <1>0, <1>9, SettlePays DEF Budget!Pay
<1>10. ASSUME NEW stage \in Stages, RequestFails(stage)
       PROVE  TypeOK' /\ [Budget!Next]_(Budget!vars)
  <2>1. PICK kind \in LLMErrorKinds : Settle(stage, {SystemFinding(stage, kind)})
    BY <1>10 DEF RequestFails
  <2> QED
    BY <1>9, <2>1, ModelFindings DEF Origins, Severities
<1>11. CASE TriageAnswers
  <2>1. PICK advised \in SUBSET AdvisedSeverities :
          Settle("ai_triage", {TriageFinding(a) : a \in advised})
    BY <1>11 DEF TriageAnswers
  <2>2. \A f \in {TriageFinding(a) : a \in advised} :
          f.origin \in Origins /\ f.severity \in Severities
    BY ModelFindings DEF Origins, Severities
  <2> QED
    BY <1>9, <2>1, <2>2 DEF Stages
<1>12. CASE SynthesisAnswers
  BY <1>9, <1>12, ModelFindings DEF SynthesisAnswers, Stages, Origins, Severities
<1>13. CASE FinishCase
  <2> DEFINE done == Append(rows, RowOfCase)
  <2>4. done \in Seq(Rows)
    BY <1>13, RowType DEF FinishCase, InFlight
  <2> HIDE DEF done
  <2>5. UNCHANGED <<disk, pre, tries, caseRead, calls, retries>>
        /\ found' = {} /\ before' = NoSnapshot
    BY <1>13 DEF FinishCase, CaseOver
  <2>6. \/ EndAttempt("coverage_violation", done)
        \/ EndAttempt("system_contamination", done)
        \/ /\ rows' = done /\ phase' = "case"
           /\ UNCHANGED <<attempts, replacements, terminal>>
    BY <1>13 DEF FinishCase, done
  <2>7. CASE EndAttempt("coverage_violation", done)
    BY <1>5, <2>4, <2>5, <2>7 DEF Causes
  <2>8. CASE EndAttempt("system_contamination", done)
    BY <1>5, <2>4, <2>5, <2>8 DEF Causes
  <2>9. CASE /\ rows' = done /\ phase' = "case"
             /\ UNCHANGED <<attempts, replacements, terminal>>
    <3>1. Total' = Total
      BY <2>5 DEF Total
    <3>2. before' \in [total : 0..Total', retries : [Stages -> Nat]]
          /\ \A s \in Stages : before'.retries[s] <= retries'[s]
      BY <2>5, <3>1, SnapshotType DEF TypeOK
    <3>3. TypeOK'
      BY <2>4, <2>5, <2>9, <3>1, <3>2 DEF TypeOK, Phases, InFlight
    <3> QED
      BY <1>1, <2>5, <2>9, <3>3
  <2> QED
    BY <2>6, <2>7, <2>8, <2>9
<1>14. CASE RunRaises
  <2>1. EndAttempt("input_integrity_failure", rows) /\ found' = {} /\ before' = NoSnapshot
        /\ UNCHANGED <<disk, pre, tries, caseRead, calls, retries>>
    BY <1>14 DEF RunRaises, CaseOver
  <2> QED
    BY <1>5, <2>1 DEF Causes, TypeOK
<1>15. CASE DiskChanges
  <2>1. disk' \in [Parts -> {"frozen", "changed"}]
    BY <1>15, DiskAssumption DEF DiskChanges, TypeOK
  <2>2. UNCHANGED <<pre, phase, caseVars, calls, retries, rows, attempts,
                    replacements, terminal>>
    BY <1>15 DEF DiskChanges
  <2>3. Total' = Total /\ Held' = Held
    BY <2>2 DEF Total, Held, caseVars
  <2>4. TypeOK'
    BY <2>1, <2>2, <2>3 DEF TypeOK, caseVars, InFlight
  <2> QED
    BY <2>3, <2>4
<1>16. CASE UNCHANGED vars
  BY <1>16 DEF vars, caseVars, TypeOK, Total, Held, InFlight
<1> QED
  BY <1>2, <1>3, <1>4, <1>6, <1>7, <1>8, <1>10, <1>11, <1>12, <1>13, <1>14,
     <1>15, <1>16 DEF Next, SessionStep

(* Every variable of a session keeps its type.                             *)
THEOREM TypeCorrect == Spec => []TypeOK
<1>1. Init => TypeOK
  <2> SUFFICES ASSUME Init PROVE TypeOK
    OBVIOUS
  <2>1. Total = 0
    BY DEF Init, Total, Stages
  <2>2. 0 \in 0..(MaxTries - 1)
    BY PolicyAssumption
  <2>3. << >> \in Listings
    <3>1. IsFiniteSet(Ids)
      BY CountOfFrozen, DiskAssumption, FS_Union DEF Ids
    <3>2. 0 \in 0..Cardinality(Ids) /\ << >> \in [1..0 -> Ids] /\ DOMAIN << >> = {}
      BY <3>1, FS_CardinalityType
    <3>3. << >> \in UNION {[1..n -> Ids] : n \in 0..Cardinality(Ids)}
      BY <3>2
    <3> QED
      BY <3>2, <3>3 DEF Listings
  <2>4. pre \in [rules : Versions, recorded : Versions, cases : Listings]
    BY <2>3 DEF Init, Versions
  <2>5. before \in [total : 0..Total, retries : [Stages -> Nat]]
        /\ \A s \in Stages : before.retries[s] <= retries[s]
    BY <2>1 DEF Init, NoSnapshot
  <2> QED
    BY <2>1, <2>2, <2>4, <2>5 DEF Init, TypeOK, Versions, Phases, Stages, InFlight
<1>2. TypeOK /\ [Next]_vars => TypeOK'
  BY Steps
<1> QED
  BY <1>1, <1>2, PTL DEF Spec

(* A session keeps the budget: it reserves, pays and releases, and makes   *)
(* no request that was not reserved for.                                   *)
THEOREM BudgetIsKept == Spec => KeepsBudget
<1>1. Init => Budget!Init
  BY DEF Init, Budget!Init, Total, Held, Stages
<1>2. TypeOK /\ [Next]_vars => [Budget!Next]_(Budget!vars)
  BY Steps
<1> QED
  BY <1>1, <1>2, TypeCorrect, PTL DEF Spec, KeepsBudget, Budget!Spec

LEMMA PayAndRelease ==
  ASSUME NEW c \in Nat, NEW s \in Nat, NEW h \in Nat, NEW t \in Nat,
         NEW g \in Nat, s + h <= c,
         \/ t = s + 1 /\ g \in 0..(h - 1)
         \/ t = s /\ g \in 0..h
  PROVE  t + g <= c
OBVIOUS

(* The ceiling is never exceeded, and there is always room for all that    *)
(* the case under way can still cost.                                      *)
THEOREM CeilingHolds == Spec => []CeilingNeverExceeded
<1>1. Init => CeilingNeverExceeded
  BY PolicyAssumption DEF Init, CeilingNeverExceeded, Total, Held, Stages
<1>2. TypeOK /\ CeilingNeverExceeded /\ [Next]_vars => CeilingNeverExceeded'
  <2> SUFFICES ASSUME TypeOK, CeilingNeverExceeded, [Next]_vars
               PROVE  CeilingNeverExceeded'
    OBVIOUS
  <2>1. Held \in Nat /\ Total \in Nat /\ MaxCallsPerCase \in Nat /\ Ceiling \in Nat
    BY HeldType, PolicyAssumption
  <2>2. [Budget!Next]_(Budget!vars)
    BY Steps
  <2>3. CASE Budget!Reserve
    BY <2>1, <2>3 DEF Budget!Reserve, CeilingNeverExceeded
  <2>4. CASE Budget!Pay \/ Budget!Release
    <3>1. \/ Total' = Total + 1 /\ Held' \in 0..(Held - 1)
          \/ Total' = Total /\ Held' \in 0..Held
      BY <2>4 DEF Budget!Pay, Budget!Release
    <3>2. Total + Held <= Ceiling
      BY DEF CeilingNeverExceeded
    <3>3. Held' \in Nat /\ Total' \in Nat
      BY <2>1, <3>1
    <3>4. Total' + Held' <= Ceiling
      BY <2>1, <3>1, <3>2, <3>3, PayAndRelease
    <3> QED
      BY <3>4 DEF CeilingNeverExceeded
  <2>6. CASE UNCHANGED Budget!vars
    BY <2>6 DEF Budget!vars, CeilingNeverExceeded
  <2> QED
    BY <2>2, <2>3, <2>4, <2>6 DEF Budget!Next
<1> QED
  BY <1>1, <1>2, TypeCorrect, PTL DEF Spec

(***************************************************************************)
(* The rates.                                                              *)
(***************************************************************************)

(* The attempt that EndAttempt appends carries an honest rate when it is   *)
(* not valid, and when it is valid over a full corpus of clean rows.       *)
LEMMA HonestAttempt ==
  ASSUME NEW cause \in Causes, NEW rs \in Seq(Rows),
         cause = "none" => /\ Len(rs) = Len(pre.cases)
                           /\ \A j \in DOMAIN rs :
                                CleanRow(rs[j]) /\ rs[j].case = pre.cases[j]
  PROVE  RateIsHonest(AttemptOf(cause, rs))
<1>1. CASE cause # "none"
  <2>1. AttemptType(cause) # "valid"
    BY <1>1 DEF AttemptType, Causes
  <2> QED
    BY <2>1 DEF AttemptOf, RateIsHonest
<1>2. CASE cause = "none"
  <2>1. AttemptType(cause) = "valid"
    BY <1>2 DEF AttemptType
  <2>2. {i \in DOMAIN rs : rs[i].class = "intervention"} =
          {j \in DOMAIN rs : rs[j].decision # "approve"}
    BY <1>2 DEF CleanRow
  <2>3. AttemptOf(cause, rs).rate = RateOf(rs) /\ AttemptOf(cause, rs).rows = rs
        /\ AttemptOf(cause, rs).type = "valid"
    BY <2>1 DEF AttemptOf
  <2>4. /\ RateOf(rs).n = Len(pre.cases)
        /\ RateOf(rs).k = Cardinality({j \in DOMAIN rs : rs[j].decision # "approve"})
    BY <1>2, <2>2 DEF RateOf
  <2>5. \A j \in DOMAIN rs :
          rs[j].class \in {"intervention", "non_intervention"} /\ rs[j].proposed
    BY <1>2 DEF CleanRow
  <2> QED
    BY <1>2, <2>3, <2>4, <2>5 DEF RateIsHonest
<1> QED
  BY <1>1, <1>2

(* IInv holds of every reachable state of a session.                       *)
THEOREM Inductive == Spec => []IInv
<1> DEFINE Rest == /\ ConcernsAreSevere /\ RowsAreClean
                   /\ NothingBeforePreflight /\ RateIsOverCleanCorpus
<1>1. Init => Rest
  <2> SUFFICES ASSUME Init PROVE Rest
    OBVIOUS
  <2>1. rows = << >> /\ attempts = << >> /\ pre.cases = << >> /\ found = {}
    BY DEF Init
  <2> QED
    BY <2>1 DEF ConcernsAreSevere, RowsAreClean, NothingBeforePreflight,
                RateIsOverCleanCorpus
<1>2. TypeOK /\ Rest /\ [Next]_vars => Rest'
  <2> SUFFICES ASSUME TypeOK, Rest, [Next]_vars
               PROVE  Rest'
    OBVIOUS
  <2>1. ASSUME NEW cause \in Causes, NEW rs \in Seq(Rows), EndAttempt(cause, rs),
               pre' = pre,
               cause = "none" => /\ Len(rs) = Len(pre.cases)
                                 /\ \A j \in DOMAIN rs :
                                      CleanRow(rs[j]) /\ rs[j].case = pre.cases[j]
        PROVE  RowsAreClean' /\ NothingBeforePreflight' /\ RateIsOverCleanCorpus'
    <3>1. /\ attempts' = Append(attempts, AttemptOf(cause, rs))
          /\ rows' = << >> /\ phase' \in {"case", "done"}
      BY <2>1, AttemptEnds
    <3>2. RateIsHonest(AttemptOf(cause, rs))
      BY <2>1, HonestAttempt
    <3>3. attempts \in Seq(AttemptRecords)
      BY DEF TypeOK
    <3>4. ASSUME NEW i \in DOMAIN attempts'
          PROVE  RateIsHonest(attempts'[i])
      <4>1. CASE i \in DOMAIN attempts
        BY <3>1, <3>3, <4>1 DEF RateIsOverCleanCorpus
      <4>2. CASE i = Len(attempts) + 1
        BY <3>1, <3>2, <3>3, <4>2
      <4> QED
        BY <3>1, <3>3, <4>1, <4>2
    <3>5. RateIsOverCleanCorpus'
      BY <2>1, <3>4 DEF RateIsOverCleanCorpus, RateIsHonest
    <3>6. Len(pre.cases) \in Nat
      BY ListingType DEF TypeOK
    <3> QED
      BY <2>1, <3>1, <3>5, <3>6 DEF RowsAreClean, NothingBeforePreflight
  <2>2. ASSUME found' = found \/ found' = {}
        PROVE  ConcernsAreSevere'
    BY <2>2 DEF ConcernsAreSevere
  <2>3. ASSUME UNCHANGED <<rows, attempts, pre>>,
               phase' \in {"preflight", "load_rules"} =>
                 phase \in {"preflight", "load_rules"}
        PROVE  RowsAreClean' /\ NothingBeforePreflight' /\ RateIsOverCleanCorpus'
    BY <2>3 DEF RowsAreClean, NothingBeforePreflight, RateIsOverCleanCorpus, RateIsHonest
  <2>4. rows \in Seq(Rows)
    BY DEF TypeOK
  <2>5. CASE ValidateContract \/ Refuse \/ DiskChanges
    BY <2>2, <2>3, <2>5 DEF ValidateContract, Refuse, DiskChanges, caseVars
  <2>a. CASE LoadRules
    <3>1. /\ rows' = << >> /\ attempts' = << >> /\ found' = found /\ phase' = "case"
          /\ pre'.cases \in Listings
      BY <2>a DEF LoadRules, NothingBeforePreflight, caseVars
    <3>2. Len(pre'.cases) \in Nat
      BY <3>1, ListingType
    <3> QED
      BY <2>2, <3>1, <3>2 DEF RowsAreClean, NothingBeforePreflight, RateIsOverCleanCorpus
  <2>6. CASE OutOfBudget \/ CaseUnusable
    <3>1. PICK cause \in Causes \ {"none"} : EndAttempt(cause, rows)
      BY <2>6 DEF OutOfBudget, CaseUnusable, Causes
    <3>2. found' = found /\ pre' = pre
      BY <2>6 DEF OutOfBudget, CaseUnusable, caseVars
    <3> QED
      BY <2>1, <2>2, <2>4, <3>1, <3>2
  <2>7. CASE AttemptValid
    <3>1. EndAttempt("none", rows) /\ found' = found /\ pre' = pre
          /\ Len(rows) = Len(pre.cases)
      BY <2>7 DEF AttemptValid, caseVars
    <3> QED
      BY <2>1, <2>2, <2>4, <3>1 DEF RowsAreClean, Causes
  <2>8. CASE StartCase
    <3>1. \A f \in found' : f.origin # "ai_triage"
      BY <2>8 DEF StartCase, DeterministicFindings, ForeignFinding, RuleFailure
    <3> QED
      BY <2>3, <2>8, <3>1 DEF StartCase, ConcernsAreSevere
  <2>9. ASSUME NEW stage \in Stages, Retry(stage)
        PROVE  Rest'
    BY <2>2, <2>3, <2>9 DEF Retry, Request
  <2>10. ASSUME NEW stage \in Stages, NEW F, Settle(stage, F),
                \A f \in F : f.origin = "ai_triage" =>
                               f.severity \in {"explainable", "unexplainable"}
         PROVE  Rest'
    BY <2>3, <2>10 DEF Settle, Request, ConcernsAreSevere
  <2>11. ASSUME NEW stage \in Stages, RequestFails(stage)
         PROVE  Rest'
    BY <2>10, <2>11, ModelFindings DEF RequestFails
  <2>12. CASE TriageAnswers
    <3>1. PICK advised \in SUBSET AdvisedSeverities :
            Settle("ai_triage", {TriageFinding(a) : a \in advised})
      BY <2>12 DEF TriageAnswers
    <3>2. \A f \in {TriageFinding(a) : a \in advised} :
            f.severity \in {"explainable", "unexplainable"}
      BY ModelFindings
    <3> QED
      BY <2>10, <3>1, <3>2 DEF Stages
  <2>13. CASE SynthesisAnswers
    BY <2>10, <2>13, ModelFindings DEF SynthesisAnswers, Stages
  <2>14. CASE FinishCase
    <3> DEFINE done == Append(rows, RowOfCase)
               class == ClassifyCase(found)
    <3>1. /\ RowOfCase \in Rows /\ RowOfCase.class = class
          /\ RowOfCase.decision = DecisionForSeverities(SeveritiesOf(found))
          /\ RowOfCase.proposed = Proposed(found)
          /\ RowOfCase.case = pre.cases[Len(rows) + 1]
          /\ Len(rows) < Len(pre.cases)
      BY <2>14, RowType DEF FinishCase, InFlight, TypeOK
    <3>2. done \in Seq(Rows)
      BY <2>4, <3>1
    <3>3. found' = {} /\ pre' = pre
      BY <2>14 DEF FinishCase, CaseOver
    <3>4. \/ EndAttempt("coverage_violation", done)
          \/ EndAttempt("system_contamination", done)
          \/ /\ rows' = done /\ phase' = "case" /\ UNCHANGED attempts
             /\ class \notin {"coverage_violation", "contaminated"}
      BY <2>14, <3>1 DEF FinishCase
    <3>5. CASE EndAttempt("coverage_violation", done)
      BY <2>1, <2>2, <3>2, <3>3, <3>5 DEF Causes
    <3>6. CASE EndAttempt("system_contamination", done)
      BY <2>1, <2>2, <3>2, <3>3, <3>6 DEF Causes
    <3>7. CASE /\ rows' = done /\ phase' = "case" /\ UNCHANGED attempts
               /\ class \notin {"coverage_violation", "contaminated"}
      <4>1. /\ class \in {"intervention", "non_intervention"}
            /\ Proposed(found)
            /\ class = "intervention" <=>
                 DecisionForSeverities(SeveritiesOf(found)) # "approve"
        BY <3>7, CleanCase DEF ConcernsAreSevere
      <4>2. CleanRow(RowOfCase)
        BY <3>1, <4>1 DEF CleanRow
      <4>3. RowsAreClean'
        <5> HIDE DEF class
        <5>1. Len(pre.cases) \in Nat /\ Len(rows) \in Nat
          BY <2>4, ListingType DEF TypeOK
        <5>2. Len(done) = Len(rows) + 1 /\ Len(done) <= Len(pre.cases)
          BY <2>4, <3>1, <5>1
        <5>3. ASSUME NEW j \in DOMAIN done
              PROVE  CleanRow(done[j]) /\ done[j].case = pre.cases[j]
          <6>1. CASE j \in DOMAIN rows
            BY <2>4, <3>1, <6>1 DEF RowsAreClean
          <6>2. CASE j = Len(rows) + 1
            BY <2>4, <3>1, <4>2, <6>2
          <6> QED
            BY <2>4, <3>1, <6>1, <6>2
        <5> QED
          BY <3>3, <3>7, <5>2, <5>3 DEF RowsAreClean
      <4>4. RateIsOverCleanCorpus' /\ NothingBeforePreflight'
        BY <3>3, <3>7 DEF RateIsOverCleanCorpus, RateIsHonest, NothingBeforePreflight
      <4> QED
        BY <2>2, <3>3, <4>3, <4>4
    <3> QED
      BY <3>4, <3>5, <3>6, <3>7
  <2>15. CASE RunRaises
    <3>1. EndAttempt("input_integrity_failure", rows) /\ found' = {} /\ pre' = pre
      BY <2>15 DEF RunRaises, CaseOver
    <3> QED
      BY <2>1, <2>2, <2>4, <3>1 DEF Causes
  <2>16. CASE UNCHANGED vars
    BY <2>2, <2>3, <2>16 DEF vars, caseVars
  <2> QED
    BY <2>5, <2>a, <2>6, <2>7, <2>8, <2>9, <2>11, <2>12, <2>13, <2>14, <2>15, <2>16
       DEF Next, SessionStep
<1>3. TypeOK /\ CeilingNeverExceeded /\ Rest => IInv
  BY DEF IInv
<1> QED
  BY <1>1, <1>2, <1>3, TypeCorrect, CeilingHolds, PTL DEF Spec

(* A rate is published over the whole corpus, every case of it clean, or   *)
(* not at all; and it counts the decisions the model changed.              *)
THEOREM RatesAreHonest == Spec => []RateIsOverCleanCorpus
<1>1. IInv => RateIsOverCleanCorpus
  BY DEF IInv
<1> QED
  BY <1>1, Inductive, PTL

(***************************************************************************)
(* What a step is to the bookkeeping of the session.                       *)
(***************************************************************************)

Books == <<calls, retries, rows, attempts, replacements, terminal>>

Waits ==
  /\ UNCHANGED <<tries, found, before, Books>>
  /\ \/ phase' = phase
     \/ /\ phase \in {"preflight", "load_rules", "case"}
        /\ phase' \in {"refused", "load_rules", "case"}

Begins ==
  /\ phase = "case" /\ phase' = "ai_triage"
  /\ before' = Snapshot /\ tries' = 0
  /\ UNCHANGED Books

(* A clean case: its row, and on to the next.                              *)
Goes ==
  /\ phase = "act" /\ phase' = "case"
  /\ rows' = Append(rows, RowOfCase)
  /\ RowOfCase.class \notin {"coverage_violation", "contaminated"}
  /\ found' = {} /\ before' = NoSnapshot
  /\ UNCHANGED <<tries, calls, retries, attempts, replacements, terminal>>

(* The attempt ends between two cases.                                     *)
EndsBetween(cause) ==
  /\ phase = "case" /\ EndAttempt(cause, rows)
  /\ cause \in {"none", "budget_exhausted", "input_integrity_failure"}
  /\ cause = "budget_exhausted" => ~CanReserve
  /\ UNCHANGED <<tries, found, before, calls, retries>>

(* The attempt ends at a case: with its row, or with none when it raised.  *)
EndsAtCase(cause, rs) ==
  /\ phase = "act" /\ EndAttempt(cause, rs)
  /\ \/ /\ cause = "coverage_violation" /\ RowOfCase.class = "coverage_violation"
        /\ rs = Append(rows, RowOfCase)
     \/ /\ cause = "system_contamination" /\ RowOfCase.class = "contaminated"
        /\ rs = Append(rows, RowOfCase)
     \/ cause = "input_integrity_failure" /\ rs = rows
  /\ found' = {} /\ before' = NoSnapshot
  /\ UNCHANGED <<tries, calls, retries>>

LEMMA StepForms ==
  ASSUME TypeOK, [Next]_vars
  PROVE  \/ Waits
         \/ Begins
         \/ \E stage \in Stages : Retry(stage)
         \/ \E stage \in Stages : \E F : Settle(stage, F)
         \/ Goes
         \/ \E cause \in Causes : EndsBetween(cause)
         \/ \E cause \in Causes : \E rs \in Seq(Rows) : EndsAtCase(cause, rs)
<1>1. CASE ValidateContract \/ Refuse \/ LoadRules \/ DiskChanges \/ UNCHANGED vars
  <2>1. Waits
    BY <1>1 DEF ValidateContract, Refuse, LoadRules, DiskChanges, vars, caseVars, Waits, Books
  <2> QED BY <2>1
<1>2. CASE OutOfBudget \/ CaseUnusable \/ AttemptValid
  <2>1. \E cause \in Causes : EndsBetween(cause)
    BY <1>2 DEF OutOfBudget, CaseUnusable, AttemptValid, CasesLeft, caseVars,
                EndsBetween, Causes
  <2> QED BY <2>1
<1>3. CASE StartCase
  <2>1. Begins
    BY <1>3 DEF StartCase, CasesLeft, Begins, Books
  <2> QED BY <2>1
<1>4. ASSUME NEW stage \in Stages, RequestFails(stage)
      PROVE  \E F : Settle(stage, F)
  BY <1>4 DEF RequestFails
<1>5. CASE TriageAnswers \/ SynthesisAnswers
  <2>1. "ai_triage" \in Stages /\ "synthesize" \in Stages
    BY DEF Stages
  <2>2. \/ \E F : Settle("ai_triage", F)
        \/ \E F : Settle("synthesize", F)
    BY <1>5 DEF TriageAnswers, SynthesisAnswers
  <2> QED BY <2>1, <2>2
<1>6. CASE FinishCase
  <2>1. phase = "act" /\ found' = {} /\ before' = NoSnapshot
        /\ UNCHANGED <<tries, calls, retries>>
    BY <1>6 DEF FinishCase, CaseOver
  <2>2. \/ /\ RowOfCase.class = "coverage_violation"
           /\ EndAttempt("coverage_violation", Append(rows, RowOfCase))
        \/ /\ RowOfCase.class = "contaminated"
           /\ EndAttempt("system_contamination", Append(rows, RowOfCase))
        \/ /\ RowOfCase.class \notin {"coverage_violation", "contaminated"}
           /\ rows' = Append(rows, RowOfCase) /\ phase' = "case"
           /\ UNCHANGED <<attempts, replacements, terminal>>
    BY <1>6 DEF FinishCase
  <2>3. Append(rows, RowOfCase) \in Seq(Rows)
    BY <2>1, RowType DEF InFlight
  <2>4. {"coverage_violation", "system_contamination"} \subseteq Causes
    BY DEF Causes
  <2> DEFINE done == Append(rows, RowOfCase)
  <2>5. CASE /\ RowOfCase.class = "coverage_violation"
             /\ EndAttempt("coverage_violation", Append(rows, RowOfCase))
    <3>1. EndsAtCase("coverage_violation", done)
      BY <2>1, <2>5 DEF EndsAtCase
    <3> QED BY <2>3, <2>4, <3>1
  <2>6. CASE /\ RowOfCase.class = "contaminated"
             /\ EndAttempt("system_contamination", Append(rows, RowOfCase))
    <3>1. EndsAtCase("system_contamination", done)
      BY <2>1, <2>6 DEF EndsAtCase
    <3> QED BY <2>3, <2>4, <3>1
  <2>7. CASE /\ RowOfCase.class \notin {"coverage_violation", "contaminated"}
             /\ rows' = Append(rows, RowOfCase) /\ phase' = "case"
             /\ UNCHANGED <<attempts, replacements, terminal>>
    <3>1. Goes
      BY <2>1, <2>7 DEF Goes
    <3> QED BY <3>1
  <2> QED
    BY <2>2, <2>5, <2>6, <2>7
<1>7. CASE RunRaises
  <2>1. EndsAtCase("input_integrity_failure", rows)
    BY <1>7 DEF RunRaises, CaseOver, EndsAtCase
  <2>2. "input_integrity_failure" \in Causes /\ rows \in Seq(Rows)
    BY DEF Causes, TypeOK
  <2> QED BY <2>1, <2>2
<1> QED
  BY <1>1, <1>2, <1>3, <1>4, <1>5, <1>6, <1>7 DEF Next, SessionStep

(* The terminal state an attempt leads to, by its cause.                   *)
LEMMA TerminalByCause ==
  ASSUME NEW cause \in Causes, NEW rs \in Seq(Rows), TypeOK, EndAttempt(cause, rs)
  PROVE  /\ cause = "coverage_violation" <=> terminal' = "coverage_violation"
         /\ cause = "input_integrity_failure" <=> terminal' = "input_integrity_failure"
         /\ cause = "budget_exhausted" <=> terminal' = "live_call_budget_exhausted"
         /\ cause = "none" =>
              terminal' = IF Cardinality(ValidAttempts(attempts')) = TargetValid
                            THEN "completed"
                          ELSE IF replacements > MaxReplacements
                                  \/ Len(attempts) + 1 = MaxAttempts
                            THEN "operational_failure_exhausted"
                          ELSE None
         /\ cause = "system_contamination" =>
              terminal' = IF replacements + 1 > MaxReplacements
                             \/ Len(attempts) + 1 = MaxAttempts
                            THEN "operational_failure_exhausted"
                          ELSE None
         /\ replacements' = IF cause = "system_contamination" THEN replacements + 1
                            ELSE replacements
         /\ phase' = IF terminal' = None THEN "case" ELSE "done"
<1> DEFINE a == AttemptOf(cause, rs)
<1>1. attempts' = Append(attempts, a) /\ attempts \in Seq(AttemptRecords) /\ a \in AttemptRecords
  BY AttemptEnds, AttemptRecordType DEF TypeOK
<1>2. Last(attempts') = a /\ Len(attempts') = Len(attempts) + 1
  BY <1>1 DEF Last
<1>3. a.type = AttemptType(cause) /\ a.cause = cause
  BY DEF AttemptOf
<1>4. /\ replacements' = IF cause = "system_contamination" THEN replacements + 1
                         ELSE replacements
      /\ terminal' = TerminalAfter(attempts', replacements')
      /\ phase' = IF terminal' = None THEN "case" ELSE "done"
  BY DEF EndAttempt
<1> DEFINE full == Cardinality(ValidAttempts(attempts')) = TargetValid
           over == replacements' > MaxReplacements \/ Len(attempts) + 1 = MaxAttempts
<1>5. terminal' =
        IF a.type \in {"coverage_violation", "input_integrity_failure"} THEN a.type
        ELSE IF a.type = "valid" /\ full THEN "completed"
        ELSE IF a.cause = "budget_exhausted" THEN "live_call_budget_exhausted"
        ELSE IF over THEN "operational_failure_exhausted"
        ELSE None
  BY <1>2, <1>4 DEF TerminalAfter
<1> HIDE DEF a
<1>6. CASE cause = "none"
  <2>1. a.type = "valid" /\ a.cause = "none"
    BY <1>3, <1>6 DEF AttemptType
  <2>2. terminal' = IF full THEN "completed"
                    ELSE IF over THEN "operational_failure_exhausted" ELSE None
    <3> HIDE DEF full, over
    <3> QED BY <1>5, <2>1
  <2>3. terminal' \in {"completed", "operational_failure_exhausted", "none"}
    <3> HIDE DEF full, over
    <3> QED BY <2>2 DEF None
  <2>4. replacements' = replacements
    BY <1>4, <1>6
  <2> QED BY <1>4, <1>6, <2>2, <2>3, <2>4
<1>7. CASE cause = "budget_exhausted"
  <2>1. a.type = "operationally_invalid" /\ a.cause = "budget_exhausted"
    BY <1>3, <1>7 DEF AttemptType
  <2>2. terminal' = "live_call_budget_exhausted"
    <3> HIDE DEF full, over
    <3> QED BY <1>5, <2>1
  <2>3. replacements' = replacements
    BY <1>4, <1>7
  <2> QED BY <1>4, <1>7, <2>2, <2>3
<1>8. CASE cause = "system_contamination"
  <2>1. a.type = "operationally_invalid" /\ a.cause = "system_contamination"
    BY <1>3, <1>8 DEF AttemptType
  <2>2. terminal' = IF over THEN "operational_failure_exhausted" ELSE None
    <3> HIDE DEF full, over
    <3> QED BY <1>5, <2>1
  <2>3. terminal' \in {"operational_failure_exhausted", "none"}
    <3> HIDE DEF full, over
    <3> QED BY <2>2 DEF None
  <2>4. replacements' = replacements + 1
    BY <1>4, <1>8
  <2> QED BY <1>4, <1>8, <2>2, <2>3, <2>4
<1>9. CASE cause \in {"coverage_violation", "input_integrity_failure"}
  <2>1. a.type = cause /\ a.cause = cause
    BY <1>3, <1>9 DEF AttemptType
  <2>2. terminal' = cause
    <3> HIDE DEF full, over
    <3> QED BY <1>5, <1>9, <2>1
  <2>3. replacements' = replacements
    BY <1>4, <1>9
  <2> QED BY <1>4, <1>9, <2>2, <2>3
<1> QED
  BY <1>6, <1>7, <1>8, <1>9 DEF Causes

(***************************************************************************)
(* Nothing is left over; a foreign finding ends the session.               *)
(***************************************************************************)

LEMMA LeftOverStep ==
  ASSUME TypeOK, NothingIsLeftOver, [Next]_vars
  PROVE  NothingIsLeftOver'
<1> USE DEF NothingIsLeftOver, InFlight
<1>1. CASE Waits
  BY <1>1 DEF Waits, Books
<1>2. CASE Begins
  BY <1>2 DEF Begins, Books
<1>3. ASSUME NEW stage \in Stages, Retry(stage)
      PROVE  NothingIsLeftOver'
  BY <1>3 DEF Retry, Request, Stages
<1>4. ASSUME NEW stage \in Stages, NEW F, Settle(stage, F)
      PROVE  NothingIsLeftOver'
  BY <1>4 DEF Settle, Request, Stages
<1>5. CASE Goes
  BY <1>5 DEF Goes
<1>6. ASSUME NEW cause \in Causes, NEW rs \in Seq(Rows), EndAttempt(cause, rs),
             found' = {}
      PROVE  NothingIsLeftOver'
  <2>1. phase' \in {"case", "done"} /\ rows' = << >>
        /\ phase' = IF terminal' = None THEN "case" ELSE "done"
    BY <1>6, AttemptEnds, TerminalByCause
  <2> QED
    BY <1>6, <2>1
<1>7. ASSUME NEW cause \in Causes, EndsBetween(cause)
      PROVE  NothingIsLeftOver'
  <2>1. rows \in Seq(Rows) /\ found' = {} /\ EndAttempt(cause, rows)
    BY <1>7 DEF EndsBetween, TypeOK
  <2> QED
    BY <1>6, <2>1
<1>8. ASSUME NEW cause \in Causes, NEW rs \in Seq(Rows), EndsAtCase(cause, rs)
      PROVE  NothingIsLeftOver'
  BY <1>6, <1>8 DEF EndsAtCase
<1> QED
  BY <1>1, <1>2, <1>3, <1>4, <1>5, <1>7, <1>8, StepForms

THEOREM LeftOverHolds == Spec => []NothingIsLeftOver
<1>1. Init => NothingIsLeftOver
  BY DEF Init, NothingIsLeftOver
<1>2. TypeOK /\ NothingIsLeftOver /\ [Next]_vars => NothingIsLeftOver'
  BY LeftOverStep
<1> QED
  BY <1>1, <1>2, TypeCorrect, PTL DEF Spec

(* A case with a foreign finding ends the session as a coverage violation, *)
(* whatever else was found of it, unless its run raised.                   *)
THEOREM ForeignFindingIsSeen == Spec => ForeignFindingEndsSession
<1> DEFINE Seen == (\E f \in found : f.origin = "deterministic") /\ found' = {}
                     => terminal' \in {"coverage_violation", "input_integrity_failure"}
<1>1. TypeOK /\ NothingIsLeftOver /\ [Next]_vars => [Seen]_vars
  <2> SUFFICES ASSUME TypeOK, NothingIsLeftOver, [Next]_vars,
                      NEW f \in found, f.origin = "deterministic", found' = {}
               PROVE  terminal' \in {"coverage_violation", "input_integrity_failure"}
    OBVIOUS
  <2>1. InFlight /\ phase \notin {"case", "done"}
    BY DEF NothingIsLeftOver, InFlight
  <2>2. RowOfCase.class = "coverage_violation"
    BY <2>1, RowType DEF ClassifyCase
  <2>3. ~Waits /\ ~Begins /\ ~Goes
    BY <2>1, <2>2 DEF Waits, Begins, Goes
  <2>4. \A stage \in Stages : ~Retry(stage) /\ \A F : ~Settle(stage, F)
    BY DEF Retry, Settle
  <2>5. \A cause \in Causes : ~EndsBetween(cause)
    BY <2>1 DEF EndsBetween
  <2>6. PICK cause \in Causes, rs \in Seq(Rows) : EndsAtCase(cause, rs)
    BY <2>3, <2>4, <2>5, StepForms
  <2>7. EndAttempt(cause, rs) /\ cause \in {"coverage_violation", "input_integrity_failure"}
    BY <2>2, <2>6 DEF EndsAtCase
  <2>8. terminal' = cause
    BY <2>7, TerminalByCause
  <2> QED
    BY <2>7, <2>8
<1> QED
  BY <1>1, TypeCorrect, LeftOverHolds, PTL DEF Spec, ForeignFindingEndsSession

(***************************************************************************)
(* The worst row is the last.                                              *)
(***************************************************************************)

LEMMA WorstRowStep ==
  ASSUME TypeOK, RowsAreClean, NothingIsLeftOver, WorstRowIsLast, [Next]_vars
  PROVE  WorstRowIsLast'
<1>1. ASSUME UNCHANGED <<attempts, terminal>>
      PROVE  WorstRowIsLast'
  BY <1>1 DEF WorstRowIsLast
<1>2. ASSUME NEW cause \in Causes, NEW rs \in Seq(Rows), EndAttempt(cause, rs),
             terminal = None,
             \A j \in DOMAIN rs :
               /\ rs[j].class = "coverage_violation" =>
                    j = Len(rs) /\ cause = "coverage_violation"
               /\ rs[j].class = "contaminated" =>
                    j = Len(rs) /\ cause = "system_contamination",
             cause = "coverage_violation" => Last(rs).class = "coverage_violation"
      PROVE  WorstRowIsLast'
  <2> DEFINE a == AttemptOf(cause, rs)
  <2>1. attempts' = Append(attempts, a) /\ attempts \in Seq(AttemptRecords)
        /\ a \in AttemptRecords
    BY <1>2, AttemptEnds, AttemptRecordType DEF TypeOK
  <2>2. terminal' = "coverage_violation" <=> cause = "coverage_violation"
    BY <1>2, TerminalByCause
  <2>3. /\ a.rows = rs
        /\ cause \in {"coverage_violation", "system_contamination"} => a.type # "valid"
    BY DEF AttemptOf, AttemptType
  <2> HIDE DEF a
  <2>4. Last(attempts') = a /\ Len(attempts') = Len(attempts) + 1
        /\ attempts'[Len(attempts')] = a
    BY <2>1 DEF Last
  <2>5. \A i \in DOMAIN attempts : attempts'[i] = attempts[i]
    BY <2>1
  <2>6. \A i \in DOMAIN attempts' : i \in DOMAIN attempts \/ i = Len(attempts')
    BY <2>1
  <2>7. ASSUME NEW i \in DOMAIN attempts, NEW j \in DOMAIN attempts[i].rows
        PROVE  /\ attempts[i].rows[j].class # "coverage_violation"
               /\ attempts[i].rows[j].class = "contaminated" =>
                    j = Len(attempts[i].rows) /\ attempts[i].type # "valid"
    BY <1>2 DEF WorstRowIsLast, None
  <2>8. ASSUME NEW i \in DOMAIN attempts', NEW j \in DOMAIN attempts'[i].rows
        PROVE  LET class == attempts'[i].rows[j].class
               IN  /\ class \in {"coverage_violation", "contaminated"} =>
                        j = Len(attempts'[i].rows) /\ attempts'[i].type # "valid"
                   /\ class = "coverage_violation" =>
                        i = Len(attempts') /\ terminal' = "coverage_violation"
    <3>1. CASE i \in DOMAIN attempts
      BY <2>5, <2>7, <2>8, <3>1
    <3>2. CASE i = Len(attempts')
      BY <1>2, <2>2, <2>3, <2>4, <2>8, <3>2
    <3> QED
      BY <2>6, <3>1, <3>2
  <2>9. terminal' = "coverage_violation" =>
          Last(Last(attempts').rows).class = "coverage_violation"
    BY <1>2, <2>2, <2>3, <2>4
  <2> QED
    BY <2>8, <2>9 DEF WorstRowIsLast
<1>3. \A j \in DOMAIN rows : rows[j].class \notin {"coverage_violation", "contaminated"}
  BY DEF RowsAreClean, CleanRow
<1>4. ASSUME NEW cause \in Causes, EndsBetween(cause)
      PROVE  WorstRowIsLast'
  <2>1. /\ rows \in Seq(Rows) /\ terminal = None /\ EndAttempt(cause, rows)
        /\ cause # "coverage_violation"
    BY <1>4 DEF EndsBetween, TypeOK, NothingIsLeftOver
  <2> QED
    BY <1>2, <1>3, <2>1
<1>5. ASSUME NEW cause \in Causes, NEW rs \in Seq(Rows), EndsAtCase(cause, rs)
      PROVE  WorstRowIsLast'
  <2>1. terminal = None /\ EndAttempt(cause, rs)
    BY <1>5 DEF EndsAtCase, NothingIsLeftOver
  <2>2. CASE rs = rows /\ cause = "input_integrity_failure"
    BY <1>2, <1>3, <2>1, <2>2
  <2>3. CASE /\ rs = Append(rows, RowOfCase)
             /\ \/ cause = "coverage_violation" /\ RowOfCase.class = "coverage_violation"
                \/ cause = "system_contamination" /\ RowOfCase.class = "contaminated"
    <3>1. rows \in Seq(Rows) /\ RowOfCase \in Rows
      BY <1>5, RowType DEF TypeOK, EndsAtCase, InFlight
    <3>2. Last(rs) = RowOfCase /\ Len(rs) = Len(rows) + 1
          /\ \A j \in DOMAIN rs : j # Len(rs) => j \in DOMAIN rows /\ rs[j] = rows[j]
      BY <2>3, <3>1 DEF Last
    <3>3. rs[Len(rs)] = RowOfCase
      BY <3>2 DEF Last
    <3> QED
      BY <1>2, <1>3, <2>1, <2>3, <3>2, <3>3
  <2> QED
    BY <1>5, <2>2, <2>3 DEF EndsAtCase
<1>6. CASE Waits \/ Begins \/ Goes
  BY <1>1, <1>6 DEF Waits, Begins, Goes, Books
<1>7. ASSUME NEW stage \in Stages, Retry(stage) \/ \E F : Settle(stage, F)
      PROVE  WorstRowIsLast'
  BY <1>1, <1>7 DEF Retry, Settle, Request
<1> QED
  BY <1>4, <1>5, <1>6, <1>7, StepForms

(* A contaminated case ends its attempt, a coverage violation the session: *)
(* no row follows either.                                                  *)
THEOREM NoRowAfterTheWorst == Spec => []WorstRowIsLast
<1>1. Init => WorstRowIsLast
  BY DEF Init, WorstRowIsLast, None
<1>2. TypeOK /\ RowsAreClean /\ NothingIsLeftOver /\ WorstRowIsLast /\ [Next]_vars
      => WorstRowIsLast'
  BY WorstRowStep
<1>3. IInv => TypeOK /\ RowsAreClean
  BY DEF IInv
<1> QED
  BY <1>1, <1>2, <1>3, Inductive, LeftOverHolds, PTL DEF Spec

(***************************************************************************)
(* The terminal state is earned.                                           *)
(***************************************************************************)

(* What appending does to a sequence and to its positions.                 *)
LEMMA AppendFacts ==
  ASSUME NEW X, NEW s \in Seq(X), NEW x \in X
  PROVE  /\ Len(s) \in Nat /\ DOMAIN s = 1..Len(s)
         /\ DOMAIN Append(s, x) = 1..(Len(s) + 1)
         /\ Append(s, x)[Len(s) + 1] = x
         /\ \A i \in 1..Len(s) : Append(s, x)[i] = s[i] /\ i # Len(s) + 1
<1>1. /\ Len(s) \in Nat /\ DOMAIN s = 1..Len(s)
      /\ DOMAIN Append(s, x) = 1..(Len(s) + 1)
      /\ Append(s, x)[Len(s) + 1] = x
  OBVIOUS
<1>2. \A i \in 1..Len(s) : Append(s, x)[i] = s[i] /\ i # Len(s) + 1
  OBVIOUS
<1> QED
  BY <1>1, <1>2

(* One attempt more: the sets of the valid and of the contaminated gain it *)
(* or do not.                                                              *)
LEMMA TallyOfAppend ==
  ASSUME NEW made \in Seq(AttemptRecords), NEW a \in AttemptRecords
  PROVE  /\ Cardinality(ValidAttempts(made)) \in Nat
         /\ Cardinality(ContaminatedAttempts(made)) \in Nat
         /\ Cardinality(ValidAttempts(Append(made, a))) =
              Cardinality(ValidAttempts(made)) + (IF a.type = "valid" THEN 1 ELSE 0)
         /\ Cardinality(ContaminatedAttempts(Append(made, a))) =
              Cardinality(ContaminatedAttempts(made))
                + (IF a.cause = "system_contamination" THEN 1 ELSE 0)
<1> DEFINE V == ValidAttempts(made)
           C == ContaminatedAttempts(made)
           n == Len(made) + 1
           b == Append(made, a)
<1>0. /\ Len(made) \in Nat /\ DOMAIN made = 1..Len(made) /\ DOMAIN b = 1..n
      /\ b[n] = a /\ \A i \in 1..Len(made) : b[i] = made[i] /\ i # n
      /\ 1..n = (1..Len(made)) \cup {n}
  <2>1. /\ Len(made) \in Nat /\ DOMAIN made = 1..Len(made)
        /\ DOMAIN b = 1..n /\ b[n] = a
        /\ \A i \in 1..Len(made) : b[i] = made[i] /\ i # n
    BY AppendFacts
  <2> HIDE DEF b
  <2>2. 1..n = (1..Len(made)) \cup {n}
    BY <2>1
  <2> QED
    BY <2>1, <2>2
<1>1. V \subseteq 1..Len(made) /\ C \subseteq 1..Len(made) /\ n \notin V /\ n \notin C
  BY <1>0 DEF ValidAttempts, ContaminatedAttempts
<1>2. IsFiniteSet(1..Len(made))
  <2>1. 1 \in Int /\ Len(made) \in Int
    BY <1>0
  <2> QED
    BY <2>1, FS_Interval
<1>3. IsFiniteSet(V) /\ IsFiniteSet(C)
  BY <1>1, <1>2, FS_Subset
<1>4. Cardinality(V) \in Nat /\ Cardinality(C) \in Nat
  BY <1>3, FS_CardinalityType
<1>5. Cardinality(V \cup {n}) = Cardinality(V) + 1
      /\ Cardinality(C \cup {n}) = Cardinality(C) + 1
  BY <1>1, <1>3, FS_AddElement
<1> HIDE DEF n, b
<1>6. ValidAttempts(b) = IF a.type = "valid" THEN V \cup {n} ELSE V
  BY <1>0 DEF ValidAttempts
<1>7. ContaminatedAttempts(b) =
        IF a.cause = "system_contamination" THEN C \cup {n} ELSE C
  BY <1>0 DEF ContaminatedAttempts
<1> HIDE DEF V, C
<1>8. Cardinality(ValidAttempts(b)) =
        Cardinality(V) + (IF a.type = "valid" THEN 1 ELSE 0)
  BY <1>4, <1>5, <1>6
<1>9. Cardinality(ContaminatedAttempts(b)) =
        Cardinality(C) + (IF a.cause = "system_contamination" THEN 1 ELSE 0)
  BY <1>4, <1>5, <1>7
<1> QED
  BY <1>4, <1>8, <1>9 DEF V, C, b

LEMMA NoTally ==
  Cardinality(ValidAttempts(<< >>)) = 0 /\ Cardinality(ContaminatedAttempts(<< >>)) = 0
<1>1. ValidAttempts(<< >>) = {} /\ ContaminatedAttempts(<< >>) = {}
  BY DEF ValidAttempts, ContaminatedAttempts
<1> QED
  BY <1>1, FS_EmptySet

Tally == AttemptsAreTallied /\ TerminalStateIsEarned

(* The arithmetic of one attempt more: v valid and c contaminated ones of  *)
(* n, of t and m allowed.                                                  *)
LEMMA OneAttemptMore ==
  ASSUME NEW v \in Nat, NEW c \in Nat, NEW n \in Nat, NEW t \in Nat, NEW m \in Nat,
         v < t, c <= m, v + c = n
  PROVE  /\ n + 1 <= t + m
         /\ v + 1 # t => n + 1 # t + m
         /\ c + 1 <= m => n + 1 # t + m
OBVIOUS

LEMMA TallyStep ==
  ASSUME TypeOK, NothingIsLeftOver, Tally, [Next]_vars
  PROVE  Tally'
<1> USE DEF Tally
<1>1. ASSUME UNCHANGED <<attempts, terminal, replacements>>,
             terminal # None => Total' = Total
      PROVE  Tally'
  BY <1>1 DEF AttemptsAreTallied, TerminalStateIsEarned, MaxCallsPerCase, None
<1>2. ASSUME NEW cause \in Causes, NEW rs \in Seq(Rows), EndAttempt(cause, rs),
             terminal = None, calls' = calls,
             cause = "budget_exhausted" => ~CanReserve
      PROVE  Tally'
  <2> DEFINE a == AttemptOf(cause, rs)
             v == Cardinality(ValidAttempts(attempts))
             c == Cardinality(ContaminatedAttempts(attempts))
             n == Len(attempts)
             vv == Cardinality(ValidAttempts(attempts'))
             cc == Cardinality(ContaminatedAttempts(attempts'))
  <2>1. attempts' = Append(attempts, a) /\ attempts \in Seq(AttemptRecords)
        /\ a \in AttemptRecords
    BY <1>2, AttemptEnds, AttemptRecordType DEF TypeOK
  <2>2. a.cause = cause /\ (a.type = "valid" <=> cause = "none")
    BY DEF AttemptOf, AttemptType, Causes
  <2> HIDE DEF a
  <2>3. /\ v \in Nat /\ c \in Nat /\ n \in Nat /\ Len(attempts') = n + 1
        /\ vv = v + (IF cause = "none" THEN 1 ELSE 0)
        /\ cc = c + (IF cause = "system_contamination" THEN 1 ELSE 0)
    BY <2>1, <2>2, TallyOfAppend
  <2>4. v < TargetValid /\ c <= MaxReplacements /\ v + c = n /\ replacements = c
    BY <1>2 DEF AttemptsAreTallied
  <2>5. TargetValid \in Nat /\ MaxReplacements \in Nat
        /\ MaxAttempts = TargetValid + MaxReplacements
    BY PolicyAssumption
  <2> HIDE DEF v, c, n, vv, cc
  <2>6. /\ n + 1 <= MaxAttempts
        /\ v + 1 # TargetValid => n + 1 # MaxAttempts
        /\ c + 1 <= MaxReplacements => n + 1 # MaxAttempts
    BY <2>3, <2>4, <2>5, OneAttemptMore
  <2>7. replacements' = cc
    BY <1>2, <2>3, <2>4, TerminalByCause
  <2>8. /\ terminal' = None => vv < TargetValid /\ cc <= MaxReplacements
        /\ terminal' \in {None, "completed"} => vv + cc = n + 1
        /\ vv = TargetValid <=> terminal' = "completed"
        /\ cc = MaxReplacements + 1 <=> terminal' = "operational_failure_exhausted"
        /\ cc <= MaxReplacements + 1
        /\ terminal' = "live_call_budget_exhausted" => cause = "budget_exhausted"
    <3>1. CASE cause = "none"
      <4>1. terminal' = IF vv = TargetValid THEN "completed"
                        ELSE IF replacements > MaxReplacements \/ n + 1 = MaxAttempts
                          THEN "operational_failure_exhausted"
                        ELSE None
        BY <1>2, <3>1, TerminalByCause DEF vv, n
      <4>2. vv = v + 1 /\ cc = c
        BY <2>3, <3>1
      <4>3. CASE vv = TargetValid
        <5>1. terminal' = "completed"
          BY <4>1, <4>3
        <5> QED BY <2>3, <2>4, <2>5, <4>2, <4>3, <5>1 DEF None
      <4>4. CASE vv # TargetValid
        <5>1. n + 1 # MaxAttempts /\ ~(replacements > MaxReplacements)
          BY <2>3, <2>4, <2>5, <2>6, <4>2, <4>4
        <5>2. terminal' = None
          BY <4>1, <4>4, <5>1
        <5> QED BY <2>3, <2>4, <2>5, <4>2, <4>4, <5>2 DEF None
      <4> QED
        BY <4>3, <4>4
    <3>2. CASE cause = "system_contamination"
      <4>1. terminal' = IF replacements + 1 > MaxReplacements \/ n + 1 = MaxAttempts
                          THEN "operational_failure_exhausted"
                        ELSE None
        BY <1>2, <3>2, TerminalByCause DEF n
      <4>2. vv = v /\ cc = c + 1
        BY <2>3, <3>2
      <4>3. CASE c + 1 <= MaxReplacements
        <5>1. n + 1 # MaxAttempts /\ ~(replacements + 1 > MaxReplacements)
          BY <2>3, <2>4, <2>5, <2>6, <4>3
        <5>2. terminal' = None
          BY <4>1, <5>1
        <5> QED BY <2>3, <2>4, <2>5, <4>2, <4>3, <5>2 DEF None
      <4>4. CASE ~(c + 1 <= MaxReplacements)
        <5>1. terminal' = "operational_failure_exhausted" /\ c + 1 = MaxReplacements + 1
          BY <2>3, <2>4, <2>5, <4>1, <4>4
        <5> QED BY <2>3, <2>4, <2>5, <4>2, <5>1 DEF None
      <4> QED
        BY <4>3, <4>4
    <3>3. CASE cause \notin {"none", "system_contamination"}
      <4>1. vv = v /\ cc = c
        BY <2>3, <3>3
      <4>2. /\ terminal' \in {"coverage_violation", "input_integrity_failure",
                              "live_call_budget_exhausted"}
            /\ terminal' = "live_call_budget_exhausted" => cause = "budget_exhausted"
        BY <1>2, <3>3, TerminalByCause DEF Causes
      <4> QED
        BY <2>3, <2>4, <2>5, <4>1, <4>2 DEF None
    <3> QED
      BY <3>1, <3>2, <3>3
  <2>9. AttemptsAreTallied'
    BY <2>3, <2>7, <2>8 DEF AttemptsAreTallied, vv, cc
  <2>10. cause = "budget_exhausted" => Total' + MaxCallsPerCase > Ceiling
    <3>1. Total' = Total
      BY <1>2 DEF Total
    <3> QED
      BY <1>2, <3>1, HeldType, PolicyAssumption DEF CanReserve
  <2>11. TerminalStateIsEarned'
    BY <2>3, <2>6, <2>8, <2>10 DEF TerminalStateIsEarned, vv, cc, MaxCallsPerCase
  <2> QED
    BY <2>9, <2>11
<1>3. ASSUME NEW cause \in Causes, EndsBetween(cause)
      PROVE  Tally'
  <2>1. /\ rows \in Seq(Rows) /\ terminal = None /\ EndAttempt(cause, rows)
        /\ calls' = calls /\ (cause = "budget_exhausted" => ~CanReserve)
    BY <1>3 DEF EndsBetween, TypeOK, NothingIsLeftOver
  <2> QED
    BY <1>2, <2>1
<1>4. ASSUME NEW cause \in Causes, NEW rs \in Seq(Rows), EndsAtCase(cause, rs)
      PROVE  Tally'
  <2>1. /\ terminal = None /\ EndAttempt(cause, rs)
        /\ calls' = calls /\ cause # "budget_exhausted"
    BY <1>4 DEF EndsAtCase, NothingIsLeftOver
  <2> QED
    BY <1>2, <2>1
<1>5. CASE Waits \/ Begins \/ Goes
  <2>1. UNCHANGED <<attempts, terminal, replacements, calls>>
    BY <1>5 DEF Waits, Begins, Goes, Books
  <2> QED
    BY <1>1, <2>1 DEF Total
<1>6. ASSUME NEW stage \in Stages, Retry(stage) \/ \E F : Settle(stage, F)
      PROVE  Tally'
  <2>1. UNCHANGED <<attempts, terminal, replacements>> /\ phase = stage
    BY <1>6 DEF Retry, Settle, Request
  <2>2. terminal = None
    BY <2>1 DEF NothingIsLeftOver, Stages
  <2> QED
    BY <1>1, <2>1, <2>2
<1> QED
  BY <1>3, <1>4, <1>5, <1>6, StepForms

LEMMA TallyHolds == Spec => []Tally
<1>1. Init => Tally
  <2> SUFFICES ASSUME Init PROVE Tally
    OBVIOUS
  <2>1. attempts = << >> /\ replacements = 0 /\ terminal = None /\ Len(attempts) = 0
    BY DEF Init
  <2>2. AttemptsAreTallied
    BY <2>1, NoTally, PolicyAssumption DEF AttemptsAreTallied
  <2>3. TerminalStateIsEarned
    BY <2>1, NoTally, PolicyAssumption DEF TerminalStateIsEarned, None
  <2> QED
    BY <2>2, <2>3 DEF Tally
<1>2. TypeOK /\ NothingIsLeftOver /\ Tally /\ [Next]_vars => Tally'
  BY TallyStep
<1> QED
  BY <1>1, <1>2, TypeCorrect, LeftOverHolds, PTL DEF Spec

(* The terminal state of a session is the one its attempts and its counter *)
(* account for.                                                            *)
THEOREM TerminalIsEarned == Spec => []TerminalStateIsEarned
<1>1. Tally => TerminalStateIsEarned
  BY DEF Tally
<1> QED
  BY <1>1, TallyHolds, PTL

(***************************************************************************)
(* Every request is on a row.                                              *)
(***************************************************************************)

PlusCalls(e, sum, row)   == sum + row.calls
PlusRetries(e, sum, row) == sum + row.retries[e]
AndRows(e, all, a)       == all \o a.rows

Adding    == INSTANCE FoldLemmas WITH Op <- PlusCalls, Base <- 0
Retrying  == INSTANCE FoldLemmas WITH Op <- PlusRetries, Base <- 0
Gathering == INSTANCE FoldLemmas WITH Op <- AndRows, Base <- << >>

LEMMA CallsOfFold ==
  ASSUME NEW s
  PROVE  Adding!Fold(0, s) = CallsOf(s)
BY DEF Adding!Fold, CallsOf, PlusCalls, FoldLeft, MapThenFoldSet, Adding!FoldLeft,
       Adding!MapThenFoldSet, Max, Adding!Max

LEMMA RetriesOfFold ==
  ASSUME NEW s, NEW e
  PROVE  Retrying!Fold(e, s) = RetriesOf(s, e)
BY DEF Retrying!Fold, RetriesOf, PlusRetries, FoldLeft, MapThenFoldSet, Retrying!FoldLeft,
       Retrying!MapThenFoldSet, Max, Retrying!Max

LEMMA RowsOfFold ==
  ASSUME NEW s
  PROVE  Gathering!Fold(0, s) = RowsOf(s)
BY DEF Gathering!Fold, RowsOf, AndRows, FoldLeft, MapThenFoldSet, Gathering!FoldLeft,
       Gathering!MapThenFoldSet, Max, Gathering!Max

LEMMA CallsOfSteps ==
  /\ CallsOf(<< >>) = 0
  /\ \A s \in Seq(Rows), x \in Rows : CallsOf(Append(s, x)) = CallsOf(s) + x.calls
<1>1. CallsOf(<< >>) = 0
  BY CallsOfFold, Adding!FoldEmpty
<1>2. ASSUME NEW s \in Seq(Rows), NEW x \in Rows
      PROVE  CallsOf(Append(s, x)) = CallsOf(s) + x.calls
  <2>1. Adding!Fold(0, Append(s, x)) = PlusCalls(0, Adding!Fold(0, s), x)
    BY Adding!FoldAppend
  <2> QED
    BY <2>1, CallsOfFold DEF PlusCalls
<1> QED
  BY <1>1, <1>2

LEMMA CallsOfType == \A s \in Seq(Rows) : CallsOf(s) \in Nat
<1>1. \A t \in Nat : \A x \in Rows : PlusCalls(0, t, x) \in Nat
  BY DEF PlusCalls, Rows
<1>2. \A s \in Seq(Rows) : Adding!Fold(0, s) \in Nat
  BY <1>1, Adding!FoldType
<1> QED
  BY <1>2, CallsOfFold

LEMMA RetriesOfSteps ==
  ASSUME NEW e \in Stages
  PROVE  /\ RetriesOf(<< >>, e) = 0
         /\ \A s \in Seq(Rows), x \in Rows :
              RetriesOf(Append(s, x), e) = RetriesOf(s, e) + x.retries[e]
<1>1. RetriesOf(<< >>, e) = 0
  BY RetriesOfFold, Retrying!FoldEmpty
<1>2. ASSUME NEW s \in Seq(Rows), NEW x \in Rows
      PROVE  RetriesOf(Append(s, x), e) = RetriesOf(s, e) + x.retries[e]
  <2>1. Retrying!Fold(e, Append(s, x)) = PlusRetries(e, Retrying!Fold(e, s), x)
    BY Retrying!FoldAppend
  <2> QED
    BY <2>1, RetriesOfFold DEF PlusRetries
<1> QED
  BY <1>1, <1>2

LEMMA RetriesOfType == \A e \in Stages : \A s \in Seq(Rows) : RetriesOf(s, e) \in Nat
<1> TAKE e \in Stages
<1>1. \A t \in Nat : \A x \in Rows : PlusRetries(e, t, x) \in Nat
  BY DEF PlusRetries, Rows
<1>2. \A s \in Seq(Rows) : Retrying!Fold(e, s) \in Nat
  BY <1>1, Retrying!FoldType
<1> QED
  BY <1>2, RetriesOfFold

LEMMA RowsOfType == \A s \in Seq(AttemptRecords) : RowsOf(s) \in Seq(Rows)
<1>1. \A t \in Seq(Rows) : \A x \in AttemptRecords : AndRows(0, t, x) \in Seq(Rows)
  BY DEF AndRows, AttemptRecords
<1>2. \A s \in Seq(AttemptRecords) : Gathering!Fold(0, s) \in Seq(Rows)
  <2>1. << >> \in Seq(Rows)
    OBVIOUS
  <2> QED
    BY <1>1, <2>1, Gathering!FoldType
<1> QED
  BY <1>2, RowsOfFold

LEMMA RowsOfSteps ==
  /\ RowsOf(<< >>) = << >>
  /\ \A s \in Seq(AttemptRecords), x \in AttemptRecords :
       RowsOf(Append(s, x)) = RowsOf(s) \o x.rows
<1>1. RowsOf(<< >>) = << >>
  BY RowsOfFold, Gathering!FoldEmpty
<1>2. ASSUME NEW s \in Seq(AttemptRecords), NEW x \in AttemptRecords
      PROVE  RowsOf(Append(s, x)) = RowsOf(s) \o x.rows
  <2>1. Gathering!Fold(0, Append(s, x)) = AndRows(0, Gathering!Fold(0, s), x)
    BY Gathering!FoldAppend
  <2> QED
    BY <2>1, RowsOfFold DEF AndRows
<1> QED
  BY <1>1, <1>2

LEMMA ConcatAppend ==
  ASSUME NEW X, NEW r \in Seq(X), NEW s \in Seq(X), NEW x \in X
  PROVE  r \o Append(s, x) = Append(r \o s, x)
OBVIOUS

LEMMA ConcatEmpty ==
  ASSUME NEW X, NEW r \in Seq(X)
  PROVE  r \o << >> = r
OBVIOUS

(* The rows of the session, those of the attempt under way included, when  *)
(* an attempt ends: what it ends with.                                     *)
LEMMA RowsWhenAttemptEnds ==
  ASSUME NEW cause \in Causes, NEW rs \in Seq(Rows), TypeOK, EndAttempt(cause, rs)
  PROVE  AllRows' = RowsOf(attempts) \o rs
<1> DEFINE a == AttemptOf(cause, rs)
<1>1. /\ attempts' = Append(attempts, a) /\ rows' = << >>
      /\ attempts \in Seq(AttemptRecords) /\ a \in AttemptRecords
      /\ attempts' \in Seq(AttemptRecords)
  BY AttemptEnds, AttemptRecordType DEF TypeOK
<1>2. a.rows = rs
  BY DEF AttemptOf
<1> HIDE DEF a
<1>3. RowsOf(attempts') = RowsOf(attempts) \o rs
  BY <1>1, <1>2, RowsOfSteps
<1>4. RowsOf(attempts') \in Seq(Rows)
  BY <1>1, RowsOfType
<1>5. AllRows' = RowsOf(attempts') \o << >>
  BY <1>1 DEF AllRows
<1>6. RowsOf(attempts') \o << >> = RowsOf(attempts')
  BY <1>4, ConcatEmpty
<1> QED
  BY <1>3, <1>4, <1>5, <1>6

(* Each request is one more of the case under way.                         *)
LEMMA CallsOfTheCaseStep ==
  ASSUME TypeOK, NothingIsLeftOver, CallsOfTheCase, [Next]_vars
  PROVE  CallsOfTheCase'
<1> USE DEF CallsOfTheCase
<1>0. /\ Total \in Nat /\ before.total \in 0..Total /\ tries \in 0..(MaxTries - 1)
      /\ MaxTries \in Nat \ {0} /\ MaxCallsPerCase = 2 * MaxTries
  BY HeldType, PolicyAssumption DEF TypeOK, MaxCallsPerCase
<1>1. CASE Waits
  <2>1. Total' = Total /\ before'.total = before.total /\ tries' = tries
    BY <1>1 DEF Waits, Books, Total
  <2> QED
    BY <1>1, <2>1 DEF Waits, MaxCallsPerCase
<1>2. CASE Begins
  <2>1. Total' = Total /\ before'.total = Total /\ tries' = 0 /\ phase' = "ai_triage"
    BY <1>2, SnapshotType DEF Begins, Books, Total
  <2> QED
    BY <1>0, <2>1
<1>3. ASSUME NEW stage \in Stages, Retry(stage)
      PROVE  CallsOfTheCase'
  <2>1. /\ Total' = Total + 1 /\ before'.total = before.total /\ tries' = tries + 1
        /\ phase = stage /\ phase' = stage
    BY <1>3, RequestPays DEF Retry, Request
  <2> QED
    BY <1>0, <2>1 DEF Stages
<1>4. ASSUME NEW stage \in Stages, NEW F, Settle(stage, F)
      PROVE  CallsOfTheCase'
  <2>1. /\ Total' = Total + 1 /\ before'.total = before.total /\ tries' = 0 /\ phase = stage
        /\ phase' = IF stage = "ai_triage" THEN "synthesize" ELSE "act"
    BY <1>4, RequestPays DEF Settle, Request
  <2>2. CASE stage = "ai_triage"
    BY <1>0, <2>1, <2>2
  <2>3. CASE stage = "synthesize"
    <3>1. Total - before.total - tries \in 1..MaxTries
      BY <2>1, <2>3
    <3>2. Total + 1 - before.total \in 2..(2 * MaxTries)
      BY <1>0, <3>1
    <3> QED
      BY <1>0, <2>1, <2>3, <3>2 DEF MaxCallsPerCase
  <2> QED
    BY <2>2, <2>3 DEF Stages
<1>5. ASSUME phase' \in {"case", "done"}
      PROVE  CallsOfTheCase'
  BY <1>5
<1>6. CASE Goes
  BY <1>5, <1>6 DEF Goes
<1>7. ASSUME NEW cause \in Causes, EndsBetween(cause)
      PROVE  CallsOfTheCase'
  <2>1. phase' \in {"case", "done"}
    BY <1>7, AttemptEnds DEF EndsBetween, TypeOK
  <2> QED
    BY <1>5, <2>1
<1>8. ASSUME NEW cause \in Causes, NEW rs \in Seq(Rows), EndsAtCase(cause, rs)
      PROVE  CallsOfTheCase'
  <2>1. phase' \in {"case", "done"}
    BY <1>8, AttemptEnds DEF EndsAtCase
  <2> QED
    BY <1>5, <2>1
<1> QED
  BY <1>1, <1>2, <1>3, <1>4, <1>6, <1>7, <1>8, StepForms

LEMMA RowsInAll ==
  ASSUME TypeOK
  PROVE  /\ AllRows = RowsOf(attempts) \o rows /\ AllRows \in Seq(Rows)
         /\ RowsOf(attempts) \in Seq(Rows) /\ rows \in Seq(Rows)
         /\ CallsOf(AllRows) \in Nat
         /\ \A s \in Stages : RetriesOf(AllRows, s) \in Nat
<1>1. rows \in Seq(Rows) /\ RowsOf(attempts) \in Seq(Rows)
  BY RowsOfType DEF TypeOK
<1>2. AllRows = RowsOf(attempts) \o rows
  BY DEF AllRows
<1>3. AllRows \in Seq(Rows)
  BY <1>1, <1>2
<1> QED
  BY <1>1, <1>2, <1>3, CallsOfType, RetriesOfType

LEMMA SettledType ==
  ASSUME NEW stage
  PROVE  Settled(stage) \in {0, 1} /\ Settled(stage)' \in {0, 1}
BY DEF Settled

LEMMA LastOrBefore ==
  \A n \in Nat : \A i \in 1..(n + 1) : i \in 1..n \/ i = n + 1
OBVIOUS

(* The two parts of CallsAreAccountedFor: requests and retries.            *)
RequestsAddUp ==
  /\ \A i \in DOMAIN AllRows : AllRows[i].calls \in 2..MaxCallsPerCase
  /\ terminal # "input_integrity_failure" =>
       /\ CallsOf(AllRows) + (IF InFlight THEN Total - before.total ELSE 0) = Total
       /\ \A s \in Stages : calls[s] - retries[s] = Len(AllRows) + Settled(s)

RetriesAddUp ==
  terminal # "input_integrity_failure" =>
    \A s \in Stages :
      RetriesOf(AllRows, s)
        + (IF InFlight THEN retries[s] - before.retries[s] ELSE 0) = retries[s]

LEMMA TwoParts == CallsAreAccountedFor <=> RequestsAddUp /\ RetriesAddUp
BY DEF CallsAreAccountedFor, RequestsAddUp, RetriesAddUp

LEMMA AccountsStep ==
  ASSUME TypeOK, NothingIsLeftOver, CallsOfTheCase, RequestsAddUp, [Next]_vars
  PROVE  RequestsAddUp'
<1> DEFINE Bounded(r) == \A i \in DOMAIN r : r[i].calls \in 2..MaxCallsPerCase
           d(s) == calls[s] - retries[s]
<1>0. /\ Total \in Nat /\ before.total \in Nat /\ before.total <= Total
      /\ RowsOf(attempts) \in Seq(Rows) /\ rows \in Seq(Rows)
      /\ AllRows = RowsOf(attempts) \o rows /\ AllRows \in Seq(Rows)
      /\ Bounded(AllRows) /\ CallsOf(AllRows) \in Nat /\ Len(AllRows) \in Nat
  BY HeldType, RowsInAll DEF TypeOK, RequestsAddUp
<1>a. terminal = None =>
        /\ CallsOf(AllRows) + (IF InFlight THEN Total - before.total ELSE 0) = Total
        /\ \A s \in Stages : d(s) = Len(AllRows) + Settled(s)
  BY DEF RequestsAddUp, None
<1>b. \A s \in Stages : calls[s] \in Nat /\ retries[s] \in Nat
  BY DEF TypeOK
(* A step that leaves every row where it is.                               *)
<1>1. ASSUME UNCHANGED <<attempts, rows>>
      PROVE  AllRows' = AllRows
  BY <1>1 DEF AllRows
<1>2. CASE Waits
  <2>1. /\ Total' = Total /\ before'.total = before.total /\ AllRows' = AllRows
        /\ calls' = calls /\ retries' = retries /\ terminal' = terminal
    BY <1>1, <1>2 DEF Waits, Books, Total
  <2>2. InFlight' = InFlight /\ \A s \in Stages : Settled(s)' = Settled(s)
    BY <1>2 DEF Waits, InFlight, Settled
  <2> QED
    BY <2>1, <2>2 DEF RequestsAddUp, MaxCallsPerCase
<1>3. CASE Begins
  <2>1. /\ Total' = Total /\ before'.total = Total /\ AllRows' = AllRows
        /\ calls' = calls /\ retries' = retries /\ terminal' = terminal
    BY <1>1, <1>3, SnapshotType DEF Begins, Books, Total
  <2>2. phase = "case" /\ phase' = "ai_triage"
    BY <1>3 DEF Begins
  <2>3. terminal = None /\ ~InFlight /\ InFlight'
    BY <2>2 DEF NothingIsLeftOver, InFlight
  <2>4. \A s \in Stages : Settled(s) = 0 /\ Settled(s)' = 0
    BY <2>2 DEF Settled
  <2>5. CallsOf(AllRows) = Total
    BY <1>0, <1>a, <2>3
  <2> QED
    BY <1>0, <1>a, <2>1, <2>3, <2>4, <2>5 DEF RequestsAddUp, MaxCallsPerCase
<1>4. ASSUME NEW stage \in Stages, Request(stage),
             phase' \in {"ai_triage", "synthesize", "act"},
             \A s \in Stages :
               calls'[s] - retries'[s] = d(s) + (Settled(s)' - Settled(s))
      PROVE  RequestsAddUp'
  <2>1. /\ Total' = Total + 1 /\ before'.total = before.total /\ AllRows' = AllRows
        /\ terminal' = terminal
    BY <1>1, <1>4, RequestPays DEF Request
  <2>2. phase \in {"ai_triage", "synthesize"}
    BY <1>4 DEF Request, Stages
  <2>3. terminal = None /\ InFlight /\ InFlight'
    BY <1>4, <2>2 DEF NothingIsLeftOver, InFlight
  <2>4. CallsOf(AllRows) + (Total - before.total) = Total
    BY <1>a, <2>3
  <2>5. \A s \in Stages : calls'[s] - retries'[s] = Len(AllRows) + Settled(s)'
    <3> SUFFICES ASSUME NEW s \in Stages
                 PROVE  calls'[s] - retries'[s] = Len(AllRows) + Settled(s)'
      OBVIOUS
    <3>1. d(s) = Len(AllRows) + Settled(s) /\ d(s) \in Int
      BY <1>a, <1>b, <2>3
    <3>2. calls'[s] - retries'[s] = d(s) + (Settled(s)' - Settled(s))
          /\ Settled(s) \in Int /\ Settled(s)' \in Int
      BY <1>4, SettledType
    <3>3. \A x, p, q, l \in Int : x = l + p => x + (q - p) = l + q
      OBVIOUS
    <3>4. d(s) + (Settled(s)' - Settled(s)) = Len(AllRows) + Settled(s)'
      BY <1>0, <3>1, <3>2, <3>3
    <3> QED
      BY <3>2, <3>4
  <2>6. CallsOf(AllRows) + (Total' - before'.total) = Total'
    <3>1. \A c, b, t \in Nat : c + (t - b) = t => c + ((t + 1) - b) = t + 1
      OBVIOUS
    <3>2. CallsOf(AllRows) + ((Total + 1) - before.total) = Total + 1
      BY <1>0, <2>4, <3>1
    <3> QED
      BY <2>1, <3>2
  <2> QED
    BY <1>0, <2>1, <2>3, <2>5, <2>6 DEF RequestsAddUp, MaxCallsPerCase
<1>5. ASSUME NEW stage \in Stages, Retry(stage)
      PROVE  RequestsAddUp'
  <2>1. Request(stage) /\ phase' = phase /\ phase = stage
    BY <1>5 DEF Retry, Request
  <2>2. /\ calls' = [calls EXCEPT ![stage] = @ + 1]
        /\ retries' = [retries EXCEPT ![stage] = @ + 1]
        /\ calls \in [Stages -> Nat] /\ retries \in [Stages -> Nat]
    BY <1>5 DEF Retry, Request, TypeOK
  <2>3. \A s \in Stages : Settled(s)' = Settled(s) /\ calls'[s] - retries'[s] = d(s)
    BY <1>b, <2>1, <2>2 DEF Settled
  <2>4. \A s \in Stages : calls'[s] - retries'[s] = d(s) + (Settled(s)' - Settled(s))
    BY <1>b, <2>3 DEF Settled
  <2> QED
    BY <1>4, <2>1, <2>4 DEF Stages
<1>6. ASSUME NEW stage \in Stages, NEW F, Settle(stage, F)
      PROVE  RequestsAddUp'
  <2>1. /\ Request(stage) /\ phase = stage
        /\ phase' = IF stage = "ai_triage" THEN "synthesize" ELSE "act"
    BY <1>6 DEF Settle, Request
  <2>2. /\ calls' = [calls EXCEPT ![stage] = @ + 1] /\ retries' = retries
        /\ calls \in [Stages -> Nat] /\ retries \in [Stages -> Nat]
    BY <1>6 DEF Settle, Request, TypeOK
  <2>3. \A s \in Stages : calls'[s] - retries'[s] = d(s) + (Settled(s)' - Settled(s))
    <3>1. CASE stage = "ai_triage"
      BY <1>b, <2>1, <2>2, <3>1 DEF Settled, Stages
    <3>2. CASE stage = "synthesize"
      BY <1>b, <2>1, <2>2, <3>2 DEF Settled, Stages
    <3> QED
      BY <3>1, <3>2 DEF Stages
  <2> QED
    BY <1>4, <2>1, <2>3
(* A row more: of a clean case, or the last of an attempt.                 *)
<1>7. ASSUME phase = "act", phase' \in {"case", "done"},
             UNCHANGED <<calls, retries>>,
             AllRows' = Append(AllRows, RowOfCase)
      PROVE  RequestsAddUp'
  <2>1. terminal = None /\ InFlight /\ ~InFlight'
    BY <1>7 DEF NothingIsLeftOver, InFlight
  <2>2. Total' = Total
    BY <1>7 DEF Total
  <2>3. RowOfCase \in Rows /\ RowOfCase.calls = Total - before.total
    BY <2>1, RowType
  <2>4. RowOfCase.calls \in 2..MaxCallsPerCase
    BY <1>7, <2>3 DEF CallsOfTheCase
  <2>5. Bounded(AllRows')
    <3>1. \A i \in DOMAIN AllRows' :
            \/ i \in DOMAIN AllRows /\ AllRows'[i] = AllRows[i]
            \/ AllRows'[i] = RowOfCase
      <4>1. /\ DOMAIN AllRows = 1..Len(AllRows)
            /\ DOMAIN AllRows' = 1..(Len(AllRows) + 1)
            /\ AllRows'[Len(AllRows) + 1] = RowOfCase
            /\ \A i \in 1..Len(AllRows) : AllRows'[i] = AllRows[i]
        BY <1>0, <1>7, <2>3, AppendFacts
      <4>2. \A i \in 1..(Len(AllRows) + 1) : i \in 1..Len(AllRows) \/ i = Len(AllRows) + 1
        <5>1. Len(AllRows) \in Nat
          BY <1>0
        <5> QED
          BY <5>1, LastOrBefore
      <4> QED
        BY <4>1, <4>2
    <3> QED
      BY <1>0, <2>4, <3>1
  <2>6. CallsOf(AllRows') = CallsOf(AllRows) + (Total - before.total)
    BY <1>0, <1>7, <2>3, CallsOfSteps
  <2>7. CallsOf(AllRows') = Total'
    BY <1>a, <2>1, <2>2, <2>6
  <2>8. Len(AllRows') = Len(AllRows) + 1 /\ Len(AllRows) \in Nat
    BY <1>0, <1>7, <2>3
  <2>9. \A s \in Stages : calls'[s] - retries'[s] = Len(AllRows') + Settled(s)'
    BY <1>a, <1>7, <2>1, <2>8 DEF Settled
  <2>10. \A s \in Stages : Settled(s)' = 0
    BY <1>7 DEF Settled
  <2> QED
    BY <1>7, <2>1, <2>2, <2>5, <2>7, <2>8, <2>9, HeldType
       DEF RequestsAddUp, MaxCallsPerCase
<1>8. CASE Goes
  <2>1. AllRows' = RowsOf(attempts) \o Append(rows, RowOfCase)
    BY <1>0, <1>8 DEF Goes, AllRows
  <2>2. RowOfCase \in Rows
    BY <1>8, RowType DEF Goes, InFlight
  <2>3. AllRows' = Append(AllRows, RowOfCase)
    BY <1>0, <2>1, <2>2, ConcatAppend
  <2> QED
    BY <1>7, <1>8, <2>1, <2>3 DEF Goes
(* The attempt ends with the rows it has.                                  *)
<1>9. ASSUME NEW cause \in Causes, EndAttempt(cause, rows),
             phase = "case" \/ cause = "input_integrity_failure",
             terminal = None, UNCHANGED <<calls, retries>>
      PROVE  RequestsAddUp'
  <2>1. /\ AllRows' = AllRows
        /\ phase' \in {"case", "done"}
    BY <1>0, <1>9, RowsWhenAttemptEnds, AttemptEnds
  <2>2. ~InFlight' /\ \A s \in Stages : Settled(s)' = 0
    BY <2>1 DEF InFlight, Settled
  <2>3. Total' = Total
    BY <1>9 DEF Total
  <2>4. CASE phase = "case"
    <3>1. ~InFlight /\ \A s \in Stages : Settled(s) = 0
      BY <2>4 DEF InFlight, Settled
    <3>2. CallsOf(AllRows) + 0 = Total
      BY <1>a, <1>9, <3>1
    <3> QED
      BY <1>0, <1>a, <1>9, <2>1, <2>2, <2>3, <3>1, <3>2
         DEF RequestsAddUp, MaxCallsPerCase
  <2>5. CASE cause = "input_integrity_failure"
    <3>1. terminal' = "input_integrity_failure"
      BY <1>9, <2>5, TerminalByCause DEF TypeOK
    <3> QED
      BY <1>0, <2>1, <3>1 DEF RequestsAddUp, MaxCallsPerCase
  <2> QED
    BY <1>9, <2>4, <2>5
<1>10. ASSUME NEW cause \in Causes, EndsBetween(cause)
       PROVE  RequestsAddUp'
  BY <1>9, <1>10 DEF EndsBetween, NothingIsLeftOver
<1>11. ASSUME NEW cause \in Causes, NEW rs \in Seq(Rows), EndsAtCase(cause, rs)
       PROVE  RequestsAddUp'
  <2>1. phase = "act" /\ terminal = None /\ UNCHANGED <<calls, retries>>
        /\ EndAttempt(cause, rs)
    BY <1>11 DEF EndsAtCase, NothingIsLeftOver
  <2>2. CASE rs = rows /\ cause = "input_integrity_failure"
    BY <1>9, <2>1, <2>2
  <2>3. CASE rs = Append(rows, RowOfCase)
    <3>1. /\ AllRows' = RowsOf(attempts) \o Append(rows, RowOfCase)
          /\ phase' \in {"case", "done"}
      BY <1>0, <2>1, <2>3, RowsWhenAttemptEnds, AttemptEnds
    <3>2. AllRows' = Append(AllRows, RowOfCase)
      BY <1>0, <2>1, <3>1, RowType, ConcatAppend DEF InFlight
    <3> QED
      BY <1>7, <2>1, <3>1, <3>2
  <2> QED
    BY <1>11, <2>2, <2>3 DEF EndsAtCase
<1> QED
  BY <1>2, <1>3, <1>5, <1>6, <1>8, <1>10, <1>11, StepForms

(* Stage by stage, a retry is of the case under way until its row has it.  *)
LEMMA RetriesStep ==
  ASSUME TypeOK, NothingIsLeftOver, RetriesAddUp, [Next]_vars
  PROVE  RetriesAddUp'
<1>0. /\ RowsOf(attempts) \in Seq(Rows) /\ rows \in Seq(Rows)
      /\ AllRows = RowsOf(attempts) \o rows /\ AllRows \in Seq(Rows)
      /\ \A s \in Stages : RetriesOf(AllRows, s) \in Nat
  BY RowsInAll
<1>a. \A s \in Stages : /\ retries[s] \in Nat /\ before.retries[s] \in Nat
                        /\ before.retries[s] <= retries[s]
  BY DEF TypeOK
<1>b. \A r, b, n \in Nat : r + (n - b) = n => r + ((n + 1) - b) = n + 1
  OBVIOUS
<1>1. ASSUME UNCHANGED <<attempts, rows>>
      PROVE  AllRows' = AllRows
  BY <1>1 DEF AllRows
<1>2. CASE Waits
  <2>1. /\ AllRows' = AllRows /\ before' = before
        /\ retries' = retries /\ terminal' = terminal
    BY <1>1, <1>2 DEF Waits, Books
  <2>2. InFlight' = InFlight
    BY <1>2 DEF Waits, InFlight
  <2> QED
    BY <2>1, <2>2 DEF RetriesAddUp
<1>3. CASE Begins
  <2>1. /\ AllRows' = AllRows /\ before' = Snapshot
        /\ retries' = retries /\ terminal' = terminal
        /\ phase = "case" /\ phase' = "ai_triage"
    BY <1>1, <1>3 DEF Begins, Books
  <2>2. terminal = None /\ ~InFlight /\ InFlight'
    BY <2>1 DEF NothingIsLeftOver, InFlight
  <2>3. \A s \in Stages : RetriesOf(AllRows, s) + 0 = retries[s]
    BY <2>2 DEF RetriesAddUp, None
  <2>4. \A s \in Stages : before'.retries[s] = retries[s]
    BY <2>1, SnapshotType
  <2>5. \A s \in Stages : RetriesOf(AllRows, s) + (retries[s] - before'.retries[s]) = retries[s]
    BY <1>0, <1>a, <2>3, <2>4
  <2> QED
    BY <2>1, <2>2, <2>5 DEF RetriesAddUp
<1>4. ASSUME NEW stage \in Stages, Request(stage),
             phase' \in {"ai_triage", "synthesize", "act"},
             \A s \in Stages : retries'[s] \in {retries[s], retries[s] + 1}
      PROVE  RetriesAddUp'
  <2>1. /\ before' = before /\ AllRows' = AllRows /\ terminal' = terminal
        /\ phase \in {"ai_triage", "synthesize"}
    BY <1>1, <1>4 DEF Request, Stages
  <2>2. terminal = None /\ InFlight /\ InFlight'
    BY <1>4, <2>1 DEF NothingIsLeftOver, InFlight
  <2>3. \A s \in Stages : RetriesOf(AllRows, s) + (retries[s] - before.retries[s]) = retries[s]
    BY <2>2 DEF RetriesAddUp, None
  <2>4. \A s \in Stages :
          RetriesOf(AllRows, s) + (retries'[s] - before.retries[s]) = retries'[s]
    <3> SUFFICES ASSUME NEW s \in Stages
                 PROVE  RetriesOf(AllRows, s) + (retries'[s] - before.retries[s]) = retries'[s]
      OBVIOUS
    <3>1. CASE retries'[s] = retries[s]
      BY <2>3, <3>1
    <3>2. CASE retries'[s] = retries[s] + 1
      <4>1. RetriesOf(AllRows, s) + ((retries[s] + 1) - before.retries[s]) = retries[s] + 1
        BY <1>0, <1>a, <1>b, <2>3
      <4> QED
        BY <3>2, <4>1
    <3> QED
      BY <1>4, <3>1, <3>2
  <2> QED
    BY <2>1, <2>2, <2>4 DEF RetriesAddUp
<1>5. ASSUME NEW stage \in Stages, Retry(stage)
      PROVE  RetriesAddUp'
  <2>1. Request(stage) /\ phase' = phase /\ phase = stage
    BY <1>5 DEF Retry, Request
  <2>2. /\ retries' = [retries EXCEPT ![stage] = @ + 1]
        /\ retries \in [Stages -> Nat]
    BY <1>5 DEF Retry, TypeOK
  <2>3. \A s \in Stages : retries'[s] \in {retries[s], retries[s] + 1}
    BY <2>2
  <2>4. phase' \in {"ai_triage", "synthesize", "act"}
    BY <2>1 DEF Stages
  <2> QED
    BY <1>4, <2>1, <2>3, <2>4
<1>6. ASSUME NEW stage \in Stages, NEW F, Settle(stage, F)
      PROVE  RetriesAddUp'
  <2>1. /\ Request(stage) /\ retries' = retries
        /\ phase' \in {"ai_triage", "synthesize", "act"}
    BY <1>6 DEF Settle, Request
  <2> QED
    BY <1>4, <2>1
(* A row more, with the retries of its case.                               *)
<1>7. ASSUME phase = "act", phase' \in {"case", "done"}, retries' = retries,
             AllRows' = Append(AllRows, RowOfCase)
      PROVE  RetriesAddUp'
  <2>1. terminal = None /\ InFlight /\ ~InFlight'
    BY <1>7 DEF NothingIsLeftOver, InFlight
  <2>2. /\ RowOfCase \in Rows
        /\ \A s \in Stages : RowOfCase.retries[s] = retries[s] - before.retries[s]
    BY <2>1, RowType
  <2>3. \A s \in Stages :
          RetriesOf(AllRows', s) = RetriesOf(AllRows, s) + (retries[s] - before.retries[s])
    BY <1>0, <1>7, <2>2, RetriesOfSteps
  <2>4. \A s \in Stages : RetriesOf(AllRows, s) + (retries[s] - before.retries[s]) = retries[s]
    BY <2>1 DEF RetriesAddUp, None
  <2>5. \A s \in Stages : RetriesOf(AllRows', s) + 0 = retries[s]
    BY <1>a, <2>3, <2>4
  <2> QED
    BY <1>7, <2>1, <2>5 DEF RetriesAddUp
<1>8. CASE Goes
  <2>1. /\ AllRows' = RowsOf(attempts) \o Append(rows, RowOfCase)
        /\ phase = "act" /\ phase' = "case" /\ retries' = retries
    BY <1>0, <1>8 DEF Goes, AllRows
  <2>2. AllRows' = Append(AllRows, RowOfCase)
    BY <1>0, <2>1, RowType, ConcatAppend DEF InFlight
  <2> QED
    BY <1>7, <2>1, <2>2
(* The attempt ends with the rows it has.                                  *)
<1>9. ASSUME NEW cause \in Causes, EndAttempt(cause, rows),
             phase = "case" \/ cause = "input_integrity_failure",
             terminal = None, retries' = retries
      PROVE  RetriesAddUp'
  <2>1. AllRows' = AllRows /\ phase' \in {"case", "done"}
    BY <1>0, <1>9, RowsWhenAttemptEnds, AttemptEnds
  <2>2. CASE phase = "case"
    <3>1. ~InFlight /\ ~InFlight'
      BY <2>1, <2>2 DEF InFlight
    <3>2. \A s \in Stages : RetriesOf(AllRows, s) + 0 = retries[s]
      BY <1>9, <3>1 DEF RetriesAddUp, None
    <3> QED
      BY <1>9, <2>1, <3>1, <3>2 DEF RetriesAddUp
  <2>3. CASE cause = "input_integrity_failure"
    <3>1. terminal' = "input_integrity_failure"
      BY <1>9, <2>3, TerminalByCause DEF TypeOK
    <3> QED
      BY <3>1 DEF RetriesAddUp
  <2> QED
    BY <1>9, <2>2, <2>3
<1>10. ASSUME NEW cause \in Causes, EndsBetween(cause)
       PROVE  RetriesAddUp'
  BY <1>9, <1>10 DEF EndsBetween, NothingIsLeftOver
<1>11. ASSUME NEW cause \in Causes, NEW rs \in Seq(Rows), EndsAtCase(cause, rs)
       PROVE  RetriesAddUp'
  <2>1. phase = "act" /\ terminal = None /\ retries' = retries
        /\ EndAttempt(cause, rs)
    BY <1>11 DEF EndsAtCase, NothingIsLeftOver
  <2>2. CASE rs = rows /\ cause = "input_integrity_failure"
    BY <1>9, <2>1, <2>2
  <2>3. CASE rs = Append(rows, RowOfCase)
    <3>1. /\ AllRows' = RowsOf(attempts) \o Append(rows, RowOfCase)
          /\ phase' \in {"case", "done"}
      BY <1>0, <2>1, <2>3, RowsWhenAttemptEnds, AttemptEnds
    <3>2. AllRows' = Append(AllRows, RowOfCase)
      BY <1>0, <2>1, <3>1, RowType, ConcatAppend DEF InFlight
    <3> QED
      BY <1>7, <2>1, <3>1, <3>2
  <2> QED
    BY <1>11, <2>2, <2>3 DEF EndsAtCase
<1> QED
  BY <1>2, <1>3, <1>5, <1>6, <1>8, <1>10, <1>11, StepForms

LEMMA AccountsHold == Spec => [](CallsAreAccountedFor /\ CallsOfTheCase)
<1>1. Init => CallsAreAccountedFor /\ CallsOfTheCase
  <2> SUFFICES ASSUME Init PROVE CallsAreAccountedFor /\ CallsOfTheCase
    OBVIOUS
  <2>1. /\ attempts = << >> /\ rows = << >> /\ ~InFlight /\ Total = 0
        /\ \A s \in Stages : calls[s] = 0 /\ retries[s] = 0 /\ Settled(s) = 0
    BY DEF Init, InFlight, Total, Settled, Stages
  <2>2. RowsOf(attempts) = << >> /\ AllRows = << >> \o << >>
    BY <2>1, RowsOfSteps DEF AllRows
  <2>3. AllRows = << >> /\ CallsOf(AllRows) = 0 /\ Len(AllRows) = 0 /\ DOMAIN AllRows = {}
    BY <2>2, CallsOfSteps
  <2>4. phase = "preflight"
    BY DEF Init
  <2>5. \A s \in Stages : RetriesOf(AllRows, s) = 0
    BY <2>3, RetriesOfSteps
  <2> HIDE DEF Init
  <2>6. RetriesAddUp
    BY <2>1, <2>5 DEF RetriesAddUp
  <2>7. RequestsAddUp /\ CallsOfTheCase
    BY <2>1, <2>3, <2>4 DEF RequestsAddUp, CallsOfTheCase, InFlight
  <2> QED
    BY <2>6, <2>7, TwoParts
<1>2. TypeOK /\ NothingIsLeftOver /\ CallsAreAccountedFor /\ CallsOfTheCase /\ [Next]_vars
      => CallsAreAccountedFor' /\ CallsOfTheCase'
  <2> SUFFICES ASSUME TypeOK, NothingIsLeftOver, CallsAreAccountedFor, CallsOfTheCase,
                      [Next]_vars
               PROVE  CallsAreAccountedFor' /\ CallsOfTheCase'
    OBVIOUS
  <2>1. RequestsAddUp' /\ RetriesAddUp'
    BY AccountsStep, RetriesStep, TwoParts
  <2>2. CallsAreAccountedFor' <=> RequestsAddUp' /\ RetriesAddUp'
    BY DEF CallsAreAccountedFor, RequestsAddUp, RetriesAddUp, MaxCallsPerCase
  <2> QED
    BY <2>1, <2>2, CallsOfTheCaseStep
<1> QED
  BY <1>1, <1>2, TypeCorrect, LeftOverHolds, PTL DEF Spec

(* Every request is on the row of the case that made it, and the rows and  *)
(* the case under way add up to the counter.                               *)
THEOREM CallsAddUp == Spec => []CallsAreAccountedFor
BY AccountsHold, PTL

(***************************************************************************)
(* What is completed without a replacement can be published.               *)
(***************************************************************************)

LEMMA RatesStep ==
  ASSUME TypeOK, RatesAreOfTheRows, [Next]_vars
  PROVE  RatesAreOfTheRows'
<1>1. ASSUME attempts' = attempts
      PROVE  RatesAreOfTheRows'
  BY <1>1 DEF RatesAreOfTheRows
<1>2. ASSUME NEW cause \in Causes, NEW rs \in Seq(Rows), EndAttempt(cause, rs)
      PROVE  RatesAreOfTheRows'
  <2> DEFINE a == AttemptOf(cause, rs)
  <2>1. attempts' = Append(attempts, a) /\ attempts \in Seq(AttemptRecords)
        /\ a \in AttemptRecords
    BY <1>2, AttemptEnds, AttemptRecordType DEF TypeOK
  <2>2. a.type = "valid" => a.rate = RateOf(a.rows)
    BY DEF AttemptOf
  <2> HIDE DEF a
  <2>3. \A i \in DOMAIN attempts' :
          \/ i \in DOMAIN attempts /\ attempts'[i] = attempts[i]
          \/ attempts'[i] = a
    BY <2>1
  <2> QED
    BY <2>2, <2>3 DEF RatesAreOfTheRows
<1>3. ASSUME NEW cause \in Causes, EndsBetween(cause)
      PROVE  RatesAreOfTheRows'
  BY <1>2, <1>3 DEF EndsBetween, TypeOK
<1>4. ASSUME NEW cause \in Causes, NEW rs \in Seq(Rows), EndsAtCase(cause, rs)
      PROVE  RatesAreOfTheRows'
  BY <1>2, <1>4 DEF EndsAtCase
<1>5. CASE Waits \/ Begins \/ Goes
  BY <1>1, <1>5 DEF Waits, Begins, Goes, Books
<1>6. ASSUME NEW stage \in Stages, Retry(stage) \/ \E F : Settle(stage, F)
      PROVE  RatesAreOfTheRows'
  BY <1>1, <1>6 DEF Retry, Settle, Request
<1> QED
  BY <1>3, <1>4, <1>5, <1>6, StepForms

(* SessionInv holds of every reachable state of a session.                 *)
THEOREM SessionInductive == Spec => []SessionInv
<1>1. Init => RatesAreOfTheRows
  BY DEF Init, RatesAreOfTheRows
<1>2. TypeOK /\ RatesAreOfTheRows /\ [Next]_vars => RatesAreOfTheRows'
  BY RatesStep
<1>3. /\ IInv /\ NothingIsLeftOver /\ WorstRowIsLast /\ Tally /\ CallsOfTheCase
      /\ CallsAreAccountedFor /\ RatesAreOfTheRows
      => SessionInv
  BY DEF SessionInv, Tally
<1> QED
  BY <1>1, <1>2, <1>3, TypeCorrect, Inductive, LeftOverHolds, NoRowAfterTheWorst,
     TallyHolds, AccountsHold, PTL DEF Spec

(* When as many attempts are valid as there are, all are.                  *)
LEMMA AllValid ==
  ASSUME TypeOK
  PROVE  /\ Cardinality(ValidAttempts(attempts)) \in Nat
         /\ Cardinality(ContaminatedAttempts(attempts)) \in Nat
         /\ Cardinality(ValidAttempts(attempts)) = Len(attempts)
              => \A i \in DOMAIN attempts : attempts[i].type = "valid"
<1> DEFINE V == ValidAttempts(attempts)
           C == ContaminatedAttempts(attempts)
           n == Len(attempts)
<1>1. n \in Nat /\ DOMAIN attempts = 1..n /\ 1 \in Int /\ n \in Int
  BY DEF TypeOK
<1>2. V \in SUBSET (1..n) /\ C \in SUBSET (1..n)
  BY <1>1 DEF ValidAttempts, ContaminatedAttempts
<1> HIDE DEF C, n
<1>3. IsFiniteSet(1..n) /\ Cardinality(1..n) = IF 1 > n THEN 0 ELSE n - 1 + 1
  BY <1>1, FS_Interval
<1>4. Cardinality(1..n) = n
  BY <1>1, <1>3
<1>5. /\ IsFiniteSet(V) /\ IsFiniteSet(C)
      /\ Cardinality(1..n) = Cardinality(V) => 1..n = V
  <2> HIDE DEF V
  <2> QED BY <1>2, <1>3, FS_Subset
<1>6. Cardinality(V) \in Nat /\ Cardinality(C) \in Nat
  BY <1>5, FS_CardinalityType
<1>7. ASSUME Cardinality(V) = n, NEW i \in DOMAIN attempts
      PROVE  attempts[i].type = "valid"
  <2>1. i \in V
    BY <1>1, <1>4, <1>5, <1>7
  <2> QED
    BY <2>1 DEF ValidAttempts
<1> QED
  BY <1>6, <1>7 DEF V, C, n

(* A valid attempt has a row for each case listed, and over the frozen     *)
(* corpus it passes the checks of the public summary.                      *)
LEMMA ValidIsPublic ==
  ASSUME SessionInv, NEW i \in DOMAIN attempts, attempts[i].type = "valid"
  PROVE  /\ CaseIdsOf(attempts[i]) = Range(pre.cases)
         /\ attempts[i].rate.n = Len(pre.cases)
         /\ Range(pre.cases) = FrozenIds => PublicAttempt(attempts[i])
<1> DEFINE a == attempts[i]
<1>1. attempts \in Seq(AttemptRecords) /\ pre.cases \in Listings
  BY DEF SessionInv, IInv, TypeOK
<1>2. a \in AttemptRecords /\ a.type = "valid"
  BY <1>1
<1>3. RateIsHonest(a) /\ a.rate = RateOf(a.rows)
  BY <1>2 DEF SessionInv, IInv, RateIsOverCleanCorpus, RatesAreOfTheRows
<1> HIDE DEF a
<1>4. a.rows \in Seq(Rows)
  BY <1>2 DEF AttemptRecords
<1>5. \A j \in DOMAIN a.rows : a.rows[j].decision \in Decisions
  <2>1. \A j \in DOMAIN a.rows : a.rows[j] \in Rows
    BY <1>4
  <2>2. \A r \in Rows : r.decision \in Decisions
    BY DEF Rows
  <2> QED
    BY <2>1, <2>2
<1>6. /\ a.rate.n = Len(a.rows)
      /\ a.rate.k = Cardinality({j \in DOMAIN a.rows : a.rows[j].class = "intervention"})
  BY <1>3 DEF RateOf
<1>7. /\ Len(a.rows) = Len(pre.cases)
      /\ \A j \in DOMAIN a.rows : /\ a.rows[j].class \in AllowedClasses
                                 /\ a.rows[j].proposed
                                 /\ a.rows[j].case = pre.cases[j]
  BY <1>2, <1>3 DEF RateIsHonest, AllowedClasses
<1>8. /\ pre.cases \in Seq(Ids)
      /\ \A j, k \in DOMAIN pre.cases : pre.cases[j] = pre.cases[k] => j = k
  BY <1>1, ListingType
<1>9. DOMAIN a.rows = DOMAIN pre.cases
  BY <1>4, <1>7, <1>8
<1>10. CaseIdsOf(a) = Range(pre.cases)
  BY <1>7, <1>9 DEF CaseIdsOf, Range
<1>11. ASSUME Range(pre.cases) = FrozenIds
       PROVE  PublicAttempt(a)
  <2>1. \A j \in DOMAIN a.rows : a.rows[j].case \in FrozenIds
    BY <1>7, <1>9, <1>11 DEF Range
  <2>2. \A j \in DOMAIN a.rows : PublicCase(a.rows[j])
    BY <1>5, <1>7, <2>1 DEF PublicCase
  <2>3. \A j, k \in DOMAIN a.rows : a.rows[j].case = a.rows[k].case => j = k
    BY <1>7, <1>8, <1>9
  <2> QED
    BY <1>2, <1>6, <2>2, <2>3 DEF PublicAttempt
<1> QED
  BY <1>6, <1>7, <1>10, <1>11 DEF a

(* A listing of the frozen ids has as many as the corpus.                  *)
LEMMA FrozenListing ==
  ASSUME NEW ids \in Listings, Range(ids) = FrozenIds
  PROVE  Len(ids) = NCases
<1>1. ids \in Seq(Ids) /\ \A i, j \in DOMAIN ids : ids[i] = ids[j] => i = j
  BY ListingType
<1>2. Len(ids) \in Nat /\ DOMAIN ids = 1..Len(ids) /\ ids = [i \in 1..Len(ids) |-> ids[i]]
  BY <1>1
<1> DEFINE n == Len(ids)
<1> HIDE DEF n
<1>3. ids \in [1..n -> FrozenIds] /\ IsInjective(ids)
        /\ \A c \in FrozenIds : \E i \in 1..n : ids[i] = c
  BY <1>1, <1>2 DEF n, Range, IsInjective
<1>4. ids \in Bijection(1..n, FrozenIds)
  BY <1>3 DEF Bijection, Injection, Surjection
<1>5. n \in Nat /\ ExistsBijection(1..n, FrozenIds)
  BY <1>2, <1>4 DEF ExistsBijection, n
<1>6. Cardinality(FrozenIds) = n
  BY <1>5, FS_CountingElements
<1> QED
  BY <1>6, CountOfFrozen DEF n

(***************************************************************************)
(* The distribution.                                                       *)
(***************************************************************************)

AndValid(e, valid, a) == IF a.type = "valid" THEN Append(valid, a) ELSE valid

Keeping == INSTANCE FoldLemmas WITH Op <- AndValid, Base <- << >>

LEMMA ValidOfFold ==
  ASSUME NEW s
  PROVE  Keeping!Fold(0, s) = ValidOf(s)
BY DEF Keeping!Fold, ValidOf, AndValid, FoldLeft, MapThenFoldSet, Keeping!FoldLeft,
       Keeping!MapThenFoldSet, Max, Keeping!Max

(* Of valid attempts, all are kept.                                        *)
LEMMA ValidOfAll ==
  ASSUME NEW s \in Seq(AttemptRecords), \A i \in DOMAIN s : s[i].type = "valid"
  PROVE  ValidOf(s) = s
<1> DEFINE V == {a \in AttemptRecords : a.type = "valid"}
           R == {p \in Seq(V) \X Seq(V) : p[1] = p[2]}
<1>1. s \in Seq(V)
  <2>1. \A i \in 1..Len(s) : s[i] \in V
    OBVIOUS
  <2> HIDE DEF V
  <2> QED
    BY <2>1
<1>2. \A x \in V : x.type = "valid"
  OBVIOUS
<1> HIDE DEF V
<1>3. <<<< >>, << >>>> \in R
  <2>1. << >> \in Seq(V)
    OBVIOUS
  <2> QED
    BY <2>1
<1>4. ASSUME NEW r \in Seq(V), NEW t, NEW x \in V, <<r, t>> \in R
      PROVE  <<Append(r, x), AndValid(0, t, x)>> \in R
  <2>1. r = t
    BY <1>4
  <2>2. AndValid(0, t, x) = Append(r, x)
    BY <1>2, <2>1 DEF AndValid
  <2>3. Append(r, x) \in Seq(V)
    OBVIOUS
  <2> QED
    BY <2>2, <2>3
<1>5. \A p : p \in R => p[1] = p[2]
  OBVIOUS
<1> HIDE DEF R
<1>6. \A r \in Seq(V) : <<r, Keeping!Fold(0, r)>> \in R
  BY <1>3, <1>4, Keeping!FoldInduction
<1>7. <<s, ValidOf(s)>> \in R
  BY <1>1, <1>6, ValidOfFold
<1> QED
  BY <1>5, <1>7

LEMMA HalfOfOdd ==
  ASSUME NEW n \in Nat, n % 2 = 1
  PROVE  (n + 1) \div 2 = n \div 2 + 1
OBVIOUS

(* Of an odd number of valid attempts the distribution that run_session    *)
(* records is the one the summary makes of them.                           *)
LEMMA DistributionIsOfTheAttempts ==
  ASSUME SessionInv, Range(pre.cases) = FrozenIds, Len(attempts) = TargetValid,
         \A i \in DOMAIN attempts : attempts[i].type = "valid"
  PROVE  DistributionAgrees(Distribution(ValidOf(attempts)), KsOf(attempts))
<1>1. attempts \in Seq(AttemptRecords) /\ pre.cases \in Listings
  BY DEF SessionInv, IInv, TypeOK
<1>2. ValidOf(attempts) = attempts
  BY <1>1, ValidOfAll
<1>3. TargetValid \in Nat \ {0}
  BY PolicyAssumption
<1>4. Len(KsOf(attempts)) = TargetValid
  BY <1>1, <1>3 DEF KsOf
<1>5. 1 \in DOMAIN attempts
  BY <1>1, <1>3
<1>6. attempts[1].rate.n = NCases
  BY <1>1, <1>5, ValidIsPublic, FrozenListing
<1> DEFINE ks == KsOf(attempts)
           D == Distribution(attempts)
<1>7. /\ D.ordered_k = ks /\ D.n = attempts[1].rate.n /\ D.median_k = Median(ks)
      /\ D.min_k = Min(Range(ks)) /\ D.max_k = Max(Range(ks))
  BY DEF Distribution
<1>8. (TargetValid + 1) \div 2 = TargetValid \div 2 + 1
  BY <1>3, OddTarget, HalfOfOdd
<1> DEFINE m == (Len(ks) + 1) \div 2
<1>9. m = Len(ks) \div 2 + 1
  BY <1>4, <1>8
<1>10. Median(ks) = <<Ranked(ks, m), Ranked(ks, m)>>
  BY <1>9 DEF Median
<1> HIDE DEF m, ks, D
<1>11. m \in {(Len(ks) + 1) \div 2, Len(ks) \div 2 + 1}
  BY DEF m
<1>12. DistributionAgrees(D, ks)
  BY <1>6, <1>7, <1>10, <1>11 DEF DistributionAgrees
<1> QED
  BY <1>2, <1>12 DEF D, ks

(* What run_session records of a session passes the checks of the public   *)
(* summary just when it was completed without a replacement, over exactly  *)
(* the frozen cases.                                                       *)
THEOREM PublishableIsClean == Spec => []CompletedIsPublishable
<1>1. SessionInv => CompletedIsPublishable
  <2> SUFFICES ASSUME SessionInv, phase = "done"
               PROVE  BuildPublicSummary <=> /\ terminal = "completed"
                                             /\ replacements = 0
                                             /\ Range(pre.cases) = FrozenIds
    BY DEF CompletedIsPublishable
  <2> DEFINE v == Cardinality(ValidAttempts(attempts))
             c == Cardinality(ContaminatedAttempts(attempts))
             n == Len(attempts)
  <2>1. TypeOK
    BY DEF SessionInv, IInv
  <2>2. v \in Nat /\ c \in Nat /\ n \in Nat
        /\ (v = n => \A i \in DOMAIN attempts : attempts[i].type = "valid")
    BY <2>1, AllValid DEF TypeOK
  <2>3. replacements = c /\ (terminal = "completed" => v + c = n /\ v = TargetValid)
    BY DEF SessionInv, AttemptsAreTallied, TerminalStateIsEarned
  <2>4. rows = << >> /\ ~InFlight
    BY DEF SessionInv, NothingIsLeftOver, InFlight
  <2>5. /\ AllRows = RowsOf(attempts) /\ CallsOf(AllRows) \in Nat
        /\ \A s \in Stages : RetriesOf(AllRows, s) \in Nat
    <3>1. RowsOf(attempts) \o << >> = RowsOf(attempts)
      BY <2>1, RowsInAll, ConcatEmpty
    <3> QED
      BY <2>1, <2>4, <3>1, RowsInAll
  <2>6. attempts # << >> => 1 \in DOMAIN attempts
    BY <2>1 DEF TypeOK
  <2> HIDE DEF v, c, n
  <2>7. ASSUME BuildPublicSummary
        PROVE  terminal = "completed" /\ replacements = 0 /\ Range(pre.cases) = FrozenIds
    <3>1. terminal = "completed" /\ v = n /\ attempts # << >>
      BY <2>7 DEF BuildPublicSummary, v, n
    <3>2. c = 0
      BY <2>2, <2>3, <3>1
    <3>3. attempts[1].type = "valid" /\ 1 \in DOMAIN attempts
      BY <2>2, <2>6, <3>1
    <3>4. CaseIdsOf(attempts[1]) = Range(pre.cases)
      BY <3>3, ValidIsPublic
    <3>5. CaseIdsOf(attempts[1]) \subseteq FrozenIds
          /\ Cardinality(CaseIdsOf(attempts[1])) = NCases
      BY <2>7, <3>3 DEF BuildPublicSummary, PublicAttempt, PublicCase, CaseIdsOf
    <3>6. CaseIdsOf(attempts[1]) = FrozenIds
      BY <3>5, CountOfFrozen, FS_Subset
    <3> QED
      BY <2>3, <3>1, <3>2, <3>4, <3>6
  <2>8. ASSUME terminal = "completed", replacements = 0, Range(pre.cases) = FrozenIds
        PROVE  BuildPublicSummary
    <3>1. v = n /\ n = TargetValid
      BY <2>2, <2>3, <2>8
    <3>2. \A i \in DOMAIN attempts :
            /\ attempts[i].type = "valid"
            /\ PublicAttempt(attempts[i])
            /\ CaseIdsOf(attempts[i]) = FrozenIds
      BY <2>2, <2>8, <3>1, ValidIsPublic
    <3>3. attempts # << >>
      BY <3>1, PolicyAssumption DEF n
    <3>4. CallsOf(AllRows) + 0 = Total
          /\ \A s \in Stages : RetriesOf(AllRows, s) + 0 = retries[s]
      BY <2>4, <2>8 DEF SessionInv, CallsAreAccountedFor
    <3>5. CallsOf(AllRows) = Total /\ \A s \in Stages : RetriesOf(AllRows, s) = retries[s]
      BY <2>5, <3>4
    <3>6. DistributionAgrees(Distribution(ValidOf(attempts)), KsOf(attempts))
      BY <2>8, <3>1, <3>2, DistributionIsOfTheAttempts DEF n
    <3>7. /\ RecordedPreflight.frozen_contract_verified
          /\ RecordedPreflight.cases_verified = NCases
      BY <2>1, <2>8, FrozenListing DEF RecordedPreflight, TypeOK
    <3>8. /\ \A i \in DOMAIN attempts : CaseIdsOf(attempts[i]) = CaseIdsOf(attempts[1])
          /\ Cardinality(CaseIdsOf(attempts[1])) = NCases
      BY <2>6, <3>2, <3>3, CountOfFrozen
    <3>9. Cardinality(ValidAttempts(attempts)) = Len(attempts)
      BY <3>1 DEF v, n
    <3> QED
      BY <2>5, <2>8, <3>2, <3>3, <3>5, <3>6, <3>7, <3>8, <3>9 DEF BuildPublicSummary
  <2> QED
    BY <2>7, <2>8
<1> QED
  BY <1>1, SessionInductive, PTL

=============================================================================
