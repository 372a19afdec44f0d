--------------------------- MODULE HoldoutReport ---------------------------
(***************************************************************************)
(* The holdout report (eval/holdout_report.py) beside the freeze it relies *)
(* on: one reporter verifies the fixtures against the frozen manifest,     *)
(* loads the promoted rules, screens every case under them and once more   *)
(* under none, and writes what build_scientific_report makes of the two    *)
(* passes. Every step reads the fixtures from disk again, while the people *)
(* of CorpusFreeze go on editing them and promoting rules.                 *)
(*                                                                         *)
(* A version of a fixture stands for its dossier and its truth together,   *)
(* so a record of a screening is a function of the version read and the    *)
(* rules in force; the report keeps the versions.                          *)
(***************************************************************************)
EXTENDS CorpusFreeze, CheckOutcomes

CONSTANTS
  Facts,      \* version of a fixture -> its label, and what the checks report
  Effect,     \* version, rules -> what check_learned_rules makes of it
  MaxReports  \* bound on invocations of the reporter

(* check_learned_rules, of the rules in force.                             *)
RuleFindings(v, rs) ==
  {CheckFinding("check_learned_rules", "F1", None) : r \in {s \in rs : Effect[<<v, s>>] = "fires"}}
  \cup
  {[ check |-> "check_learned_rules", code |-> "T1", severity |-> "unexplainable",
     origin |-> "system", kind |-> "rule_runtime_error", about |-> None ] :
     r \in {s \in rs : Effect[<<v, s>>] = "raises"}}

(* run_agent with the policy-mirroring stub, which raises no concern and   *)
(* proposes what the policy will decide.                                   *)
FindingsOf(v, rs) ==
  {CheckFinding("document_checks", c, None) : c \in Facts[v].found} \cup RuleFindings(v, rs)

(* _record_from_case; a rule set of {} is the pass without rules.          *)
RecordFromCase(v, rs) ==
  LET findings == FindingsOf(v, rs)
      domain   == {f \in findings : f.origin # "system"}
      decision == DecisionForSeverities(SeveritiesOf(findings))
      codes    == {f.code : f \in domain}
  IN  [ expected   |-> Facts[v].expected,
        decision   |-> decision,
        decisionOk |-> decision = Facts[v].expected,
        findingOk  |-> codes = Facts[v].injected,
        fired      |-> "F1" \in codes,
        failed     |-> findings # domain,
        induced    |-> /\ findings # domain
                       /\ DecisionRank(DecisionForSeverities(SeveritiesOf(domain)))
                            < DecisionRank(decision) ]

ASSUME HoldoutConstants ==
  /\ Facts \in [CaseVersions -> [ expected : Decisions, injected : SUBSET STRING,
                                  found : SUBSET STRING ]]
  /\ Effect \in [CaseVersions \X RuleVersions -> {"silent", "fires", "raises"}]
  /\ MaxReports \in Nat

(* The gate of freeze_holdout is decision_match and finding_match.         *)
ASSUME GateIsTheTruth ==
  \A v \in CaseVersions, r \in RuleVersions :
    <<v, r>> \in Admissible =>
      RecordFromCase(v, {r}).decisionOk /\ RecordFromCase(v, {r}).findingOk

VARIABLES
  reporter,  \* where the reporter stands and what it has read
  artifact,  \* holdout_report.json and holdout_report.md
  reports    \* invocations so far

reportVars == <<reporter, artifact, reports>>

(* checked, with and without are the versions read by verification and by  *)
(* the two passes; touched is history: the cases edited on disk between    *)
(* the read that verified them and the last that screened them.            *)
Idle == [ step |-> "idle", manifest |-> EmptyDraft, checked |-> <<>>, rules |-> {},
          with |-> <<>>, without |-> <<>>, touched |-> {}, written |-> 0, whole |-> TRUE ]

TornReport == [Idle EXCEPT !.whole = FALSE]

Files == <<"json", "md">>

ReportInit ==
  /\ Init
  /\ reporter = Idle
  /\ artifact = [f \in {"json", "md"} |-> NoFile]
  /\ reports = 0

-----------------------------------------------------------------------------
(* verify_holdout_matches_manifest.                                        *)

Invocation ==
  /\ tool = "freeze_holdout"
  /\ reporter.step = "idle" /\ reports < MaxReports
  /\ reports' = reports + 1

Pinned == final["manifest"] # NoFile /\ final["manifest"].whole

LoadManifest ==
  /\ Invocation /\ Pinned
  /\ reporter' = [Idle EXCEPT !.step = "verifying", !.manifest = final["manifest"]]
  /\ UNCHANGED <<vars, artifact>>

(* FileNotFoundError, or a manifest that does not parse.                   *)
NothingPinned ==
  /\ Invocation /\ ~Pinned
  /\ UNCHANGED <<vars, reporter, artifact>>

(* holdout_payloads.                                                       *)
VerifyCase ==
  LET i == Len(reporter.checked) + 1 IN
  /\ reporter.step = "verifying" /\ i \in Cases
  /\ reporter' = [reporter EXCEPT !.checked = Append(@, corpus[i])]
  /\ UNCHANGED <<vars, artifact, reports>>

(* Wrong: the pin is left to the tests (tests/test_holdout_immutability).  *)
BugNotVerified == TRUE

MatchesManifest == reporter.checked = reporter.manifest.hashed

(* The corpus hash agrees; load_promoted_rules.                            *)
Verified ==
  /\ reporter.step = "verifying" /\ Len(reporter.checked) = NCases
  /\ MatchesManifest
  /\ reporter' = [reporter EXCEPT !.step = "screening", !.rules = {rules}]
  /\ UNCHANGED <<vars, artifact, reports>>

(* HoldoutIntegrityError: no report is written, an earlier one stays.      *)
RefuseDrift ==
  /\ reporter.step = "verifying" /\ Len(reporter.checked) = NCases
  /\ ~MatchesManifest
  /\ reporter' = Idle
  /\ UNCHANGED <<vars, artifact, reports>>

-----------------------------------------------------------------------------
(* build_holdout_report: collect_holdout_records, with the rules and then  *)
(* without, each case loaded as it is screened.                            *)

ScreenWith ==
  LET i == Len(reporter.with) + 1 IN
  /\ reporter.step = "screening" /\ i \in Cases
  /\ reporter' = [reporter EXCEPT !.with = Append(@, corpus[i])]
  /\ UNCHANGED <<vars, artifact, reports>>

ScreenWithout ==
  LET i == Len(reporter.without) + 1 IN
  /\ reporter.step = "screening" /\ Len(reporter.with) = NCases /\ i \in Cases
  /\ reporter' = [reporter EXCEPT !.without = Append(@, corpus[i]),
                                  !.step = IF i = NCases THEN "publishing" ELSE @]
  /\ UNCHANGED <<vars, artifact, reports>>

(* main: write_text truncates the file and then fills it, the JSON first.  *)
Truncate ==
  /\ reporter.step = "publishing"
  /\ artifact' = [artifact EXCEPT ![Files[reporter.written + 1]] = TornReport]
  /\ reporter' = [reporter EXCEPT !.step = "truncated"]
  /\ UNCHANGED <<vars, reports>>

WriteText ==
  /\ reporter.step = "truncated"
  /\ artifact' = [artifact EXCEPT ![Files[reporter.written + 1]] = reporter]
  /\ reporter' = IF reporter.written + 1 = Len(Files) THEN Idle
                 ELSE [reporter EXCEPT !.step = "publishing", !.written = @ + 1]
  /\ UNCHANGED <<vars, reports>>

(* A fixture or a rule store that does not load, an OSError, the process   *)
(* killed: nothing cleans up.                                              *)
ReporterFails ==
  /\ reporter.step # "idle"
  /\ reporter' = Idle
  /\ UNCHANGED <<vars, artifact, reports>>

Report ==
  \/ LoadManifest \/ NothingPinned \/ VerifyCase \/ Verified \/ RefuseDrift
  \/ ScreenWith \/ ScreenWithout \/ Truncate \/ WriteText \/ ReporterFails

(* What a step of anybody else does to the history of the reporter.        *)
BetweenReads(i) == i \in 1..Len(reporter.checked) /\ i \notin 1..Len(reporter.without)

Notice ==
  /\ reporter' = [reporter EXCEPT !.touched =
                    @ \cup {i \in Cases : BetweenReads(i) /\ corpus'[i] # corpus[i]}]
  /\ UNCHANGED <<artifact, reports>>

ReportNext == Report \/ (Next /\ Notice)

ReportSpec == ReportInit /\ [][ReportNext]_<<vars, reportVars>>

-----------------------------------------------------------------------------
(* build_scientific_report on the two passes of a report d.                *)

WithRules(d, i)    == RecordFromCase(d.with[i], d.rules)
WithoutRules(d, i) == RecordFromCase(d.without[i], {})

Correct(d)          == {i \in Cases : WithRules(d, i).decisionOk}
CorrectWithout(d)   == {i \in Cases : WithoutRules(d, i).decisionOk}
FindingsCorrect(d)  == {i \in Cases : WithRules(d, i).findingOk}

(* build_learned_rule_marginal.                                            *)
NewlyIncorrect(d)   == CorrectWithout(d) \ Correct(d)

(* rule_applicability_count: the cases with an F1.                         *)
Applicability(d)    == {i \in Cases : WithRules(d, i).fired}

(* build_final_guardrail_safety.                                           *)
FalseApprovals(d) ==
  {i \in Cases : WithRules(d, i).expected # "approve" /\ WithRules(d, i).decision = "approve"}

(* build_operational_reliability.                                          *)
Failures(d) == {i \in Cases : WithRules(d, i).failed}
Induced(d)  == {i \in Failures(d) : WithRules(d, i).induced}

Published == {artifact[f] : f \in {"json", "md"}} \ {NoFile, TornReport}

(* The corpus hash in a report describes what was screened: each case's    *)
(* two records are of the version the manifest pins, unless its fixture    *)
(* was edited after the read that verified it (holdout_report.py,          *)
(* "re-verifies at the moment of publication").                            *)
ReportDescribesItsPin ==
  \A d \in Published : \A i \in Cases \ d.touched :
    d.with[i] = d.manifest.hashed[i] /\ d.without[i] = d.manifest.hashed[i]

(* The gate of the freeze carries over to the report: under the rules the  *)
(* corpus was frozen under, a report on undisturbed fixtures shows every   *)
(* case correct, no false approval and nothing made worse by a rule ("This *)
(* must be 0", scientific_report.py), however often fixtures and rules     *)
(* changed and changed back in between.                                    *)
FrozenRulesPublishClean ==
  \A d \in Published :
    d.touched = {} /\ d.manifest.hashed = d.manifest.seen
      /\ d.rules = d.manifest.screenedUnder =>
        /\ Correct(d) = Cases /\ FindingsCorrect(d) = Cases
        /\ FalseApprovals(d) = {} /\ NewlyIncorrect(d) = {}

(* The paired difference is due to the rules: a case that two passes over  *)
(* undisturbed fixtures decide differently had a rule fire or raise on it, *)
(* and an escalation attributed to a failure alone is one the pass without *)
(* rules does not show. rule_applicability_count sees the fired ones only. *)
DeltaIsExposure ==
  \A d \in Published : \A i \in Cases \ d.touched :
    /\ WithRules(d, i).decision # WithoutRules(d, i).decision =>
         i \in Applicability(d) \cup Failures(d)
    /\ i \in Induced(d) \ Applicability(d) => WithoutRules(d, i).decision # "escalate"

=============================================================================
