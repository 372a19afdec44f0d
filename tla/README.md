# Formal models of the KYC governance harness

TLA+ models of the harness under `src/harness`, checked with TLC and, where it says so, proved
with TLAPS. Every definition is translated from the source; `PROJECT.json` maps each one to the
lines it models and lists the runs, the hazards, the findings and the theorems. Paths below are
relative to `src/harness` unless they say otherwise.

A definition whose name starts with `Bug` is a deliberately wrong variant of the definition that
follows it, the way the code could plausibly be wrong. No specification uses one: put in place of
its neighbour it makes the property it is listed with (`mutants` in `PROJECT.json`) fail, which
shows that the property would notice.

## 1. The system: inventory

The harness screens corporate dossiers (a registry extract, a signature circular, a declaration of
beneficial owners) with deterministic checks and a language model that may advise and never decide,
and it measures that arrangement on frozen corpora.

| Part | Code | State it keeps | Operations |
|---|---|---|---|
| Screening graph | `agent/graph.py`, `state.py`, `runner.py`, `learned_rules.py` | findings, trajectory, skipped checks, check results, proposal, decision | twelve nodes in a fixed order |
| Guardrail policy | `agent/guardrail.py`, `triage.py`, `contracts/findings.py` | none | severities to decision, reconciliation with the proposal, clamp of advised severities |
| Document checks | `agent/checks.py`, `normalize/` | none | five checks over the documents |
| Live session | `eval/redteam_live.py`, `llm/errors.py`, `eval/stats.py` | attempts, rows, call counter, disk read again and again | preflight, attempt, retry, classify, terminate |
| Public summary | `eval/redteam_public_summary.py` | none | recount and refuse, then publish |
| Learned rules | `rules/*` | the file of promoted rules | propose, gate, approve, append |
| Case store, API | `store/case_store.py`, `api/app.py` | one SQLite connection of all threads | insert and commit |
| Artifact publication | `publish` in `eval/redteam_record.py`, `publish_session` in `redteam_live.py`, `publish` in `redteam_public_summary.py` | directories and files | claim, write, clean up |
| Corpus freeze | `data/freeze_redteam.py`, `data/freeze_holdout.py`, their loaders, `validate_frozen_contract` | pin files, temporary files | hash, observe, gate, write, compare |
| Holdout report | `eval/holdout_report.py`, `eval/scientific_report.py` | two files; what it has read of the corpus | verify, screen twice, aggregate, write |
| Generator, compound cases, seeds | `generate/`, `eval/compound.py`, `data/loader.py`, `data/seed/` | none | dossiers with the truth filed for each |
| Metrics and batch evaluation | `eval/metrics.py`, `eval/run.py` | none | a run scored against a truth |
| Model clients | `llm/*` | none | one structured call, failing in three kinds |
| Triage measurements | `agent/triage_*.py`, `anomaly_corpus.py`, `coverage.py` | none | loops and counts |

How they interact. `run_agent` loads the promoted rules, threads one state through the graph and
calls the client twice (triage, synthesis); the act node calls the case store. The API calls
`run_agent` from a pool of threads with one store. The live session validates the frozen manifest,
then calls the graph for every case, through a client that retries and counts. What it ends with is
published as an artifact; the public summary reads the artifact back. The freeze tools screen
fixtures with the offline client under the promoted rules and pin both; the session and the
admission record compare the live corpus and rules with those pins. The holdout report compares the live
fixtures with the manifest, and then screens them. The batch evaluations label dossiers (generator,
compound matrix, seeds), screen them with a stand-in for the model and score the result.

What is hard in it, by part:

* the graph: a failure of either model call or of one rule among several, after or before everything
  else succeeded; what was skipped must not count as clean; the audit trail must be what happened;
* the checks: greedy matching of names by a relation that is not transitive; agreement of three
  documents established by comparisons of two; arithmetic with tolerances and NaN;
* the session: a ceiling that must hold while every call may retry, five ways to end, one contaminated
  case in an attempt, rules and files that change on disk while it runs;
* the rules: read, append and rewrite of a file by processes that do not lock it, and crashes in it;
* the case store: `commit` of one thread commits what another inserted;
* publication: two publishers with the same name of a second, cleanups that fail, crashes, removal of
  a parent that others are about to use;
* the freeze: two files that must be complete together, inputs read twice, a temporary name shared;
* the report: fixtures read three times over, rules that are not those of the freeze;
* the labels: a change of one respect must leave five checks silent about all others, on every edge of
  every range; operational failures must count neither as findings nor as deserved escalations.

What makes each part correct is the list of its properties in section 4.

## 2. Modules

| Module | Models | Uses |
|---|---|---|
| `GuardrailPolicy` | the policy, as operators | |
| `CheckOutcomes` | which checks can run, and what each may report | `GuardrailPolicy` |
| `ScreeningGraph` | one run of the graph, an action per node and way to end it | `CheckOutcomes` |
| `FailClosedScreening` | abstract: caution only grows, one decision, one effect, and none returned that is not one | |
| `DossierChecks` | the five check functions on contents | `CheckOutcomes` |
| `LiveSession` | a session, from preflight to terminal state | `GuardrailPolicy` |
| `CallBudget` | abstract: reserve the worst case, pay out of it | |
| `PublicSummary` | what the summary demands of a session's artifact | `LiveSession` |
| `RuleTemplates` | bounds, evaluation and gate of a rule, as operators | |
| `RulePromotion` | proposal to permanent rule, by several processes | `RuleTemplates` |
| `PromotionHistory` | the same, noting whether two promotions ever were between load and write at once | `RulePromotion` |
| `CaseStore` | concurrent writes over one connection | |
| `ArtifactPublication` | claim, write, clean up, by several processes | |
| `AppendOnlyShelf` | abstract: complete records only grow | |
| `CorpusFreeze` | both freeze tools, the disk, and the contract check | |
| `HoldoutReport` | the holdout report beside the freezes and edits | `CorpusFreeze`, `CheckOutcomes` |
| `SyntheticCases` | the generator of labelled dossiers, as operators | `DossierChecks` |
| `HandAuthoredCases` | compound matrix, seeds, and the passes of each corpus | `SyntheticCases` |
| `LabelledScreening` | labelled dossiers through the checks, one screening scored | `HandAuthoredCases` |

`MC*` modules give constants their values, and `MCCorpusFreeze` adds history variables: whether two
freezes ran at once and whether an input was edited between its two reads. `*_proofs` modules hold the
theorems; `FoldLemmas` those about a fold over a sequence, for any operator and base, which the others
instantiate.

State and actions against the code:

* **ScreeningGraph.** `findings`, `trajectory`, `skipped`, `checkResults`, `proposal` are the fields of
  `AgentState`; `pc` is the edge the graph is on; `record` is the row of the case store. One action per
  node, the model's nodes in the ways their call can go (`TriageAnswers`, `TriageFails`, ...). What a
  deterministic check reports is a choice among `Outcomes`; `OutcomesCovered` shows in `DossierChecks`
  that these are all. `Abort` is any exception that is not an `LLMError`.
* **LiveSession.** `phase` is the place in `run_session`; `calls` is the counter by stage; `disk` tells
  whether rules and case files still are what was frozen; a screening run is reduced to its two call
  sites and findings. `Request`, `Retry`, `RequestFails` and the answers are one request each. `LoadRules` lists
  the cases: the frozen ones, or, of a corpus changed since the validation, any `Listings` (`OtherIds` are files the
  loader would take as well). A row is `RowOfCase`, the difference of two snapshots of the counter.
* **PublicSummary.** Operators over the state of a session that is done: `Distribution` and `RecordedPreflight` are what
  `run_session` adds to the artifact, `BuildPublicSummary` the conjunction of the checks in their order. The median is a pair,
  the two middle numbers, since of an even count the session records their mean and the summary accepts either.
* **RulePromotion.** `stored` and `whole` are the file, torn between `Truncate` and `Write`, and after a `Write` that
  left the tail of a longer text behind its own; `existing` is what `promote_rule` loaded; `Corpora` are the corpora `--per-code`
  and `--seed` may choose for a gate, beside the `Seeds`; `ScreeningLoads` is a run of the graph starting.
* **CaseStore.** `open`, `pending` and `rows` are the connection and the table; an INSERT and a COMMIT are
  two steps each, the test for a transaction and the statement. SQLite is external.
* **ArtifactPublication.** `claimed` and `files` are the directory tree; each file is opened (created,
  empty) and written in two steps; `rmtree` removes entry by entry; the file system is external.
* **CorpusFreeze.** `draft` is what one invocation has read; `tmp`, `final` and `handle` are the
  files with the handles open on them, since `write_text` of two invocations opens one inode and
  `os.replace` moves it under a handle that is still open. A fixture is a version, its hash is that
  version, and the gate is a relation `Admissible` between fixtures and rules.
* **HoldoutReport.** `reporter` is one run of `main`: `checked`, `with` and `without` are the versions read
  by the verification and by the two passes, case by case, `touched` is history; `artifact` is the pair of
  files, torn between `Truncate` and `WriteText`. A version stands for a dossier with its truth, and two
  constants say what the checks and each rule make of it, so a report is a function of what was read;
  its counts are the operators after `build_scientific_report`. The number of fixtures is fixed: the
  test for a differing case set, and the error for passes over different ids, cannot fail here.
* **SyntheticCases, HandAuthoredCases, LabelledScreening.** A draw of the generator is a choice from a set. What is drawn
  of a range of days is a constant (`Sample`): in the run its two ends (`Ends`), and of the names a handful with the relation
  of likeness of `MCDossierChecks`; the theorems are for any draws and any names. `LabelledInit` is any labelled dossier, the checks run as in `DossierChecks`, and
  `Score` is one more step: a pass (what the promoted rule does, what the model advises, which calls fail, what it
  proposes) completes the findings, the guardrail decides, and the score is `evaluate_case` with the fields of
  `RunRecord`. `LabelledPasses` are those the truth is filed for, `Passes` all a corpus may be screened in.
* **DossierChecks.** Names are opaque; being alike is a relation, given by constants, that need not be
  transitive. Percentages are integers in thousandths of a point, or NaN, so that differences within the tolerance of a
  hundredth (`_EPS`) happen; dates are days. Numbers are exact where the code's are floats. That matters only where a difference or
  a sum is exactly on its bound (`50.01 - 50` is less than `0.01`, `25.01 - 25` is not), and there the constant `Rounding` says
  which comparisons hold: of shares by the two values, of sums by the list in its order. The theorems are for any `Rounding`.

## 3. Order of work and plan

Modelled first was what the whole harness stands on: policy and graph; then the session, the rules, the
store, publication, the contents of the checks, the summary, and the freeze; then the corpora with
their labels and scores, and the report that stands on the freeze. All of it is in this directory. What
is left, in order:

1. `ScreeningGraph` inside `LiveSession` as a refinement: today the session restates what it sees of a
   run; a mapping from its case phases to `FailClosedScreening` would tie the two.
2. `PublicSummary`: the chain of digests between the summary and the artifact, and the repeat structure.
3. `DossierChecks`: `build_entity_map`; the extraction of entities across all three documents.
4. As runs that find a violation, of what section 7 describes: an edit between the two reads of a freeze,
   against the manifest's `admission.criterion`; overlapping freezes, against `_atomic_write`'s docstring;
   a fixture edited under a report; two people of the generator taken for one; NaN in a declaration of owners.

## 4. Runs

Passing runs, each over every interleaving within its bounds (distinct states in brackets).

* **screening_graph** (338,066). Every subset of documents, one promoted rule, two kinds of model failure,
  one concern at each of two advised severities, one of which the clamp must raise. *SystemFailureEscalates*, *IncompleteDossierNeverApproved*,
  *TriageOnlyRaises*: decisions by what happened on the way. *NoProposalIsNotAgreement*: the record of a run
  without a proposal cannot be read as agreement. *AuditTrail*: the record is what happened.
  *ImplementsPromise*: refinement of `FailClosedScreening`, so that a run whose store raises returns nothing. *RunEnds*: liveness.
* **document_checks** (259,115). Some 15,000 complete dossiers, in four families by the pair of fields
  compared, and every part of each: at most three holders, two signatories, two declared owners, with a
  spelling that fits two people who do not fit each other, shares and losses that differ by less than the tolerance, by
  exactly as much and by more (`CloseHolders`), and sums on their bound whose order decides (`OrderedHolders`). *OutcomesCovered* ties the run to
  `ScreeningGraph`; *ApprovedIsConsistent* and *ConsistentIsApproved* say that the five comparisons
  approve just the dossiers that agree, up to the tolerance; *TransferIsByExitOnly* is what the transfer arithmetic comes to;
  *OrderIsImmaterial* is the soundness of greedy matching for unambiguous names, where no sum is on its bound. Beside these, every
  dossier of `CleanBases` through every injector and boundary variant, the compound cases and the seeds,
  each screened in every pass of its corpus. *LabelsHold*: codes, decision, checks run and skipped, and
  override come out as filed. *FailuresAreNotEvidence*: a failure changes no finding score, always
  escalates, and is attributed just when the dossier did not deserve it. *NoFalseApproval*: no decision is less
  cautious than the label, whatever is proposed, fires or fails.
* **live_session** (384,816). One frozen case and one other file, three valid attempts wanted, one replacement, two tries a
  call, a ceiling of 9 that lets a session complete and stops one of retries, changes on disk at any moment, so that a
  listing may hold no case, the frozen one, the other or both.
  *CallsAreAccountedFor*, *RateIsOverCleanCorpus*, *WorstRowIsLast*, *TerminalStateIsEarned*: what the
  artifact says against what happened. *ForeignFindingEndsSession*: a coverage violation is never
  outvoted. *KeepsBudget*: refinement of `CallBudget`. *CompletedIsPublishable*: the summary accepts a session
  just when it was completed over the frozen cases and replaced no attempt: requests, retries stage by stage, rates,
  preflight and distribution agree. *SessionEnds*: liveness.
* **rule_promotion** (1,209,814). Two operators, two ids, parameters inside, outside and NaN, a
  template that does not exist, dossiers on both sides of every bound, a gate over the seeds alone or with a
  generated corpus, crashes. *RulesInForceAreGated* and *IdsAreUnique* hold whatever overlaps; *PermanentUnlessOverlapped* and *GrowsUnlessOverlapped*
  (nothing is lost, and no screening run sees fewer rules than one before it) while no two promotions do.
* **case_store** (3,153). Three requests, every statement refused, rolled back or raced, crashes.
  *ReturnedIsOnRecord* (but for a statement that rolls back what others have inserted), *NothingIsStranded*.
* **artifact_publication** (63,158 up to symmetry). Three publishers, two run ids, two files, writes and cleanups that fail,
  crashes, a parent there or not. *PublishedIsWhole*, *OnlyTheMarkerIsTorn*, *FailureLeavesNothing*,
  *RemoversMadeTheParent* (a parent older than all is never removed, nor one that another made, but for the race of section 7),
  and *KeepsShelf*, refinement of `AppendOnlyShelf`.
* **corpus_freeze** (1,483,870 up to symmetry). Either tool, two invocations at a time and three in all, two fixtures of two
  versions, two rule sets, two edits, and one report (`MaxReports`) beginning at any moment; once two freezes have
  overlapped no edits (`EditsBound`) and no report (`ReportBound`). One rule set fires on the second version, the
  other raises on the first, so that a report may be clean, exposed or full of failures.
  *FrozenOnce*, *MarkerMeansComplete*, *ValidatedIsBlind*, *ReportDescribesItsPin*, *FrozenRulesPublishClean*: see section 6.

Why the bounds are enough. Races here are between two parties; a third is there where a history of two
could repeat (store, publication, and a third invocation of the freeze, which is what reaches a handle
on a file that was replaced twice). One rule is enough for the graph, which treats rules alike; two
cases, as in the listing of a corpus that gained a file, suffice for "one bad among good ones" and for the order of cases, and three
attempts for a distribution with a least, a middle and a largest; two fixtures for an edit of one
while the other is read. The injectors compare dates and shares with thresholds, so a range can only
go wrong at its ends; a list of two owners and one of three meet every split, and among the strangers drawn
afterwards is one who is taken for an owner, in either list. One report suffices, since a second one overwrites the first. Two tries show a retry and its exhaustion.

Runs that find a violation, each a disagreement with what the repository says of itself:

| Run | Shows | Said at |
|---|---|---|
| live_session_replacements | `replacements_used` is 3 of at most 2: counted before compared, `eval/redteam_live.py:708` | `docs/p4_design.md:366` |
| rule_promotion_lost | of two promotions at once one is lost, though it returned | `rules/store.py:58` |
| rule_promotion_nan | a ceiling of NaN passes the bounds, and a gate without a company as young as the rule is about | `rules/schema.py:75` |
| case_store_raced | a request fails to commit although its decision is on record | `store/case_store.py:23` |
| artifact_remnant | a torn last file is accepted by the validity predicate | `eval/redteam_record.py:773` |

Deadlock is not checked where the system stops by design: a run, a session or a request is over, or the
bound on attempts is used up.

## 5. Fairness

Weak fairness only, and only of the process itself. `ScreeningGraph`: LangGraph runs the next node, and
every call of a model returns or times out. `LiveSession`: the session's own steps, not the changes on
disk; waits between tries are bounded. `RulePromotion`: a
process that has begun to write goes on, unless it crashes. `CaseStore`, `ArtifactPublication`, `CorpusFreeze`
with its report, and `LabelledScreening` have safety properties only. Liveness (*RunEnds*, *SessionEnds*) is only model-checked.

## 6. Proofs

For every value of the constants, from the assumptions the modules name. Those say no more than the code:
`FilesAssumption` (the files of an artifact are named, some, and distinct: they are the keys of a literal in the
publishers), `DossiersAssumption` (a dossier has the fields and types of `contracts/documents.py`),
`GateIsTheTruth` (below), that ids of other files are not frozen ones (`DiskAssumption`), and that bounds and ceilings are numbers. Of the corpora: names drawn are texts and not blank
(`NamesAssumption`), the spelling without diacritics (`ascii_degrade`) has the matching key of the original (`AsciiAssumption`;
`tests/test_turkish_normalization.py` has a pair), the three spellings of a legal form differ and stand for one entity
(`LegalFormsAssumption`), and the names written in compound cases and seeds are texts, of which the declarant of the third seed is
one person in capitals and without diacritics (`AuthoredNamesAssumption`).

* `ScreeningGraph_proofs`: any rules, kinds of failure and sets of documents. The invariant `IInv` adds to
  `TypeOK` what a node relies on: operational findings are severe and concerns at least explainable
  (`FindingsAreSevere`), a missing document has been found once completeness is behind (`MissingIsFound`:
  the safety property alone is not inductive, since what is not yet found will be), the proposal is
  unavailable just when synthesis left its T0 (`ProposalIsHonest`), the decision is the policy's and the
  record the decision's. From it *FailClosed*, *IncompleteIsNotApproved*, *TriageRaises*,
  *NoProposalIsRecorded*, *EffectIsTheDecision*; and *KeepsPromise*, the refinement, step by step.
  *TrailIsTrue*: `AuditTrail` is inductive beside the types. Every step passes the node that is due as run or as
  skipped, or leaves the trail alone (`TrailSteps`), and what is due comes after all that was passed.
* `LiveSession_proofs`: any number of cases, tries and any ceiling. *BudgetIsKept* is the refinement,
  *CeilingHolds* follows from what is spent plus the worst case of the case under way; *RatesAreHonest*
  needs the rows of the attempt under way to be clean. The rest is `SessionInv` (*SessionInductive*), built in the
  order of its parts: findings and rows are of the case and attempt under way (`NothingIsLeftOver`, which gives the
  action property *ForeignFindingIsSeen*); the worst row is the last (*NoRowAfterTheWorst*); while a session goes on
  every attempt was valid or replaced (`AttemptsAreTallied`, which `TerminalStateIsEarned` needs to be kept:
  *TerminalIsEarned*); and what the case under way has asked for (`CallsOfTheCase`) together with the calls of all rows
  is the counter, and so are the retries of each stage (*CallsAddUp*, by induction over rows). To ease all of these, `StepForms` states once the few things
  a step can do to what the session keeps. *PublishableIsClean* joins them: what `build_public_summary` recounts
  from the artifact of a session, in both directions. It needs that the number of valid attempts wanted is odd (`OddTarget`; it
  is three): of an even number the mean of the two middle rates, which the session records, may be neither.
* `RulePromotion_proofs`: any operators, seeds, choices of corpus and crashes. The rule a writer holds, and not only the file, is gated
  and its id new in the list the writer loaded (`WhatIsWrittenIsGated`, `WhatIsWrittenIsUnique`): that is why
  the safety of what is in force survives a race that loses rules. *PromotionLasts* and the action property
  *RulesOnlyGrow* are of `PromotionHistory`: with one writer at a time (`OneAtATime`) a truncated file is
  safe in the hands of its writer, who holds all that was promoted or in force; if that one stops, nobody can load what it left.
* `CaseStore_proofs`: any number of requests. *AnsweredIsOnRecord*, *NoSecondRecord*, from where a row is by
  where its request is (`RowIsWhereItBelongs`). *NothingIsLeftBehind*: while no COMMIT was refused, rows that wait have
  somebody on the way to commit them (`PendingHasACommitter`), since an INSERT that is refused or undone leaves none to wait for it.
* `ArtifactPublication_proofs`: any publishers, names and sequences of files. Who holds a name excludes others
  until its directory is gone (`HoldersExclude`), hence *PublicationLasts*, *OneAuthor*, *ShelfIsKept*. `OrderInv` adds that a
  file is there only after those before it are written (`WrittenInOrder`, of a writer) and that only the last one there may be torn
  (`TornIsLast`, of the disk, whoever has left it): *MarkerComesLast*. A cleanup may remove files of the middle, and
  `TornIsLast` survives that since it compares only what is there. Also *NothingIsLeft*, and *ParentIsItsRemovers*, where
  one must know that short of a race whoever found no parent has made the one there is (`ParentIsKnown`).
* `DossierChecks_proofs`: *OutcomesAreComplete*, for any documents and any relation of likeness, and with it
  *ChecksAreAsModelled*: the graph is modelled with all that the checks can say. *ApprovalIsEarned* and
  *ConsistencyIsApproved*, for lists of any length: `ChainInv` says what has been reported when a check is due, so that at
  the end the verdict is about the codes of all five. The greedy matching is a fold; by induction over the list it pairs people
  who are alike, nobody twice, and leaves alone only those whose like are all taken (`GoodMatch`). An approved pair of lists is
  then matched completely, which is a bijection; conversely, agreeing lists of people told apart leave the greedy choice
  no alternative, and a holder left without a match would have its like taken by somebody else
  (`StructureMeansHolders`, `HoldersMeanStructure`). Each check has its lemma of what silence means (`IdentityHolds` to `OwnersHold`).
* `DossierChecks_proofs`, about sums: `TotalOf` is a fold that chooses the next entry. `SumsExist` shows that there is such a
  recursive function, `SumsInAnyOrder` that any entry may be taken first, and from there a sum may be split, renamed and
  compared (`SumOfBoth`, `SumRenamed`, `SumOfDifferences`). *TransferMeansExit*: between lists of one total, the gains exceed
  what the leavers held by just what those who stay have lost (`TransferMeans`), which is what the property sums up without
  the code's matching (`LostIsSum`); so the code's tolerance of the one is a tolerance of the other, of all losses together.
  *AnyOrderIsAsGood*: a list the other way round is a renaming of its positions
  (`Flip`); where names are told apart the greedy matching is the relation of likeness itself (`MatchesTheAlike`), so that it is
  renamed along, and with it sums, structure, signatories and owners (`RelistedCodes`). `Rounding` is of a list in its
  order, and so of another one: hence the condition that no sum is on its bound. Percentages may be NaN.
* `DossierChecks_proofs`, about the corpora: `LabelInv` says that dossier and label were filed together, that the results are those of
  the checks behind the program counter, and that a score is right (`WellScored`); the first part makes it inductive, since the
  score is taken of a dossier that is no longer compared with where it came from. What is left is that every labelled dossier has exactly
  the codes of its label (`Filed`). A clean base agrees with itself (`IsClean`: any split, any people, any dates of its ranges);
  then each injector keeps four of the five parts of that agreement (`OneEntity`, `OwnersAgree`, `FirstMaySign`, `OwnersDeclared`, and nothing
  missing) and breaks the fifth in a way of which a lemma says the code (`A2IsFound` to `E2IsFound`). Lists of the same people in the
  same places, be it without diacritics, are silent for the reason *ConsistencyIsApproved* gives (`PairedIsSilent`), and an owner who left is
  explained by what *TransferMeansExit* rests on (`ExitCodes`). Seeds and compound cases are literals and go the same way.
  *LabelsAreRight*, *FailureIsNoEvidence* and *NothingFalselyApproved* follow, with the passes of each corpus. People are told apart
  (`ToldApart`), as section 7 explains; of the draws nothing else is assumed.
* `HoldoutReport_proofs`, first part, about the freeze: any fixtures, rules, gate and number of invocations. *MarkerIsEarned* and *FrozenForGood*:
  while no two ever ran at once, the one under way found no manifest, its temporary file holds its own
  text, and the seed pin is in place once it has moved to the manifest (`InGoodOrder`). *ContractMeansBlind*: when the
  live disk agrees with the manifest's hashes, every case passes the gate now; the invariant follows
  what was hashed, screened and still to be screened (`ReadsAgree`). Types are kept with overlaps too,
  which needs that an open handle always is on a file (`OpenOnFiles`).
* `HoldoutReport_proofs`, second part: any fixtures, rules, gate and edits. *FreezeIsUndisturbed*: with a reporter beside it the freeze is
  still a behaviour of `CorpusFreeze`, so its invariant can be used. `RInv` adds what a manifest owes to the gate, also in a
  draft (`GatePassed`), that what the reporter has read is the manifest's but for touched cases
  (`Progress`), and the same of what it has written (`Artifacts`); a step of anyone else keeps it because `Notice`
  marks what it edits. From it *ReportIsOfItsPin*, and with the assumption that the gate is `decision_match` and
  `finding_match` (`GateIsTheTruth`), *FrozenRulesAreClean*. *DifferenceIsExposure* is about what the two passes differ in.
* `FoldLemmas`: the folds of the community modules are a recursive function, of which a proof has to show that it exists
  before anything follows from its equation. `FoldExists` and `FoldIsFunction` do that, by induction over the length
  (`NatSetInduction`, from the least element of a set of numbers; the library's induction theorems take a predicate as a parameter,
  which no prover here can instantiate, so that a set of numbers or of pairs takes its place). *FoldEmpty*, *FoldAppend*,
  *FoldInduction* and *FoldType* are what is cited, for the sum of calls, the rows of all attempts, and the matching.

The inductive invariants were model-checked before they were proved, with the constants of the runs. The type invariants of the
graph and the session, that no request has two rows (`RecordedAtMostOnce`), that the
record is the decision (`EffectFollowsDecision`) and `DeltaIsExposure` are not checked by a run: they are theorems.

Only model-checked: liveness (the provers do not reason about fairness and ENABLED). Every safety invariant and every action property
that a passing run checks is a theorem.

## 7. What was learned and is not a run

* Freeze: `_observe_redteam` loads the rules before the cases and `_pinned_config` loads them after: a rule
  promoted in between is pinned though nothing was screened under it, and the contract check then accepts. Two freezes at once
  replace one another's manifest and may install a torn one, since the temporary name is fixed.
* The holdout report reads each fixture again, twice, after it has compared them with the manifest: one edited in between
  is reported under a hash that is not its own, and the two passes may differ for that alone. Without the exemption
  of touched cases *ReportDescribesItsPin* fails after 26 steps. Its two files are written in place: a crash leaves one
  torn, or the JSON of one report beside the Markdown of another.
* `rule_applicability_count` counts cases with an F1 only. Rules that raise on every case count as "did not trigger on any
  case" in the exposure note (`eval/holdout_report.py:251`) although they have made every decision an escalation.
* `_distinct_people`, `_new_person_not_in` and the boundary injectors compare names letter by letter
  (`generate/synthetic.py:228`, `:394`, `:499`, `:511`) or not at all, while the checks take names for one from a likeness of 90: of "Ali
  Aslan" and "Ali Arslan", both of which the pools yield, a dossier labelled D1a or C1a may be clean. The properties of the labels
  are about dossiers whose people are told apart (`ToldApart`); without it *LabelsHold* fails. The module's docstring says that every
  case is validated by `generate.selfcheck`, which does not exist; `tests/test_generator.py` does it for the cases of one seed.
* `metrics.finding_match` takes an empty list of injected codes as it is, `scientific_report.py:312` as NONE; no corpus has one.
* The preflight of a session lists the cases again after it has validated the contract. A file that came or went in between
  changes the denominator of every attempt, and `run_session` does not compare it with 30: only the public summary does.
* The evidence of a coverage violation carries hashes copied from the manifest, not recomputed
  (`eval/redteam_live.py:438`; `docs/p4_design.md:360`).
* The gate is over the corpus its operator chooses (`rules/run_gate.py:46`); with `--per-code 0` it is over the eight seeds
  alone, and `promote_rule` accepts the report. So *RulesInForceAreGated* promises silence on the seeds and on some
  corpus that could be chosen, and on all 428 dossiers `rules/gate.py:4` speaks of only where the defaults are kept.
* A ceiling of NaN makes a rule fire on every company within its age limit, since `rules/templates.py:36` compares with
  `<=`. The run promotes it over dossiers of older companies; those of seeds and generator are years old.
* A rule id is unique at any time. Of a promotion that was lost the id is free again, and may come to stand for another rule.
* `promote_rule` compares the report with the candidate by rule id and template id only (`rules/store.py:62`).
* A rule file torn by a crash, or by two writers of which the one who wrote less came last, stays torn: every later
  run and promotion raises on it. Nothing is decided with
  fewer rules, and nothing is decided until someone mends it.
* An INSERT or a COMMIT that makes SQLite roll back (a full disk, an I/O error) takes the row of another thread with it, whose commit then finds
  nothing and returns. A refused COMMIT leaves rows for the next one to commit.
* `out_root_preexisted` (`eval/redteam_record.py:744`) is read before the parent is made. The docstrings (`:57`, `:732`) say
  the parent is removed only if this invocation created it; of two invocations that both found none, the second removes the one
  the first has made. *RemoversMadeTheParent* excludes just that (`root.raced`); without the exclusion it fails after 8 steps.
  Race or not, a publisher that has made sure of the parent may find it removed before its claim, and a session of
  paid calls is then not written (*Orphan*).
* NaN in a declared ownership hides D1b (`agent/checks.py:469`), and the dossier may be approved; the properties of
  `DossierChecks` are stated for numbers.
* Legal names that differ while tax numbers agree find nothing, as `DECISIONS.md` discloses. Greedy matching
  depends on order when names are ambiguous. A partial sale of more than a hundredth of a point of a stake is never
  explainable. An expired entry of a signatory listed before a renewed one gives C2.
* A sum of shares that is exactly 100.01 or 99.99 is found impossible or a gap according to the order of its terms: 41.52,
  37.81, 20.68 is more than 100.01 and the reverse is not; 79.99, 8.93, 11.07 is less than 99.99 and the reverse is
  not. So it is with the `sum` of Python 3.11, which `pyproject.toml` admits; from 3.12 on `sum` compensates its rounding.
* A completed session with a replacement is
  refused by the public summary.

## 8. Not modelled

The rendering of reports, their averages by code and class, and the Wilson interval: functions of their input
without state. The random generator (it is a choice) and its pools of addresses, sectors and cities. Fuzzy
matching and the folding of Turkish letters are a relation between names. Canonical JSON
and SHA-256 are taken as collision-free and become versions. Git and package provenance are input.
Document shapes, field allowlists and pinned digests of the public summary and the numbers in it that restate others
(point estimate, rates as text, repeat structure), the measurements of the triage layer
(loops that count) and the scripts that check distributions are not modelled. The report of the generated corpus reads nothing
twice and is covered by the passes of `LabelledScreening`. The model provider is any answer or failure at any time.
