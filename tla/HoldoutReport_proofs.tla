------------------------ MODULE HoldoutReport_proofs ------------------------
(***************************************************************************)
(* Proofs about CorpusFreeze and HoldoutReport, for any corpus, any rules, *)
(* any edits and any number of freezes and reports.                        *)
(*                                                                         *)
(* The freeze, killed anywhere and run again: while no two invocations     *)
(* ever ran at once, the manifest means a finished freeze, and is never    *)
(* replaced. The report: what it says was screened was screened, and what  *)
(* the gate of the freeze promised, it shows.                              *)
(***************************************************************************)
EXTENDS MCHoldoutReport, FiniteSetTheorems, TLAPS

(***************************************************************************)
(* The freeze.                                                             *)
(***************************************************************************)


(* One or two pin files, and the ones at the places main writes to.        *)
LEMMA PinsAreFew ==
  ASSUME tool \in {"freeze_redteam", "freeze_holdout"}
  PROVE  /\ Len(Pins(tool)) \in 1..2
         /\ \A i \in 1..Len(Pins(tool)) : Pins(tool)[i] \in PinFiles
         /\ Pins(tool)[Len(Pins(tool))] = "manifest"
         /\ Len(Pins(tool)) = 2 <=> tool = "freeze_holdout"
         /\ Len(Pins(tool)) = 2 => Pins(tool)[1] = "seed_pin"
  BY DEF Pins, PinFiles

(* The invocation under way writes to a pin file.                          *)
LEMMA PinIsAFile ==
  ASSUME TypeOK, NEW p \in Freezers, Running(p)
  PROVE  Pin(p) \in PinFiles
<1>1. at[p] + 1 \in 1..Len(Pins(tool))
  BY PinsAreFew DEF TypeOK
<1>2. QED
  BY <1>1, PinsAreFew DEF Pin, TypeOK

(* The empty and the torn text are drafts.                                 *)
LEMMA EmptyIsADraft == EmptyDraft \in Drafts /\ Torn \in Drafts /\ ~Torn.whole /\ EmptyDraft.whole
<1>1. EmptyDraft \in Drafts
  BY DEF EmptyDraft, Drafts
<1>2. QED
  BY <1>1 DEF Torn, Drafts, EmptyDraft

(* Whatever is mixed, what is in a file is a draft.                        *)
LEMMA WrittenIsADraft ==
  ASSUME TypeOK, NEW p \in Freezers, NEW old \in Drafts
  PROVE  Written(p, old) \subseteq Drafts
<1>1. Texts(p, old) \subseteq Drafts /\ draft[p] \in Drafts
  BY DEF TypeOK, Texts, Sharers
<1>2. \A a \in Drafts, b \in Drafts : Mixed(a, b) \in Drafts
  BY DEF Drafts, Mixed
<1>3. SUFFICES ASSUME NEW w \in Written(p, old)
               PROVE  w \in Drafts
  OBVIOUS
<1>4. CASE w \in {draft[p], Torn}
  BY <1>1, <1>4, EmptyIsADraft
<1>5. CASE w \notin {draft[p], Torn}
  <2>1. w \in {Mixed(a, b) : a \in Texts(p, old), b \in Texts(p, old)}
    BY <1>3, <1>5 DEF Written
  <2>2. PICK a \in Texts(p, old), b \in Texts(p, old) : w = Mixed(a, b)
    BY <2>1
  <2>3. QED
    BY <1>1, <1>2, <2>2
<1>6. QED
  BY <1>4, <1>5

(* An open handle is on a file.                                            *)
OpenOnFiles ==
  \A p \in Freezers : pc[p] = "opened" =>
    /\ handle[p] = "tmp" => tmp[Pin(p)] # NoFile
    /\ handle[p] = "final" => final[Pin(p)] # NoFile

(* No action changes the tool or leaves the types of the inputs.           *)
LEMMA TypeIsKept ==
  ASSUME TypeOK, OpenOnFiles, Next
  PROVE  TypeOK'
<1> USE FreezeConstants
<1>1. ASSUME NEW p \in Freezers, Start(p)
      PROVE  TypeOK'
  <2>1. draft' \in [Freezers -> Drafts]
    BY <1>1, EmptyIsADraft DEF Start, TypeOK
  <2>2. \A q \in Freezers : Running(q)' => at'[q] < Len(Pins(tool))
    BY <1>1, PinsAreFew DEF Start, TypeOK, Running
  <2>3. QED
    BY <1>1, <2>1, <2>2 DEF Start, Invoke, TypeOK, inputs, disk, Running
<1>2. ASSUME NEW p \in Freezers, RefuseFrozen(p)
      PROVE  TypeOK'
  BY <1>2 DEF RefuseFrozen, Invoke, TypeOK, inputs, disk, Running
<1>3. ASSUME NEW p \in Freezers, HashCase(p)
      PROVE  TypeOK'
  <2>1. draft[p].hashed \in Seq(CaseVersions) /\ draft[p] \in Drafts
    BY DEF TypeOK, Drafts
  <2>2. corpus[Len(draft[p].hashed) + 1] \in CaseVersions
    BY <1>3 DEF HashCase, TypeOK
  <2>3. Append(draft[p].hashed, corpus[Len(draft[p].hashed) + 1]) \in Seq(CaseVersions)
    BY <2>1, <2>2
  <2>4. ASSUME NEW s \in Seq(CaseVersions), draft' = [draft EXCEPT ![p].hashed = s]
        PROVE  draft' \in [Freezers -> Drafts]
    BY <2>4 DEF TypeOK, Drafts
  <2>5. draft' = [draft EXCEPT ![p].hashed =
                    Append(draft[p].hashed, corpus[Len(draft[p].hashed) + 1])]
    BY <1>3 DEF HashCase, TypeOK
  <2>6. draft' \in [Freezers -> Drafts]
    BY <2>3, <2>4, <2>5
  <2>7. QED
    BY <1>3, <2>6 DEF HashCase, TypeOK, inputs, disk, Running
<1>4. ASSUME NEW p \in Freezers, LoadRules(p)
      PROVE  TypeOK'
  <2>1. draft' \in [Freezers -> Drafts]
    BY <1>4 DEF LoadRules, TypeOK, Drafts
  <2>2. QED
    BY <1>4, <2>1 DEF LoadRules, TypeOK, inputs, disk, Running
<1>5. ASSUME NEW p \in Freezers, ObserveCase(p)
      PROVE  TypeOK'
  <2>1. draft[p].seen \in Seq(CaseVersions) /\ draft[p] \in Drafts
    BY DEF TypeOK, Drafts
  <2>2. corpus[Len(draft[p].seen) + 1] \in CaseVersions
    BY <1>5 DEF ObserveCase, TypeOK
  <2>3. Append(draft[p].seen, corpus[Len(draft[p].seen) + 1]) \in Seq(CaseVersions)
    BY <2>1, <2>2
  <2>4. ASSUME NEW s \in Seq(CaseVersions), draft' = [draft EXCEPT ![p].seen = s]
        PROVE  draft' \in [Freezers -> Drafts]
    BY <2>4 DEF TypeOK, Drafts
  <2>5. draft' = [draft EXCEPT ![p].seen =
                    Append(draft[p].seen, corpus[Len(draft[p].seen) + 1])]
    BY <1>5 DEF ObserveCase, TypeOK
  <2>6. draft' \in [Freezers -> Drafts]
    BY <2>3, <2>4, <2>5
  <2>7. QED
    BY <1>5, <2>6 DEF ObserveCase, TypeOK, inputs, disk, Running
<1>6. ASSUME NEW p \in Freezers, FinishManifest(p)
      PROVE  TypeOK'
  <2>1. ASSUME NEW S \in SUBSET RuleVersions, draft' = [draft EXCEPT ![p].pinned = S]
        PROVE  draft' \in [Freezers -> Drafts]
    BY <2>1 DEF TypeOK, Drafts
  <2>2. \E S \in SUBSET RuleVersions : draft' = [draft EXCEPT ![p].pinned = S]
    <3>1. {rules} \subseteq RuleVersions
      BY DEF TypeOK
    <3>2. QED
      BY <1>6, <3>1, Zenon DEF FinishManifest
  <2>3. draft' \in [Freezers -> Drafts]
    BY <2>1, <2>2
  <2>4. QED
    BY <1>6, <2>3 DEF FinishManifest, TypeOK, inputs, disk, Running
<1>7. ASSUME NEW p \in Freezers, PassGate(p) \/ RefuseGate(p) \/ ReplaceFails(p) \/ Fail(p)
      PROVE  TypeOK'
  BY <1>7 DEF PassGate, RefuseGate, ReplaceFails, Fail, TypeOK, inputs, disk, Running
<1>8. ASSUME NEW p \in Freezers, OpenTmp(p)
      PROVE  TypeOK'
  BY <1>8, EmptyIsADraft DEF OpenTmp, TypeOK, inputs, Running
<1>9. ASSUME NEW p \in Freezers, WriteTmp(p)
      PROVE  TypeOK'
  <2>1. Pin(p) \in PinFiles
    BY <1>9, PinIsAFile DEF WriteTmp, Running
  <2>2. tmp' \in [PinFiles -> Drafts \cup {NoFile}]
    <3>1. CASE handle[p] = "tmp"
      <4>1. tmp[Pin(p)] \in Drafts
        BY <1>9, <2>1, <3>1 DEF OpenOnFiles, WriteTmp, TypeOK
      <4>2. Written(p, tmp[Pin(p)]) \subseteq Drafts
        BY <4>1, WrittenIsADraft
      <4>3. QED
        BY <1>9, <3>1, <4>2 DEF WriteTmp, TypeOK
    <3>2. QED
      BY <1>9, <3>1 DEF WriteTmp, TypeOK
  <2>3. final' \in [PinFiles -> Drafts \cup {NoFile}]
    <3>1. CASE handle[p] = "final"
      <4>1. final[Pin(p)] \in Drafts
        BY <1>9, <2>1, <3>1 DEF OpenOnFiles, WriteTmp, TypeOK
      <4>2. Written(p, final[Pin(p)]) \subseteq Drafts
        BY <4>1, WrittenIsADraft
      <4>3. QED
        BY <1>9, <3>1, <4>2 DEF WriteTmp, TypeOK
    <3>2. QED
      BY <1>9, <3>1 DEF WriteTmp, TypeOK
  <2>4. QED
    BY <1>9, <2>2, <2>3 DEF WriteTmp, TypeOK, inputs, Running
<1>10. ASSUME NEW p \in Freezers, Replace(p)
      PROVE  TypeOK'
  <2>1. Pin(p) \in PinFiles
    BY <1>10, PinIsAFile DEF Replace, Running
  <2>2. /\ tmp' \in [PinFiles -> Drafts \cup {NoFile}]
        /\ final' \in [PinFiles -> Drafts \cup {NoFile}]
    BY <1>10, <2>1 DEF Replace, TypeOK
  <2>3. handle' \in [Freezers -> {"closed", "tmp", "final", "gone"}]
    BY <1>10 DEF Replace, TypeOK
  <2>4. at[p] < Len(Pins(tool)) /\ Len(Pins(tool)) \in 1..2
    BY <1>10, PinsAreFew DEF Replace, TypeOK, Running
  <2>5. at' \in [Freezers -> 0..2]
    <3>1. at[p] \in 0..2
      BY DEF TypeOK
    <3>2. \A a \in 0..2, n \in 1..2 : a < n => a + 1 \in 0..2
      OBVIOUS
    <3>3. at[p] + 1 \in 0..2
      BY <2>4, <3>1, <3>2, Zenon
    <3>4. at' = [at EXCEPT ![p] = at[p] + 1]
      BY <1>10 DEF Replace
    <3>5. QED
      BY <3>3, <3>4 DEF TypeOK
  <2>6. \A q \in Freezers : Running(q)' => at'[q] < Len(Pins(tool))
    BY <1>10, <2>4 DEF Replace, TypeOK, Running
  <2>7. pc' \in [Freezers -> {"idle", "hashing", "observing", "gating",
                             "writing", "opened", "written"}]
    BY <1>10 DEF Replace, TypeOK
  <2>8. QED
    BY <1>10, <2>2, <2>3, <2>5, <2>6, <2>7 DEF Replace, TypeOK, inputs, Running
<1>11. ASSUME NEW i \in Cases, NEW v \in CaseVersions, EditCase(i, v)
       PROVE  TypeOK'
  BY <1>11 DEF EditCase, TypeOK, disk, Running
<1>12. ASSUME NEW r \in RuleVersions, ChangeRules(r)
       PROVE  TypeOK'
  BY <1>12 DEF ChangeRules, TypeOK, disk, Running
<1>13. QED
  BY <1>1, <1>2, <1>3, <1>4, <1>5, <1>6, <1>7, <1>8, <1>9, <1>10, <1>11, <1>12
     DEF Next, Freeze

(* Opening, writing and installing keep every open handle on a file.       *)
LEMMA HandlesStayOnFiles ==
  ASSUME TypeOK, OpenOnFiles, Next
  PROVE  OpenOnFiles'
<1> USE FreezeConstants
<1>1. ASSUME NEW p \in Freezers, OpenTmp(p)
      PROVE  OpenOnFiles'
  <2>1. Pin(p) \in PinFiles /\ Torn # NoFile
    BY <1>1, PinIsAFile, EmptyIsADraft DEF OpenTmp, Running
  <2>2. \A q \in Freezers : Pin(q)' = Pin(q)
    BY <1>1 DEF OpenTmp, Pin, inputs
  <2>3. QED
    BY <1>1, <2>1, <2>2 DEF OpenTmp, OpenOnFiles, TypeOK, inputs
<1>2. ASSUME NEW p \in Freezers, WriteTmp(p)
      PROVE  OpenOnFiles'
  <2>1. Pin(p) \in PinFiles
    BY <1>2, PinIsAFile DEF WriteTmp, Running
  <2>2. \A q \in Freezers : Pin(q)' = Pin(q)
    BY <1>2 DEF WriteTmp, Pin, inputs
  <2>3. CASE handle[p] = "tmp"
    <3>1. tmp[Pin(p)] \in Drafts
      BY <1>2, <2>1, <2>3 DEF OpenOnFiles, WriteTmp, TypeOK
    <3>2. PICK text \in Drafts : tmp' = [tmp EXCEPT ![Pin(p)] = text]
      BY <1>2, <2>3, <3>1, WrittenIsADraft DEF WriteTmp
    <3>3. text # NoFile
      OBVIOUS
    <3>4. final' = final /\ handle' = [handle EXCEPT ![p] = "closed"]
             /\ pc' = [pc EXCEPT ![p] = "written"]
      BY <1>2, <2>3 DEF WriteTmp
    <3>5. QED
      BY <2>1, <2>2, <3>2, <3>3, <3>4 DEF OpenOnFiles, TypeOK
  <2>4. CASE handle[p] = "final"
    <3>1. final[Pin(p)] \in Drafts
      BY <1>2, <2>1, <2>4 DEF OpenOnFiles, WriteTmp, TypeOK
    <3>2. PICK text \in Drafts : final' = [final EXCEPT ![Pin(p)] = text]
      BY <1>2, <2>4, <3>1, WrittenIsADraft DEF WriteTmp
    <3>3. text # NoFile
      OBVIOUS
    <3>4. tmp' = tmp /\ handle' = [handle EXCEPT ![p] = "closed"]
             /\ pc' = [pc EXCEPT ![p] = "written"]
      BY <1>2, <2>4 DEF WriteTmp
    <3>5. QED
      BY <2>1, <2>2, <3>2, <3>3, <3>4 DEF OpenOnFiles, TypeOK
  <2>5. CASE handle[p] = "gone"
    BY <1>2, <2>2, <2>5 DEF WriteTmp, OpenOnFiles, TypeOK, inputs
  <2>6. QED
    BY <1>2, <2>3, <2>4, <2>5 DEF WriteTmp
<1>3. ASSUME NEW p \in Freezers, Replace(p)
      PROVE  OpenOnFiles'
  <2>1. Pin(p) \in PinFiles
    BY <1>3, PinIsAFile DEF Replace, Running
  <2>2. SUFFICES ASSUME NEW q \in Freezers, pc'[q] = "opened"
                 PROVE  /\ handle'[q] = "tmp" => tmp'[Pin(q)'] # NoFile
                        /\ handle'[q] = "final" => final'[Pin(q)'] # NoFile
    BY DEF OpenOnFiles
  <2>3. q # p /\ pc[q] = "opened"
    BY <1>3, <2>2 DEF Replace, TypeOK
  <2>4. Pin(q)' = Pin(q) /\ Pin(q) \in PinFiles
    <3>1. at'[q] = at[q] /\ tool' = tool
      BY <1>3, <2>3 DEF Replace, TypeOK
    <3>2. QED
      BY <2>3, <3>1, PinIsAFile DEF Pin, Running
  <2>5. CASE Pin(q) = Pin(p)
    BY <1>3, <2>1, <2>3, <2>4, <2>5 DEF Replace, OpenOnFiles, TypeOK
  <2>6. CASE Pin(q) # Pin(p)
    BY <1>3, <2>1, <2>3, <2>4, <2>6 DEF Replace, OpenOnFiles, TypeOK
  <2>7. QED
    BY <2>5, <2>6
<1>4. ASSUME NEW p \in Freezers,
             \/ RefuseFrozen(p) \/ HashCase(p) \/ LoadRules(p) \/ ObserveCase(p)
             \/ FinishManifest(p) \/ PassGate(p) \/ RefuseGate(p) \/ ReplaceFails(p)
      PROVE  OpenOnFiles'
  BY <1>4 DEF RefuseFrozen, Invoke, HashCase, LoadRules, ObserveCase, FinishManifest,
              PassGate, RefuseGate, ReplaceFails, inputs, disk, OpenOnFiles, TypeOK, Pin
<1>5. ASSUME NEW p \in Freezers, Start(p) \/ Fail(p)
      PROVE  OpenOnFiles'
  BY <1>5 DEF Start, Fail, Invoke, inputs, disk, OpenOnFiles, TypeOK, Pin
<1>6. ASSUME \/ \E i \in Cases, v \in CaseVersions : EditCase(i, v)
             \/ \E r \in RuleVersions : ChangeRules(r)
      PROVE  OpenOnFiles'
  BY <1>6 DEF EditCase, ChangeRules, disk, OpenOnFiles, Pin
<1>7. QED
  BY <1>1, <1>2, <1>3, <1>4, <1>5, <1>6 DEF Next, Freeze

-----------------------------------------------------------------------------
(* One invocation at a time                                                *)

SeedPinned == final["seed_pin"] # NoFile /\ final["seed_pin"].whole

(* The disk as the one invocation under way finds and leaves it.           *)
InGoodOrder(p) ==
  /\ Unfrozen
  /\ draft[p].whole
  /\ pc[p] \in {"writing", "opened", "written"} => Admitted(draft[p])
  /\ at[p] = 1 => SeedPinned
  /\ pc[p] = "opened" => handle[p] = "tmp" /\ tmp[Pin(p)] = Torn
  /\ pc[p] = "written" => tmp[Pin(p)] = draft[p]

(* A manifest that stands for a finished freeze.                           *)
Complete ==
  /\ final["manifest"].whole
  /\ Admitted(final["manifest"])
  /\ tool = "freeze_holdout" => SeedPinned

Alone == \A p, q \in Freezers : Running(p) /\ Running(q) => p = q

Serial ==
  /\ Alone
  /\ \A p \in Freezers : Running(p) => InGoodOrder(p)
  /\ final["manifest"] # NoFile => Complete

IInv == TypeOK /\ OpenOnFiles /\ (~overlapped => Serial)

(* Alone, an invocation writes its own text into its own file.             *)
LEMMA WrittenAlone ==
  ASSUME TypeOK, Alone, NEW p \in Freezers, pc[p] = "opened"
  PROVE  Written(p, Torn) = {draft[p]}
<1>1. Sharers(p) = {}
  BY DEF Sharers, Alone, Running
<1>2. {d \in {Torn} : d.whole} = {}
  BY EmptyIsADraft
<1>3. {draft[q] : q \in Sharers(p)} = {}
  BY <1>1
<1>4. Texts(p, Torn) = {draft[p]}
  BY <1>2, <1>3 DEF Texts
<1>5. QED
  BY <1>4 DEF Written

(* The steps of the one invocation that reads: the disk is as it was.      *)
LEMMA ReadingIsSerial ==
  ASSUME TypeOK, Serial, Alone', NEW p \in Freezers,
         \/ Start(p) \/ HashCase(p) \/ LoadRules(p) \/ ObserveCase(p)
         \/ FinishManifest(p) \/ PassGate(p)
  PROVE  Serial'
<1>1. /\ final' = final /\ tmp' = tmp /\ tool' = tool /\ handle' = handle
      /\ Running(p)' /\ pc' = [pc EXCEPT ![p] = pc'[p]]
      /\ pc'[p] \in {"hashing", "observing", "gating", "writing"}
  BY DEF Start, Invoke, HashCase, LoadRules, ObserveCase, FinishManifest, PassGate,
         disk, Running, TypeOK
<1>2. final["manifest"] # NoFile => Complete'
  BY <1>1 DEF Serial, Complete, SeedPinned, Admitted
<1>3. InGoodOrder(p)'
  <2>1. Unfrozen
    BY DEF Start, HashCase, LoadRules, ObserveCase, FinishManifest, PassGate,
           Serial, InGoodOrder, Running
  <2>2. draft'[p].whole
    <3>1. CASE Start(p)
      BY <3>1, EmptyIsADraft DEF Start, TypeOK
    <3>2. CASE ~Start(p)
      <4>1. draft[p].whole /\ draft[p] \in Drafts
        BY <3>2 DEF HashCase, LoadRules, ObserveCase, FinishManifest, PassGate,
                    Serial, InGoodOrder, Running, TypeOK
      <4>2. CASE HashCase(p)
        BY <4>1, <4>2 DEF HashCase, TypeOK, Drafts
      <4>3. CASE LoadRules(p)
        BY <4>1, <4>3 DEF LoadRules, TypeOK, Drafts
      <4>4. CASE ObserveCase(p)
        BY <4>1, <4>4 DEF ObserveCase, TypeOK, Drafts
      <4>5. CASE FinishManifest(p)
        <5>1. \A S : [draft[p] EXCEPT !.pinned = S].whole = draft[p].whole
          BY <4>1 DEF Drafts
        <5>2. \E S : draft'[p] = [draft[p] EXCEPT !.pinned = S]
          BY <4>5 DEF FinishManifest, TypeOK
        <5>3. QED
          BY <4>1, <5>1, <5>2
      <4>6. CASE PassGate(p)
        BY <4>1, <4>6 DEF PassGate
      <4>7. QED
        BY <3>2, <4>2, <4>3, <4>4, <4>5, <4>6
    <3>3. QED
      BY <3>1, <3>2
  <2>3. pc'[p] = "writing" => Admitted(draft'[p])
    BY DEF Start, HashCase, LoadRules, ObserveCase, FinishManifest, PassGate, TypeOK
  <2>4. at'[p] = 1 => SeedPinned'
    BY <1>1 DEF Start, HashCase, LoadRules, ObserveCase, FinishManifest, PassGate,
                Serial, InGoodOrder, Running, SeedPinned, TypeOK
  <2>5. QED
    BY <1>1, <2>1, <2>2, <2>3, <2>4 DEF InGoodOrder, Unfrozen, Admitted
<1>4. \A q \in Freezers : Running(q)' => InGoodOrder(q)'
  BY <1>1, <1>3 DEF Alone
<1>5. QED
  BY <1>1, <1>2, <1>4 DEF Serial

(* The steps of the one invocation that writes.                            *)
LEMMA WritingIsSerial ==
  ASSUME TypeOK, Serial, NEW p \in Freezers,
         OpenTmp(p) \/ WriteTmp(p) \/ Replace(p)
  PROVE  Serial'
<1>1. /\ Running(p) /\ InGoodOrder(p) /\ tool' = tool /\ draft' = draft
      /\ pc[p] \in {"writing", "opened", "written"}
      /\ Admitted(draft[p]) /\ draft[p].whole /\ draft[p] \in Drafts
  BY DEF OpenTmp, WriteTmp, Replace, Running, Serial, InGoodOrder, TypeOK, inputs
<1>2. Pin(p) \in PinFiles
  BY <1>1, PinIsAFile
<1>3. \A q \in Freezers : Running(q)' => q = p
  BY <1>1 DEF OpenTmp, WriteTmp, Replace, Running, Serial, Alone, TypeOK
<1>4. CASE OpenTmp(p)
  <2>1. Pin(p)' = Pin(p) /\ final' = final
    BY <1>4 DEF OpenTmp, Pin, inputs
  <2>2. InGoodOrder(p)'
    BY <1>1, <1>2, <1>4, <2>1
       DEF OpenTmp, InGoodOrder, Unfrozen, Admitted, SeedPinned, TypeOK, inputs
  <2>3. final["manifest"] = NoFile
    BY <1>1 DEF InGoodOrder, Unfrozen
  <2>4. QED
    BY <1>3, <2>1, <2>2, <2>3 DEF Serial, Alone
<1>5. CASE WriteTmp(p)
  <2>1. handle[p] = "tmp" /\ pc[p] = "opened" /\ tmp[Pin(p)] = Torn
    BY <1>1, <1>5 DEF WriteTmp, InGoodOrder
  <2>2. tmp' = [tmp EXCEPT ![Pin(p)] = draft[p]] /\ final' = final
    BY <1>5, <2>1, WrittenAlone DEF WriteTmp, Serial
  <2>3. Pin(p)' = Pin(p)
    BY <1>5 DEF WriteTmp, Pin, inputs
  <2>4. InGoodOrder(p)'
    BY <1>1, <1>2, <1>5, <2>2, <2>3
       DEF WriteTmp, InGoodOrder, Unfrozen, Admitted, SeedPinned, TypeOK, inputs
  <2>5. final["manifest"] = NoFile
    BY <1>1 DEF InGoodOrder, Unfrozen
  <2>6. QED
    BY <1>3, <2>2, <2>4, <2>5 DEF Serial, Alone
<1>6. CASE Replace(p)
  <2>1. pc[p] = "written" /\ tmp[Pin(p)] = draft[p]
    BY <1>1, <1>6 DEF Replace, InGoodOrder
  <2>2. final' = [final EXCEPT ![Pin(p)] = draft[p]]
    BY <1>6, <2>1 DEF Replace
  <2>3. draft[p] # NoFile
    BY <1>1, FreezeConstants
  <2>4. at[p] \in 0..2 /\ at[p] < Len(Pins(tool)) /\ Len(Pins(tool)) \in 1..2
    BY <1>1, PinsAreFew DEF TypeOK
  <2>5. CASE at[p] + 1 = Len(Pins(tool))
    <3>1. Pin(p) = "manifest"
      BY <2>5, PinsAreFew DEF Pin, TypeOK
    <3>2. final'["manifest"] = draft[p] /\ final'["seed_pin"] = final["seed_pin"]
      BY <2>2, <3>1 DEF TypeOK, PinFiles
    <3>3. tool = "freeze_holdout" => at[p] = 1
      BY <2>4, <2>5, PinsAreFew DEF TypeOK
    <3>4. tool = "freeze_holdout" => SeedPinned
      BY <1>1, <3>3 DEF InGoodOrder
    <3>5. Complete'
      BY <1>1, <3>2, <3>4 DEF Complete, SeedPinned, Admitted
    <3>6. ~Running(p)'
      BY <1>6, <2>5 DEF Replace, Running, TypeOK
    <3>7. QED
      BY <1>3, <3>5, <3>6 DEF Serial, Alone
  <2>6. CASE at[p] + 1 # Len(Pins(tool))
    <3>1. at[p] = 0 /\ Len(Pins(tool)) = 2
      <4>1. \A a \in 0..2, n \in 1..2 : a < n /\ a + 1 # n => a = 0 /\ n = 2
        OBVIOUS
      <4>2. QED
        BY <2>4, <2>6, <4>1, Zenon
    <3>2. Pin(p) = "seed_pin"
      BY <3>1, PinsAreFew DEF Pin, TypeOK
    <3>3. final'["seed_pin"] = draft[p] /\ final'["manifest"] = final["manifest"]
      BY <2>2, <3>2 DEF TypeOK, PinFiles
    <3>4. SeedPinned'
      BY <1>1, <2>3, <3>3 DEF SeedPinned
    <3>5. pc'[p] = "writing"
      BY <1>6, <2>6 DEF Replace, TypeOK
    <3>6. InGoodOrder(p)'
      BY <1>1, <3>3, <3>4, <3>5 DEF InGoodOrder, Unfrozen, Admitted
    <3>7. final'["manifest"] = NoFile
      BY <1>1, <3>3 DEF InGoodOrder, Unfrozen
    <3>8. QED
      BY <1>3, <3>6, <3>7 DEF Serial, Alone
  <2>7. QED
    BY <2>5, <2>6
<1>7. QED
  BY <1>4, <1>5, <1>6

(* Steps that end an invocation, or of nobody under way.                   *)
LEMMA OthersAreSerial ==
  ASSUME TypeOK, Serial,
         \/ \E p \in Freezers : RefuseFrozen(p) \/ RefuseGate(p) \/ ReplaceFails(p) \/ Fail(p)
         \/ \E i \in Cases, v \in CaseVersions : EditCase(i, v)
         \/ \E r \in RuleVersions : ChangeRules(r)
         \/ UNCHANGED vars
  PROVE  Serial'
<1>1. /\ final' = final /\ tmp' = tmp /\ tool' = tool /\ draft' = draft /\ at' = at
      /\ \A q \in Freezers : Running(q)' => pc'[q] = pc[q] /\ handle'[q] = handle[q]
  BY DEF RefuseFrozen, Invoke, RefuseGate, ReplaceFails, Fail, EditCase, ChangeRules,
         vars, disk, inputs, Running, TypeOK
<1>2. \A q \in Freezers : Running(q)' => Running(q) /\ Pin(q)' = Pin(q)
  BY <1>1 DEF Running, Pin
<1>3. final["manifest"] # NoFile => Complete'
  BY <1>1 DEF Serial, Complete, SeedPinned, Admitted
<1>4. \A q \in Freezers : Running(q)' => InGoodOrder(q)'
  BY <1>1, <1>2 DEF Serial, InGoodOrder, Unfrozen, SeedPinned, Admitted
<1>5. QED
  BY <1>1, <1>2, <1>3, <1>4 DEF Serial, Alone

(* The invariant holds at the start and is kept.                           *)
LEMMA Inductive ==
  /\ MCInit => IInv
  /\ IInv /\ [MCNext]_MCvars => IInv'
<1>1. ASSUME MCInit
      PROVE  IInv
  <2> USE <1>1 DEF MCInit, Init
  <2>1. TypeOK
    BY FreezeConstants, EmptyIsADraft DEF TypeOK, Running
  <2>2. OpenOnFiles
    BY DEF OpenOnFiles
  <2>3. Serial
    BY DEF Serial, Alone, Running, PinFiles
  <2>4. QED
    BY <2>1, <2>2, <2>3 DEF IInv
<1>2. ASSUME IInv, MCNext
      PROVE  IInv'
  <2>1. TypeOK' /\ OpenOnFiles'
    BY <1>2, TypeIsKept, HandlesStayOnFiles DEF IInv, MCNext
  <2>2. ASSUME ~overlapped'
        PROVE  Serial'
    <3>1. TypeOK /\ Serial /\ Next /\ Alone'
      BY <1>2, <2>2 DEF IInv, MCNext, Alone
    <3>2. QED
      BY <3>1, ReadingIsSerial, WritingIsSerial, OthersAreSerial DEF Next, Freeze
  <2>3. QED
    BY <2>1, <2>2 DEF IInv
<1>3. ASSUME IInv, UNCHANGED MCvars
      PROVE  IInv'
  <2>1. TypeOK' /\ OpenOnFiles' /\ overlapped' = overlapped /\ UNCHANGED vars
    BY <1>3 DEF IInv, MCvars, vars, disk, TypeOK, OpenOnFiles, Running, Pin
  <2>2. QED
    BY <1>3, <2>1, OthersAreSerial DEF IInv
<1>4. QED
  BY <1>1, <1>2, <1>3

(* A manifest is the mark of a finished freeze: whole, admitted, and with the *)
(* pin before it, after any crashes, for any corpus and rules, while no two *)
(* invocations ever ran at once (_atomic_write twice, the manifest last).  *)
THEOREM MarkerIsEarned == MCSpec => []MarkerMeansComplete
<1>1. IInv => MarkerMeansComplete
  BY DEF IInv, Serial, Complete, SeedPinned, MarkerMeansComplete
<1>2. QED
  BY <1>1, Inductive, PTL DEF MCSpec

(* A step of an invocation that is alone changes no manifest.              *)
LEMMA ManifestStays ==
  ASSUME IInv, MCNext, ~overlapped', final["manifest"] # NoFile
  PROVE  final'["manifest"] = final["manifest"]
<1>1. Serial
  BY DEF IInv, MCNext
<1>2. \A p \in Freezers : ~Running(p)
  BY <1>1 DEF Serial, InGoodOrder, Unfrozen
<1>3. QED
  BY <1>2 DEF MCNext, Next, Freeze, Start, RefuseFrozen, HashCase, LoadRules, ObserveCase,
     FinishManifest, PassGate, RefuseGate, OpenTmp, WriteTmp, Replace, ReplaceFails, Fail,
     EditCase, ChangeRules, Running, disk

(* A manifest is never replaced, whatever is invoked, killed and invoked   *)
(* again (MANIFEST_PATH.exists() at the start of main), while no two       *)
(* invocations ever ran at once.                                           *)
THEOREM FrozenForGood == MCSpec => FrozenOnce
<1>1. IInv /\ [MCNext]_MCvars =>
        [~overlapped' /\ final["manifest"] # NoFile
           => final'["manifest"] = final["manifest"]]_MCvars
  BY ManifestStays
<1>2. QED
  BY <1>1, Inductive, PTL DEF MCSpec, FrozenOnce

-----------------------------------------------------------------------------
(* What was read twice was the same both times                             *)

(* The text vouches for what it hashes and, in the red-team tool, what it  *)
(* pins.                                                                   *)
Vouched(d) ==
  /\ Len(d.hashed) = NCases
  /\ d.seen = d.hashed
  /\ tool = "freeze_redteam" => d.pinned = d.screenedUnder /\ d.pinned # {}

(* What p has read so far is what is on disk where it has still to be read *)
(* a second time, and what it read the second time where it has been.      *)
ReadsAgree(p) ==
  /\ pc[p] \in {"hashing", "observing"} =>
       /\ Len(draft[p].seen) <= Len(draft[p].hashed)
       /\ Len(draft[p].hashed) <= NCases
       /\ \A i \in 1..Len(draft[p].hashed) :
            draft[p].hashed[i] = IF i <= Len(draft[p].seen) THEN draft[p].seen[i] ELSE corpus[i]
  /\ pc[p] = "hashing" => draft[p].seen = << >>
  /\ pc[p] = "observing" => /\ draft[p].screenedUnder = {rules}
                            /\ Len(draft[p].hashed) = NCases
  /\ pc[p] \in {"gating", "writing", "opened", "written"} => Vouched(draft[p])

ReadOnce ==
  /\ \A p \in Freezers : Running(p) => ReadsAgree(p)
  /\ final["manifest"] # NoFile => Vouched(final["manifest"])

VInv == IInv /\ (~overlapped /\ ~editedBetweenReads => ReadOnce)

(* The reads of the one invocation under way.                              *)
LEMMA ReadingAgrees ==
  ASSUME TypeOK, NEW p \in Freezers, Running(p) => ReadsAgree(p),
         \/ Start(p) \/ HashCase(p) \/ LoadRules(p) \/ ObserveCase(p)
         \/ FinishManifest(p) \/ PassGate(p)
  PROVE  ReadsAgree(p)'
<1> USE FreezeConstants
<1>1. draft[p] \in Drafts /\ draft[p].hashed \in Seq(CaseVersions)
      /\ draft[p].seen \in Seq(CaseVersions)
  BY DEF TypeOK, Drafts
<1>2. CASE Start(p)
  BY <1>2 DEF Start, Invoke, ReadsAgree, EmptyDraft, TypeOK
<1>3. CASE HashCase(p)
  <2> DEFINE h == draft[p].hashed
  <2>1. /\ pc[p] = "hashing" /\ pc' = pc /\ corpus' = corpus /\ rules' = rules
        /\ Len(h) + 1 \in 1..NCases /\ draft[p].seen = << >>
    BY <1>3 DEF HashCase, ReadsAgree, Running, inputs, Cases
  <2>2. draft'[p].hashed = Append(h, corpus[Len(h) + 1]) /\ draft'[p].seen = << >>
    BY <1>1, <1>3, <2>1 DEF HashCase, TypeOK, Drafts
  <2>3. \A i \in 1..Len(h) : h[i] = corpus[i]
    BY <2>1 DEF ReadsAgree, Running
  <2>4. \A i \in 1..(Len(h) + 1) : Append(h, corpus[Len(h) + 1])[i] = corpus[i]
    BY <1>1, <2>3
  <2>5. Len(Append(h, corpus[Len(h) + 1])) = Len(h) + 1
    BY <1>1
  <2> HIDE DEF h
  <2>6. QED
    BY <1>1, <2>1, <2>2, <2>4, <2>5 DEF ReadsAgree
<1>4. CASE LoadRules(p)
  <2>1. /\ pc[p] = "hashing" /\ pc'[p] = "observing" /\ corpus' = corpus /\ rules' = rules
        /\ Len(draft[p].hashed) = NCases
    BY <1>4 DEF LoadRules, inputs, TypeOK
  <2>2. /\ draft'[p].hashed = draft[p].hashed /\ draft'[p].seen = draft[p].seen
        /\ draft'[p].screenedUnder = {rules}
    BY <1>1, <1>4 DEF LoadRules, TypeOK, Drafts
  <2>3. QED
    BY <2>1, <2>2 DEF ReadsAgree, Running
<1>5. CASE ObserveCase(p)
  <2> DEFINE h == draft[p].hashed
             s == draft[p].seen
  <2>1. /\ pc[p] = "observing" /\ pc' = pc /\ corpus' = corpus /\ rules' = rules
        /\ Len(s) + 1 \in 1..NCases /\ Len(h) = NCases
        /\ draft[p].screenedUnder = {rules}
    BY <1>5 DEF ObserveCase, ReadsAgree, Running, inputs, Cases
  <2>2. /\ draft'[p].seen = Append(s, corpus[Len(s) + 1]) /\ draft'[p].hashed = h
        /\ draft'[p].screenedUnder = {rules}
    BY <1>1, <1>5, <2>1 DEF ObserveCase, TypeOK, Drafts
  <2>3. \A i \in 1..Len(h) : h[i] = IF i <= Len(s) THEN s[i] ELSE corpus[i]
    BY <2>1 DEF ReadsAgree, Running
  <2>4. Len(Append(s, corpus[Len(s) + 1])) = Len(s) + 1
    BY <1>1
  <2>5. \A i \in 1..Len(h) : h[i] = IF i <= Len(s) + 1 THEN Append(s, corpus[Len(s) + 1])[i]
                                                      ELSE corpus[i]
    BY <1>1, <2>1, <2>3
  <2> HIDE DEF h, s
  <2>6. Len(s) \in Nat
    BY <1>1 DEF s
  <2>7. QED
    BY <2>1, <2>2, <2>4, <2>5, <2>6 DEF ReadsAgree
<1>6. CASE FinishManifest(p)
  <2>1. /\ pc[p] = "observing" /\ pc'[p] = "gating" /\ tool' = tool
        /\ Len(draft[p].seen) = NCases /\ Len(draft[p].hashed) = NCases
        /\ draft[p].screenedUnder = {rules}
    BY <1>6 DEF FinishManifest, ReadsAgree, Running, TypeOK
  <2>2. draft[p].hashed = draft[p].seen
    <3>1. \A i \in 1..NCases : draft[p].hashed[i] = draft[p].seen[i]
      BY <2>1 DEF ReadsAgree, Running
    <3>2. QED
      BY <1>1, <2>1, <3>1
  <2>3. /\ draft'[p].hashed = draft[p].hashed /\ draft'[p].seen = draft[p].seen
        /\ draft'[p].screenedUnder = draft[p].screenedUnder
        /\ tool = "freeze_redteam" => draft'[p].pinned = {rules}
    BY <1>1, <1>6 DEF FinishManifest, TypeOK, Drafts
  <2>4. Vouched(draft[p])'
    BY <2>1, <2>2, <2>3 DEF Vouched
  <2>5. QED
    BY <2>1, <2>4 DEF ReadsAgree
<1>7. CASE PassGate(p)
  BY <1>7 DEF PassGate, ReadsAgree, Vouched, Running, TypeOK
<1>8. QED
  BY <1>2, <1>3, <1>4, <1>5, <1>6, <1>7

(* An edit that hits no fixture or rules between their two reads.          *)
LEMMA EditsElsewhereAgree ==
  ASSUME TypeOK, NEW p \in Freezers, ReadsAgree(p),
         \/ \E i \in Cases, v \in CaseVersions : EditCase(i, v)
         \/ \E r \in RuleVersions : ChangeRules(r),
         \A i \in Cases : BetweenReadsOfCase(p, i) => corpus'[i] = corpus[i],
         BetweenReadsOfRules(p) => rules' = rules
  PROVE  ReadsAgree(p)'
<1> USE FreezeConstants
<1>1. pc' = pc /\ draft' = draft /\ tool' = tool
  BY DEF EditCase, ChangeRules, disk
<1>2. Vouched(draft[p]) => Vouched(draft[p])'
  BY <1>1 DEF Vouched
<1>3. /\ Len(draft[p].hashed) \in Nat /\ Len(draft[p].seen) \in Nat
  BY DEF TypeOK, Drafts
<1>4. CASE pc[p] \in {"hashing", "observing"}
  <2>1. ASSUME NEW i \in 1..Len(draft[p].hashed)
        PROVE  draft[p].hashed[i] = IF i <= Len(draft[p].seen) THEN draft[p].seen[i]
                                                               ELSE corpus'[i]
    <3>1. i \in Cases /\ Len(draft[p].hashed) >= i
      BY <1>3, <1>4 DEF ReadsAgree, Cases
    <3>2. CASE i <= Len(draft[p].seen)
      BY <1>4, <3>2 DEF ReadsAgree
    <3>3. CASE ~(i <= Len(draft[p].seen))
      <4>1. corpus'[i] = corpus[i]
        BY <1>3, <1>4, <3>1, <3>3 DEF BetweenReadsOfCase
      <4>2. QED
        BY <1>4, <3>3, <4>1 DEF ReadsAgree
    <3>4. QED
      BY <3>2, <3>3
  <2>2. pc[p] = "observing" => rules' = rules
    BY DEF BetweenReadsOfRules
  <2>3. QED
    BY <1>1, <1>4, <2>1, <2>2 DEF ReadsAgree
<1>5. CASE pc[p] \notin {"hashing", "observing"}
  BY <1>1, <1>2, <1>5 DEF ReadsAgree
<1>6. QED
  BY <1>4, <1>5

(* ReadOnce is kept while no input is edited between its two reads.        *)
LEMMA ReadOnceIsKept ==
  ASSUME IInv, ReadOnce, MCNext, ~overlapped', ~editedBetweenReads'
  PROVE  ReadOnce'
<1>1. TypeOK /\ Serial /\ Next /\ Alone'
  BY DEF IInv, MCNext, Alone
<1>2. ASSUME NEW p \in Freezers,
             \/ Start(p) \/ HashCase(p) \/ LoadRules(p) \/ ObserveCase(p)
             \/ FinishManifest(p) \/ PassGate(p)
      PROVE  ReadOnce'
  <2>1. final' = final /\ tool' = tool /\ Running(p)'
    BY <1>1, <1>2 DEF Start, Invoke, HashCase, LoadRules, ObserveCase, FinishManifest,
                      PassGate, disk, Running, TypeOK
  <2>2. ReadsAgree(p)'
    BY <1>1, <1>2, ReadingAgrees DEF ReadOnce
  <2>3. \A q \in Freezers : Running(q)' => q = p
    BY <1>1, <2>1 DEF Alone
  <2>4. QED
    BY <2>1, <2>2, <2>3 DEF ReadOnce, Vouched
<1>3. ASSUME NEW p \in Freezers, OpenTmp(p) \/ WriteTmp(p) \/ Replace(p)
      PROVE  ReadOnce'
  <2>1. /\ draft' = draft /\ tool' = tool /\ Running(p)
        /\ pc[p] \in {"writing", "opened", "written"}
        /\ pc'[p] \in {"idle", "writing", "opened", "written"}
    BY <1>1, <1>3 DEF OpenTmp, WriteTmp, Replace, Running, inputs, TypeOK
  <2>2. Vouched(draft[p])
    BY <2>1 DEF ReadOnce, ReadsAgree
  <2>3. ReadsAgree(p)'
    BY <2>1, <2>2 DEF ReadsAgree, Vouched
  <2>4. \A q \in Freezers : Running(q)' => q = p
    BY <1>1, <1>3, <2>1 DEF OpenTmp, WriteTmp, Replace, Running, Serial, Alone, TypeOK
  <2>5. final'["manifest"] \in {final["manifest"], draft[p]}
    <3>1. CASE OpenTmp(p)
      BY <3>1 DEF OpenTmp
    <3>2. CASE WriteTmp(p)
      BY <1>1, <2>1, <3>2 DEF WriteTmp, Serial, InGoodOrder
    <3>3. CASE Replace(p)
      <4>1. final' = [final EXCEPT ![Pin(p)] = draft[p]]
        BY <1>1, <2>1, <3>3 DEF Replace, Serial, InGoodOrder
      <4>2. QED
        BY <1>1, <4>1 DEF TypeOK, PinFiles
    <3>4. QED
      BY <1>3, <3>1, <3>2, <3>3
  <2>6. final'["manifest"] # NoFile => Vouched(final["manifest"])'
    BY <2>1, <2>2, <2>5 DEF ReadOnce, Vouched
  <2>7. QED
    BY <2>3, <2>4, <2>6 DEF ReadOnce
<1>4. ASSUME NEW p \in Freezers,
             RefuseFrozen(p) \/ RefuseGate(p) \/ ReplaceFails(p) \/ Fail(p)
      PROVE  ReadOnce'
  <2>1. /\ final' = final /\ tool' = tool /\ draft' = draft /\ corpus' = corpus /\ rules' = rules
        /\ \A q \in Freezers : Running(q)' => pc'[q] = pc[q] /\ Running(q)
    BY <1>1, <1>4 DEF RefuseFrozen, Invoke, RefuseGate, ReplaceFails, Fail, disk, inputs,
                      Running, TypeOK
  <2>2. QED
    BY <2>1 DEF ReadOnce, ReadsAgree, Vouched
<1>5. ASSUME \/ \E i \in Cases, v \in CaseVersions : EditCase(i, v)
             \/ \E r \in RuleVersions : ChangeRules(r)
      PROVE  ReadOnce'
  <2>1. final' = final /\ tool' = tool /\ pc' = pc
    BY <1>5 DEF EditCase, ChangeRules, disk
  <2>2. ASSUME NEW p \in Freezers
        PROVE  /\ \A i \in Cases : BetweenReadsOfCase(p, i) => corpus'[i] = corpus[i]
               /\ BetweenReadsOfRules(p) => rules' = rules
    BY DEF MCNext
  <2>3. ASSUME NEW p \in Freezers, Running(p)'
        PROVE  ReadsAgree(p)'
    <3>1. ReadsAgree(p)
      BY <2>1, <2>3 DEF ReadOnce, Running
    <3>2. QED
      BY <1>1, <1>5, <2>2, <3>1, EditsElsewhereAgree
  <2>4. QED
    BY <2>1, <2>3 DEF ReadOnce, Vouched
<1>6. QED
  BY <1>1, <1>2, <1>3, <1>4, <1>5 DEF Next, Freeze

(* The invariant with what was read holds at the start and is kept.        *)
LEMMA VInductive ==
  /\ MCInit => VInv
  /\ VInv /\ [MCNext]_MCvars => VInv'
<1>1. MCInit => ReadOnce
  BY DEF MCInit, Init, ReadOnce, Running, PinFiles
<1>2. ASSUME VInv, MCNext
      PROVE  ~overlapped' /\ ~editedBetweenReads' => ReadOnce'
  BY <1>2, ReadOnceIsKept DEF VInv, MCNext
<1>3. ASSUME VInv, UNCHANGED MCvars
      PROVE  ~overlapped' /\ ~editedBetweenReads' => ReadOnce'
  BY <1>3 DEF VInv, ReadOnce, ReadsAgree, Vouched, Running, MCvars, vars, disk
<1>4. QED
  BY <1>1, <1>2, <1>3, Inductive DEF VInv

(* When the live corpus and the live rules agree with a red-team manifest  *)
(* (validate_frozen_contract), every case passes the gate as it is now,    *)
(* under the rules as they are now, for any edits and crashes, while no    *)
(* two invocations ran at once and no input was edited between the two     *)
(* reads a freeze makes of it.                                             *)
THEOREM ContractMeansBlind == MCSpec => []ValidatedIsBlind
<1>1. ASSUME VInv
      PROVE  ValidatedIsBlind
  <2> DEFINE m == final["manifest"]
  <2>1. SUFFICES ASSUME ~overlapped, ~editedBetweenReads, tool = "freeze_redteam",
                        FrozenContractHolds(m), NEW i \in Cases
                 PROVE  <<corpus[i], rules>> \in Admissible
    BY DEF ValidatedIsBlind
  <2>2. Vouched(m)
    BY <1>1, <2>1 DEF VInv, ReadOnce, FrozenContractHolds
  <2>3. m.seen[i] = corpus[i] /\ m.screenedUnder = {rules}
    BY <2>1, <2>2 DEF Vouched, FrozenContractHolds
  <2>4. QED
    BY <2>1, <2>3 DEF FrozenContractHolds, Admitted
<1>2. QED
  BY <1>1, VInductive, PTL DEF MCSpec

(* Every variable of a freeze keeps its type.                              *)
THEOREM TypeCorrect == MCSpec => []TypeOK
<1>1. IInv => TypeOK
  BY DEF IInv
<1>2. QED
  BY <1>1, Inductive, PTL DEF MCSpec

(***************************************************************************)
(* The report.                                                             *)
(***************************************************************************)


Reporters ==
  [ step : {"idle", "verifying", "screening", "publishing", "truncated"},
    manifest : Drafts, checked : Seq(CaseVersions), rules : SUBSET RuleVersions,
    with : Seq(CaseVersions), without : Seq(CaseVersions), touched : SUBSET Cases,
    written : 0..1, whole : BOOLEAN ]

(* Case i of a report in the making or made: verified, and screened as     *)
(* verified, unless it was touched.                                        *)
ReadAsVerified(d) ==
  \A i \in Cases \ d.touched :
    /\ i \in 1..Len(d.with) => d.with[i] = d.checked[i]
    /\ i \in 1..Len(d.without) => d.without[i] = d.checked[i]

LiveAsVerified ==
  \A i \in Cases \ reporter.touched :
    BetweenReads(i) => reporter.checked[i] = corpus[i]

(* A manifest the gate let pass.                                           *)
Passed(m) == m.whole => Admitted(m)

HasMatched(d) ==
  /\ Len(d.checked) = NCases /\ d.checked = d.manifest.hashed /\ d.manifest.whole
  /\ \E r \in RuleVersions : d.rules = {r}

HasScreened(d) == Len(d.with) = NCases /\ Len(d.without) = NCases

Finished(d) ==
  d \in Reporters /\ HasMatched(d) /\ HasScreened(d) /\ ReadAsVerified(d) /\ Passed(d.manifest)

(* Where the reporter stands.                                              *)
Progress ==
  /\ reporter \in Reporters
  /\ ReadAsVerified(reporter) /\ LiveAsVerified /\ Passed(reporter.manifest)
  /\ Len(reporter.checked) <= NCases
  /\ Len(reporter.with) <= NCases /\ Len(reporter.without) <= NCases
  /\ Len(reporter.with) > 0 => Len(reporter.checked) = NCases
  /\ Len(reporter.without) > 0 => Len(reporter.with) = NCases
  /\ reporter.step \in {"screening", "publishing", "truncated"} => HasMatched(reporter)
  /\ reporter.step = "verifying" =>
       /\ Len(reporter.with) = 0 /\ Len(reporter.without) = 0
       /\ reporter.manifest.whole
  /\ reporter.step \in {"publishing", "truncated"} => HasScreened(reporter)

(* Whatever writes it, and however many at once: a whole text passed the   *)
(* gate.                                                                   *)
GatePassed ==
  /\ \A p \in Freezers : pc[p] \in {"writing", "opened", "written"} => Admitted(draft[p])
  /\ \A f \in PinFiles : /\ tmp[f] # NoFile => Passed(tmp[f])
                         /\ final[f] # NoFile => Passed(final[f])

Artifacts ==
  /\ artifact \in [{"json", "md"} -> Reporters \cup {NoFile}]
  /\ \A d \in Published : Finished(d)

RInv == IInv /\ GatePassed /\ Progress /\ Artifacts

-----------------------------------------------------------------------------
(* What the freeze leaves on disk                                          *)

(* What is written over a text that passed, passed: texts mix their hashes *)
(* only.                                                                   *)
LEMMA WrittenPassed ==
  ASSUME TypeOK, GatePassed, NEW p \in Freezers, pc[p] = "opened",
         NEW old \in Drafts, Passed(old), NEW text \in Written(p, old)
  PROVE  Passed(text)
<1>1. \A a \in Texts(p, old) : a \in Drafts /\ Admitted(a)
  BY DEF Texts, Sharers, GatePassed, Passed, TypeOK
<1>2. \A a \in Texts(p, old), b \in Texts(p, old) : Admitted(Mixed(a, b))
  <2>1. SUFFICES ASSUME NEW a \in Texts(p, old), NEW b \in Texts(p, old)
                 PROVE  Admitted(Mixed(a, b))
    OBVIOUS
  <2>2. Mixed(a, b).seen = a.seen /\ Mixed(a, b).screenedUnder = a.screenedUnder
    BY <1>1 DEF Mixed, Drafts
  <2>3. QED
    BY <1>1, <2>2 DEF Admitted
<1>3. CASE text = draft[p]
  BY <1>1, <1>3 DEF Texts, Passed
<1>4. CASE text = Torn
  BY <1>4, EmptyIsADraft DEF Passed
<1>5. CASE text # draft[p] /\ text # Torn
  <2>1. text \in {Mixed(a, b) : a \in Texts(p, old), b \in Texts(p, old)}
    BY <1>5 DEF Written
  <2>2. PICK a \in Texts(p, old), b \in Texts(p, old) : text = Mixed(a, b)
    BY <2>1
  <2>3. QED
    BY <1>2, <2>2 DEF Passed
<1>6. QED
  BY <1>3, <1>4, <1>5

(* Nobody but the gate lets an invocation through to writing.              *)
LEMMA GateIsPassed ==
  ASSUME TypeOK, OpenOnFiles, GatePassed, Next
  PROVE  GatePassed'
<1>1. ASSUME NEW p \in Freezers,
             \/ Start(p) \/ RefuseFrozen(p) \/ HashCase(p) \/ LoadRules(p)
             \/ ObserveCase(p) \/ FinishManifest(p)
      PROVE  GatePassed'
  <2>1. UNCHANGED <<tmp, final>>
    BY <1>1 DEF Start, RefuseFrozen, HashCase, LoadRules, ObserveCase, FinishManifest, disk
  <2>2. \A q \in Freezers : pc'[q] \in {"writing", "opened", "written"} =>
          pc[q] \in {"writing", "opened", "written"} /\ draft'[q] = draft[q]
    BY <1>1 DEF Start, RefuseFrozen, Invoke, HashCase, LoadRules, ObserveCase,
                FinishManifest, TypeOK
  <2>3. QED
    BY <2>1, <2>2 DEF GatePassed, Admitted, Passed
<1>2. ASSUME NEW p \in Freezers,
             PassGate(p) \/ RefuseGate(p) \/ ReplaceFails(p) \/ Fail(p)
      PROVE  GatePassed'
  BY <1>2 DEF PassGate, RefuseGate, ReplaceFails, Fail, disk, GatePassed, Admitted, Passed, TypeOK
<1>3. ASSUME NEW p \in Freezers, OpenTmp(p)
      PROVE  GatePassed'
  <2>1. Passed(Torn)
    BY EmptyIsADraft DEF Passed
  <2>2. \A q \in Freezers : pc'[q] \in {"writing", "opened", "written"} =>
          pc[q] \in {"writing", "opened", "written"} /\ draft'[q] = draft[q]
    BY <1>3 DEF OpenTmp, TypeOK
  <2>3. \A f \in PinFiles : final'[f] = final[f] /\ tmp'[f] \in {tmp[f], Torn}
    BY <1>3 DEF OpenTmp, TypeOK
  <2>4. QED
    BY <2>1, <2>2, <2>3 DEF GatePassed, Admitted, Passed
<1>4. ASSUME NEW p \in Freezers, WriteTmp(p)
      PROVE  GatePassed'
  <2>1. Pin(p) \in PinFiles /\ pc[p] = "opened"
    BY <1>4, PinIsAFile DEF WriteTmp, Running
  <2>2. \A q \in Freezers : pc'[q] \in {"writing", "opened", "written"} =>
          pc[q] \in {"writing", "opened", "written"} /\ draft'[q] = draft[q]
    BY <1>4 DEF WriteTmp, TypeOK
  <2>3. \A f \in PinFiles : tmp'[f] # NoFile => Passed(tmp'[f])
    <3>1. CASE handle[p] = "tmp"
      <4>1. tmp[Pin(p)] \in Drafts /\ Passed(tmp[Pin(p)])
        BY <2>1, <3>1 DEF OpenOnFiles, TypeOK, GatePassed
      <4>2. PICK text \in Written(p, tmp[Pin(p)]) : tmp' = [tmp EXCEPT ![Pin(p)] = text]
        BY <1>4, <3>1 DEF WriteTmp
      <4>3. Passed(text)
        BY <2>1, <4>1, WrittenPassed
      <4>4. QED
        BY <4>2, <4>3 DEF GatePassed, TypeOK
    <3>2. QED
      BY <1>4, <3>1 DEF WriteTmp, GatePassed
  <2>4. \A f \in PinFiles : final'[f] # NoFile => Passed(final'[f])
    <3>1. CASE handle[p] = "final"
      <4>1. final[Pin(p)] \in Drafts /\ Passed(final[Pin(p)])
        BY <2>1, <3>1 DEF OpenOnFiles, TypeOK, GatePassed
      <4>2. PICK text \in Written(p, final[Pin(p)]) : final' = [final EXCEPT ![Pin(p)] = text]
        BY <1>4, <3>1 DEF WriteTmp
      <4>3. Passed(text)
        BY <2>1, <4>1, WrittenPassed
      <4>4. QED
        BY <4>2, <4>3 DEF GatePassed, TypeOK
    <3>2. QED
      BY <1>4, <3>1 DEF WriteTmp, GatePassed
  <2>5. QED
    BY <2>2, <2>3, <2>4 DEF GatePassed, Admitted, Passed
<1>5. ASSUME NEW p \in Freezers, Replace(p)
      PROVE  GatePassed'
  <2>1. Pin(p) \in PinFiles
    BY <1>5, PinIsAFile DEF Replace, Running
  <2>2. \A q \in Freezers : pc'[q] \in {"writing", "opened", "written"} =>
          pc[q] \in {"writing", "opened", "written"} /\ draft'[q] = draft[q]
    BY <1>5 DEF Replace, TypeOK
  <2>3. \A f \in PinFiles : /\ tmp'[f] \in {tmp[f], NoFile}
                            /\ final'[f] = final[f] \/ (tmp[f] # NoFile /\ final'[f] = tmp[f])
    BY <1>5, <2>1 DEF Replace, TypeOK
  <2>4. QED
    BY <2>2, <2>3 DEF GatePassed, Admitted, Passed
<1>6. ASSUME \/ \E i \in Cases, v \in CaseVersions : EditCase(i, v)
             \/ \E r \in RuleVersions : ChangeRules(r)
      PROVE  GatePassed'
  BY <1>6 DEF EditCase, ChangeRules, disk, GatePassed, Admitted, Passed
<1>7. QED
  BY <1>1, <1>2, <1>3, <1>4, <1>5, <1>6 DEF Next, Freeze

-----------------------------------------------------------------------------
(* What the reporter knows                                                 *)

LEMMA IdleIsAReporter ==
  /\ Idle \in Reporters /\ TornReport \in Reporters /\ Passed(Idle.manifest)
  /\ Len(Idle.checked) = 0 /\ Len(Idle.with) = 0 /\ Len(Idle.without) = 0
  /\ Idle.step = "idle" /\ Idle.touched = {}
<1>1. <<>> \in Seq(CaseVersions)
  OBVIOUS
<1>2. Idle \in Reporters
  BY <1>1, EmptyIsADraft DEF Idle, Reporters
<1>3. TornReport \in Reporters
  BY <1>2 DEF TornReport, Reporters
<1>4. QED
  BY <1>2, <1>3 DEF Idle, EmptyDraft, Passed, Admitted

(* The reporter that has nothing under way knows nothing.                  *)
LEMMA IdleIsProgress ==
  ASSUME reporter' = Idle
  PROVE  Progress'
<1> USE FreezeConstants, IdleIsAReporter
<1>1. ReadAsVerified(Idle)
  BY DEF ReadAsVerified
<1>2. LiveAsVerified'
  BY DEF LiveAsVerified, BetweenReads
<1>3. Passed(reporter.manifest)'
  BY DEF Passed, Admitted
<1>4. QED
  BY <1>1, <1>2, <1>3 DEF Progress, ReadAsVerified

(* What others do meanwhile is noticed where it matters.                   *)
LEMMA OthersAreNoticed ==
  ASSUME TypeOK, TypeOK', Progress, Notice
  PROVE  Progress'
<1>1. /\ reporter' \in Reporters
      /\ reporter'.touched = reporter.touched
           \cup {i \in Cases : BetweenReads(i) /\ corpus'[i] # corpus[i]}
      /\ reporter'.step = reporter.step /\ reporter'.manifest = reporter.manifest
      /\ reporter'.checked = reporter.checked /\ reporter'.rules = reporter.rules
      /\ reporter'.with = reporter.with /\ reporter'.without = reporter.without
  BY DEF Notice, Progress, Reporters
<1>2. ReadAsVerified(reporter)'
  BY <1>1 DEF Progress, ReadAsVerified
<1>3. LiveAsVerified'
  BY <1>1 DEF Progress, LiveAsVerified, BetweenReads
<1>4. Passed(reporter.manifest)'
  BY <1>1 DEF Progress, Passed, Admitted
<1>5. QED
  BY <1>1, <1>2, <1>3, <1>4 DEF Progress, HasMatched, HasScreened

(* A sequence and one more.                                                *)
LEMMA OneMore ==
  ASSUME NEW s \in Seq(CaseVersions), NEW v \in CaseVersions
  PROVE  /\ Append(s, v) \in Seq(CaseVersions)
         /\ Len(Append(s, v)) = Len(s) + 1
         /\ Len(s) \in Nat
         /\ Append(s, v)[Len(s) + 1] = v
         /\ \A i \in 1..Len(s) : Append(s, v)[i] = s[i]
  OBVIOUS

(* Verification reads what is there.                                       *)
LEMMA VerifyingIsProgress ==
  ASSUME TypeOK, Progress, GatePassed, LoadManifest \/ VerifyCase \/ Verified
  PROVE  Progress'
<1> USE FreezeConstants
<1>1. CASE LoadManifest
  <2>1. final["manifest"] \in Drafts /\ Passed(final["manifest"])
    BY <1>1 DEF LoadManifest, Pinned, TypeOK, GatePassed, PinFiles
  <2>2. /\ reporter' \in Reporters /\ reporter'.manifest = final["manifest"]
        /\ reporter'.step = "verifying" /\ reporter'.touched = {} /\ final["manifest"].whole
        /\ Len(reporter'.checked) = 0 /\ Len(reporter'.with) = 0 /\ Len(reporter'.without) = 0
    BY <1>1, <2>1, IdleIsAReporter DEF LoadManifest, Pinned, Reporters, Idle
  <2>3. QED
    BY <2>1, <2>2 DEF Progress, ReadAsVerified, LiveAsVerified, BetweenReads, Passed, Admitted
<1>2. CASE VerifyCase
  <2> DEFINE n == Len(reporter.checked) + 1
  <2>1. n \in Cases /\ corpus[n] \in CaseVersions /\ corpus' = corpus
    BY <1>2 DEF VerifyCase, TypeOK, vars
  <2>2. reporter.checked \in Seq(CaseVersions) /\ reporter \in Reporters
    BY DEF Progress, Reporters
  <2>3. /\ Append(reporter.checked, corpus[n]) \in Seq(CaseVersions)
        /\ Len(Append(reporter.checked, corpus[n])) = n
        /\ Append(reporter.checked, corpus[n])[n] = corpus[n]
        /\ \A i \in 1..Len(reporter.checked) :
             Append(reporter.checked, corpus[n])[i] = reporter.checked[i]
        /\ Len(reporter.checked) \in Nat
    BY <2>1, <2>2, OneMore
  <2>4. /\ reporter' \in Reporters
        /\ reporter'.checked = Append(reporter.checked, corpus[n])
        /\ reporter'.step = "verifying" /\ reporter'.manifest = reporter.manifest
        /\ reporter'.with = reporter.with /\ reporter'.without = reporter.without
        /\ reporter'.touched = reporter.touched
    BY <1>2, <2>2, <2>3 DEF VerifyCase, Reporters
  <2>5. Len(reporter.with) = 0 /\ Len(reporter.without) = 0 /\ reporter.manifest.whole
    BY <1>2 DEF VerifyCase, Progress
  <2>6. LiveAsVerified'
    BY <2>1, <2>3, <2>4, <2>5 DEF Progress, LiveAsVerified, BetweenReads, Cases
  <2>7. ReadAsVerified(reporter)'
    BY <2>4, <2>5 DEF ReadAsVerified
  <2>8. Len(reporter'.checked) <= NCases
    BY <2>1, <2>3, <2>4 DEF Cases
  <2>9. QED
    BY <2>4, <2>5, <2>6, <2>7, <2>8 DEF Progress, Passed, Admitted
<1>3. CASE Verified
  <2>1. reporter \in Reporters /\ rules \in RuleVersions
    BY DEF Progress, TypeOK
  <2>2. /\ reporter' \in Reporters /\ corpus' = corpus
        /\ reporter'.step = "screening" /\ reporter'.rules = {rules}
        /\ reporter'.checked = reporter.checked /\ reporter'.manifest = reporter.manifest
        /\ reporter'.with = reporter.with /\ reporter'.without = reporter.without
        /\ reporter'.touched = reporter.touched
    BY <1>3, <2>1 DEF Verified, Reporters, vars
  <2>3. reporter.manifest.whole
    BY <1>3 DEF Verified, Progress
  <2>4. QED
    BY <1>3, <2>1, <2>2, <2>3 DEF Verified, MatchesManifest, Progress, HasMatched,
       ReadAsVerified, LiveAsVerified, BetweenReads, Passed, Admitted
<1>4. QED
  BY <1>1, <1>2, <1>3

(* The passes read what was verified, or what was touched since.           *)
LEMMA ScreeningIsProgress ==
  ASSUME TypeOK, Progress, ScreenWith \/ ScreenWithout
  PROVE  Progress'
<1> USE FreezeConstants
<1> DEFINE r == reporter
<1>1. /\ r \in Reporters /\ r.checked \in Seq(CaseVersions)
      /\ r.with \in Seq(CaseVersions) /\ r.without \in Seq(CaseVersions)
  BY DEF Progress, Reporters
<1>2. HasMatched(r) /\ corpus' = corpus /\ r.step = "screening" /\ Len(r.checked) = NCases
  BY DEF ScreenWith, ScreenWithout, Progress, HasMatched, vars
<1>3. CASE ScreenWith
  <2> DEFINE n == Len(r.with) + 1
  <2>1. n \in Cases /\ corpus[n] \in CaseVersions
    BY <1>3 DEF ScreenWith, TypeOK
  <2>2. /\ Append(r.with, corpus[n]) \in Seq(CaseVersions)
        /\ Len(Append(r.with, corpus[n])) = n
        /\ Append(r.with, corpus[n])[n] = corpus[n]
        /\ \A i \in 1..Len(r.with) : Append(r.with, corpus[n])[i] = r.with[i]
        /\ Len(r.with) \in Nat
    BY <1>1, <2>1, OneMore
  <2>3. /\ reporter' \in Reporters /\ reporter'.with = Append(r.with, corpus[n])
        /\ reporter'.step = "screening" /\ reporter'.manifest = r.manifest
        /\ reporter'.checked = r.checked /\ reporter'.without = r.without
        /\ reporter'.touched = r.touched /\ reporter'.rules = r.rules
    BY <1>1, <1>2, <1>3, <2>2 DEF ScreenWith, Reporters
  <2>4. Len(r.without) = 0
    <3>1. Len(r.without) \in Nat
      BY <1>1
    <3>2. Len(r.with) # NCases
      BY <2>1, <2>2 DEF Cases
    <3>3. QED
      BY <3>1, <3>2 DEF Progress
  <2>5. n \in Cases \ r.touched => corpus[n] = r.checked[n]
    BY <1>2, <2>1, <2>4 DEF Progress, LiveAsVerified, BetweenReads, Cases
  <2>6. ReadAsVerified(reporter)'
    <3>1. ReadAsVerified(reporter')
      <4>1. SUFFICES ASSUME NEW i \in Cases \ r.touched
                     PROVE  i \in 1..n => reporter'.with[i] = r.checked[i]
        BY <2>2, <2>3, <2>4 DEF ReadAsVerified
      <4>2. CASE i = n
        BY <2>2, <2>3, <2>5, <4>2
      <4>3. CASE i \in 1..Len(r.with)
        BY <2>2, <2>3, <4>3 DEF Progress, ReadAsVerified
      <4>4. QED
        BY <2>2, <4>2, <4>3
    <3>2. QED
      BY <3>1 DEF ReadAsVerified
  <2>7. LiveAsVerified'
    BY <1>2, <2>3 DEF Progress, LiveAsVerified, BetweenReads
  <2>8. Len(reporter'.with) <= NCases
    BY <2>1, <2>2, <2>3 DEF Cases
  <2>9. QED
    BY <1>2, <2>3, <2>4, <2>6, <2>7, <2>8 DEF Progress, HasMatched, Passed, Admitted
<1>4. CASE ScreenWithout
  <2> DEFINE n == Len(r.without) + 1
  <2>1. n \in Cases /\ corpus[n] \in CaseVersions /\ Len(r.with) = NCases
    BY <1>4 DEF ScreenWithout, TypeOK
  <2>2. /\ Append(r.without, corpus[n]) \in Seq(CaseVersions)
        /\ Len(Append(r.without, corpus[n])) = n
        /\ Append(r.without, corpus[n])[n] = corpus[n]
        /\ \A i \in 1..Len(r.without) : Append(r.without, corpus[n])[i] = r.without[i]
        /\ Len(r.without) \in Nat
    BY <1>1, <2>1, OneMore
  <2>3. /\ reporter' \in Reporters /\ reporter'.without = Append(r.without, corpus[n])
        /\ reporter'.step = (IF n = NCases THEN "publishing" ELSE "screening")
        /\ reporter'.manifest = r.manifest
        /\ reporter'.checked = r.checked /\ reporter'.with = r.with
        /\ reporter'.touched = r.touched /\ reporter'.rules = r.rules
    BY <1>1, <1>2, <1>4, <2>2 DEF ScreenWithout, Reporters
  <2>4. n \in Cases \ r.touched => corpus[n] = r.checked[n]
    BY <1>2, <2>1, <2>2 DEF Progress, LiveAsVerified, BetweenReads, Cases
  <2>5. ReadAsVerified(reporter)'
    <3>1. ReadAsVerified(reporter')
      <4>1. SUFFICES ASSUME NEW i \in Cases \ r.touched
                     PROVE  i \in 1..n => reporter'.without[i] = r.checked[i]
        BY <2>2, <2>3 DEF ReadAsVerified, Progress
      <4>2. CASE i = n
        BY <2>2, <2>3, <2>4, <4>2
      <4>3. CASE i \in 1..Len(r.without)
        BY <2>2, <2>3, <4>3 DEF Progress, ReadAsVerified
      <4>4. QED
        BY <2>2, <4>2, <4>3
    <3>2. QED
      BY <3>1 DEF ReadAsVerified
  <2>6. LiveAsVerified'
    BY <1>2, <2>2, <2>3 DEF Progress, LiveAsVerified, BetweenReads
  <2>7. Len(reporter'.without) = n /\ n <= NCases
    BY <2>1, <2>2, <2>3 DEF Cases
  <2>8. QED
    BY <1>2, <2>1, <2>3, <2>5, <2>6, <2>7
       DEF Progress, HasMatched, HasScreened, Passed, Admitted
<1>5. QED
  BY <1>3, <1>4

(* What is written is a finished report, or the start of one.              *)
LEMMA PublishingIsProgress ==
  ASSUME TypeOK, Progress, Artifacts, Truncate \/ WriteText
  PROVE  Progress' /\ Artifacts'
<1> USE FreezeConstants
<1>1. reporter \in Reporters /\ Files[reporter.written + 1] \in {"json", "md"}
  BY DEF Progress, Reporters, Files
<1>2. Finished(reporter) /\ corpus' = corpus
  BY DEF Truncate, WriteText, Progress, Finished, vars
<1>3. CASE Truncate
  <2>1. /\ reporter' \in Reporters /\ reporter'.step = "truncated"
        /\ reporter'.manifest = reporter.manifest /\ reporter'.rules = reporter.rules
        /\ reporter'.checked = reporter.checked /\ reporter'.with = reporter.with
        /\ reporter'.without = reporter.without /\ reporter'.touched = reporter.touched
    BY <1>1, <1>3 DEF Truncate, Reporters
  <2>2. Progress'
    BY <1>2, <2>1 DEF Progress, Finished, HasMatched, HasScreened, Passed, Admitted,
                      ReadAsVerified, LiveAsVerified, BetweenReads
  <2>3. artifact' \in [{"json", "md"} -> Reporters \cup {NoFile}]
    BY <1>1, <1>3, IdleIsAReporter DEF Truncate, Artifacts
  <2>4. \A f \in {"json", "md"} : artifact'[f] \in {artifact[f], TornReport}
    BY <1>1, <1>3 DEF Truncate, Artifacts
  <2>5. \A d \in Published' : d \in Published
    BY <2>4 DEF Published
  <2>6. QED
    BY <2>2, <2>3, <2>5 DEF Artifacts
<1>4. CASE WriteText
  <2>1. Progress'
    <3>1. CASE reporter' = Idle
      BY <3>1, IdleIsProgress
    <3>2. CASE reporter' # Idle
      <4>1. reporter' = [reporter EXCEPT !.step = "publishing", !.written = 1]
        <5>1. reporter.written = 0
          BY <1>1, <1>4, <3>2 DEF WriteText, Files, Reporters
        <5>2. QED
          BY <1>4, <3>2, <5>1 DEF WriteText
      <4> DEFINE mid == [reporter EXCEPT !.step = "publishing"]
      <4>2. /\ mid \in Reporters /\ mid.step = "publishing"
            /\ mid.manifest = reporter.manifest /\ mid.rules = reporter.rules
            /\ mid.checked = reporter.checked /\ mid.with = reporter.with
            /\ mid.without = reporter.without /\ mid.touched = reporter.touched
        BY <1>1 DEF Reporters
      <4>3. reporter' = [mid EXCEPT !.written = 1]
        BY <4>1
      <4> HIDE DEF mid
      <4>4. /\ reporter' \in Reporters /\ reporter'.step = "publishing"
            /\ reporter'.manifest = reporter.manifest /\ reporter'.rules = reporter.rules
            /\ reporter'.checked = reporter.checked /\ reporter'.with = reporter.with
            /\ reporter'.without = reporter.without /\ reporter'.touched = reporter.touched
        BY <4>2, <4>3 DEF Reporters
      <4>5. QED
        BY <1>2, <4>4 DEF Progress, Finished, HasMatched, HasScreened, Passed, Admitted,
                          ReadAsVerified, LiveAsVerified, BetweenReads
    <3>3. QED
      BY <3>1, <3>2
  <2>2. artifact' \in [{"json", "md"} -> Reporters \cup {NoFile}]
    BY <1>1, <1>4 DEF WriteText, Artifacts
  <2>3. \A f \in {"json", "md"} : artifact'[f] \in {artifact[f], reporter}
    BY <1>1, <1>4 DEF WriteText, Artifacts
  <2>4. \A d \in Published' : d \in Published \/ d = reporter
    BY <2>3 DEF Published
  <2>5. QED
    BY <1>2, <2>1, <2>2, <2>4 DEF Artifacts
<1>5. QED
  BY <1>3, <1>4

LEMMA ReportInductive ==
  /\ MCReportInit => RInv
  /\ RInv /\ [MCReportNext]_<<MCvars, reportVars>> => RInv'
<1>1. ASSUME MCReportInit
      PROVE  RInv
  <2>1. IInv
    BY <1>1, Inductive DEF MCReportInit
  <2>2. GatePassed
    BY <1>1 DEF MCReportInit, MCInit, Init, GatePassed, PinFiles
  <2>3. Progress
    <3>1. reporter = Idle
      BY <1>1 DEF MCReportInit, ReportInit
    <3>2. ReadAsVerified(reporter) /\ LiveAsVerified
      BY <3>1, IdleIsAReporter DEF ReadAsVerified, LiveAsVerified, BetweenReads
    <3>3. Passed(reporter.manifest)
      BY <3>1, IdleIsAReporter
    <3>4. QED
      BY <3>1, <3>2, <3>3, IdleIsAReporter, FreezeConstants DEF Progress
  <2>4. Artifacts
    BY <1>1 DEF MCReportInit, ReportInit, Artifacts, Published
  <2>5. QED
    BY <2>1, <2>2, <2>3, <2>4 DEF RInv
<1>2. ASSUME RInv, MCNext, Notice
      PROVE  RInv'
  <2>1. IInv' /\ TypeOK /\ TypeOK' /\ OpenOnFiles /\ Next
    BY <1>2, Inductive DEF RInv, IInv, MCNext
  <2>2. GatePassed'
    BY <1>2, <2>1, GateIsPassed DEF RInv
  <2>3. Progress'
    BY <1>2, <2>1, OthersAreNoticed DEF RInv
  <2>4. Artifacts'
    BY <1>2 DEF RInv, Artifacts, Notice, Published
  <2>5. QED
    BY <2>1, <2>2, <2>3, <2>4 DEF RInv
<1>3. ASSUME RInv, Report, UNCHANGED MCvars
      PROVE  RInv'
  <2>1. IInv' /\ TypeOK
    BY <1>3, Inductive DEF RInv, IInv
  <2>2. GatePassed'
    BY <1>3 DEF RInv, GatePassed, MCvars, vars, disk, Passed, Admitted
  <2>3. CASE LoadManifest \/ VerifyCase \/ Verified
    <3>1. Progress'
      BY <1>3, <2>1, <2>3, VerifyingIsProgress DEF RInv
    <3>2. artifact' = artifact
      BY <2>3 DEF LoadManifest, VerifyCase, Verified
    <3>3. QED
      BY <1>3, <2>1, <2>2, <3>1, <3>2 DEF RInv, Artifacts, Published
  <2>4. CASE ScreenWith \/ ScreenWithout
    <3>1. Progress'
      BY <1>3, <2>1, <2>4, ScreeningIsProgress DEF RInv
    <3>2. artifact' = artifact
      BY <2>4 DEF ScreenWith, ScreenWithout
    <3>3. QED
      BY <1>3, <2>1, <2>2, <3>1, <3>2 DEF RInv, Artifacts, Published
  <2>5. CASE Truncate \/ WriteText
    BY <1>3, <2>1, <2>2, <2>5, PublishingIsProgress DEF RInv
  <2>6. CASE RefuseDrift \/ ReporterFails
    <3>1. reporter' = Idle /\ artifact' = artifact
      BY <2>6 DEF RefuseDrift, ReporterFails
    <3>2. QED
      BY <1>3, <2>1, <2>2, <3>1, IdleIsProgress DEF RInv, Artifacts, Published
  <2>7. CASE NothingPinned
    <3>1. UNCHANGED <<vars, reporter, artifact>>
      BY <2>7 DEF NothingPinned
    <3>2. Progress'
      BY <1>3, <3>1 DEF RInv, Progress, vars, ReadAsVerified, LiveAsVerified, BetweenReads,
                        HasMatched, HasScreened, Passed, Admitted
    <3>3. QED
      BY <1>3, <2>1, <2>2, <3>1, <3>2 DEF RInv, Artifacts, Published
  <2>8. QED
    BY <1>3, <2>3, <2>4, <2>5, <2>6, <2>7 DEF Report
<1>4. ASSUME RInv, UNCHANGED <<MCvars, reportVars>>
      PROVE  RInv'
  <2>1. IInv'
    BY <1>4, Inductive DEF RInv
  <2>2. GatePassed'
    BY <1>4 DEF RInv, GatePassed, MCvars, vars, disk, Passed, Admitted
  <2>3. Progress'
    BY <1>4 DEF RInv, Progress, MCvars, vars, reportVars, ReadAsVerified, LiveAsVerified,
                BetweenReads, HasMatched, HasScreened, Passed, Admitted
  <2>4. QED
    BY <1>4, <2>1, <2>2, <2>3 DEF RInv, Artifacts, Published, reportVars
<1>5. QED
  BY <1>1, <1>2, <1>3, <1>4 DEF MCReportNext

-----------------------------------------------------------------------------
(* The theorems                                                            *)

(* What a report says was screened was screened: a case's records are of   *)
(* the version the manifest pins, unless its fixture was edited after it   *)
(* was verified (eval/holdout_report.py), whatever freezes, edits,         *)
(* failures and other reports came before or at the same time.             *)
THEOREM ReportIsOfItsPin == MCReportSpec => []ReportDescribesItsPin
<1>1. ASSUME RInv
      PROVE  ReportDescribesItsPin
  <2>1. SUFFICES ASSUME NEW d \in Published, NEW i \in Cases \ d.touched
                 PROVE  d.with[i] = d.manifest.hashed[i] /\ d.without[i] = d.manifest.hashed[i]
    BY DEF ReportDescribesItsPin
  <2>2. Finished(d)
    BY <1>1 DEF RInv, Artifacts
  <2>3. QED
    BY <2>2 DEF Finished, HasMatched, HasScreened, ReadAsVerified, Cases
<1>2. QED
  BY <1>1, ReportInductive, PTL DEF MCReportSpec

(* A record is judged by its decision and its label.                       *)
LEMMA RecordsAreJudged ==
  ASSUME NEW v, NEW rs
  PROVE  LET r == RecordFromCase(v, rs) IN r.decisionOk <=> r.decision = r.expected
  BY DEF RecordFromCase

(* What the gate of the freeze admitted is what the report shows: every    *)
(* case right, none falsely approved, none made worse by a rule, under the *)
(* rules the corpus was frozen under (data/freeze_holdout.py, safeguard 1; *)
(* eval/scientific_report.py). Also where two freezes ran at once: a text  *)
(* they mix passed the gate too.                                           *)
THEOREM FrozenRulesAreClean == MCReportSpec => []FrozenRulesPublishClean
<1>1. ASSUME RInv
      PROVE  FrozenRulesPublishClean
  <2>1. SUFFICES ASSUME NEW d \in Published, d.touched = {},
                        d.manifest.hashed = d.manifest.seen,
                        d.rules = d.manifest.screenedUnder
                 PROVE  /\ Correct(d) = Cases /\ FindingsCorrect(d) = Cases
                        /\ FalseApprovals(d) = {} /\ NewlyIncorrect(d) = {}
    BY DEF FrozenRulesPublishClean
  <2>2. Finished(d)
    BY <1>1 DEF RInv, Artifacts
  <2>3. PICK r \in RuleVersions : d.rules = {r}
    BY <2>2 DEF Finished, HasMatched
  <2>4. \A i \in Cases : WithRules(d, i).decisionOk /\ WithRules(d, i).findingOk
    <3>1. SUFFICES ASSUME NEW i \in Cases
                   PROVE  WithRules(d, i).decisionOk /\ WithRules(d, i).findingOk
      OBVIOUS
    <3>2. d.with[i] = d.manifest.seen[i] /\ d.with[i] \in CaseVersions
      BY <2>1, <2>2, FreezeConstants
         DEF Finished, HasMatched, HasScreened, ReadAsVerified, Cases, Reporters
    <3>3. <<d.with[i], r>> \in Admissible
      BY <2>1, <2>2, <2>3, <3>2 DEF Finished, HasMatched, Passed, Admitted
    <3>4. QED
      BY <2>3, <3>2, <3>3, GateIsTheTruth DEF WithRules
  <2>5. FalseApprovals(d) = {}
    <3>1. \A i \in Cases : WithRules(d, i).decision = WithRules(d, i).expected
      BY <2>4, RecordsAreJudged DEF WithRules
    <3>2. QED
      BY <3>1 DEF FalseApprovals
  <2>6. QED
    BY <2>4, <2>5 DEF Correct, FindingsCorrect, NewlyIncorrect, CorrectWithout
<1>2. QED
  BY <1>1, ReportInductive, PTL DEF MCReportSpec

(* What the rules add to a case is an F1 of the domain or a failure.       *)
LEMMA RulesAddTwoKinds ==
  ASSUME NEW v, NEW rs, NEW f \in RuleFindings(v, rs)
  PROVE  f.origin = "system" \/ (f.origin = "deterministic" /\ f.code = "F1")
<1> DEFINE fired  == {r \in rs : Effect[<<v, r>>] = "fires"}
           raised == {r \in rs : Effect[<<v, r>>] = "raises"}
<1>1. \/ \E r \in fired : f = CheckFinding("check_learned_rules", "F1", None)
      \/ \E r \in raised : f = [ check |-> "check_learned_rules", code |-> "T1",
                                 severity |-> "unexplainable", origin |-> "system",
                                 kind |-> "rule_runtime_error", about |-> None ]
  BY Zenon DEF RuleFindings
<1>2. /\ CheckFinding("check_learned_rules", "F1", None).origin = "deterministic"
      /\ CheckFinding("check_learned_rules", "F1", None).code = "F1"
  BY DEF CheckFinding
<1> HIDE DEF fired, raised
<1>3. CASE \E r \in fired : f = CheckFinding("check_learned_rules", "F1", None)
  BY <1>2, <1>3
<1>4. CASE \E r \in raised : f = [ check |-> "check_learned_rules", code |-> "T1",
                                   severity |-> "unexplainable", origin |-> "system",
                                   kind |-> "rule_runtime_error", about |-> None ]
  BY <1>4
<1>5. QED
  BY <1>1, <1>3, <1>4

(* Without an F1 the domain findings are those of the pass without rules.  *)
LEMMA DomainIsTheChecks ==
  ASSUME NEW v, NEW rs, ~RecordFromCase(v, rs).fired
  PROVE  {f \in FindingsOf(v, rs) : f.origin # "system"} = FindingsOf(v, {})
<1> DEFINE checks == {CheckFinding("document_checks", c, None) : c \in Facts[v].found}
           domain == {f \in FindingsOf(v, rs) : f.origin # "system"}
<1>1. \A f \in checks : f.origin = "deterministic"
  BY DEF CheckFinding
<1>2. FindingsOf(v, rs) = checks \cup RuleFindings(v, rs)
  BY DEF FindingsOf
<1>3. FindingsOf(v, {}) = checks
  BY DEF FindingsOf, RuleFindings
<1>4. \A f \in domain : f.code # "F1"
  BY DEF RecordFromCase
<1>5. \A f \in RuleFindings(v, rs) : f.origin = "system"
  BY <1>2, <1>4, RulesAddTwoKinds
<1>6. QED
  BY <1>1, <1>2, <1>3, <1>5

(* The paired difference of a report is due to its rules, fired or failed, *)
(* and what it attributes to a failure the pass without rules confirms     *)
(* (build_learned_rule_marginal, _counterfactual_without_system), for any  *)
(* rules and any corpus, where the fixtures were left alone.               *)
THEOREM DifferenceIsExposure == MCReportSpec => []DeltaIsExposure
<1>1. ASSUME RInv
      PROVE  DeltaIsExposure
  <2>1. SUFFICES ASSUME NEW d \in Published, NEW i \in Cases \ d.touched
                 PROVE  /\ WithRules(d, i).decision # WithoutRules(d, i).decision =>
                             i \in Applicability(d) \cup Failures(d)
                        /\ i \in Induced(d) \ Applicability(d) =>
                             WithoutRules(d, i).decision # "escalate"
    BY DEF DeltaIsExposure
  <2> DEFINE v == d.with[i]
             w == RecordFromCase(v, d.rules)
  <2>2. d.without[i] = v
    <3>1. Finished(d)
      BY <1>1 DEF RInv, Artifacts
    <3>2. QED
      BY <3>1 DEF Finished, HasScreened, ReadAsVerified, Cases
  <2>3. /\ WithRules(d, i) = w /\ WithoutRules(d, i) = RecordFromCase(v, {})
        /\ i \in Applicability(d) <=> w.fired
        /\ i \in Failures(d) <=> w.failed
        /\ i \in Induced(d) => w.induced
    BY <2>2 DEF WithRules, WithoutRules, Applicability, Failures, Induced
  <2>4. SUFFICES ASSUME ~w.fired
                 PROVE  /\ w.decision # RecordFromCase(v, {}).decision => w.failed
                        /\ w.induced => RecordFromCase(v, {}).decision # "escalate"
    BY <2>3
  <2>5. {f \in FindingsOf(v, d.rules) : f.origin # "system"} = FindingsOf(v, {})
    BY <2>4, DomainIsTheChecks
  <2>6. /\ RecordFromCase(v, {}).decision = DecisionForSeverities(SeveritiesOf(FindingsOf(v, {})))
        /\ w.decision = DecisionForSeverities(SeveritiesOf(FindingsOf(v, d.rules)))
        /\ w.failed <=> FindingsOf(v, d.rules) # FindingsOf(v, {})
        /\ w.induced =>
             DecisionRank(DecisionForSeverities(SeveritiesOf(FindingsOf(v, {}))))
               < DecisionRank(w.decision)
    BY <2>5, Zenon DEF RecordFromCase
  <2>7. DecisionRank(w.decision) <= 2 /\ DecisionRank("escalate") = 2
    BY DEF DecisionRank
  <2>8. QED
    BY <2>6, <2>7 DEF DecisionRank
<1>2. QED
  BY <1>1, ReportInductive, PTL DEF MCReportSpec

(* Reporting disturbs no freeze: with the reporter beside them the freezes *)
(* behave as without it, so that MarkerIsEarned, FrozenForGood and         *)
(* ContractMeansBlind hold of the two together.                            *)
THEOREM FreezeIsUndisturbed == MCReportSpec => MCSpec
<1>1. MCReportInit => MCInit
  BY DEF MCReportInit
<1>2. [MCReportNext]_<<MCvars, reportVars>> => [MCNext]_MCvars
  BY DEF MCReportNext
<1>3. QED
  BY <1>1, <1>2, PTL DEF MCReportSpec, MCSpec

=============================================================================
