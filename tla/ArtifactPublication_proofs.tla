--------------------- MODULE ArtifactPublication_proofs ---------------------
(***************************************************************************)
(* For any number of publishers, run ids and files: the shelf of complete  *)
(* records is append-only. The exclusive mkdir gives a directory one       *)
(* holder at a time, so all that is in it is the holder's, and a holder    *)
(* that cleans up has not completed it.                                    *)
(***************************************************************************)
EXTENDS ArtifactPublication, TLAPS

LEMMA FilesAreSome == FileNames # {} /\ \A i \in DOMAIN Files : Files[i] \in FileNames
<1>1. \A i \in DOMAIN Files : Files[i] \in FileNames
  BY DEF FileNames, ToSet
<1>2. 1 \in DOMAIN Files
  BY FilesAssumption
<1>3. QED
  BY <1>1, <1>2

(* The files written to their end are all there is to a complete record.   *)
LEMMA WholeByWritten ==
  ASSUME IInv, NEW p \in Publishers, Holds(p)
  PROVE  Whole(runId[p], p) <=> Written(p) = FileNames
<1>1. \A f \in files : f \in Directory
  BY DEF IInv, TypeOK
<1>2. Written(p) \subseteq FileNames
  BY <1>1 DEF Written, Entries, Directory
<1>3. ASSUME Whole(runId[p], p) PROVE Written(p) = FileNames
  <2>1. \A file \in FileNames : file \in Written(p)
    <3>1. TAKE file \in FileNames
    <3>2. DEFINE f == [name |-> runId[p], file |-> file, by |-> p, whole |-> TRUE]
    <3>3. f \in files
      BY <1>3 DEF Whole
    <3>4. f.file = file /\ f.whole /\ f.name = runId[p]
      OBVIOUS
    <3> HIDE DEF f
    <3>5. QED
      BY <3>3, <3>4 DEF Written, Entries
  <2>2. QED
    BY <2>1, <1>2
<1>4. ASSUME Written(p) = FileNames PROVE Whole(runId[p], p)
  <2>1. SUFFICES ASSUME NEW file \in FileNames
                 PROVE  [name |-> runId[p], file |-> file, by |-> p, whole |-> TRUE] \in files
    BY DEF Whole
  <2>2. PICK f \in files : f.name = runId[p] /\ f.whole /\ f.file = file
    BY <1>4 DEF Written, Entries
  <2>3. f.by = p
    BY <2>2 DEF IInv, FilesAreTheHolders
  <2>4. f.whole = TRUE
    BY <2>2, <1>1 DEF Directory
  <2>5. f = [name |-> runId[p], file |-> file, by |-> p, whole |-> TRUE]
    BY <2>2, <2>3, <2>4, <1>1 DEF Directory
  <2>6. QED
    BY <2>5
<1>5. QED
  BY <1>3, <1>4

(* A record is on the shelf under a name for one author only.              *)
LEMMA WholeIsOfOne ==
  ASSUME IInv, NEW name, NEW p, Whole(name, p), NEW f \in files, f.name = name
  PROVE  f.by = p
<1>1. PICK file \in FileNames : TRUE
  BY FilesAreSome
<1>2. DEFINE g == [name |-> name, file |-> file, by |-> p, whole |-> TRUE]
<1>3. g \in files
  BY DEF Whole
<1>4. g.name = name /\ g.by = p
  OBVIOUS
<1> HIDE DEF g
<1>5. QED
  BY <1>3, <1>4 DEF IInv, RecordsAreOfOneAuthor

-----------------------------------------------------------------------------
(* Steps that leave the directories alone and make nobody a holder.        *)
LEMMA QuietPreserves ==
  ASSUME IInv, UNCHANGED <<runId, claimed, files>>,
         pc' \in [Publishers -> Places],
         preexisted' \in [Publishers -> BOOLEAN],
         root' \in Root,
         \A p \in Publishers :
           /\ Holds(p)' => Holds(p)
           /\ pc'[p] = "published" =>
                pc[p] = "published" \/ Written(p) = FileNames
           /\ pc'[p] = "cleanup" =>
                pc[p] = "cleanup" \/ (Holds(p) /\ Written(p) # FileNames)
  PROVE  IInv'
<1>1. TypeOK'
  BY DEF IInv, TypeOK
<1>2. HoldersExclude'
  BY DEF IInv, HoldersExclude
<1>3. FilesAreTheHolders'
  BY DEF IInv, FilesAreTheHolders
<1>4. RecordsAreOfOneAuthor'
  BY DEF IInv, RecordsAreOfOneAuthor
<1>5. \A p \in Publishers : Whole(runId[p], p)' <=> Whole(runId[p], p)
  BY DEF Whole
<1>6. PublishedIsWhole'
  <2>1. SUFFICES ASSUME NEW p \in Publishers, pc'[p] = "published"
                 PROVE  Whole(runId[p], p)
    BY <1>5 DEF PublishedIsWhole
  <2>2. CASE pc[p] = "published"
    BY <2>2 DEF IInv, PublishedIsWhole
  <2>3. CASE Written(p) = FileNames
    <3>1. Holds(p)
      BY <2>1 DEF Holds
    <3>2. QED
      BY <2>3, <3>1, WholeByWritten
  <2>4. QED
    BY <2>1, <2>2, <2>3
<1>7. \A p \in Publishers : pc'[p] = "cleanup" => ~Whole(runId[p], p)'
  <2>1. SUFFICES ASSUME NEW p \in Publishers, pc'[p] = "cleanup"
                 PROVE  ~Whole(runId[p], p)
    BY <1>5
  <2>2. CASE pc[p] = "cleanup"
    BY <2>2 DEF IInv
  <2>3. CASE Holds(p) /\ Written(p) # FileNames
    BY <2>3, WholeByWritten
  <2>4. QED
    BY <2>1, <2>2, <2>3
<1>8. QED
  BY <1>1, <1>2, <1>3, <1>4, <1>6, <1>7 DEF IInv

LEMMA ClaimPreserves ==
  ASSUME IInv, NEW p \in Publishers, Claim(p)
  PROVE  IInv'
<1> USE DEF IInv
<1>1. /\ runId[p] \notin claimed /\ claimed' = claimed \cup {runId[p]}
      /\ pc' = [pc EXCEPT ![p] = "write"]
      /\ UNCHANGED <<runId, preexisted, root, files>>
  BY DEF Claim, Goto
<1>2. runId[p] \in Names /\ "write" \in Places
  BY DEF TypeOK, Places
<1>3. TypeOK'
  BY <1>1, <1>2 DEF TypeOK
<1>4. \A q \in Publishers : q # p => (Holds(q)' <=> Holds(q)) /\ pc'[q] = pc[q]
  BY <1>1 DEF TypeOK, Holds
<1>5. pc'[p] = "write"
  BY <1>1 DEF TypeOK
<1>6. HoldersExclude'
  <2>1. \A q \in Publishers : Holds(q) => runId[q] # runId[p]
    BY <1>1 DEF HoldersExclude
  <2>2. QED
    BY <1>1, <1>4, <2>1 DEF HoldersExclude
<1>7. FilesAreTheHolders'
  <2>1. \A f \in files : f.name # runId[p]
    BY <1>1 DEF FilesAreTheHolders
  <2>2. QED
    BY <1>1, <1>4, <2>1 DEF FilesAreTheHolders
<1>8. RecordsAreOfOneAuthor'
  BY <1>1 DEF RecordsAreOfOneAuthor
<1>9. \A q \in Publishers : Whole(runId[q], q)' <=> Whole(runId[q], q)
  BY <1>1 DEF Whole
<1>10. PublishedIsWhole'
  BY <1>4, <1>5, <1>9 DEF PublishedIsWhole
<1>11. \A q \in Publishers : pc'[q] = "cleanup" => ~Whole(runId[q], q)'
  BY <1>4, <1>5, <1>9
<1>12. QED
  BY <1>3, <1>6, <1>7, <1>8, <1>10, <1>11

(* A holder that replaces entries of its own directory by one of its own.  *)
LEMMA EntryPreserves ==
  ASSUME IInv, NEW p \in Publishers, pc[p] = "write",
         NEW file \in FileNames, NEW whole \in BOOLEAN,
         NEW kept \in SUBSET files,
         \A f \in files : f \in kept <=> f.name # runId[p] \/ f.file # file,
         files' = kept \cup {Entry(p, file, whole)},
         UNCHANGED <<pc, runId, preexisted, root, claimed>>
  PROVE  IInv'
<1> USE DEF IInv
<1> DEFINE e == Entry(p, file, whole)
<1>1. e \in Directory /\ e.name = runId[p] /\ e.file = file /\ e.by = p
  BY DEF Entry, Directory, TypeOK
<1>2. Holds(p) /\ runId[p] \in claimed
  BY DEF Holds, HoldersExclude
<1> HIDE DEF e
<1>3. files' = kept \cup {e}
  BY DEF e
<1>4. TypeOK'
  BY <1>1, <1>3 DEF TypeOK, Directory
<1>5. HoldersExclude'
  BY DEF HoldersExclude, Holds
<1>6. \A f \in files : f.name = runId[p] => f.by = p
  BY <1>2 DEF FilesAreTheHolders
<1>7. FilesAreTheHolders'
  <2>1. \A f \in files' : f.name \in claimed
    BY <1>1, <1>2, <1>3 DEF FilesAreTheHolders
  <2>2. \A f, g \in files' : f.name = g.name /\ f.file = g.file => f = g
    BY <1>1, <1>3 DEF FilesAreTheHolders
  <2>3. ASSUME NEW q \in Publishers, NEW f \in files', Holds(q), f.name = runId[q]
        PROVE  f.by = q
    <3>1. CASE f = e
      <4>1. runId[q] = runId[p]
        BY <1>1, <2>3, <3>1
      <4>2. q = p
        BY <4>1, <1>2, <2>3 DEF HoldersExclude
      <4>3. QED
        BY <4>2, <1>1, <3>1
    <3>2. CASE f \in files
      BY <2>3, <3>2 DEF FilesAreTheHolders
    <3>3. QED
      BY <1>3, <2>3, <3>1, <3>2
  <2>4. QED
    BY <2>1, <2>2, <2>3 DEF FilesAreTheHolders, Holds
<1>8. RecordsAreOfOneAuthor'
  <2>1. ASSUME NEW f \in files', f.name = runId[p] PROVE f.by = p
    BY <1>1, <1>3, <1>6, <2>1
  <2>2. \A f \in files' : f.name # runId[p] => f \in files
    BY <1>1, <1>3
  <2>3. QED
    BY <2>1, <2>2 DEF RecordsAreOfOneAuthor
<1>9. ASSUME NEW q \in Publishers, runId[q] # runId[p]
      PROVE  Whole(runId[q], q)' <=> Whole(runId[q], q)
  <2>1. \A n \in FileNames :
          LET r == [name |-> runId[q], file |-> n, by |-> q, whole |-> TRUE]
          IN  r \in files' <=> r \in files
    BY <1>1, <1>3, <1>9
  <2>2. QED
    BY <2>1 DEF Whole
<1>10. \A q \in Publishers : pc[q] \in {"published", "cleanup"} => runId[q] # runId[p]
  BY <1>2 DEF HoldersExclude, Holds
<1>11. PublishedIsWhole'
  BY <1>9, <1>10 DEF PublishedIsWhole
<1>12. \A q \in Publishers : pc'[q] = "cleanup" => ~Whole(runId[q], q)'
  BY <1>9, <1>10
<1>13. QED
  BY <1>4, <1>5, <1>7, <1>8, <1>11, <1>12

LEMMA OpenPreserves ==
  ASSUME IInv, NEW p \in Publishers, OpenFile(p)
  PROVE  IInv'
<1>1. PICK i \in DOMAIN Files :
        files' = {f \in files : f.name # runId[p] \/ f.file # Files[i]}
                   \cup {Entry(p, Files[i], FALSE)}
  BY DEF OpenFile
<1>2. Files[i] \in FileNames
  BY FilesAreSome
<1>3. pc[p] = "write" /\ UNCHANGED <<pc, runId, preexisted, root, claimed>>
  BY DEF OpenFile
<1> DEFINE kept == {f \in files : f.name # runId[p] \/ f.file # Files[i]}
<1>4. /\ kept \in SUBSET files
      /\ \A f \in files : f \in kept <=> f.name # runId[p] \/ f.file # Files[i]
  OBVIOUS
<1>5. files' = kept \cup {Entry(p, Files[i], FALSE)}
  BY <1>1
<1> HIDE DEF kept
<1>6. QED
  BY <1>2, <1>3, <1>4, <1>5, EntryPreserves

LEMMA WritePreserves ==
  ASSUME IInv, NEW p \in Publishers, WriteFile(p)
  PROVE  IInv'
<1>1. PICK file \in FileNames :
        /\ Entry(p, file, FALSE) \in files
        /\ files' = (files \ {Entry(p, file, FALSE)}) \cup {Entry(p, file, TRUE)}
  BY DEF WriteFile
<1>2. pc[p] = "write" /\ UNCHANGED <<pc, runId, preexisted, root, claimed>>
  BY DEF WriteFile
<1> DEFINE e == Entry(p, file, FALSE)
           kept == files \ {e}
<1>3. e \in files /\ e.name = runId[p] /\ e.file = file
  BY <1>1 DEF Entry
<1>4. files' = kept \cup {Entry(p, file, TRUE)} /\ kept \in SUBSET files
  BY <1>1
<1>5. \A f \in files : f \in kept <=> f # e
  OBVIOUS
<1> HIDE DEF e, kept
<1>6. \A f \in files : f \in kept <=> f.name # runId[p] \/ f.file # file
  BY <1>3, <1>5 DEF IInv, FilesAreTheHolders
<1>7. QED
  BY <1>2, <1>4, <1>6, EntryPreserves

LEMMA UnlinkPreserves ==
  ASSUME IInv, NEW p \in Publishers, Unlink(p)
  PROVE  IInv'
<1> USE DEF IInv
<1>1. PICK e \in files : e.name = runId[p] /\ files' = files \ {e}
  BY DEF Unlink, Entries
<1>2. pc[p] = "cleanup" /\ UNCHANGED <<pc, runId, preexisted, root, claimed>>
  BY DEF Unlink
<1>3. files' \subseteq files
  BY <1>1
<1>4. TypeOK'
  BY <1>2, <1>3 DEF TypeOK
<1>5. HoldersExclude'
  BY <1>2 DEF HoldersExclude, Holds
<1>6. FilesAreTheHolders'
  BY <1>2, <1>3 DEF FilesAreTheHolders, Holds
<1>7. RecordsAreOfOneAuthor'
  BY <1>3 DEF RecordsAreOfOneAuthor
<1>8. ASSUME NEW q \in Publishers, pc[q] = "published"
      PROVE  Whole(runId[q], q)'
  <2>1. runId[q] # runId[p]
    BY <1>2, <1>8 DEF HoldersExclude, Holds
  <2>2. Whole(runId[q], q)
    BY <1>8 DEF PublishedIsWhole
  <2>3. \A n \in FileNames :
          [name |-> runId[q], file |-> n, by |-> q, whole |-> TRUE] # e
    BY <1>1, <2>1
  <2>4. QED
    BY <1>1, <1>2, <2>2, <2>3 DEF Whole
<1>9. PublishedIsWhole'
  BY <1>2, <1>8 DEF PublishedIsWhole
<1>10. \A q \in Publishers : Whole(runId[q], q)' => Whole(runId[q], q)
  BY <1>2, <1>3 DEF Whole
<1>11. \A q \in Publishers : pc'[q] = "cleanup" => ~Whole(runId[q], q)'
  BY <1>2, <1>10
<1>12. QED
  BY <1>4, <1>5, <1>6, <1>7, <1>9, <1>11

LEMMA RemovePreserves ==
  ASSUME IInv, NEW p \in Publishers, RemoveDirectory(p)
  PROVE  IInv'
<1> USE DEF IInv
<1> DEFINE place == IF preexisted[p] THEN "failed" ELSE "courtesy"
<1>1. place \in Places /\ place \notin {"write", "cleanup", "published"}
  BY DEF Places, Outcomes
<1>2. /\ pc[p] = "cleanup" /\ claimed' = claimed \ {runId[p]}
      /\ pc' = [pc EXCEPT ![p] = place]
      /\ UNCHANGED <<runId, preexisted, root, files>>
  BY DEF RemoveDirectory, Goto
<1> HIDE DEF place
<1>3. \A f \in files : f.name # runId[p]
  BY DEF RemoveDirectory, Entries
<1>4. TypeOK'
  BY <1>1, <1>2 DEF TypeOK
<1>5. \A q \in Publishers :
        pc'[q] \in {"write", "cleanup", "published"} => q # p /\ pc'[q] = pc[q]
  BY <1>1, <1>2 DEF TypeOK
<1>6. HoldersExclude'
  BY <1>2, <1>5 DEF HoldersExclude, Holds
<1>7. FilesAreTheHolders'
  BY <1>2, <1>3, <1>5 DEF FilesAreTheHolders, Holds
<1>8. RecordsAreOfOneAuthor'
  BY <1>2 DEF RecordsAreOfOneAuthor
<1>9. \A q \in Publishers : Whole(runId[q], q)' <=> Whole(runId[q], q)
  BY <1>2 DEF Whole
<1>10. PublishedIsWhole'
  BY <1>5, <1>9 DEF PublishedIsWhole
<1>11. \A q \in Publishers : pc'[q] = "cleanup" => ~Whole(runId[q], q)'
  BY <1>5, <1>9
<1>12. QED
  BY <1>4, <1>6, <1>7, <1>8, <1>10, <1>11

(* The steps that leave the directories alone.                             *)
Quiet(p) ==
  \/ Look(p) \/ MakeRoot(p) \/ Collide(p) \/ Orphan(p) \/ Publish(p)
  \/ WriteFails(p) \/ CleanupRaises(p) \/ RemoveRoot(p) \/ Crash(p)

LEMMA QuietSteps ==
  ASSUME IInv, NEW p \in Publishers, Quiet(p)
  PROVE  /\ UNCHANGED <<runId, claimed, files>>
         /\ IInv'
<1>1. UNCHANGED <<runId, claimed, files>>
  BY DEF Quiet, Look, MakeRoot, Collide, Orphan, Publish, WriteFails,
         CleanupRaises, RemoveRoot, Crash
<1>2. PICK place \in Places :
        /\ pc' = [pc EXCEPT ![p] = place]
        /\ place # "write"
        /\ place = "published" => pc[p] = "write" /\ Written(p) = FileNames
        /\ place = "cleanup" => pc[p] = "write" /\ Written(p) # FileNames
  <2>1. \E place \in {"parent", "claim", "collided", "orphaned", "remnant",
                     "failed", "crashed"} :
          Quiet(p) /\ ~Publish(p) /\ ~WriteFails(p) => Goto(p, place)
    BY DEF Quiet, Look, MakeRoot, Collide, Orphan, CleanupRaises, RemoveRoot, Crash
  <2>2. Publish(p) => Goto(p, "published") /\ pc[p] = "write" /\ Written(p) = FileNames
    BY DEF Publish
  <2>3. WriteFails(p) => Goto(p, "cleanup") /\ pc[p] = "write" /\ Written(p) # FileNames
    BY DEF WriteFails
  <2>4. QED
    BY <2>1, <2>2, <2>3 DEF Goto, Places, Outcomes
<1>3. pc \in [Publishers -> Places]
  BY DEF IInv, TypeOK
<1>4. preexisted' \in [Publishers -> BOOLEAN]
  <2>1. preexisted \in [Publishers -> BOOLEAN] /\ root.there \in BOOLEAN
    BY DEF IInv, TypeOK, Root
  <2>2. preexisted' = preexisted \/ preexisted' = [preexisted EXCEPT ![p] = root.there]
    BY DEF Quiet, Look, MakeRoot, Collide, Orphan, Publish, WriteFails,
           CleanupRaises, RemoveRoot, Crash
  <2>3. QED
    BY <2>1, <2>2
<1>5. root' \in Root
  <2>1. root \in Root
    BY DEF IInv, TypeOK
  <2>2. \/ root' = root
        \/ root' = [root EXCEPT !.raced = @ \/ ~preexisted[p]]
        \/ root' = [root EXCEPT !.there = TRUE, !.by = p]
        \/ root' = [root EXCEPT !.there = FALSE, !.by = Nobody]
    BY DEF Quiet, Look, MakeRoot, Collide, Orphan, Publish, WriteFails,
           CleanupRaises, RemoveRoot, Crash
  <2>3. QED
    BY <2>1, <2>2 DEF Root
<1>6. pc' \in [Publishers -> Places]
  BY <1>2, <1>3
<1>7. ASSUME NEW q \in Publishers
      PROVE  /\ Holds(q)' => Holds(q)
             /\ pc'[q] = "published" =>
                  pc[q] = "published" \/ Written(q) = FileNames
             /\ pc'[q] = "cleanup" =>
                  pc[q] = "cleanup" \/ (Holds(q) /\ Written(q) # FileNames)
  BY <1>2, <1>3 DEF Holds
<1>8. IInv'
  BY <1>1, <1>4, <1>5, <1>6, <1>7, QuietPreserves
<1>9. QED
  BY <1>1, <1>8

LEMMA StepIs ==
  ASSUME NEW p \in Publishers, Step(p) \/ Crash(p)
  PROVE  \/ Quiet(p) \/ Claim(p) \/ OpenFile(p) \/ WriteFile(p)
         \/ Unlink(p) \/ RemoveDirectory(p)
BY DEF Step, Quiet

(* The inductive invariant.                                                *)
THEOREM Inductive == Spec => []IInv
<1>1. Init => IInv
  <2>1. SUFFICES ASSUME Init PROVE IInv
    OBVIOUS
  <2>2. "look" \in Places /\ \A p \in Publishers : pc[p] = "look"
    BY <2>1 DEF Init, Places
  <2>3. TypeOK
    BY <2>1, <2>2 DEF Init, TypeOK, Root
  <2>4. QED
    BY <2>1, <2>2, <2>3
       DEF Init, IInv, HoldersExclude, FilesAreTheHolders, Holds,
           RecordsAreOfOneAuthor, PublishedIsWhole
<1>2. IInv /\ [Next]_vars => IInv'
  <2>1. SUFFICES ASSUME IInv, [Next]_vars PROVE IInv'
    OBVIOUS
  <2>2. CASE \E p \in Publishers : Step(p) \/ Crash(p)
    <3>1. PICK p \in Publishers : Step(p) \/ Crash(p)
      BY <2>2
    <3>2. QED
      BY <2>1, <3>1, StepIs, QuietSteps, ClaimPreserves, OpenPreserves,
         WritePreserves, UnlinkPreserves, RemovePreserves
  <2>3. CASE UNCHANGED vars
    BY <2>1, <2>3
       DEF vars, IInv, TypeOK, HoldersExclude, FilesAreTheHolders, Holds,
           RecordsAreOfOneAuthor, PublishedIsWhole, Whole
  <2>4. QED
    BY <2>1, <2>2, <2>3 DEF Next
<1>3. QED
  BY <1>1, <1>2, PTL DEF Spec

(* Every variable keeps its type.                                          *)
THEOREM TypeCorrect == Spec => []TypeOK
<1>1. IInv => TypeOK
  BY DEF IInv
<1>2. QED
  BY <1>1, Inductive, PTL

(* A publication that returned is complete and stays so, whatever other    *)
(* publishers of the same run id do (publish, "never overwritten").        *)
THEOREM PublicationLasts == Spec => []PublishedIsWhole
<1>1. IInv => PublishedIsWhole
  BY DEF IInv
<1>2. QED
  BY <1>1, Inductive, PTL

(* No directory mixes the files of two publications.                       *)
THEOREM OneAuthor == Spec => []RecordsAreOfOneAuthor
<1>1. IInv => RecordsAreOfOneAuthor
  BY DEF IInv
<1>2. QED
  BY <1>1, Inductive, PTL

-----------------------------------------------------------------------------
(* The order of writing. A step that leaves what is in the directories, or *)
(* takes some of it away from one that nobody writes, cannot disturb it.   *)
LEMMA QuietMakesNoWriter ==
  ASSUME IInv, NEW p \in Publishers, Quiet(p) \/ RemoveDirectory(p),
         NEW q \in Publishers, pc'[q] = "write"
  PROVE  pc[q] = "write"
BY DEF IInv, TypeOK, Quiet, Look, MakeRoot, Collide, Orphan, Publish, WriteFails,
       CleanupRaises, RemoveRoot, Crash, RemoveDirectory, Goto

LEMMA ReadsItsEntries ==
  ASSUME UNCHANGED runId, NEW q \in Publishers,
         \A f : f.name = runId[q] => (f \in files' <=> f \in files)
  PROVE  Entries(runId[q])' = Entries(runId[q]) /\ Written(q)' = Written(q)
BY DEF Entries, Written

LEMMA OpenKeepsOrder ==
  ASSUME IInv, WrittenInOrder, TornIsLast, NEW p \in Publishers, OpenFile(p)
  PROVE  WrittenInOrder' /\ TornIsLast'
<1>1. PICK i \in DOMAIN Files :
        /\ IsNext(p, i)
        /\ files' = {f \in files : f.name # runId[p] \/ f.file # Files[i]}
                     \cup {Entry(p, Files[i], FALSE)}
  BY DEF OpenFile
<1>2. pc[p] = "write" /\ UNCHANGED <<pc, runId, preexisted, root, claimed>>
  BY DEF OpenFile
<1> DEFINE e == Entry(p, Files[i], FALSE)
<1>3. /\ e.name = runId[p] /\ e.file = Files[i] /\ e.whole = FALSE
      /\ files' = {f \in files : f.name # runId[p] \/ f.file # Files[i]} \cup {e}
  BY <1>1 DEF Entry
<1> HIDE DEF e
<1>4. Files[i] \notin Written(p) /\ \A j \in DOMAIN Files : j < i => Files[j] \in Written(p)
  BY <1>1 DEF IsNext
<1>5. DOMAIN Files \subseteq Nat
  BY FilesAssumption
<1>6. \A j \in DOMAIN Files, f \in files :
        f.name = runId[p] /\ f.file = Files[j] => j <= i
  <2>1. ASSUME NEW j \in DOMAIN Files, NEW f \in files,
               f.name = runId[p], f.file = Files[j], i < j
        PROVE  FALSE
    BY <1>2, <1>4, <2>1 DEF WrittenInOrder, Entries
  <2>2. QED
    BY <2>1, <1>5
<1>7. Written(p) \subseteq Written(p)'
  BY <1>2, <1>3, <1>4 DEF Written, Entries
<1>8. \A j, k \in DOMAIN Files : Files[j] = Files[k] => j = k
  BY FilesAssumption
<1>9. WrittenInOrder'
  <2>1. SUFFICES ASSUME NEW q \in Publishers, NEW j \in DOMAIN Files, NEW k \in DOMAIN Files,
                        pc[q] = "write", k < j,
                        NEW f \in files', f.name = runId[q], f.file = Files[j]
                 PROVE  Files[k] \in Written(q)'
    BY <1>2 DEF WrittenInOrder, Entries
  <2>2. CASE q = p
    <3>1. j <= i
      BY <1>3, <1>5, <1>6, <1>8, <2>1, <2>2
    <3>2. k < i
      BY <1>5, <2>1, <3>1
    <3>3. QED
      BY <1>4, <1>7, <2>2, <3>2
  <2>3. CASE q # p
    <3>1. runId[q] # runId[p]
      BY <1>2, <2>1, <2>3 DEF IInv, HoldersExclude, Holds
    <3>2. \A g : g.name = runId[q] => (g \in files' <=> g \in files)
      BY <1>3, <3>1
    <3>3. Written(q)' = Written(q) /\ f \in Entries(runId[q])
      BY <1>2, <2>1, <3>2, ReadsItsEntries DEF Entries
    <3>4. QED
      BY <2>1, <3>3 DEF WrittenInOrder
  <2>4. QED
    BY <2>2, <2>3
<1>10. TornIsLast'
  <2>1. SUFFICES ASSUME NEW f \in files', NEW g \in files',
                        NEW j \in DOMAIN Files, NEW k \in DOMAIN Files,
                        f.name = g.name, f.file = Files[j], g.file = Files[k], j < k
                 PROVE  f.whole
    BY DEF TornIsLast
  <2>2. CASE f \in files /\ g \in files
    BY <2>1, <2>2 DEF TornIsLast
  <2>3. CASE g = e /\ f \in files
    <3>1. k = i /\ f.name = runId[p]
      BY <1>3, <1>8, <2>1, <2>3
    <3>2. Files[j] \in Written(p)
      BY <1>4, <2>1, <3>1
    <3>3. PICK h \in files : h.name = runId[p] /\ h.whole /\ h.file = Files[j]
      BY <3>2 DEF Written, Entries
    <3>4. h = f
      BY <2>1, <2>3, <3>1, <3>3 DEF IInv, FilesAreTheHolders
    <3>5. QED
      BY <3>3, <3>4
  <2>4. CASE f = e /\ g \in files
    <3>1. j = i /\ g.name = runId[p]
      BY <1>3, <1>8, <2>1, <2>4
    <3>2. k <= i
      BY <1>6, <2>1, <2>4, <3>1
    <3>3. QED
      BY <1>5, <2>1, <3>1, <3>2
  <2>5. CASE f = e /\ g = e
    <3>1. j = k
      BY <1>8, <2>1, <2>5
    <3>2. QED
      BY <1>5, <2>1, <3>1
  <2>6. QED
    BY <1>3, <2>1, <2>2, <2>3, <2>4, <2>5
<1>11. QED
  BY <1>9, <1>10

LEMMA WriteKeepsOrder ==
  ASSUME IInv, WrittenInOrder, TornIsLast, NEW p \in Publishers, WriteFile(p)
  PROVE  WrittenInOrder' /\ TornIsLast'
<1>1. PICK file \in FileNames :
        /\ Entry(p, file, FALSE) \in files
        /\ files' = (files \ {Entry(p, file, FALSE)}) \cup {Entry(p, file, TRUE)}
  BY DEF WriteFile
<1>2. pc[p] = "write" /\ UNCHANGED <<pc, runId, preexisted, root, claimed>>
  BY DEF WriteFile
<1> DEFINE e == Entry(p, file, FALSE)
           w == Entry(p, file, TRUE)
<1>3. /\ e \in files /\ e.name = runId[p] /\ e.file = file /\ e.whole = FALSE
      /\ w.name = runId[p] /\ w.file = file /\ w.whole = TRUE
      /\ files' = (files \ {e}) \cup {w}
  BY <1>1 DEF Entry
<1> HIDE DEF e, w
<1>4. \A f \in files' : \E g \in files :
        /\ g.name = f.name /\ g.file = f.file /\ (g.whole => f.whole)
  BY <1>3
<1>5. \A q \in Publishers : Written(q) \subseteq Written(q)'
  BY <1>2, <1>3 DEF Written, Entries
<1>6. WrittenInOrder'
  <2>1. SUFFICES ASSUME NEW q \in Publishers, NEW j \in DOMAIN Files, NEW k \in DOMAIN Files,
                        pc[q] = "write", k < j,
                        NEW f \in files', f.name = runId[q], f.file = Files[j]
                 PROVE  Files[k] \in Written(q)'
    BY <1>2 DEF WrittenInOrder, Entries
  <2>2. PICK g \in files : g.name = f.name /\ g.file = f.file
    BY <1>4
  <2>3. Files[k] \in Written(q)
    BY <2>1, <2>2 DEF WrittenInOrder, Entries
  <2>4. QED
    BY <1>5, <2>3
<1>7. TornIsLast'
  <2>1. SUFFICES ASSUME NEW f \in files', NEW g \in files',
                        NEW j \in DOMAIN Files, NEW k \in DOMAIN Files,
                        f.name = g.name, f.file = Files[j], g.file = Files[k], j < k
                 PROVE  f.whole
    BY DEF TornIsLast
  <2>2. PICK f0 \in files : f0.name = f.name /\ f0.file = f.file /\ (f0.whole => f.whole)
    BY <1>4
  <2>3. PICK g0 \in files : g0.name = g.name /\ g0.file = g.file
    BY <1>4
  <2>4. QED
    BY <2>1, <2>2, <2>3 DEF TornIsLast
<1>8. QED
  BY <1>6, <1>7

LEMMA OrderOfWriting ==
  ASSUME IInv, WrittenInOrder, TornIsLast, NEW p \in Publishers, Step(p) \/ Crash(p)
  PROVE  WrittenInOrder' /\ TornIsLast'
<1>1. CASE Quiet(p) \/ RemoveDirectory(p)
  <2>1. UNCHANGED <<runId, files>>
    BY <1>1, QuietSteps DEF RemoveDirectory
  <2>2. \A q \in Publishers : Written(q)' = Written(q) /\ Entries(runId[q])' = Entries(runId[q])
    BY <2>1, ReadsItsEntries
  <2>3. \A q \in Publishers : pc'[q] = "write" => pc[q] = "write"
    BY <1>1, QuietMakesNoWriter
  <2>4. QED
    BY <2>1, <2>2, <2>3 DEF WrittenInOrder, TornIsLast
<1>2. CASE Claim(p)
  <2>1. UNCHANGED <<runId, files>> /\ runId[p] \notin claimed
    BY <1>2 DEF Claim
  <2>2. \A q \in Publishers : Written(q)' = Written(q) /\ Entries(runId[q])' = Entries(runId[q])
    BY <2>1, ReadsItsEntries
  <2>3. Entries(runId[p]) = {}
    BY <2>1 DEF IInv, FilesAreTheHolders, Entries
  <2>4. \A q \in Publishers : pc'[q] = "write" => pc[q] = "write" \/ q = p
    BY <1>2 DEF Claim, Goto, IInv, TypeOK
  <2>5. QED
    BY <2>1, <2>2, <2>3, <2>4 DEF WrittenInOrder, TornIsLast
<1>3. CASE Unlink(p)
  <2>1. PICK e \in files : e.name = runId[p] /\ files' = files \ {e}
    BY <1>3 DEF Unlink, Entries
  <2>2. pc[p] = "cleanup" /\ UNCHANGED <<pc, runId>>
    BY <1>3 DEF Unlink
  <2>3. ASSUME NEW q \in Publishers, pc[q] = "write"
        PROVE  Written(q)' = Written(q) /\ Entries(runId[q])' = Entries(runId[q])
    <3>1. runId[q] # runId[p]
      BY <2>2, <2>3 DEF IInv, HoldersExclude, Holds
    <3>2. \A f : f.name = runId[q] => (f \in files' <=> f \in files)
      BY <2>1, <3>1
    <3>3. QED
      BY <2>2, <3>2, ReadsItsEntries
  <2>4. WrittenInOrder'
    BY <2>2, <2>3 DEF WrittenInOrder
  <2>5. TornIsLast'
    BY <2>1 DEF TornIsLast
  <2>6. QED
    BY <2>4, <2>5
<1>4. QED
  BY <1>1, <1>2, <1>3, StepIs, OpenKeepsOrder, WriteKeepsOrder

(* A directory is in the hands of whoever made it until it is removed.     *)
LEMMA FailureKeepsNothing ==
  ASSUME IInv, FailureLeavesNothing, NEW p \in Publishers, Step(p) \/ Crash(p)
  PROVE  FailureLeavesNothing'
<1> DEFINE Leaves(q) == pc[q] \in {"write", "cleanup", "published", "remnant", "crashed"}
<1>1. runId' = runId
  BY DEF Step, Look, MakeRoot, Claim, Collide, Orphan, OpenFile, WriteFile, Publish,
         WriteFails, Unlink, RemoveDirectory, CleanupRaises, RemoveRoot, Crash
<1>2. pc \in [Publishers -> Places]
  BY DEF IInv, TypeOK
<1>3. \A q \in Publishers : q # p => pc'[q] = pc[q]
  BY <1>2 DEF Step, Look, MakeRoot, Claim, Collide, Orphan, OpenFile, WriteFile, Publish,
              WriteFails, Unlink, RemoveDirectory, CleanupRaises, RemoveRoot, Crash, Goto
<1>4. CASE Claim(p)
  <2>1. claimed' = claimed \cup {runId[p]} /\ pc'[p] = "write"
    BY <1>2, <1>4 DEF Claim, Goto
  <2>2. \A q \in Publishers : Leaves(q) => Leaves(q)'
    BY <1>3, <2>1
  <2>3. QED
    BY <1>1, <2>1, <2>2 DEF FailureLeavesNothing
<1>5. CASE RemoveDirectory(p)
  <2>1. claimed' = claimed \ {runId[p]}
    BY <1>5 DEF RemoveDirectory
  <2>2. QED
    BY <1>1, <1>3, <2>1 DEF FailureLeavesNothing
<1>6. CASE ~Claim(p) /\ ~RemoveDirectory(p)
  <2>1. claimed' = claimed
    BY <1>6 DEF Step, Look, MakeRoot, Collide, Orphan, OpenFile, WriteFile, Publish,
                WriteFails, Unlink, CleanupRaises, RemoveRoot, Crash
  <2>2. Leaves(p) => Leaves(p)'
    BY <1>2, <1>6 DEF Step, Look, MakeRoot, Collide, Orphan, OpenFile, WriteFile, Publish,
                      WriteFails, Unlink, CleanupRaises, RemoveRoot, Crash, Goto
  <2>3. \A q \in Publishers : Leaves(q) => Leaves(q)'
    BY <1>3, <2>2
  <2>4. QED
    BY <1>1, <2>1, <2>3 DEF FailureLeavesNothing
<1>7. QED
  BY <1>4, <1>5, <1>6

(* A step either leaves the parent alone, makes sure of it or removes it.  *)
LEMMA ParentStays ==
  ASSUME IInv, ParentIsKnown, NEW p \in Publishers, Step(p) \/ Crash(p)
  PROVE  ParentIsKnown'
<1>1. pc \in [Publishers -> Places] /\ preexisted \in [Publishers -> BOOLEAN]
  BY DEF IInv, TypeOK
<1>2. \A q \in Publishers : q # p => pc'[q] = pc[q] /\ preexisted'[q] = preexisted[q]
  BY <1>1 DEF Step, Look, MakeRoot, Claim, Collide, Orphan, OpenFile, WriteFile, Publish,
              WriteFails, Unlink, RemoveDirectory, CleanupRaises, RemoveRoot, Crash, Goto
<1>3. root \in Root
  BY DEF IInv, TypeOK
<1>4. CASE Look(p)
  <2>1. pc'[p] = "parent" /\ preexisted'[p] = root.there /\ root' = root
    BY <1>1, <1>4 DEF Look, Goto
  <2>2. QED
    BY <1>2, <2>1 DEF ParentIsKnown, AtWork, HasTheParent
<1>5. CASE MakeRoot(p)
  <2>1. pc[p] = "parent" /\ pc'[p] = "claim" /\ preexisted' = preexisted
    BY <1>1, <1>5 DEF MakeRoot, Goto
  <2>2. CASE root.there
    <3>1. /\ root'.there = root.there /\ root'.by = root.by
          /\ root'.raced = (root.raced \/ ~preexisted[p])
      BY <1>3, <1>5, <2>2 DEF MakeRoot, Root
    <3>2. QED
      BY <1>2, <2>1, <3>1 DEF ParentIsKnown, AtWork, HasTheParent
  <2>3. CASE ~root.there
    <3>1. root'.there /\ root'.by = p /\ root'.raced = root.raced
      BY <1>3, <1>5, <2>3 DEF MakeRoot, Root
    <3>2. p # Nobody
      BY NobodyAssumption
    <3>3. QED
      BY <1>2, <2>1, <2>3, <3>1, <3>2 DEF ParentIsKnown, AtWork, HasTheParent
  <2>4. QED
    BY <2>2, <2>3
<1>6. CASE RemoveRoot(p)
  <2>1. pc[p] = "courtesy" /\ pc'[p] = "failed" /\ preexisted' = preexisted
    BY <1>1, <1>6 DEF RemoveRoot, Goto
  <2>2. CASE root' = root
    BY <1>2, <2>1, <2>2 DEF ParentIsKnown, AtWork, HasTheParent
  <2>3. CASE root' = [root EXCEPT !.there = FALSE, !.by = Nobody]
    <3>1. ~root'.there /\ root'.raced = root.raced
      BY <1>3, <2>3 DEF Root
    <3>2. ASSUME ~root.raced, NEW q \in Publishers, HasTheParent(q)', ~preexisted'[q]
          PROVE  FALSE
      <4>1. q # p
        BY <2>1, <3>2 DEF HasTheParent
      <4>2. HasTheParent(q) /\ ~preexisted[q] /\ HasTheParent(p) /\ ~preexisted[p]
        BY <1>2, <2>1, <3>2, <4>1 DEF HasTheParent, ParentIsKnown
      <4>3. root.by = q /\ root.by = p
        BY <3>2, <4>2 DEF ParentIsKnown
      <4>4. QED
        BY <4>1, <4>3
    <3>3. QED
      BY <1>2, <2>1, <3>1, <3>2 DEF ParentIsKnown
  <2>4. QED
    BY <1>6, <2>2, <2>3 DEF RemoveRoot
<1>7. CASE ~Look(p) /\ ~MakeRoot(p) /\ ~RemoveRoot(p)
  <2>1. root' = root /\ preexisted' = preexisted
    BY <1>7 DEF Step, Claim, Collide, Orphan, OpenFile, WriteFile, Publish,
                WriteFails, Unlink, RemoveDirectory, CleanupRaises, Crash
  <2>2. /\ AtWork(p)' => AtWork(p)
        /\ HasTheParent(p)' => HasTheParent(p)
        /\ pc'[p] = "courtesy" => pc[p] = "courtesy" \/ ~preexisted[p]
    BY <1>1, <1>7 DEF Step, Claim, Collide, Orphan, OpenFile, WriteFile, Publish,
                      WriteFails, Unlink, RemoveDirectory, CleanupRaises, Crash, Goto,
                      AtWork, HasTheParent, Outcomes
  <2>3. \A q \in Publishers : /\ AtWork(q)' => AtWork(q)
                              /\ HasTheParent(q)' => HasTheParent(q)
                              /\ pc'[q] = "courtesy" => ~preexisted[q]
    BY <1>2, <2>2 DEF AtWork, HasTheParent, ParentIsKnown
  <2>4. QED
    BY <2>1, <2>3 DEF ParentIsKnown
<1>8. QED
  BY <1>4, <1>5, <1>6, <1>7

(* The whole of the inductive invariant.                                   *)
THEOREM OrderHolds == Spec => []OrderInv
<1>1. Init => WrittenInOrder /\ TornIsLast /\ FailureLeavesNothing /\ ParentIsKnown
  <2>1. SUFFICES ASSUME Init
                 PROVE  WrittenInOrder /\ TornIsLast /\ FailureLeavesNothing /\ ParentIsKnown
    OBVIOUS
  <2>2. files = {} /\ claimed = {} /\ \A p \in Publishers : pc[p] = "look"
    BY <2>1 DEF Init
  <2>3. QED
    BY <2>2 DEF WrittenInOrder, TornIsLast, FailureLeavesNothing, ParentIsKnown,
                AtWork, HasTheParent
<1>2. /\ IInv /\ [Next]_vars
      /\ WrittenInOrder /\ TornIsLast /\ FailureLeavesNothing /\ ParentIsKnown
      => (WrittenInOrder /\ TornIsLast /\ FailureLeavesNothing /\ ParentIsKnown)'
  <2>1. SUFFICES ASSUME IInv, [Next]_vars, WrittenInOrder, TornIsLast,
                        FailureLeavesNothing, ParentIsKnown
                 PROVE  (WrittenInOrder /\ TornIsLast /\ FailureLeavesNothing
                           /\ ParentIsKnown)'
    OBVIOUS
  <2>2. CASE \E p \in Publishers : Step(p) \/ Crash(p)
    <3>1. PICK p \in Publishers : Step(p) \/ Crash(p)
      BY <2>2
    <3>2. QED
      BY <2>1, <3>1, OrderOfWriting, FailureKeepsNothing, ParentStays
  <2>3. CASE UNCHANGED vars
    BY <2>1, <2>3
       DEF vars, WrittenInOrder, TornIsLast, FailureLeavesNothing, ParentIsKnown,
           Entries, Written, AtWork, HasTheParent
  <2>4. QED
    BY <2>1, <2>2, <2>3 DEF Next
<1>3. QED
  BY <1>1, <1>2, Inductive, PTL DEF Spec, OrderInv

(* A directory the validity predicate accepts lacks at most the end of its *)
(* last file, the completion marker, whatever failed or was stopped.       *)
THEOREM MarkerComesLast == Spec => []OnlyTheMarkerIsTorn
<1>1. OrderInv => OnlyTheMarkerIsTorn
  <2>1. SUFFICES ASSUME OrderInv, NEW name \in Names, IsValid(name),
                        NEW f \in Entries(name), f.file # Last(Files)
                 PROVE  f.whole
    BY DEF OnlyTheMarkerIsTorn
  <2>2. f \in files /\ f.name = name
    BY DEF Entries
  <2>3. f.file \in FileNames
    BY <2>1, <2>2 DEF OrderInv, IInv, TypeOK, Directory
  <2>4. PICK i \in DOMAIN Files : f.file = Files[i]
    BY <2>3 DEF FileNames, ToSet
  <2>5. /\ DOMAIN Files = 1..Len(Files) /\ Len(Files) \in Nat /\ Len(Files) \in DOMAIN Files
        /\ Last(Files) = Files[Len(Files)]
    BY FilesAssumption DEF Last
  <2>6. i < Len(Files)
    BY <2>1, <2>4, <2>5
  <2>7. Last(Files) \in FileNames
    BY <2>5, FilesAreSome
  <2>8. PICK g \in Entries(name) : g.file = Last(Files)
    BY <2>1, <2>7 DEF IsValid
  <2>9. g \in files /\ g.name = name
    BY <2>8 DEF Entries
  <2>10. QED
    BY <2>1, <2>2, <2>4, <2>5, <2>6, <2>8, <2>9 DEF OrderInv, TornIsLast
<1>2. QED
  BY <1>1, OrderHolds, PTL

(* What is on disk is of publishers that hold it, have published it, or    *)
(* are known to have left it: a failure that was cleaned up leaves nothing.*)
THEOREM NothingIsLeft == Spec => []FailureLeavesNothing
<1>1. OrderInv => FailureLeavesNothing
  BY DEF OrderInv
<1>2. QED
  BY <1>1, OrderHolds, PTL

(* Nobody removes a parent older than all publishers, nor, short of a      *)
(* raced mkdir, one that another of them made.                             *)
THEOREM ParentIsItsRemovers == Spec => []RemoversMadeTheParent
<1>1. OrderInv => RemoversMadeTheParent
  BY DEF OrderInv, ParentIsKnown, RemoversMadeTheParent, AtWork, HasTheParent
<1>2. QED
  BY <1>1, OrderHolds, PTL

-----------------------------------------------------------------------------
(* The shelf and the steps that change what is in a directory.             *)
OnShelf == {entry \in Names \X Publishers : Whole(entry[1], entry[2])}

LEMMA SameWholeSameShelf ==
  ASSUME \A name \in Names, q \in Publishers : Whole(name, q)' <=> Whole(name, q)
  PROVE  OnShelf' = OnShelf
BY DEF OnShelf

LEMMA OpenKeepsShelf ==
  ASSUME IInv, NEW p \in Publishers, OpenFile(p)
  PROVE  OnShelf' = OnShelf
<1>1. PICK i \in DOMAIN Files :
        /\ Files[i] \notin Written(p)
        /\ files' = {f \in files : f.name # runId[p] \/ f.file # Files[i]}
                     \cup {Entry(p, Files[i], FALSE)}
  BY DEF OpenFile, IsNext
<1>2. ASSUME NEW r, r.whole = TRUE PROVE r \in files' <=> r \in files
  <2>1. r # Entry(p, Files[i], FALSE)
    BY <1>2 DEF Entry
  <2>2. r \in files => r.name # runId[p] \/ r.file # Files[i]
    BY <1>1, <1>2 DEF Written, Entries
  <2>3. QED
    BY <1>1, <2>1, <2>2
<1>3. \A name \in Names, q \in Publishers : Whole(name, q)' <=> Whole(name, q)
  <2>1. TAKE name \in Names, q \in Publishers
  <2>2. \A n \in FileNames :
          [name |-> name, file |-> n, by |-> q, whole |-> TRUE] \in files' <=>
          [name |-> name, file |-> n, by |-> q, whole |-> TRUE] \in files
    BY <1>2
  <2>3. QED
    BY <2>2 DEF Whole
<1>4. QED
  BY <1>3, SameWholeSameShelf

LEMMA UnlinkKeepsShelf ==
  ASSUME IInv, NEW p \in Publishers, Unlink(p)
  PROVE  OnShelf' = OnShelf
<1>1. PICK e \in files : e.name = runId[p] /\ files' = files \ {e}
  BY DEF Unlink, Entries
<1>2. pc[p] = "cleanup"
  BY DEF Unlink
<1>3. e.by = p /\ ~Whole(runId[p], p)
  BY <1>1, <1>2 DEF IInv, FilesAreTheHolders, Holds
<1>4. \A name \in Names, q \in Publishers : Whole(name, q)' <=> Whole(name, q)
  <2>1. TAKE name \in Names, q \in Publishers
  <2>2. Whole(name, q)' => Whole(name, q)
    BY <1>1 DEF Whole
  <2>3. ASSUME Whole(name, q) PROVE Whole(name, q)'
    <3>1. name # runId[p]
      BY <1>1, <1>3, <2>3, WholeIsOfOne
    <3>2. \A n \in FileNames : [name |-> name, file |-> n, by |-> q, whole |-> TRUE] # e
      BY <1>1, <3>1
    <3>3. QED
      BY <1>1, <2>3, <3>2 DEF Whole
  <2>4. QED
    BY <2>2, <2>3
<1>5. QED
  BY <1>4, SameWholeSameShelf

LEMMA WriteAddsToShelf ==
  ASSUME IInv, NEW p \in Publishers, WriteFile(p)
  PROVE  \/ OnShelf' = OnShelf
         \/ /\ \A entry \in OnShelf : entry[1] # runId[p]
            /\ OnShelf' = OnShelf \cup {<<runId[p], p>>}
<1>1. PICK file \in FileNames :
        /\ Entry(p, file, FALSE) \in files
        /\ files' = (files \ {Entry(p, file, FALSE)}) \cup {Entry(p, file, TRUE)}
  BY DEF WriteFile
<1>2. runId[p] \in Names /\ runId' = runId
  BY DEF IInv, TypeOK, WriteFile
<1> DEFINE e == Entry(p, file, FALSE)
           g == Entry(p, file, TRUE)
<1>3. /\ e \in files /\ e.name = runId[p] /\ e.by = p /\ e.whole = FALSE
      /\ e.file = file
      /\ g.name = runId[p] /\ g.by = p /\ g.file = file /\ g.whole = TRUE
      /\ files' = (files \ {e}) \cup {g}
  BY <1>1 DEF Entry
<1>4. g = [name |-> runId[p], file |-> file, by |-> p, whole |-> TRUE]
  BY DEF Entry
<1>5. ~Whole(runId[p], p)
  <2>1. g \notin files
    BY <1>3 DEF IInv, FilesAreTheHolders
  <2>2. QED
    BY <1>4, <2>1 DEF Whole
<1> HIDE DEF e, g
<1>6. \A entry \in OnShelf : entry[1] # runId[p]
  <2>1. SUFFICES ASSUME NEW entry \in OnShelf, entry[1] = runId[p] PROVE FALSE
    OBVIOUS
  <2>2. Whole(runId[p], entry[2])
    BY <2>1 DEF OnShelf
  <2>3. p = entry[2]
    BY <1>3, <2>2, WholeIsOfOne
  <2>4. QED
    BY <1>5, <2>2, <2>3
<1>7. \A name \in Names, q \in Publishers :
        <<name, q>> # <<runId[p], p>> => (Whole(name, q)' <=> Whole(name, q))
  <2>1. TAKE name \in Names, q \in Publishers
  <2>2. HAVE <<name, q>> # <<runId[p], p>>
  <2>3. \A n \in FileNames :
          /\ [name |-> name, file |-> n, by |-> q, whole |-> TRUE] # e
          /\ [name |-> name, file |-> n, by |-> q, whole |-> TRUE] # g
    BY <1>3, <2>2
  <2>4. QED
    BY <1>3, <2>3 DEF Whole
<1>8. <<runId[p], p>> \in Names \X Publishers
  BY <1>2
<1>9. CASE Whole(runId[p], p)'
  BY <1>2, <1>6, <1>7, <1>8, <1>9 DEF OnShelf
<1>10. CASE ~Whole(runId[p], p)'
  <2>1. \A name \in Names, q \in Publishers : Whole(name, q)' <=> Whole(name, q)
    BY <1>2, <1>5, <1>7, <1>10
  <2>2. QED
    BY <2>1, SameWholeSameShelf
<1>11. QED
  BY <1>9, <1>10

(* Publication implements the append-only shelf.                           *)
THEOREM ShelfIsKept == Spec => KeepsShelf
<1>1. Init => Shelf!Init
  <2>1. SUFFICES ASSUME Init PROVE OnShelf = {}
    BY DEF Shelf!Init, OnShelf
  <2>2. files = {}
    BY <2>1 DEF Init
  <2>3. QED
    BY <2>2, FilesAreSome DEF OnShelf, Whole
<1>2. IInv /\ [Next]_vars => [Shelf!Next]_OnShelf
  <2>1. SUFFICES ASSUME IInv, [Next]_vars
                 PROVE  \/ OnShelf' = OnShelf
                        \/ \E name \in Names, p \in Publishers :
                             /\ \A entry \in OnShelf : entry[1] # name
                             /\ OnShelf' = OnShelf \cup {<<name, p>>}
    BY DEF Shelf!Next, Shelf!Add, OnShelf
  <2>2. CASE \E p \in Publishers : Step(p) \/ Crash(p)
    <3>1. PICK p \in Publishers : Step(p) \/ Crash(p)
      BY <2>2
    <3>2. CASE Quiet(p)
      BY <2>1, <3>2, QuietSteps, SameWholeSameShelf DEF Whole
    <3>3. CASE Claim(p) \/ RemoveDirectory(p)
      BY <3>3, SameWholeSameShelf DEF Claim, RemoveDirectory, Whole
    <3>4. CASE OpenFile(p)
      BY <2>1, <3>4, OpenKeepsShelf
    <3>5. CASE Unlink(p)
      BY <2>1, <3>5, UnlinkKeepsShelf
    <3>6. CASE WriteFile(p)
      <4>1. runId[p] \in Names
        BY <2>1 DEF IInv, TypeOK
      <4>2. QED
        BY <2>1, <3>6, <4>1, WriteAddsToShelf
    <3>7. QED
      BY <3>1, <3>2, <3>3, <3>4, <3>5, <3>6, StepIs
  <2>3. CASE UNCHANGED vars
    BY <2>3, SameWholeSameShelf DEF vars, Whole
  <2>4. QED
    BY <2>1, <2>2, <2>3 DEF Next
<1>3. QED
  BY <1>1, <1>2, Inductive, PTL DEF Spec, KeepsShelf, Shelf!Spec, OnShelf

=============================================================================
