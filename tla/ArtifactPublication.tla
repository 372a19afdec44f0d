------------------------- MODULE ArtifactPublication -------------------------
(***************************************************************************)
(* The publication of an artifact as a directory of its own, by processes  *)
(* that may run at the same time: publish of eval/redteam_record.py,       *)
(* publish_session of eval/redteam_live.py and publish of                  *)
(* eval/redteam_public_summary.py, which share one lifecycle. The parent   *)
(* directory is made if need be, the directory named after the run id is   *)
(* claimed with an exclusive mkdir, the files are written in order, and    *)
(* a write that fails is followed by the removal of the directory and, if  *)
(* the parent was not there before, of the empty parent.                   *)
(*                                                                         *)
(* A file is its author and whether it was written to its end; run ids are *)
(* chosen freely, for they are made of a time in seconds. rmtree removes   *)
(* one entry at a time. The code ends in one of the ways of Outcomes.      *)
(***************************************************************************)
EXTENDS Naturals, SequencesExt, FiniteSets

CONSTANTS
  Publishers,     \* the invocations
  Names,          \* the run ids
  Files,          \* the files of an artifact, in the order they are written
  Nobody          \* made the parent, when it was there before them all

ASSUME FilesAssumption ==
  /\ Files \in Seq(STRING) /\ Files # << >>
  /\ \A i, j \in DOMAIN Files : Files[i] = Files[j] => i = j

ASSUME NobodyAssumption == Nobody \notin Publishers

VARIABLES
  pc,          \* where each publisher is, or how it ended
  runId,       \* the run id of each
  preexisted,  \* out_root_preexisted of each
  root,        \* the parent directory: is it there, who made it, and has a
               \* mkdir ever found one that its publisher's test had not
  claimed,     \* the directories in it
  files        \* the files in those

vars == <<pc, runId, preexisted, root, claimed, files>>

FileNames == ToSet(Files)

Outcomes == {"published", "collided", "orphaned", "failed", "remnant", "crashed"}

Places == {"look", "parent", "claim", "write", "cleanup", "courtesy"} \cup Outcomes

(* The entries of a directory, and those that are complete.                *)
Entries(name) == {f \in files : f.name = name}

Whole(name, p) ==
  \A file \in FileNames : [name |-> name, file |-> file, by |-> p, whole |-> TRUE] \in files

Goto(p, place) == pc' = [pc EXCEPT ![p] = place]

Init ==
  /\ pc = [p \in Publishers |-> "look"]
  /\ runId \in [Publishers -> Names]
  /\ preexisted = [p \in Publishers |-> FALSE]
  /\ root \in [there : BOOLEAN, by : {Nobody}, raced : {FALSE}]
  /\ claimed = {}
  /\ files = {}

(* out_root.exists(); the artifact has been built before.                  *)
Look(p) ==
  /\ pc[p] = "look"
  /\ preexisted' = [preexisted EXCEPT ![p] = root.there]
  /\ Goto(p, "parent")
  /\ UNCHANGED <<runId, root, claimed, files>>

(* out_root.mkdir(parents=True, exist_ok=True).                            *)
MakeRoot(p) ==
  /\ pc[p] = "parent"
  /\ root' = IF root.there THEN [root EXCEPT !.raced = @ \/ ~preexisted[p]]
                            ELSE [root EXCEPT !.there = TRUE, !.by = p]
  /\ Goto(p, "claim")
  /\ UNCHANGED <<runId, preexisted, claimed, files>>

(* Wrong: a directory that is there is as good as a new one.               *)
BugClaimNotExclusive(p) ==
  /\ pc[p] = "claim"
  /\ root.there
  /\ claimed' = claimed \cup {runId[p]}
  /\ Goto(p, "write")
  /\ UNCHANGED <<runId, preexisted, root, files>>

(* final.mkdir(), the exclusive claim.                                     *)
Claim(p) ==
  /\ pc[p] = "claim"
  /\ root.there /\ runId[p] \notin claimed
  /\ claimed' = claimed \cup {runId[p]}
  /\ Goto(p, "write")
  /\ UNCHANGED <<runId, preexisted, root, files>>

(* Wrong: a collision is cleaned up after like a failed write.             *)
BugCollisionCleansUp(p) ==
  /\ pc[p] = "claim"
  /\ runId[p] \in claimed
  /\ Goto(p, "cleanup")
  /\ UNCHANGED <<runId, preexisted, root, claimed, files>>

Collide(p) ==
  /\ pc[p] = "claim"
  /\ runId[p] \in claimed
  /\ Goto(p, "collided")
  /\ UNCHANGED <<runId, preexisted, root, claimed, files>>

(* mkdir finds no parent: FileNotFoundError, which nothing catches.        *)
Orphan(p) ==
  /\ pc[p] = "claim"
  /\ ~root.there
  /\ Goto(p, "orphaned")
  /\ UNCHANGED <<runId, preexisted, root, claimed, files>>

-----------------------------------------------------------------------------
Written(p) == {f.file : f \in {f \in Entries(runId[p]) : f.whole}}

(* Wrong: the completion marker is written first.                          *)
BugMarkerFirst(p, i) ==
  /\ Files[i] \notin Written(p)
  /\ \A j \in DOMAIN Files : j > i => Files[j] \in Written(p)

(* The i-th file is the next to write.                                     *)
IsNext(p, i) ==
  /\ Files[i] \notin Written(p)
  /\ \A j \in DOMAIN Files : j < i => Files[j] \in Written(p)

Entry(p, file, whole) ==
  [name |-> runId[p], file |-> file, by |-> p, whole |-> whole]

(* write_text opens the file, which creates it or empties it...            *)
OpenFile(p) ==
  /\ pc[p] = "write"
  /\ \E i \in DOMAIN Files :
       /\ IsNext(p, i)
       /\ files' = {f \in files : f.name # runId[p] \/ f.file # Files[i]}
                     \cup {Entry(p, Files[i], FALSE)}
  /\ UNCHANGED <<pc, runId, preexisted, root, claimed>>

(* ... and writes and closes it.                                           *)
WriteFile(p) ==
  /\ pc[p] = "write"
  /\ \E file \in FileNames :
       /\ Entry(p, file, FALSE) \in files
       /\ files' = (files \ {Entry(p, file, FALSE)}) \cup {Entry(p, file, TRUE)}
  /\ UNCHANGED <<pc, runId, preexisted, root, claimed>>

Publish(p) ==
  /\ pc[p] = "write"
  /\ Written(p) = FileNames
  /\ Goto(p, "published")
  /\ UNCHANGED <<runId, preexisted, root, claimed, files>>

(* Wrong: the files are left where they are.                               *)
BugNoCleanup(p) ==
  /\ pc[p] = "write"
  /\ Written(p) # FileNames
  /\ Goto(p, "failed")
  /\ UNCHANGED <<runId, preexisted, root, claimed, files>>

(* A file cannot be opened, or be written to its end.                      *)
WriteFails(p) ==
  /\ pc[p] = "write"
  /\ Written(p) # FileNames
  /\ Goto(p, "cleanup")
  /\ UNCHANGED <<runId, preexisted, root, claimed, files>>

-----------------------------------------------------------------------------
(* shutil.rmtree: the entries in any order, then the directory.            *)
Unlink(p) ==
  /\ pc[p] = "cleanup"
  /\ \E f \in Entries(runId[p]) : files' = files \ {f}
  /\ UNCHANGED <<pc, runId, preexisted, root, claimed>>

(* Wrong: the parent is tried in any case.                                 *)
BugCourtesyAlways(p) ==
  /\ pc[p] = "cleanup"
  /\ Entries(runId[p]) = {}
  /\ claimed' = claimed \ {runId[p]}
  /\ Goto(p, "courtesy")
  /\ UNCHANGED <<runId, preexisted, root, files>>

RemoveDirectory(p) ==
  /\ pc[p] = "cleanup"
  /\ Entries(runId[p]) = {}
  /\ claimed' = claimed \ {runId[p]}
  /\ Goto(p, IF preexisted[p] THEN "failed" ELSE "courtesy")
  /\ UNCHANGED <<runId, preexisted, root, files>>

(* rmtree raises, at whatever entry: the cleanup error.                    *)
CleanupRaises(p) ==
  /\ pc[p] = "cleanup"
  /\ Goto(p, "remnant")
  /\ UNCHANGED <<runId, preexisted, root, claimed, files>>

(* out_root.rmdir(), which only removes an empty directory; that it fails  *)
(* is swallowed.                                                           *)
RemoveRoot(p) ==
  /\ pc[p] = "courtesy"
  /\ root' = IF claimed = {} THEN [root EXCEPT !.there = FALSE, !.by = Nobody] ELSE root
  /\ Goto(p, "failed")
  /\ UNCHANGED <<runId, preexisted, claimed, files>>

(* The process is stopped.                                                 *)
Crash(p) ==
  /\ pc[p] \notin Outcomes
  /\ Goto(p, "crashed")
  /\ UNCHANGED <<runId, preexisted, root, claimed, files>>

Step(p) ==
  \/ Look(p) \/ MakeRoot(p) \/ Claim(p) \/ Collide(p) \/ Orphan(p)
  \/ OpenFile(p) \/ WriteFile(p) \/ Publish(p) \/ WriteFails(p)
  \/ Unlink(p) \/ RemoveDirectory(p) \/ CleanupRaises(p) \/ RemoveRoot(p)

Next == \E p \in Publishers : Step(p) \/ Crash(p)

Spec == Init /\ [][Next]_vars

-----------------------------------------------------------------------------
Directory == [name : Names, file : FileNames, by : Publishers, whole : BOOLEAN]

Root == [there : BOOLEAN, by : Publishers \cup {Nobody}, raced : BOOLEAN]

(* The type of every variable.                                             *)
TypeOK ==
  /\ pc \in [Publishers -> Places]
  /\ runId \in [Publishers -> Names]
  /\ preexisted \in [Publishers -> BOOLEAN]
  /\ root \in Root
  /\ claimed \subseteq Names
  /\ files \subseteq Directory

(* _is_valid_record_directory and _is_valid_session_directory: the files   *)
(* that are expected, whatever is in them.                                 *)
IsValid(name) == {f.file : f \in Entries(name)} = FileNames

(* The complete records only grow, one to a name, whoever else publishes,  *)
(* fails, cleans up or is stopped (redteam_record.py, "NEVER overwritten").*)
Shelf == INSTANCE AppendOnlyShelf WITH
  Authors <- Publishers,
  shelf   <- {entry \in Names \X Publishers : Whole(entry[1], entry[2])}

KeepsShelf == Shelf!Spec

(* A publication that returned is complete and its own, and stays so: no   *)
(* cleanup of another publisher, and no later claim of the same id,        *)
(* touches it.                                                             *)
PublishedIsWhole ==
  \A p \in Publishers : pc[p] = "published" => Whole(runId[p], p)

(* Every record is of one author: no directory mixes the files of two      *)
(* publications with the same run id.                                      *)
RecordsAreOfOneAuthor ==
  \A f, g \in files : f.name = g.name => f.by = g.by

(* Whatever has failed or been stopped, a directory the validity predicate *)
(* accepts lacks at most the end of its last file: the completion marker   *)
(* is written when all else is complete.                                   *)
OnlyTheMarkerIsTorn ==
  \A name \in Names : IsValid(name) =>
    \A f \in Entries(name) : f.file = Last(Files) \/ f.whole

(* A publication that failed, its cleanup done, leaves nothing behind, and *)
(* frees its run id: what is on disk is of publishers that hold it, have   *)
(* published it, or are known to have left it.                             *)
FailureLeavesNothing ==
  \A name \in claimed :
    \E p \in Publishers :
      /\ runId[p] = name
      /\ pc[p] \in {"write", "cleanup", "published", "remnant", "crashed"}

(* Who is about to remove the parent removes none that was there before    *)
(* all of them and, as long as no mkdir has found a parent that the test   *)
(* before it had not, none but the one it made itself (redteam_record.py,  *)
(* "ONLY if this invocation created it"). The code goes by its test: after *)
(* such a race it may remove the parent another invocation made.           *)
RemoversMadeTheParent ==
  \A p \in Publishers : pc[p] = "courtesy" /\ root.there =>
    /\ root.by # Nobody
    /\ root.raced \/ root.by = p

(* A directory that nobody is at work in and that the predicate accepts is *)
(* complete: what a failed cleanup leaves "is NOT a valid admission        *)
(* record" (publish).                                                      *)
IncompleteIsNotValid ==
  \A p \in Publishers :
    pc[p] \in {"remnant", "crashed"} /\ IsValid(runId[p]) =>
      \A f \in Entries(runId[p]) : f.by = p => f.whole

(***************************************************************************)
(* The inductive invariant: a directory has one holder, what is in it is   *)
(* the holder's, and a holder that cleans up has not completed it.         *)
(***************************************************************************)
Holds(p) == pc[p] \in {"write", "cleanup", "published"}

HoldersExclude ==
  /\ \A p \in Publishers : Holds(p) => runId[p] \in claimed
  /\ \A p, q \in Publishers :
       Holds(p) /\ Holds(q) /\ runId[p] = runId[q] => p = q

FilesAreTheHolders ==
  /\ \A f \in files : f.name \in claimed
  /\ \A f, g \in files : f.name = g.name /\ f.file = g.file => f = g
  /\ \A p \in Publishers, f \in files :
       Holds(p) /\ f.name = runId[p] => f.by = p

IInv ==
  /\ TypeOK
  /\ HoldersExclude
  /\ FilesAreTheHolders
  /\ RecordsAreOfOneAuthor
  /\ PublishedIsWhole
  /\ \A p \in Publishers : pc[p] = "cleanup" => ~Whole(runId[p], p)

(***************************************************************************)
(* Nor is that inductive of the order of writing and of the parent. A file *)
(* is opened when those before it are complete, so that a torn file, which *)
(* an unlinking or a stop may leave, is the last of what there is; a       *)
(* parent older than all publishers was found by each; and a publisher     *)
(* that found none has made the one there is, unless a mkdir was raced.    *)
(***************************************************************************)
WrittenInOrder ==
  \A p \in Publishers, i, j \in DOMAIN Files :
    pc[p] = "write" /\ j < i /\ (\E f \in Entries(runId[p]) : f.file = Files[i]) =>
      Files[j] \in Written(p)

TornIsLast ==
  \A f, g \in files, i, j \in DOMAIN Files :
    f.name = g.name /\ f.file = Files[i] /\ g.file = Files[j] /\ i < j => f.whole

AtWork(p) == pc[p] \in {"parent", "claim", "write", "cleanup", "courtesy"}

HasTheParent(p) == pc[p] \in {"claim", "write", "cleanup", "courtesy"}

ParentIsKnown ==
  /\ \A p \in Publishers : pc[p] = "courtesy" => ~preexisted[p]
  /\ root.there /\ root.by = Nobody => \A p \in Publishers : AtWork(p) => preexisted[p]
  /\ ~root.raced =>
       \A p \in Publishers : HasTheParent(p) /\ ~preexisted[p] => root.there /\ root.by = p

OrderInv ==
  /\ IInv
  /\ WrittenInOrder
  /\ TornIsLast
  /\ FailureLeavesNothing
  /\ ParentIsKnown

=============================================================================
