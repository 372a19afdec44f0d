------------------------------ MODULE CaseStore ------------------------------
(***************************************************************************)
(* The case store of the running service (store/case_store.py, api/app.py, *)
(* the act node of agent/graph.py): one sqlite3 connection, opened at      *)
(* import and shared by every request, each request served in a thread.    *)
(*                                                                         *)
(* write_record executes one INSERT and then commits. The connection opens *)
(* a transaction before an INSERT when it finds none open, and commit ends *)
(* it when it finds one: both look first and act afterwards, and other     *)
(* threads run in between. A transaction belongs to the connection, not to *)
(* the thread that opened it: a commit commits what anyone has inserted.   *)
(*                                                                         *)
(* sqlite3 is external. It is modelled from how write_record uses it, with *)
(* its ways to fail; struck is a history of those that left a mark on what *)
(* the requests share, for the properties to speak of.                     *)
(***************************************************************************)
EXTENDS Naturals, Sequences, FiniteSets

CONSTANT Runs   \* the requests, one run of the graph each

VARIABLES
  pc,        \* where each run is in its act node
  open,      \* the connection is in a transaction
  pending,   \* the rows inserted in it, in order
  rows,      \* the rows of case_records on disk, in order
  struck     \* the failures so far that others may have suffered from

vars == <<pc, open, pending, rows, struck>>

Failures == {"rollback", "commit"}

States == {"deciding", "begin", "insert", "commit", "committing",
           "returned", "raised", "lost"}

Init ==
  /\ pc = [r \in Runs |-> "deciding"]
  /\ open = FALSE
  /\ pending = << >>
  /\ rows = << >>
  /\ struck = {}

Goto(r, where) == pc' = [pc EXCEPT ![r] = where]

(* write_record is called; execute looks whether a transaction is open.    *)
Execute(r) ==
  /\ pc[r] = "deciding"
  /\ Goto(r, IF open THEN "insert" ELSE "begin")
  /\ UNCHANGED <<open, pending, rows, struck>>

(* BEGIN: it fails when another thread has begun meanwhile.                *)
Begin(r) ==
  /\ pc[r] = "begin"
  /\ ~open
  /\ open' = TRUE
  /\ Goto(r, "insert")
  /\ UNCHANGED <<pending, rows, struck>>

BeginFails(r) ==
  /\ pc[r] = "begin"
  /\ open
  /\ Goto(r, "raised")
  /\ UNCHANGED <<open, pending, rows, struck>>

(* The INSERT. Where another thread has ended the transaction since, it is *)
(* committed on its own.                                                   *)
Insert(r) ==
  /\ pc[r] = "insert"
  /\ IF open
       THEN pending' = Append(pending, r) /\ UNCHANGED rows
       ELSE rows' = Append(rows, r) /\ UNCHANGED pending
  /\ Goto(r, "commit")
  /\ UNCHANGED <<open, struck>>

(* The statement fails and leaves the transaction as it is.                *)
InsertIsRefused(r) ==
  /\ pc[r] = "insert"
  /\ Goto(r, "raised")
  /\ UNCHANGED <<open, pending, rows, struck>>

(* A full disk, an I/O error: sqlite may roll the transaction back.        *)
InsertRollsBack(r) ==
  /\ pc[r] = "insert"
  /\ struck' = struck \cup {"rollback"}
  /\ open' = FALSE
  /\ pending' = << >>
  /\ Goto(r, "raised")
  /\ UNCHANGED rows

(* Wrong: write_record returns without a commit.                           *)
BugReturnsUncommitted(r) ==
  /\ pc[r] = "commit"
  /\ Goto(r, "returned")
  /\ UNCHANGED <<open, pending, rows, struck>>

(* commit looks whether a transaction is open; if there is none, it is     *)
(* done and write_record returns.                                          *)
Commit(r) ==
  /\ pc[r] = "commit"
  /\ Goto(r, IF open THEN "committing" ELSE "returned")
  /\ UNCHANGED <<open, pending, rows, struck>>

CommitDone(r) ==
  /\ pc[r] = "committing"
  /\ open
  /\ rows' = rows \o pending
  /\ pending' = << >>
  /\ open' = FALSE
  /\ Goto(r, "returned")
  /\ UNCHANGED struck

(* Another thread has committed meanwhile: there is nothing to commit.     *)
CommitRaises(r) ==
  /\ pc[r] = "committing"
  /\ ~open
  /\ Goto(r, "raised")
  /\ UNCHANGED <<open, pending, rows, struck>>

(* The database is busy with another process: the transaction stays open.  *)
CommitIsRefused(r) ==
  /\ pc[r] = "committing"
  /\ open
  /\ struck' = struck \cup {"commit"}
  /\ Goto(r, "raised")
  /\ UNCHANGED <<open, pending, rows>>

(* A full disk, an I/O error: the COMMIT may roll the transaction back,    *)
(* with the rows of whoever else has inserted in it.                       *)
CommitRollsBack(r) ==
  /\ pc[r] = "committing"
  /\ open
  /\ struck' = struck \cup {"rollback"}
  /\ open' = FALSE
  /\ pending' = << >>
  /\ Goto(r, "raised")
  /\ UNCHANGED rows

(* The service stops: what was not committed is rolled back, the requests  *)
(* under way get no answer, and the next process opens a new connection.   *)
Crash ==
  /\ \E r \in Runs : pc[r] \notin {"deciding", "returned", "raised", "lost"}
  /\ pc' = [r \in Runs |->
              IF pc[r] \in {"deciding", "returned", "raised"} THEN pc[r] ELSE "lost"]
  /\ open' = FALSE
  /\ pending' = << >>
  /\ UNCHANGED <<rows, struck>>

Write(r) ==
  \/ Execute(r) \/ Begin(r) \/ BeginFails(r)
  \/ Insert(r) \/ InsertIsRefused(r) \/ InsertRollsBack(r)
  \/ Commit(r) \/ CommitDone(r) \/ CommitRaises(r)
  \/ CommitIsRefused(r) \/ CommitRollsBack(r)

Next == (\E r \in Runs : Write(r)) \/ Crash

Spec == Init /\ [][Next]_vars

-----------------------------------------------------------------------------
InSeq(r, s) == \E i \in DOMAIN s : s[i] = r

NoDuplicates(s) == \A i, j \in DOMAIN s : s[i] = s[j] => i = j

Ended(r) == pc[r] \in {"returned", "raised", "lost"}

(* The type of every variable.                                             *)
TypeOK ==
  /\ pc \in [Runs -> States]
  /\ open \in BOOLEAN
  /\ pending \in Seq(Runs)
  /\ rows \in Seq(Runs)
  /\ struck \subseteq Failures

(* A decision that was answered is on record: once write_record has        *)
(* returned, whatever other threads do to the shared connection and        *)
(* whenever the service crashes, the row is on disk ("Persist one decision *)
(* record", write_record). It takes a statement, INSERT or COMMIT, that    *)
(* fails and rolls back what others have inserted to break this.           *)
ReturnedIsOnRecord ==
  "rollback" \notin struck =>
    \A r \in Runs : pc[r] = "returned" => InSeq(r, rows)

(* A run has at most one row, counting those not committed yet, although a *)
(* commit commits the rows of other threads and a failed one leaves rows   *)
(* behind for the next.                                                    *)
RecordedAtMostOnce ==
  NoDuplicates(rows \o pending)

(* No row waits for a request that will not come: when every request has   *)
(* ended, nothing is left uncommitted on the connection, unless the last   *)
(* COMMIT was refused.                                                     *)
NothingIsStranded ==
  "commit" \notin struck /\ (\A r \in Runs : Ended(r) \/ pc[r] = "deciding")
    => pending = << >>

(* Sharing the connection is safe: a run that failed to write leaves no    *)
(* record, as long as storage has not failed (CaseStore.__init__).         *)
FailedRunLeavesNoRecord ==
  struck = {} => \A r \in Runs : pc[r] = "raised" => ~InSeq(r, rows)

(***************************************************************************)
(* The inductive invariant behind the first two: where the row of a run    *)
(* is, by where the run is.                                                *)
(***************************************************************************)
NotYetInserted == {"deciding", "begin", "insert"}

RowIsWhereItBelongs ==
  /\ ~open => pending = << >>
  /\ \A r \in Runs :
       /\ pc[r] \in NotYetInserted => ~InSeq(r, rows) /\ ~InSeq(r, pending)
       /\ "rollback" \notin struck =>
            /\ pc[r] \in {"commit", "committing"} => InSeq(r, rows) \/ InSeq(r, pending)
            /\ pc[r] = "returned" => InSeq(r, rows)

IInv == TypeOK /\ RowIsWhereItBelongs /\ RecordedAtMostOnce

(* Behind the third: as long as no COMMIT was refused, a row that is not   *)
(* committed yet has a run that is still to commit it, its own or another. *)
PendingHasACommitter ==
  "commit" \notin struck /\ pending # << >> =>
    \E r \in Runs : pc[r] \in {"commit", "committing"}

=============================================================================
