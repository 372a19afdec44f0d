-------------------------- MODULE CaseStore_proofs --------------------------
(***************************************************************************)
(* For any number of requests on the shared connection, with statements    *)
(* that are refused and a service that crashes: a decision that was        *)
(* answered is on record unless a statement rolled back what others had    *)
(* inserted, and no decision is on record twice.                           *)
(***************************************************************************)
EXTENDS CaseStore, TLAPS

(* What is in a sequence that was extended or joined.                      *)
LEMMA InAppend ==
  ASSUME NEW s \in Seq(Runs), NEW q \in Runs, NEW r \in Runs
  PROVE  InSeq(r, Append(s, q)) <=> InSeq(r, s) \/ r = q
<1> DEFINE t == Append(s, q)
<1>1. \A i \in DOMAIN s : i \in DOMAIN t /\ t[i] = s[i]
  OBVIOUS
<1>2. Len(s) + 1 \in DOMAIN t /\ t[Len(s) + 1] = q
  OBVIOUS
<1>3. \A i \in DOMAIN t : i = Len(s) + 1 \/ i \in DOMAIN s
  OBVIOUS
<1> HIDE DEF t
<1>4. QED
  BY <1>1, <1>2, <1>3 DEF InSeq

LEMMA InConcat ==
  ASSUME NEW s \in Seq(Runs), NEW p \in Seq(Runs), NEW r \in Runs
  PROVE  InSeq(r, s \o p) <=> InSeq(r, s) \/ InSeq(r, p)
<1> DEFINE t == s \o p
<1>1. \A i \in DOMAIN s : i \in DOMAIN t /\ t[i] = s[i]
  OBVIOUS
<1>2. \A i \in DOMAIN p : Len(s) + i \in DOMAIN t /\ t[Len(s) + i] = p[i]
  OBVIOUS
<1>3. \A i \in DOMAIN t : i \notin DOMAIN s => (i - Len(s)) \in DOMAIN p /\ t[i] = p[i - Len(s)]
  OBVIOUS
<1> HIDE DEF t
<1>4. InSeq(r, t) <=> InSeq(r, s) \/ InSeq(r, p)
  BY <1>1, <1>2, <1>3 DEF InSeq
<1>5. QED
  BY <1>4 DEF t

LEMMA NotInEmpty == \A r \in Runs : ~InSeq(r, << >>)
  BY DEF InSeq

(* A sequence without duplicates stays so with an element it had not.      *)
LEMMA AppendIsDistinct ==
  ASSUME NEW s \in Seq(Runs), NEW r \in Runs, NoDuplicates(s), ~InSeq(r, s)
  PROVE  NoDuplicates(Append(s, r))
<1> DEFINE t == Append(s, r)
<1>1. SUFFICES ASSUME NEW i \in DOMAIN t, NEW j \in DOMAIN t, t[i] = t[j]
               PROVE  i = j
  BY DEF NoDuplicates
<1>2. \A k \in DOMAIN t :
        \/ k = Len(s) + 1 /\ t[k] = r
        \/ k \in DOMAIN s /\ t[k] = s[k]
  OBVIOUS
<1>3. \A k \in DOMAIN s : s[k] # r
  BY DEF InSeq
<1> HIDE DEF t
<1>4. QED
  BY <1>1, <1>2, <1>3 DEF NoDuplicates

(* Nor does losing its end add a duplicate to a sequence.                  *)
LEMMA FrontIsDistinct ==
  ASSUME NEW s \in Seq(Runs), NEW p \in Seq(Runs), NoDuplicates(s \o p)
  PROVE  NoDuplicates(s)
<1> DEFINE t == s \o p
<1>1. SUFFICES ASSUME NEW i \in DOMAIN s, NEW j \in DOMAIN s, s[i] = s[j]
               PROVE  i = j
  BY DEF NoDuplicates
<1>2. \A k \in DOMAIN s : k \in DOMAIN t /\ t[k] = s[k]
  OBVIOUS
<1> HIDE DEF t
<1>3. NoDuplicates(t)
  BY DEF t
<1>4. QED
  BY <1>1, <1>2, <1>3 DEF NoDuplicates

LEMMA ConcatEmpty == \A s \in Seq(Runs) : s \o << >> = s
  OBVIOUS

LEMMA ConcatAppend ==
  ASSUME NEW s \in Seq(Runs), NEW p \in Seq(Runs), NEW r \in Runs
  PROVE  s \o Append(p, r) = Append(s \o p, r)
  OBVIOUS

-----------------------------------------------------------------------------
LEMMA InitEstablishes == Init => IInv
<1>1. SUFFICES ASSUME Init PROVE IInv
  OBVIOUS
<1>2. TypeOK
  <2>1. "deciding" \in States
    BY DEF States
  <2>2. << >> \in Seq(Runs)
    OBVIOUS
  <2>3. QED
    BY <1>1, <2>1, <2>2 DEF Init, TypeOK, Failures
<1>3. RowIsWhereItBelongs
  BY <1>1, NotInEmpty DEF Init, RowIsWhereItBelongs, NotYetInserted
<1>4. RecordedAtMostOnce
  BY <1>1 DEF Init, RecordedAtMostOnce, NoDuplicates
<1>5. QED
  BY <1>2, <1>3, <1>4 DEF IInv

(* A step that moves one run and leaves the rows alone, where the row of   *)
(* the run allows the move.                                                *)
LEMMA MovePreserves ==
  ASSUME IInv, NEW r \in Runs, NEW where \in States, Goto(r, where),
         UNCHANGED <<pending, rows>>, open' \in BOOLEAN,
         struck' \in {struck, struck \cup {"commit"}},
         ~open' => pending' = << >>,
         where \in NotYetInserted => pc[r] \in NotYetInserted,
         where \in {"commit", "committing"} => pc[r] \in {"commit", "committing"},
         where = "returned" => InSeq(r, rows) \/ "rollback" \in struck
  PROVE  IInv'
<1> USE DEF IInv
<1>1. TypeOK'
  BY DEF TypeOK, Goto, Failures
<1>2. RowIsWhereItBelongs'
  BY DEF TypeOK, RowIsWhereItBelongs, NotYetInserted, InSeq, Goto
<1>3. RecordedAtMostOnce'
  BY DEF RecordedAtMostOnce, NoDuplicates
<1>4. QED
  BY <1>1, <1>2, <1>3

LEMMA InsertPreserves ==
  ASSUME IInv, NEW r \in Runs, Insert(r)
  PROVE  IInv'
<1> USE DEF IInv
<1>1. rows \in Seq(Runs) /\ pending \in Seq(Runs)
  BY DEF TypeOK
<1>2. ~InSeq(r, rows) /\ ~InSeq(r, pending)
  BY DEF RowIsWhereItBelongs, NotYetInserted, Insert
<1>3. ~InSeq(r, rows \o pending) /\ rows \o pending \in Seq(Runs)
  BY <1>1, <1>2, InConcat
<1>4. NoDuplicates(Append(rows \o pending, r))
  BY <1>3, AppendIsDistinct DEF RecordedAtMostOnce
<1>5. TypeOK'
  <2>1. pc' \in [Runs -> States]
    <3>1. "commit" \in States
      BY DEF States
    <3>2. QED
      BY <3>1 DEF TypeOK, Insert, Goto
  <2>2. pending' \in Seq(Runs) /\ rows' \in Seq(Runs)
    <3>1. Append(pending, r) \in Seq(Runs) /\ Append(rows, r) \in Seq(Runs)
      BY <1>1
    <3>2. QED
      BY <1>1, <3>1 DEF Insert
  <2>3. open' \in BOOLEAN
    BY DEF TypeOK, Insert
  <2>4. struck' = struck
    BY DEF Insert
  <2>5. QED
    BY <2>1, <2>2, <2>3, <2>4 DEF TypeOK
<1>6. CASE open
  <2>1. pending' = Append(pending, r) /\ rows' = rows /\ open' /\ struck' = struck
    BY <1>6 DEF Insert
  <2>2. rows' \o pending' = Append(rows \o pending, r)
    BY <1>1, <2>1, ConcatAppend
  <2>3. RecordedAtMostOnce'
    BY <2>2, <1>4 DEF RecordedAtMostOnce
  <2>4. \A q \in Runs : InSeq(q, pending') <=> InSeq(q, pending) \/ q = r
    BY <1>1, <2>1, InAppend
  <2>5. pc' = [pc EXCEPT ![r] = "commit"] /\ pc[r] = "insert"
    BY DEF Insert, Goto
  <2>6. \A q \in Runs : InSeq(q, rows') <=> InSeq(q, rows)
    BY <2>1
  <2>7. \A q \in Runs : pc'[q] = IF q = r THEN "commit" ELSE pc[q]
    BY <2>5 DEF TypeOK
  <2>8. RowIsWhereItBelongs'
    BY <2>1, <2>4, <2>5, <2>6, <2>7 DEF RowIsWhereItBelongs, NotYetInserted
  <2>9. QED
    BY <1>5, <2>3, <2>8
<1>7. CASE ~open
  <2>1. /\ pending' = pending /\ rows' = Append(rows, r) /\ struck' = struck
        /\ ~open' /\ pending = << >>
    BY <1>7 DEF Insert, RowIsWhereItBelongs, TypeOK
  <2>2. rows' \o pending' = Append(rows \o pending, r)
    BY <1>1, <2>1, ConcatEmpty
  <2>3. RecordedAtMostOnce'
    BY <2>2, <1>4 DEF RecordedAtMostOnce
  <2>4. \A q \in Runs : InSeq(q, rows') <=> InSeq(q, rows) \/ q = r
    BY <1>1, <2>1, InAppend
  <2>5. pc' = [pc EXCEPT ![r] = "commit"] /\ pc[r] = "insert"
    BY DEF Insert, Goto
  <2>6. \A q \in Runs : InSeq(q, pending') <=> InSeq(q, pending)
    BY <2>1
  <2>7. \A q \in Runs : pc'[q] = IF q = r THEN "commit" ELSE pc[q]
    BY <2>5 DEF TypeOK
  <2>8. RowIsWhereItBelongs'
    BY <2>1, <2>4, <2>5, <2>6, <2>7 DEF RowIsWhereItBelongs, NotYetInserted
  <2>9. QED
    BY <1>5, <2>3, <2>8
<1>8. QED
  BY <1>6, <1>7

LEMMA CommitPreserves ==
  ASSUME IInv, NEW r \in Runs, CommitDone(r)
  PROVE  IInv'
<1> USE DEF IInv
<1>1. rows \in Seq(Runs) /\ pending \in Seq(Runs)
  BY DEF TypeOK
<1>2. /\ rows' = rows \o pending /\ pending' = << >> /\ ~open' /\ open' \in BOOLEAN
      /\ struck' = struck
  BY DEF CommitDone
<1>3. \A q \in Runs : InSeq(q, rows') <=> InSeq(q, rows) \/ InSeq(q, pending)
  BY <1>1, <1>2, InConcat
<1>4. pc' = [pc EXCEPT ![r] = "returned"] /\ pc[r] = "committing"
  BY DEF CommitDone, Goto
<1>5. TypeOK'
  BY <1>1, <1>2, <1>4 DEF TypeOK, States
<1>6. RowIsWhereItBelongs'
  BY <1>2, <1>3, <1>4, NotInEmpty DEF TypeOK, RowIsWhereItBelongs, NotYetInserted
<1>7. rows' \o pending' = rows \o pending
  BY <1>1, <1>2, ConcatEmpty
<1>8. RecordedAtMostOnce'
  BY <1>7 DEF RecordedAtMostOnce
<1>9. QED
  BY <1>5, <1>6, <1>8

LEMMA CrashPreserves ==
  ASSUME IInv, Crash
  PROVE  IInv'
<1> USE DEF IInv
<1>1. rows \in Seq(Runs) /\ pending \in Seq(Runs)
  BY DEF TypeOK
<1>2. rows' = rows /\ pending' = << >> /\ open' = FALSE /\ struck' = struck
  BY DEF Crash
<1>3. \A q \in Runs :
        pc'[q] = IF pc[q] \in {"deciding", "returned", "raised"} THEN pc[q] ELSE "lost"
  BY DEF Crash
<1>4. TypeOK'
  <2>1. pc' \in [Runs -> States]
    <3>1. "lost" \in States
      BY DEF States
    <3>2. \A q \in Runs : pc[q] \in States
      BY DEF TypeOK
    <3>3. QED
      BY <3>1, <3>2 DEF Crash
  <2>2. pending' \in Seq(Runs) /\ rows' \in Seq(Runs)
    BY <1>1, <1>2
  <2>3. QED
    BY <2>1, <2>2, <1>2 DEF TypeOK
<1>5. RowIsWhereItBelongs'
  BY <1>2, <1>3, NotInEmpty DEF RowIsWhereItBelongs, NotYetInserted, InSeq
<1>6. rows' \o pending' = rows
  BY <1>1, <1>2, ConcatEmpty
<1>7. RecordedAtMostOnce'
  BY <1>1, <1>6, FrontIsDistinct DEF RecordedAtMostOnce
<1>8. QED
  BY <1>4, <1>5, <1>7

LEMMA RollbackPreserves ==
  ASSUME IInv, NEW r \in Runs, InsertRollsBack(r) \/ CommitRollsBack(r)
  PROVE  IInv'
<1> USE DEF IInv
<1>1. rows \in Seq(Runs) /\ pending \in Seq(Runs)
  BY DEF TypeOK
<1>2. /\ rows' = rows /\ pending' = << >> /\ open' = FALSE
      /\ struck' = struck \cup {"rollback"} /\ pc' = [pc EXCEPT ![r] = "raised"]
  BY DEF InsertRollsBack, CommitRollsBack, Goto
<1>3. TypeOK'
  <2>1. "raised" \in States
    BY DEF States
  <2>2. pending' \in Seq(Runs) /\ rows' \in Seq(Runs)
    BY <1>1, <1>2
  <2>3. QED
    BY <2>1, <2>2, <1>2 DEF TypeOK, Failures
<1>4. RowIsWhereItBelongs'
  BY <1>2, NotInEmpty DEF TypeOK, RowIsWhereItBelongs, NotYetInserted, InSeq
<1>5. rows' \o pending' = rows
  BY <1>1, <1>2, ConcatEmpty
<1>6. RecordedAtMostOnce'
  BY <1>1, <1>5, FrontIsDistinct DEF RecordedAtMostOnce
<1>7. QED
  BY <1>3, <1>4, <1>6

(* Every step keeps the invariant.                                         *)
LEMMA NextPreserves ==
  ASSUME IInv, [Next]_vars
  PROVE  IInv'
<1>1. ASSUME NEW r \in Runs, Execute(r)
      PROVE  IInv'
  <2> DEFINE where == IF open THEN "insert" ELSE "begin"
  <2>1. where \in States /\ where \in NotYetInserted /\ pc[r] \in NotYetInserted
    BY <1>1 DEF States, NotYetInserted, Execute
  <2>2. where \notin {"commit", "committing", "returned"}
    OBVIOUS
  <2>3. /\ Goto(r, where) /\ UNCHANGED <<pending, rows, struck>>
        /\ open' \in BOOLEAN /\ (~open' => pending' = << >>)
    BY <1>1 DEF Execute, IInv, TypeOK, RowIsWhereItBelongs
  <2> HIDE DEF where
  <2>4. QED
    BY <2>1, <2>2, <2>3, MovePreserves
<1>2. ASSUME NEW r \in Runs, Begin(r)
      PROVE  IInv'
  <2>1. /\ Goto(r, "insert") /\ UNCHANGED <<pending, rows, struck>>
        /\ open' = TRUE /\ pc[r] \in NotYetInserted
    BY <1>2 DEF Begin, NotYetInserted
  <2>2. "insert" \in States
    BY DEF States
  <2>3. QED
    BY <2>1, <2>2, MovePreserves
<1>3. ASSUME NEW r \in Runs,
             BeginFails(r) \/ InsertIsRefused(r) \/ CommitRaises(r) \/ CommitIsRefused(r)
      PROVE  IInv'
  <2>1. /\ Goto(r, "raised") /\ UNCHANGED <<open, pending, rows>>
        /\ struck' \in {struck, struck \cup {"commit"}}
    BY <1>3 DEF BeginFails, InsertIsRefused, CommitRaises, CommitIsRefused
  <2>2. "raised" \in States /\ "raised" \notin NotYetInserted
    BY DEF States, NotYetInserted
  <2>3. open' \in BOOLEAN /\ (~open' => pending' = << >>)
    BY <2>1 DEF IInv, TypeOK, RowIsWhereItBelongs
  <2>4. QED
    BY <2>1, <2>2, <2>3, MovePreserves
<1>4. ASSUME NEW r \in Runs, Commit(r)
      PROVE  IInv'
  <2> DEFINE where == IF open THEN "committing" ELSE "returned"
  <2>1. where \in States /\ where \notin NotYetInserted
    BY DEF States, NotYetInserted
  <2>2. where \in {"commit", "committing"} => pc[r] \in {"commit", "committing"}
    BY <1>4 DEF Commit
  <2>3. where = "returned" => InSeq(r, rows) \/ "rollback" \in struck
    BY <1>4, NotInEmpty DEF Commit, IInv, RowIsWhereItBelongs
  <2>4. /\ Goto(r, where) /\ UNCHANGED <<pending, rows, struck>>
        /\ open' \in BOOLEAN /\ (~open' => pending' = << >>)
    BY <1>4 DEF Commit, IInv, TypeOK, RowIsWhereItBelongs
  <2> HIDE DEF where
  <2>5. QED
    BY <2>1, <2>2, <2>3, <2>4, MovePreserves
<1>5. ASSUME NEW r \in Runs, InsertRollsBack(r) \/ CommitRollsBack(r)
      PROVE  IInv'
  BY <1>5, RollbackPreserves
<1>6. CASE \E r \in Runs : Write(r)
  BY <1>1, <1>2, <1>3, <1>4, <1>5, <1>6, InsertPreserves, CommitPreserves DEF Write
<1>7. CASE Crash
  BY <1>7, CrashPreserves
<1>8. CASE UNCHANGED vars
  <2> USE <1>8 DEF vars, IInv
  <2>1. TypeOK'
    BY DEF TypeOK
  <2>2. RowIsWhereItBelongs'
    BY DEF RowIsWhereItBelongs, InSeq
  <2>3. RecordedAtMostOnce'
    BY DEF RecordedAtMostOnce, NoDuplicates
  <2>4. QED
    BY <2>1, <2>2, <2>3
<1>9. QED
  BY <1>6, <1>7, <1>8 DEF Next

(* The inductive invariant: where the row of a run is, by where the run is.*)
THEOREM Inductive == Spec => []IInv
<1>1. Init => IInv
  BY InitEstablishes
<1>2. IInv /\ [Next]_vars => IInv'
  BY NextPreserves
<1>3. QED
  BY <1>1, <1>2, PTL DEF Spec

(* Every variable keeps its type.                                          *)
THEOREM TypeCorrect == Spec => []TypeOK
<1>1. IInv => TypeOK
  BY DEF IInv
<1>2. QED
  BY <1>1, Inductive, PTL

(* A decision that was answered is on record (write_record), in spite of   *)
(* the shared connection, refused statements and crashes, unless a failed  *)
(* statement rolled back what others had inserted.                         *)
THEOREM AnsweredIsOnRecord == Spec => []ReturnedIsOnRecord
<1>1. IInv => ReturnedIsOnRecord
  BY DEF IInv, RowIsWhereItBelongs, ReturnedIsOnRecord
<1>2. QED
  BY <1>1, Inductive, PTL

(* No decision is on record twice, whoever commits it.                     *)
THEOREM NoSecondRecord == Spec => []RecordedAtMostOnce
<1>1. IInv => RecordedAtMostOnce
  BY DEF IInv
<1>2. QED
  BY <1>1, Inductive, PTL

(* A run leaves its commit only when the transaction is empty, or when the *)
(* COMMIT is refused; a row is inserted only by a run that goes on to its  *)
(* commit.                                                                 *)
LEMMA CommitterRemains ==
  ASSUME IInv, PendingHasACommitter, [Next]_vars
  PROVE  PendingHasACommitter'
<1> SUFFICES ASSUME "commit" \notin struck', pending' # << >>
             PROVE  \E r \in Runs : pc'[r] \in {"commit", "committing"}
  BY DEF PendingHasACommitter
<1> DEFINE Holds == \E r \in Runs : pc'[r] \in {"commit", "committing"}
<1>1. /\ pc \in [Runs -> States]
      /\ ~open => pending = << >>
  BY DEF IInv, TypeOK, RowIsWhereItBelongs
<1>2. ASSUME NEW r \in Runs, NEW where, Goto(r, where), UNCHANGED <<pending, struck>>,
             pc[r] \notin {"commit", "committing"}
      PROVE  Holds
  <2>1. PICK q \in Runs : pc[q] \in {"commit", "committing"}
    BY <1>2 DEF PendingHasACommitter
  <2>2. q # r /\ pc'[q] = pc[q]
    BY <1>1, <1>2, <2>1 DEF Goto
  <2>3. QED
    BY <2>1, <2>2
<1>3. ASSUME NEW r \in Runs, Execute(r) \/ Begin(r) \/ BeginFails(r) \/ InsertIsRefused(r)
      PROVE  Holds
  BY <1>2, <1>3 DEF Execute, Begin, BeginFails, InsertIsRefused
<1>4. ASSUME NEW r \in Runs, Insert(r)
      PROVE  Holds
  BY <1>1, <1>4 DEF Insert, Goto
<1>5. ASSUME NEW r \in Runs, InsertRollsBack(r) \/ CommitRollsBack(r) \/ CommitDone(r)
      PROVE  FALSE
  BY <1>5 DEF InsertRollsBack, CommitRollsBack, CommitDone
<1>6. ASSUME NEW r \in Runs, Commit(r)
      PROVE  Holds
  BY <1>1, <1>6 DEF Commit, Goto
<1>7. ASSUME NEW r \in Runs, CommitRaises(r)
      PROVE  FALSE
  BY <1>1, <1>7 DEF CommitRaises
<1>8. ASSUME NEW r \in Runs, CommitIsRefused(r)
      PROVE  FALSE
  BY <1>8 DEF CommitIsRefused
<1>9. CASE \E r \in Runs : Write(r)
  BY <1>3, <1>4, <1>5, <1>6, <1>7, <1>8, <1>9 DEF Write
<1>10. CASE Crash
  BY <1>10 DEF Crash
<1>11. CASE UNCHANGED vars
  BY <1>11 DEF vars, PendingHasACommitter
<1>12. QED
  BY <1>9, <1>10, <1>11 DEF Next

(* No row waits on the shared connection for a request that will not come: *)
(* when every request that began is over, nothing is left uncommitted,     *)
(* whichever thread's commit took it along, unless a COMMIT was refused.   *)
THEOREM NothingIsLeftBehind == Spec => []NothingIsStranded
<1>1. Init => PendingHasACommitter
  BY DEF Init, PendingHasACommitter
<1>2. PendingHasACommitter => NothingIsStranded
  BY DEF PendingHasACommitter, NothingIsStranded, Ended
<1>3. IInv /\ PendingHasACommitter /\ [Next]_vars => PendingHasACommitter'
  BY CommitterRemains
<1>4. QED
  BY <1>1, <1>2, <1>3, Inductive, PTL DEF Spec

=============================================================================
