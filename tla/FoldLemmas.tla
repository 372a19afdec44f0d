----------------------------- MODULE FoldLemmas ------------------------------
(***************************************************************************)
(* What a left fold over a sequence computes, for any operator: of the     *)
(* community modules' FoldLeft, its value on the empty sequence and on a   *)
(* sequence with one element more. The models count, sum and gather with   *)
(* such folds; a proof module takes these facts with                       *)
(*   INSTANCE FoldLemmas WITH Op <- ..., Base <- ...                       *)
(* where Op also takes what it depends on besides: the first argument, e.  *)
(*                                                                         *)
(* FoldLeft is a recursion over the sets of positions still to fold, by    *)
(* their largest element. The induction is over a set of numbers           *)
(* (NatSetInduction), which the least element of its complement gives.     *)
(***************************************************************************)
EXTENDS Integers, SequencesExt, WellFoundedInduction, TLAPS

CONSTANTS Op(_, _, _), Base

Fold(e, s) == FoldLeft(LAMBDA t, x : Op(e, t, x), Base, s)

(* A set of numbers with 0 and the successor of each of its members holds  *)
(* every number.                                                           *)
LEMMA NatSetInduction ==
  ASSUME NEW S, 0 \in S, \A n \in Nat : n \in S => n + 1 \in S
  PROVE  Nat \subseteq S
<1> DEFINE T == {n \in Nat : n \notin S}
           R == OpToRel(<, Nat)
<1>1. IsWellFoundedOn(R, Nat)
  BY NatLessThanWellFounded
<1>2. \A i, j \in Nat : i < j => <<i, j>> \in R
  BY DEF OpToRel
<1> HIDE DEF R
<1>3. SUFFICES ASSUME T # {} PROVE FALSE
  OBVIOUS
<1>4. PICK m \in T : \A k \in T : ~(<<k, m>> \in R)
  <2> HIDE DEF T
  <2>1. T \subseteq Nat
    BY DEF T
  <2> QED
    BY <1>1, <1>3, <2>1, WFMin
<1>5. m \in Nat \ {0} /\ m - 1 \in Nat /\ m - 1 < m
  OBVIOUS
<1>6. m - 1 \notin T
  BY <1>2, <1>4, <1>5
<1> QED
  BY <1>5, <1>6

(* The largest of a set of positions that holds the last.                  *)
LEMMA MaxIsLast ==
  ASSUME NEW n \in Nat, NEW T \in SUBSET (1..(n + 1)), n + 1 \in T
  PROVE  Max(T) = n + 1
<1>1. \A y \in T : n + 1 >= y
  OBVIOUS
<1>2. \A x \in T : (\A y \in T : x >= y) => x = n + 1
  OBVIOUS
<1> QED
  BY <1>1, <1>2 DEF Max

(* The function FoldLeft chooses: it has a value for each set of the first *)
(* n positions.                                                            *)
FoldsOver(f, n, e, s) ==
  f = [T \in SUBSET (1..n) |->
         IF T = {} THEN Base ELSE Op(e, f[T \ {Max(T)}], s[Max(T)])]

(* There is one, whatever the sequence: one for n + 1 positions extends    *)
(* one for n.                                                              *)
LEMMA FoldExists ==
  ASSUME NEW e, NEW s
  PROVE  \A n \in Nat : \E f : FoldsOver(f, n, e, s)
<1> DEFINE S == {n \in Nat : \E f : FoldsOver(f, n, e, s)}
<1>1. 0 \in S
  <2> DEFINE f == [T \in SUBSET (1..0) |-> Base]
  <2>1. \A T \in SUBSET (1..0) : T = {}
    OBVIOUS
  <2>2. FoldsOver(f, 0, e, s)
    BY <2>1 DEF FoldsOver
  <2> QED
    BY <2>2
<1>2. ASSUME NEW n \in Nat, n \in S
      PROVE  n + 1 \in S
  <2>1. PICK f : FoldsOver(f, n, e, s)
    BY <1>2
  <2> DEFINE D == SUBSET (1..(n + 1))
             g == [T \in D |-> IF n + 1 \in T THEN Op(e, f[T \ {n + 1}], s[n + 1])
                               ELSE f[T]]
  <2>2. \A T \in SUBSET (1..n) :
          f[T] = IF T = {} THEN Base ELSE Op(e, f[T \ {Max(T)}], s[Max(T)])
    BY <2>1 DEF FoldsOver
  <2>3. \A T \in SUBSET (1..n) : T \in D /\ g[T] = f[T]
    OBVIOUS
  <2>4. ASSUME NEW T \in D
        PROVE  g[T] = IF T = {} THEN Base ELSE Op(e, g[T \ {Max(T)}], s[Max(T)])
    <3>1. CASE n + 1 \in T
      <4>1. Max(T) = n + 1
        BY <3>1, MaxIsLast
      <4>2. T \ {n + 1} \in SUBSET (1..n)
        OBVIOUS
      <4>3. g[T] = Op(e, f[T \ {n + 1}], s[n + 1])
        BY <3>1
      <4> HIDE DEF g, D
      <4> QED
        BY <2>3, <3>1, <4>1, <4>2, <4>3
    <3>2. CASE n + 1 \notin T
      <4>1. \A x \in T : x \in 1..(n + 1) /\ x # n + 1
        BY <3>2
      <4>2. \A x \in T : x \in 1..n
        BY <4>1
      <4>3. T \in SUBSET (1..n) /\ T \ {Max(T)} \in SUBSET (1..n)
        BY <4>2
      <4> HIDE DEF g, D
      <4> QED
        BY <2>2, <2>3, <4>3
    <3> QED
      BY <3>1, <3>2
  <2>5. g = [T \in D |-> IF T = {} THEN Base ELSE Op(e, g[T \ {Max(T)}], s[Max(T)])]
    <3>1. g = [T \in D |-> g[T]]
      OBVIOUS
    <3> HIDE DEF g
    <3> QED
      BY <2>4, <3>1
  <2>6. FoldsOver(g, n + 1, e, s)
    BY <2>5 DEF FoldsOver
  <2> QED
    BY <2>6
<1> HIDE DEF S
<1>3. Nat \subseteq S
  BY <1>1, <1>2, NatSetInduction
<1> QED
  BY <1>3 DEF S

LEMMA FoldIsFunction ==
  ASSUME NEW e, NEW s, NEW n \in Nat, DOMAIN s = 1..n
  PROVE  \E f : FoldsOver(f, n, e, s) /\ Fold(e, s) = f[1..n]
<1> DEFINE F == CHOOSE f : FoldsOver(f, n, e, s)
<1>1. FoldsOver(F, n, e, s)
  BY FoldExists
<1>2. Fold(e, s) = F[1..n]
  BY DEF Fold, FoldLeft, MapThenFoldSet, FoldsOver
<1> HIDE DEF F
<1> QED
  BY <1>1, <1>2

(* On a prefix, the function folds in its last position.                   *)
LEMMA FoldStep ==
  ASSUME NEW e, NEW s, NEW n \in Nat, NEW f, FoldsOver(f, n, e, s)
  PROVE  /\ f[1..0] = Base
         /\ \A k \in 1..n : f[1..k] = Op(e, f[1..(k-1)], s[k])
<1>1. \A k \in 0..n :
        f[1..k] = IF 1..k = {} THEN Base
                  ELSE Op(e, f[(1..k) \ {Max(1..k)}], s[Max(1..k)])
  <2>1. \A k \in 0..n : 1..k \in SUBSET (1..n)
    OBVIOUS
  <2> QED
    BY <2>1 DEF FoldsOver
<1>2. f[1..0] = Base
  <2>1. 0 \in 0..n /\ 1..0 = {}
    OBVIOUS
  <2> QED
    BY <1>1, <2>1
<1>3. ASSUME NEW k \in 1..n
      PROVE  f[1..k] = Op(e, f[1..(k-1)], s[k])
  <2>1. Max(1..k) = k
    <3>1. k - 1 \in Nat /\ (k - 1) + 1 = k /\ k \in 1..k
      OBVIOUS
    <3> QED
      BY <3>1, MaxIsLast
  <2>2. (1..k) \ {k} = 1..(k-1) /\ 1..k # {} /\ k \in 0..n
    OBVIOUS
  <2> QED
    BY <1>1, <2>1, <2>2
<1> QED
  BY <1>2, <1>3

(* Nothing to fold: the base.                                              *)
THEOREM FoldEmpty == \A e : Fold(e, << >>) = Base
<1> TAKE e
<1>1. DOMAIN << >> = 1..0
  OBVIOUS
<1>2. PICK f : FoldsOver(f, 0, e, << >>) /\ Fold(e, << >>) = f[1..0]
  BY <1>1, FoldIsFunction
<1>3. 0 \in Nat
  OBVIOUS
<1>4. f[1..0] = Base
  BY <1>2, <1>3, FoldStep
<1> QED
  BY <1>2, <1>4

(* One element more: the operator is applied to what was folded and to it. *)
THEOREM FoldAppend ==
  ASSUME NEW e, NEW X, NEW s \in Seq(X), NEW x \in X
  PROVE  Fold(e, Append(s, x)) = Op(e, Fold(e, s), x)
<1> DEFINE n == Len(s)
           t == Append(s, x)
<1>1. /\ n \in Nat /\ n + 1 \in Nat
      /\ DOMAIN s = 1..n /\ DOMAIN t = 1..(n + 1) /\ t[n + 1] = x
  OBVIOUS
<1>2. \A i \in 1..n : t[i] = s[i]
  OBVIOUS
<1> HIDE DEF t, n
<1>3. PICK f : FoldsOver(f, n, e, s) /\ Fold(e, s) = f[1..n]
  BY <1>1, FoldIsFunction
<1>4. PICK g : FoldsOver(g, n + 1, e, t) /\ Fold(e, t) = g[1..(n + 1)]
  BY <1>1, FoldIsFunction
<1> DEFINE S == {k \in Nat : k <= n => f[1..k] = g[1..k]}
<1>5. 0 \in S
  <2>1. f[1..0] = Base
    BY <1>1, <1>3, FoldStep
  <2>2. g[1..0] = Base
    BY <1>1, <1>4, FoldStep
  <2> QED
    BY <2>1, <2>2
<1>6. ASSUME NEW k \in Nat, k \in S
      PROVE  k + 1 \in S
  <2> SUFFICES ASSUME k + 1 <= n PROVE f[1..(k + 1)] = g[1..(k + 1)]
    OBVIOUS
  <2>1. k + 1 \in 1..n /\ k + 1 \in 1..(n + 1) /\ (k + 1) - 1 = k
    BY <1>1
  <2>2. f[1..(k + 1)] = Op(e, f[1..k], s[k + 1])
    BY <1>1, <1>3, <2>1, FoldStep
  <2>3. g[1..(k + 1)] = Op(e, g[1..k], t[k + 1])
    BY <1>1, <1>4, <2>1, FoldStep
  <2>4. f[1..k] = g[1..k] /\ t[k + 1] = s[k + 1]
    BY <1>1, <1>2, <1>6
  <2> QED
    BY <2>2, <2>3, <2>4
<1> HIDE DEF S
<1>7. n \in S
  BY <1>1, <1>5, <1>6, NatSetInduction
<1>8. f[1..n] = g[1..n]
  BY <1>1, <1>7 DEF S
<1>9. g[1..(n + 1)] = Op(e, g[1..n], t[n + 1])
  <2>1. n + 1 \in 1..(n + 1) /\ (n + 1) - 1 = n
    BY <1>1
  <2> QED
    BY <1>1, <1>4, <2>1, FoldStep
<1> QED
  BY <1>1, <1>3, <1>4, <1>8, <1>9 DEF t

(* Induction over the sequence, for what relates it to what was folded.    *)
THEOREM FoldInduction ==
  ASSUME NEW e, NEW X, NEW R, <<<< >>, Base>> \in R,
         \A s \in Seq(X) : \A t : \A x \in X :
           <<s, t>> \in R => <<Append(s, x), Op(e, t, x)>> \in R
  PROVE  \A s \in Seq(X) : <<s, Fold(e, s)>> \in R
<1> DEFINE S == {n \in Nat : \A s \in Seq(X) : Len(s) = n => <<s, Fold(e, s)>> \in R}
<1>1. 0 \in S
  <2>1. \A s \in Seq(X) : Len(s) = 0 => s = << >>
    OBVIOUS
  <2> QED
    BY <2>1, FoldEmpty
<1>2. ASSUME NEW n \in Nat, n \in S
      PROVE  n + 1 \in S
  <2> SUFFICES ASSUME NEW s \in Seq(X), Len(s) = n + 1
               PROVE  <<s, Fold(e, s)>> \in R
    OBVIOUS
  <2> DEFINE r == [i \in 1..n |-> s[i]]
             x == s[n + 1]
  <2>1. DOMAIN s = 1..(n + 1) /\ \A i \in 1..(n + 1) : s[i] \in X
    OBVIOUS
  <2>2. x \in X /\ r \in Seq(X) /\ Len(r) = n
    BY <2>1
  <2>3. s = Append(r, x)
    BY <2>1, <2>2
  <2> HIDE DEF r, x
  <2>4. Fold(e, s) = Op(e, Fold(e, r), x)
    BY <2>2, <2>3, FoldAppend
  <2>5. <<r, Fold(e, r)>> \in R
    BY <1>2, <2>2
  <2> QED
    BY <2>2, <2>3, <2>4, <2>5
<1> HIDE DEF S
<1>3. Nat \subseteq S
  BY <1>1, <1>2, NatSetInduction
<1>4. \A s \in Seq(X) : Len(s) \in Nat
  OBVIOUS
<1> QED
  BY <1>3, <1>4 DEF S

(* What is folded stays in a set that holds the base and that the operator *)
(* does not leave.                                                         *)
THEOREM FoldType ==
  ASSUME NEW e, NEW X, NEW T, Base \in T, \A t \in T : \A x \in X : Op(e, t, x) \in T
  PROVE  \A s \in Seq(X) : Fold(e, s) \in T
<1> DEFINE R == Seq(X) \X T
<1>1. <<<< >>, Base>> \in R
  <2>1. << >> \in Seq(X)
    OBVIOUS
  <2> QED
    BY <2>1
<1>2. ASSUME NEW s \in Seq(X), NEW t, NEW x \in X, <<s, t>> \in R
      PROVE  <<Append(s, x), Op(e, t, x)>> \in R
  <2>1. t \in T /\ Append(s, x) \in Seq(X)
    BY <1>2
  <2>2. Op(e, t, x) \in T
    BY <2>1
  <2> QED
    BY <2>1, <2>2
<1> HIDE DEF R
<1>3. \A s \in Seq(X) : <<s, Fold(e, s)>> \in R
  BY <1>1, <1>2, FoldInduction
<1> QED
  BY <1>3 DEF R

=============================================================================
