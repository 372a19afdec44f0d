------------------------- MODULE DossierChecks_proofs -------------------------
(***************************************************************************)
(* Proofs about DossierChecks and LabelledScreening, for every set of      *)
(* dossiers, every relation between names and every draw of the generator: *)
(* the outcomes the screening graph is modelled with are all the checks    *)
(* have, approval means agreement and agreement approval, a difference is  *)
(* explained just when it is a transfer by exit, the order of the lists is *)
(* immaterial, and the labels of the three corpora are right.              *)
(***************************************************************************)
EXTENDS LabelledScreening, FiniteSetTheorems, TLAPS

(* Each check function returns one of the outcomes of its check, whatever  *)
(* the documents say.                                                      *)
LEMMA IdentityOutcomes ==
  ASSUME NEW d
  PROVE  IdentityCodes(d) \in SUBSET {"A1", "A2"}
BY DEF IdentityCodes

LEMMA OwnershipOutcomes ==
  ASSUME NEW registry, NEW ubo
  PROVE  OwnershipCodes(registry, ubo) \in
           {{}, {"B2b"}, {"B2a"}, {"B1a"}, {"B1b"}}
BY DEF OwnershipCodes

LEMMA AuthorityOutcomes ==
  ASSUME NEW circular, NEW ubo
  PROVE  AuthorityCodes(circular, ubo) \in {{}, {"C2"}, {"C1a"}, {"C1b"}}
BY DEF AuthorityCodes

LEMMA UboOutcomes ==
  ASSUME NEW ubo
  PROVE  UboCodes(ubo) \in {{}, {"D1b"}, {"D1a"}}
BY DEF UboCodes

(* An empty dossier has no field to be empty: E2 needs a document.         *)
LEMMA CompletenessOutcomes ==
  ASSUME NEW d, DOMAIN d \subseteq Documents
  PROVE  CompletenessCodes(d) \in Outcomes("check_completeness", DOMAIN d)
<1> DEFINE missing == IF DOMAIN d = Documents THEN {} ELSE {"E1"}
<1>1. Outcomes("check_completeness", DOMAIN d) =
        {missing} \cup (IF DOMAIN d = {} THEN {} ELSE {missing \cup {"E2"}})
  BY DEF Outcomes
<1>2. CASE \E label \in DOMAIN d : LacksField(label, d[label])
  <2>1. CompletenessCodes(d) = missing \cup {"E2"}
    BY <1>2 DEF CompletenessCodes
  <2>2. DOMAIN d # {}
    BY <1>2
  <2> HIDE DEF missing
  <2> QED
    BY <1>1, <2>1, <2>2
<1>3. CASE ~\E label \in DOMAIN d : LacksField(label, d[label])
  <2>1. CompletenessCodes(d) = missing
    BY <1>3 DEF CompletenessCodes
  <2> HIDE DEF missing
  <2> QED
    BY <1>1, <2>1
<1> QED
  BY <1>2, <1>3

(* What ScreeningGraph takes a check to report is what the check computes, *)
(* for every dossier: no result of a check is left out of the model.       *)
THEOREM OutcomesAreComplete ==
  ASSUME NEW check \in DocumentChecks, NEW d, DOMAIN d \subseteq Documents
  PROVE  CodesOf(check, d) \in Outcomes(check, DOMAIN d)
<1>1. CASE check = "check_identity_consistency"
  BY <1>1, IdentityOutcomes DEF CodesOf, Outcomes
<1>2. CASE check = "check_ownership_consistency"
  <2>1. CodesOf(check, d) = OwnershipCodes(d.registry, d.ubo)
    BY <1>2 DEF CodesOf
  <2>2. Outcomes(check, DOMAIN d) = {{}, {"B2b"}, {"B2a"}, {"B1a"}, {"B1b"}}
    BY <1>2 DEF Outcomes
  <2> QED
    BY <2>1, <2>2, OwnershipOutcomes
<1>3. CASE check = "check_authority_chain"
  <2>1. CodesOf(check, d) = AuthorityCodes(d.circular, d.ubo)
    BY <1>3 DEF CodesOf
  <2>2. Outcomes(check, DOMAIN d) = {{}, {"C2"}, {"C1a"}, {"C1b"}}
    BY <1>3 DEF Outcomes
  <2> QED
    BY <2>1, <2>2, AuthorityOutcomes
<1>4. CASE check = "check_ubo_derivation"
  <2>1. CodesOf(check, d) = UboCodes(d.ubo)
    BY <1>4 DEF CodesOf
  <2>2. Outcomes(check, DOMAIN d) = {{}, {"D1b"}, {"D1a"}}
    BY <1>4 DEF Outcomes
  <2> QED
    BY <2>1, <2>2, UboOutcomes
<1>5. CASE check = "check_completeness"
  BY <1>5, CompletenessOutcomes DEF CodesOf
<1> QED
  BY <1>1, <1>2, <1>3, <1>4, <1>5 DEF DocumentChecks

TaxonomyCodes == {"A1", "A2", "B1a", "B1b", "B2a", "B2b", "C1a", "C1b", "C2", "D1a",
          "D1b", "E1", "E2"}

LEMMA OutcomesAreCodes ==
  ASSUME NEW check \in DocumentChecks, NEW present,
         NEW codes \in Outcomes(check, present)
  PROVE  codes \subseteq TaxonomyCodes
BY DEF DocumentChecks, Outcomes, TaxonomyCodes

(* Both invariants at once, and that the dossier has no other documents.   *)
Inv == TypeOK /\ OutcomesCovered

(* The type invariant and the outcomes hold of every behaviour of the      *)
(* checks: each result is built from the outcomes of its check.            *)
THEOREM Inductive == Spec => []Inv
<1>1. Init => Inv
  <2> SUFFICES ASSUME Init PROVE Inv
    OBVIOUS
  <2>1. DOMAIN dossier \subseteq Documents
    BY DEF Init
  <2> QED
    BY <2>1 DEF Init, Inv, TypeOK, OutcomesCovered, DocumentChecks
<1>2. Inv /\ [Next]_vars => Inv'
  <2> SUFFICES ASSUME Inv, [Next]_vars PROVE Inv'
    OBVIOUS
  <2> USE DEF Inv
  <2>1. ASSUME pc \in DocumentChecks
        PROVE  NextCheck[pc] \in DocumentChecks \cup {"done"}
    BY <2>1 DEF NextCheck, DocumentChecks
  <2>2. CASE RunCheck
    <3> DEFINE new == [check |-> pc, ran |-> TRUE, codes |-> CodesOf(pc, dossier)]
    <3>1. /\ pc \in DocumentChecks /\ CanRun(pc, DOMAIN dossier)
          /\ results' = results \cup {new} /\ pc' = NextCheck[pc]
          /\ dossier' = dossier
      BY <2>2 DEF RunCheck
    <3>2. CodesOf(pc, dossier) \in Outcomes(pc, DOMAIN dossier)
      BY <3>1, OutcomesAreComplete DEF TypeOK
    <3>3. CodesOf(pc, dossier) \subseteq TaxonomyCodes
      BY <3>1, <3>2, OutcomesAreCodes
    <3>4. new \in CheckResults
      BY <3>1, <3>3 DEF CheckResults, TaxonomyCodes
    <3>5. /\ new.ran /\ new.check = pc /\ new.codes = CodesOf(pc, dossier)
      OBVIOUS
    <3> HIDE DEF new
    <3>6. TypeOK'
      BY <2>1, <3>1, <3>4 DEF TypeOK
    <3>7. OutcomesCovered'
      BY <3>1, <3>2, <3>5 DEF OutcomesCovered
    <3> QED
      BY <3>6, <3>7
  <2>3. CASE SkipCheck
    <3> DEFINE new == [check |-> pc, ran |-> FALSE, codes |-> {}]
    <3>1. /\ pc \in DocumentChecks /\ ~CanRun(pc, DOMAIN dossier)
          /\ results' = results \cup {new} /\ pc' = NextCheck[pc]
          /\ dossier' = dossier
      BY <2>3 DEF SkipCheck
    <3>2. new \in CheckResults
      BY <3>1 DEF CheckResults
    <3>3. ~new.ran /\ new.check = pc /\ new.codes = {}
      OBVIOUS
    <3> HIDE DEF new
    <3>4. TypeOK'
      BY <2>1, <3>1, <3>2 DEF TypeOK
    <3>5. OutcomesCovered'
      BY <3>1, <3>3 DEF OutcomesCovered
    <3> QED
      BY <3>4, <3>5
  <2>4. CASE UNCHANGED vars
    BY <2>4 DEF vars, TypeOK, OutcomesCovered
  <2> QED
    BY <2>2, <2>3, <2>4 DEF Next
<1> QED
  BY <1>1, <1>2, PTL DEF Spec

(* On every dossier the checks report what the screening graph expects of  *)
(* them, and a check that is skipped lacks a document.                     *)
THEOREM ChecksAreAsModelled == Spec => []OutcomesCovered
<1>1. Inv => OutcomesCovered
  BY DEF Inv
<1> QED
  BY <1>1, Inductive, PTL

-----------------------------------------------------------------------------
(* The greedy matching of two lists of holders.                            *)
Free(s3, taken, a) ==
  {j \in DOMAIN s3 : j \notin ToSet(taken) /\ SamePerson(a.name, s3[j].name)}

Match(s3, taken, a) ==
  Append(taken, IF Free(s3, taken, a) = {} THEN 0 ELSE Min(Free(s3, taken, a)))

Matching == INSTANCE FoldLemmas WITH Op <- Match, Base <- << >>

LEMMA MatchingIsFold ==
  ASSUME NEW s1, NEW s3
  PROVE  Matching!Fold(s3, s1) = MatchShareholders(s1, s3)
BY DEF Matching!Fold, MatchShareholders, Match, Free, FoldLeft, MapThenFoldSet,
       Matching!FoldLeft, Matching!MapThenFoldSet, Max, Matching!Max

LEMMA LeastExists ==
  ASSUME NEW S \in SUBSET Nat, S # {}
  PROVE  Min(S) \in S /\ \A k \in S : Min(S) <= k
<1> DEFINE T == {n \in Nat : \A k \in 0..n : k \notin S}
<1>1. \E m \in S : \A k \in S : m <= k
  <2>1. SUFFICES ASSUME \A m \in S : \E k \in S : ~(m <= k) PROVE FALSE
    OBVIOUS
  <2>2. 0 \in T
    BY <2>1
  <2>3. \A n \in Nat : n \in T => n + 1 \in T
    BY <2>1
  <2> HIDE DEF T
  <2>4. Nat \subseteq T
    BY <2>2, <2>3, Matching!NatSetInduction
  <2>5. \A n \in Nat : n \notin S
    BY <2>4 DEF T
  <2> QED
    BY <2>5
<1> QED
  BY <1>1 DEF Min

(* A match is a holder of the second list who is the same person, matched  *)
(* to nobody else; a holder without one is like nobody who is left.        *)
GoodMatch(m, s1, s3) ==
  /\ m \in Seq(Nat) /\ Len(m) = Len(s1)
  /\ \A i \in 1..Len(s1) :
       m[i] # 0 => m[i] \in DOMAIN s3 /\ SamePerson(s1[i].name, s3[m[i]].name)
  /\ \A i, k \in 1..Len(s1) : i # k /\ m[i] # 0 => m[i] # m[k]
  /\ \A i \in 1..Len(s1), j \in DOMAIN s3 :
       m[i] = 0 /\ SamePerson(s1[i].name, s3[j].name) => \E k \in 1..Len(s1) : m[k] = j

LEMMA MatchIsGood ==
  ASSUME NEW X, NEW s1 \in Seq(X), NEW Y, NEW s3 \in Seq(Y), NEW m, GoodMatch(m, s1, s3),
         NEW a \in X
  PROVE  GoodMatch(Match(s3, m, a), Append(s1, a), s3)
<1> DEFINE n == Len(s1)
           f == Free(s3, m, a)
           j == IF f = {} THEN 0 ELSE Min(f)
           t == Append(s1, a)
           u == Append(m, j)
<1>1. f \subseteq DOMAIN s3 /\ DOMAIN s3 \subseteq Nat \ {0} /\ f \in SUBSET Nat
  BY DEF Free
<1>2. j = 0 \/ j \in f
  BY <1>1, LeastExists
<1>3. j \in Nat /\ (f # {} => j # 0)
  BY <1>1, <1>2, LeastExists
<1>4. Match(s3, m, a) = u
  BY DEF Match
<1>5. m \in Seq(Nat) /\ Len(m) = n
  BY DEF GoodMatch
<1> HIDE DEF j
<1>6. /\ n \in Nat /\ Len(t) = n + 1 /\ Len(u) = n + 1 /\ u \in Seq(Nat)
      /\ t[n + 1] = a /\ u[n + 1] = j
      /\ \A i \in 1..n : t[i] = s1[i] /\ u[i] = m[i]
  BY <1>3, <1>5
<1>7. \A k \in Nat : \A i \in 1..(k + 1) : i \in 1..k \/ i = k + 1
  OBVIOUS
<1>8. \A i \in 1..(n + 1) : i \in 1..n \/ i = n + 1
  BY <1>6, <1>7
<1>9. \A i \in DOMAIN s3 : i \in ToSet(m) <=> \E k \in 1..n : m[k] = i
  BY <1>5, <1>6 DEF ToSet
<1>10. j # 0 => /\ j \in DOMAIN s3 /\ SamePerson(a.name, s3[j].name)
                /\ \A k \in 1..n : m[k] # j
  BY <1>1, <1>2, <1>9 DEF Free
<1>11. \A k \in DOMAIN s3 : j = 0 /\ SamePerson(a.name, s3[k].name) =>
         \E l \in 1..n : m[l] = k
  BY <1>3, <1>9 DEF Free
<1> HIDE DEF n, f, t, u
<1>12. \A i \in 1..(n + 1) :
         u[i] # 0 => u[i] \in DOMAIN s3 /\ SamePerson(t[i].name, s3[u[i]].name)
  <2>1. \A i \in 1..n :
          m[i] # 0 => m[i] \in DOMAIN s3 /\ SamePerson(s1[i].name, s3[m[i]].name)
    BY DEF GoodMatch, n
  <2>2. \A i \in 1..(n + 1) :
          (i \in 1..n /\ t[i] = s1[i] /\ u[i] = m[i]) \/ (t[i] = a /\ u[i] = j)
    BY <1>6, <1>8
  <2>3. ASSUME NEW i \in 1..(n + 1), u[i] # 0, t[i] = a, u[i] = j
        PROVE  u[i] \in DOMAIN s3 /\ SamePerson(t[i].name, s3[u[i]].name)
    BY <1>10, <2>3, Zenon
  <2>4. ASSUME NEW i \in 1..(n + 1), u[i] # 0, i \in 1..n, t[i] = s1[i], u[i] = m[i]
        PROVE  u[i] \in DOMAIN s3 /\ SamePerson(t[i].name, s3[u[i]].name)
    BY <2>1, <2>4, Zenon
  <2> QED
    BY <2>2, <2>3, <2>4, Zenon
<1>13. \A i, k \in 1..(n + 1) : i # k /\ u[i] # 0 => u[i] # u[k]
  <2>1. \A i, k \in 1..n : i # k /\ m[i] # 0 => m[i] # m[k]
    BY DEF GoodMatch, n
  <2> QED
    BY <1>6, <1>8, <1>10, <2>1
<1>14. \A i \in 1..(n + 1), k \in DOMAIN s3 :
         u[i] = 0 /\ SamePerson(t[i].name, s3[k].name) => \E l \in 1..(n + 1) : u[l] = k
  <2>1. 1..n \subseteq 1..(n + 1) /\ n + 1 \in 1..(n + 1)
    BY <1>6
  <2>2. \A i \in 1..n, k \in DOMAIN s3 :
          m[i] = 0 /\ SamePerson(s1[i].name, s3[k].name) => \E l \in 1..n : m[l] = k
    BY DEF GoodMatch, n
  <2> QED
    BY <1>6, <1>8, <1>11, <2>1, <2>2
<1> QED
  BY <1>4, <1>6, <1>12, <1>13, <1>14 DEF GoodMatch, t

LEMMA MatchesAreGood ==
  ASSUME NEW X, NEW s1 \in Seq(X), NEW Y, NEW s3 \in Seq(Y)
  PROVE  GoodMatch(MatchShareholders(s1, s3), s1, s3)
<1> DEFINE R == {p \in Seq(X) \X Seq(Nat) : GoodMatch(p[2], p[1], s3)}
<1>1. <<<< >>, << >>>> \in R
  <2>1. << >> \in Seq(X) /\ << >> \in Seq(Nat)
    OBVIOUS
  <2>2. Len(<< >>) = 0 /\ 1..0 = {}
    OBVIOUS
  <2>3. GoodMatch(<< >>, << >>, s3)
    BY <2>1, <2>2 DEF GoodMatch
  <2> QED
    BY <2>1, <2>3
<1>2. ASSUME NEW s \in Seq(X), NEW t, NEW x \in X, <<s, t>> \in R
      PROVE  <<Append(s, x), Match(s3, t, x)>> \in R
  <2>1. GoodMatch(t, s, s3)
    BY <1>2
  <2>2. GoodMatch(Match(s3, t, x), Append(s, x), s3)
    BY <2>1, MatchIsGood
  <2>3. Append(s, x) \in Seq(X) /\ Match(s3, t, x) \in Seq(Nat)
    BY <2>2 DEF GoodMatch
  <2> QED
    BY <2>2, <2>3
<1> HIDE DEF R
<1>3. \A s \in Seq(X) : <<s, Matching!Fold(s3, s)>> \in R
  BY <1>1, <1>2, Matching!FoldInduction
<1>4. <<s1, MatchShareholders(s1, s3)>> \in R
  BY <1>3, MatchingIsFold
<1> QED
  BY <1>4 DEF R

-----------------------------------------------------------------------------
(* Two lists have the same structure just when the same people hold the    *)
(* same shares in both, if no name fits two.                               *)
Numeric(list) == \A i \in DOMAIN list : list[i].pct # NaN

(* What is near is at most a hundredth of a point apart, and what is less  *)
(* than that apart is near, whatever floating point makes of the rest.     *)
LEMMA NearIsClose ==
  ASSUME NEW x \in Int, NEW y \in Int
  PROVE  /\ Near(x, y) => x - y \in -Eps .. Eps
         /\ x - y \in -(Eps - 1) .. (Eps - 1) => Near(x, y)
BY NaNAssumption DEF Near, Within, AtBound, Eps

LEMMA SharesAreNumbers ==
  ASSUME NEW s \in Seq(Shares), Numeric(s)
  PROVE  \A i \in DOMAIN s : s[i].pct \in Int
<1>1. \A i \in DOMAIN s : s[i] \in Shares
  OBVIOUS
<1> QED
  BY <1>1 DEF Shares, Numeric

LEMMA PositionsAreCounted ==
  ASSUME NEW X, NEW s \in Seq(X)
  PROVE  /\ DOMAIN s = 1..Len(s) /\ Len(s) \in Nat
         /\ IsFiniteSet(DOMAIN s) /\ Cardinality(DOMAIN s) = Len(s)
<1>1. DOMAIN s = 1..Len(s) /\ Len(s) \in Nat /\ 1 \in Int /\ Len(s) \in Int
  OBVIOUS
<1>2. IsFiniteSet(1..Len(s)) /\ Cardinality(1..Len(s)) = IF 1 > Len(s) THEN 0 ELSE Len(s) - 1 + 1
  BY <1>1, FS_Interval
<1> QED
  BY <1>1, <1>2

LEMMA StructureMeansHolders ==
  ASSUME NEW s1 \in Seq(Shares), NEW s3 \in Seq(Shares), Numeric(s1), Numeric(s3),
         SameStructure(s1, s3)
  PROVE  SameHolders(s1, s3, Eps)
<1> DEFINE m == MatchShareholders(s1, s3)
           f == [i \in DOMAIN s1 |-> m[i]]
<1>1. GoodMatch(m, s1, s3)
  BY MatchesAreGood
<1>2. /\ DOMAIN s3 \subseteq ToSet(m)
      /\ \A i \in DOMAIN s1 : m[i] # 0 /\ Near(s1[i].pct, s3[m[i]].pct)
  BY DEF SameStructure
<1>3. DOMAIN s1 = 1..Len(s1) /\ DOMAIN m = 1..Len(s1)
  BY <1>1 DEF GoodMatch
<1> HIDE DEF m
<1>4. f \in [DOMAIN s1 -> DOMAIN s3]
  BY <1>1, <1>2, <1>3 DEF GoodMatch
<1>5. \A i, j \in DOMAIN s1 : f[i] = f[j] => i = j
  BY <1>1, <1>2, <1>3 DEF GoodMatch
<1>6. \A j \in DOMAIN s3 : \E i \in DOMAIN s1 : f[i] = j
  BY <1>2, <1>3 DEF ToSet
<1>7. \A i \in DOMAIN s1 : /\ SamePerson(s1[i].name, s3[f[i]].name)
                            /\ s1[i].pct - s3[f[i]].pct \in -Eps .. Eps
  <2>1. TAKE i \in DOMAIN s1
  <2>2. m[i] \in DOMAIN s3 /\ SamePerson(s1[i].name, s3[m[i]].name)
    BY <1>1, <1>2, <1>3 DEF GoodMatch
  <2>3. s1[i].pct - s3[m[i]].pct \in -Eps .. Eps
    BY <1>2, <2>2, SharesAreNumbers, NearIsClose
  <2> QED
    BY <2>2, <2>3
<1> HIDE DEF f
<1>8. f \in Surjection(DOMAIN s1, DOMAIN s3) /\ f \in Injection(DOMAIN s1, DOMAIN s3)
  BY <1>4, <1>5, <1>6 DEF Surjection, Injection, IsInjective
<1>9. Cardinality(DOMAIN s3) = Cardinality(DOMAIN s1)
  BY <1>8, PositionsAreCounted, FS_Surjection
<1>10. Len(s1) = Len(s3)
  BY <1>9, PositionsAreCounted
<1> QED
  BY <1>4, <1>5, <1>7, <1>10 DEF SameHolders

LEMMA HoldersMeanStructure ==
  ASSUME NEW s1 \in Seq(Shares), NEW s3 \in Seq(Shares), Numeric(s1), Numeric(s3),
         SameHolders(s1, s3, Eps - 1),
         \A i \in DOMAIN s1 : AtMostOne(s1[i].name, s3),
         \A j \in DOMAIN s3 : \A i, k \in DOMAIN s1 :
           SamePerson(s1[i].name, s3[j].name) /\ SamePerson(s1[k].name, s3[j].name) => i = k
  PROVE  SameStructure(s1, s3)
<1> DEFINE m == MatchShareholders(s1, s3)
<1>1. GoodMatch(m, s1, s3)
  BY MatchesAreGood
<1>2. PICK f \in [DOMAIN s1 -> DOMAIN s3] :
        /\ \A i, j \in DOMAIN s1 : f[i] = f[j] => i = j
        /\ \A i \in DOMAIN s1 : /\ SamePerson(s1[i].name, s3[f[i]].name)
                               /\ s1[i].pct - s3[f[i]].pct \in -(Eps - 1) .. (Eps - 1)
  BY DEF SameHolders
<1>3. DOMAIN s1 = 1..Len(s1) /\ DOMAIN m = 1..Len(s1) /\ DOMAIN s3 \subseteq Nat \ {0}
  BY <1>1 DEF GoodMatch
<1>4. \A j \in DOMAIN s3 : \E i \in DOMAIN s1 : f[i] = j
  <2>1. f \in Injection(DOMAIN s1, DOMAIN s3)
    BY <1>2 DEF Injection, IsInjective
  <2>2. Cardinality(DOMAIN s1) = Cardinality(DOMAIN s3) /\ IsFiniteSet(DOMAIN s3)
    BY PositionsAreCounted DEF SameHolders
  <2>3. f \in Surjection(DOMAIN s1, DOMAIN s3)
    BY <2>1, <2>2, FS_Injection
  <2> QED
    BY <2>3 DEF Surjection
<1> HIDE DEF m
<1>5. ASSUME NEW i \in DOMAIN s1
      PROVE  m[i] = f[i]
  <2>1. f[i] \in DOMAIN s3 /\ SamePerson(s1[i].name, s3[f[i]].name)
    BY <1>2
  <2>2. CASE m[i] # 0
    <3>1. m[i] \in DOMAIN s3 /\ SamePerson(s1[i].name, s3[m[i]].name)
      BY <1>1, <1>3, <2>2 DEF GoodMatch
    <3> QED
      BY <2>1, <3>1 DEF AtMostOne
  <2>3. CASE m[i] = 0
    <3>1. PICK k \in DOMAIN s1 : m[k] = f[i]
      BY <1>1, <1>3, <2>1, <2>3 DEF GoodMatch
    <3>2. SamePerson(s1[k].name, s3[f[i]].name)
      BY <1>1, <1>3, <2>1, <3>1 DEF GoodMatch
    <3>3. k = i
      BY <2>1, <3>2
    <3> QED
      BY <3>1, <3>3
  <2> QED
    BY <2>2, <2>3
<1>6. DOMAIN s3 \subseteq ToSet(m)
  BY <1>3, <1>4, <1>5 DEF ToSet
<1>7. \A i \in DOMAIN s1 : m[i] # 0 /\ Near(s1[i].pct, s3[m[i]].pct)
  <2>1. TAKE i \in DOMAIN s1
  <2>2. m[i] \in DOMAIN s3 /\ s1[i].pct - s3[m[i]].pct \in -(Eps - 1) .. (Eps - 1)
    BY <1>2, <1>5
  <2> QED
    BY <1>3, <2>2, SharesAreNumbers, NearIsClose
<1> QED
  BY <1>6, <1>7 DEF SameStructure, m

-----------------------------------------------------------------------------
(* Sums over finite sets of positions.                                     *)
SumOf(v, S) == MapThenSumSet(LAMBDA i : v[i], S)

Picked(T) == CHOOSE x \in T : TRUE

SumsOver(f, v, S) ==
  f = [T \in SUBSET S |-> IF T = {} THEN 0 ELSE v[Picked(T)] + f[T \ {Picked(T)}]]

(* A finite set is reached from the empty one by adding its elements.      *)
LEMMA SetInduction ==
  ASSUME NEW S, IsFiniteSet(S), NEW R, {} \in R,
         \A T \in SUBSET S : \A x \in S \ T : T \in R => T \cup {x} \in R
  PROVE  \A T \in SUBSET S : T \in R
<1> DEFINE N == {n \in Nat : \A T \in SUBSET S : Cardinality(T) = n => T \in R}
<1>1. \A T \in SUBSET S : IsFiniteSet(T) /\ Cardinality(T) \in Nat
  BY FS_Subset, FS_CardinalityType
<1>2. 0 \in N
  BY <1>1, FS_EmptySet
<1>3. ASSUME NEW n \in Nat, n \in N
      PROVE  n + 1 \in N
  <2> SUFFICES ASSUME NEW T \in SUBSET S, Cardinality(T) = n + 1
               PROVE  T \in R
    OBVIOUS
  <2>1. T # {}
    <3>1. Cardinality({}) = 0
      BY FS_EmptySet
    <3> QED
      BY <3>1
  <2>2. PICK x : x \in T
    BY <2>1
  <2>3. Cardinality(T \ {x}) = n
    <3>1. IsFiniteSet(T)
      BY <1>1
    <3>2. Cardinality(T \ {x}) = Cardinality(T) - 1
      BY <2>2, <3>1, FS_RemoveElement
    <3> QED
      BY <3>2
  <2>4. T \ {x} \in R
    BY <1>3, <2>3
  <2>5. T = (T \ {x}) \cup {x} /\ x \in S \ (T \ {x}) /\ T \ {x} \in SUBSET S
    BY <2>2
  <2> QED
    BY <2>4, <2>5
<1> HIDE DEF N
<1>4. Nat \subseteq N
  BY <1>2, <1>3, Matching!NatSetInduction
<1> QED
  BY <1>1, <1>4 DEF N

(* The recursion of MapThenSumSet defines a function on the subsets of a   *)
(* finite set, whose values are numbers and do not depend on the element   *)
(* taken first.                                                            *)
LEMMA SumsExist ==
  ASSUME NEW S, IsFiniteSet(S), NEW v
  PROVE  \E f : SumsOver(f, v, S)
<1> DEFINE Sums(f, n) ==
             /\ f = [T \in SUBSET S |-> f[T]]
             /\ \A T \in SUBSET S : Cardinality(T) <= n =>
                  f[T] = IF T = {} THEN 0 ELSE v[Picked(T)] + f[T \ {Picked(T)}]
           N == {n \in Nat : \E f : Sums(f, n)}
<1>1. \A T \in SUBSET S :
        /\ IsFiniteSet(T) /\ Cardinality(T) \in Nat
        /\ Cardinality(T) <= Cardinality(S) /\ Cardinality(S) \in Nat
  BY FS_Subset, FS_CardinalityType
<1>2. \A T \in SUBSET S : T # {} =>
        /\ Picked(T) \in T /\ T \ {Picked(T)} \in SUBSET S
        /\ Cardinality(T \ {Picked(T)}) = Cardinality(T) - 1
  BY <1>1, FS_RemoveElement DEF Picked
<1>3. 0 \in N
  <2>1. \A T \in SUBSET S : Cardinality(T) <= 0 => T = {}
    BY <1>1, FS_EmptySet
  <2>2. Sums([T \in SUBSET S |-> 0], 0)
    BY <2>1
  <2> QED
    BY <2>2
<1>4. ASSUME NEW n \in Nat, n \in N
      PROVE  n + 1 \in N
  <2>1. PICK f : Sums(f, n)
    BY <1>4
  <2> DEFINE g == [T \in SUBSET S |-> IF T = {} THEN 0
                                      ELSE v[Picked(T)] + f[T \ {Picked(T)}]]
  <2>2. \A T \in SUBSET S : Cardinality(T) <= n => g[T] = f[T]
    BY <2>1
  <2>3. ASSUME NEW T \in SUBSET S, Cardinality(T) <= n + 1, T # {}
        PROVE  g[T] = v[Picked(T)] + g[T \ {Picked(T)}]
    <3>1. T \ {Picked(T)} \in SUBSET S /\ Cardinality(T \ {Picked(T)}) <= n
      BY <1>1, <1>2, <2>3
    <3>2. g[T \ {Picked(T)}] = f[T \ {Picked(T)}]
      BY <2>2, <3>1
    <3>3. g[T] = v[Picked(T)] + f[T \ {Picked(T)}]
      BY <2>3
    <3> QED
      BY <3>2, <3>3
  <2>4. g[{}] = 0 /\ g = [T \in SUBSET S |-> g[T]]
    OBVIOUS
  <2> HIDE DEF g
  <2>5. Sums(g, n + 1)
    BY <2>3, <2>4
  <2> HIDE DEF Sums
  <2>6. n + 1 \in Nat /\ \E h : Sums(h, n + 1)
    BY <2>5
  <2> QED
    BY <2>6
<1> HIDE DEF N
<1>5. Cardinality(S) \in N
  <2>1. Nat \subseteq N
    BY <1>3, <1>4, Matching!NatSetInduction
  <2> QED
    BY <1>1, <2>1
<1>6. PICK f : Sums(f, Cardinality(S))
  BY <1>5 DEF N
<1>7. \A T \in SUBSET S :
        f[T] = IF T = {} THEN 0 ELSE v[Picked(T)] + f[T \ {Picked(T)}]
  BY <1>1, <1>6
<1>8. f = [T \in SUBSET S |-> f[T]]
  BY <1>6
<1>9. f = [T \in SUBSET S |-> IF T = {} THEN 0 ELSE v[Picked(T)] + f[T \ {Picked(T)}]]
  BY <1>7, <1>8
<1> QED
  BY <1>9 DEF SumsOver

LEMMA SumsAreNumbers ==
  ASSUME NEW S, IsFiniteSet(S), NEW v, \A x \in S : v[x] \in Int,
         NEW f, SumsOver(f, v, S)
  PROVE  \A T \in SUBSET S : f[T] \in Int
<1> DEFINE N == {n \in Nat : \A T \in SUBSET S : Cardinality(T) = n => f[T] \in Int}
<1>1. \A T \in SUBSET S : IsFiniteSet(T) /\ Cardinality(T) \in Nat
  BY FS_Subset, FS_CardinalityType
<1>2. \A T \in SUBSET S :
        f[T] = IF T = {} THEN 0 ELSE v[Picked(T)] + f[T \ {Picked(T)}]
  BY DEF SumsOver
<1>3. \A T \in SUBSET S : T # {} =>
        /\ v[Picked(T)] \in Int /\ T \ {Picked(T)} \in SUBSET S
        /\ Cardinality(T \ {Picked(T)}) = Cardinality(T) - 1
  <2> SUFFICES ASSUME NEW T \in SUBSET S, T # {}
               PROVE  /\ v[Picked(T)] \in Int /\ T \ {Picked(T)} \in SUBSET S
                      /\ Cardinality(T \ {Picked(T)}) = Cardinality(T) - 1
    OBVIOUS
  <2>1. Picked(T) \in T /\ IsFiniteSet(T)
    BY <1>1 DEF Picked
  <2>2. Cardinality(T \ {Picked(T)}) = Cardinality(T) - 1
    BY <2>1, FS_RemoveElement
  <2> QED
    BY <2>1, <2>2
<1>4. 0 \in N
  <2>1. \A T \in SUBSET S : Cardinality(T) = 0 => T = {}
    BY <1>1, FS_EmptySet
  <2>2. f[{}] = 0
    BY <1>2
  <2> QED
    BY <2>1, <2>2
<1>5. ASSUME NEW n \in Nat, n \in N
      PROVE  n + 1 \in N
  <2> SUFFICES ASSUME NEW T \in SUBSET S, Cardinality(T) = n + 1
               PROVE  f[T] \in Int
    OBVIOUS
  <2>1. CASE T = {}
    <3>1. f[{}] = 0
      BY <1>2
    <3> QED
      BY <2>1, <3>1
  <2>2. CASE T # {}
    <3>1. f[T \ {Picked(T)}] \in Int
      BY <1>3, <1>5, <2>2
    <3> QED
      BY <1>2, <1>3, <2>2, <3>1
  <2> QED
    BY <2>1, <2>2
<1> HIDE DEF N
<1>6. Nat \subseteq N
  BY <1>4, <1>5, Matching!NatSetInduction
<1> QED
  BY <1>1, <1>6 DEF N

(* Whatever element is picked, the sum comes to the same.                  *)
LEMMA SumsInAnyOrder ==
  ASSUME NEW S, IsFiniteSet(S), NEW v, \A x \in S : v[x] \in Int,
         NEW f, SumsOver(f, v, S)
  PROVE  \A T \in SUBSET S : \A x \in T : f[T] = v[x] + f[T \ {x}]
<1> DEFINE N == {n \in Nat : \A T \in SUBSET S : Cardinality(T) = n =>
                   \A x \in T : f[T] = v[x] + f[T \ {x}]}
<1>1. \A T \in SUBSET S : IsFiniteSet(T) /\ Cardinality(T) \in Nat
  BY FS_Subset, FS_CardinalityType
<1>2. \A T \in SUBSET S :
        T # {} => Picked(T) \in T /\ f[T] = v[Picked(T)] + f[T \ {Picked(T)}]
  BY DEF SumsOver, Picked
<1>3. 0 \in N
  <2>1. \A T \in SUBSET S : Cardinality(T) = 0 => T = {}
    BY <1>1, FS_EmptySet
  <2> QED
    BY <2>1
<1>4. ASSUME NEW n \in Nat, n \in N
      PROVE  n + 1 \in N
  <2> SUFFICES ASSUME NEW T \in SUBSET S, Cardinality(T) = n + 1, NEW x \in T
               PROVE  f[T] = v[x] + f[T \ {x}]
    OBVIOUS
  <2> DEFINE c == Picked(T)
  <2>1. c \in T /\ f[T] = v[c] + f[T \ {c}]
    BY <1>2
  <2> HIDE DEF c
  <2>2. \A y \in T : T \ {y} \in SUBSET S /\ Cardinality(T \ {y}) = n
    <3>1. TAKE y \in T
    <3>2. IsFiniteSet(T)
      BY <1>1
    <3>3. Cardinality(T \ {y}) = Cardinality(T) - 1
      BY <3>2, FS_RemoveElement
    <3> QED
      BY <3>3
  <2>3. CASE x # c
    <3>1. f[T \ {c}] = v[x] + f[(T \ {c}) \ {x}]
      BY <1>4, <2>1, <2>2, <2>3
    <3>2. f[T \ {x}] = v[c] + f[(T \ {x}) \ {c}]
      BY <1>4, <2>1, <2>2, <2>3
    <3>3. (T \ {c}) \ {x} = (T \ {x}) \ {c} /\ (T \ {c}) \ {x} \in SUBSET S
      OBVIOUS
    <3> DEFINE r == f[(T \ {c}) \ {x}]
    <3>4. r \in Int /\ v[x] \in Int /\ v[c] \in Int
      BY <2>1, <3>3, SumsAreNumbers
    <3>5. f[T] = v[c] + (v[x] + r) /\ f[T \ {x}] = v[c] + r
      BY <2>1, <3>1, <3>2, <3>3
    <3> HIDE DEF r
    <3> QED
      BY <3>4, <3>5
  <2> QED
    BY <2>1, <2>3
<1> HIDE DEF N
<1>5. Nat \subseteq N
  BY <1>3, <1>4, Matching!NatSetInduction
<1> QED
  BY <1>1, <1>5 DEF N

(* The sum of the community modules is such a function's value, and there  *)
(* is only one.                                                            *)
LEMMA SumsAgree ==
  ASSUME NEW S, IsFiniteSet(S), NEW v, NEW f, SumsOver(f, v, S),
         NEW U, IsFiniteSet(U), NEW w, NEW g, SumsOver(g, w, U),
         \A x \in S : v[x] = w[x] /\ v[x] \in Int, \A x \in U : w[x] \in Int, S \subseteq U
  PROVE  f[S] = g[S]
<1> DEFINE R == {T \in SUBSET S : f[T] = g[T]}
<1>1. {} \in R
  <2>1. f[{}] = 0 /\ g[{}] = 0
    BY DEF SumsOver
  <2> QED
    BY <2>1
<1>2. ASSUME NEW T \in SUBSET S, NEW x \in S \ T, T \in R
      PROVE  T \cup {x} \in R
  <2>1. (T \cup {x}) \ {x} = T /\ T \cup {x} \in SUBSET S /\ T \cup {x} \in SUBSET U
    OBVIOUS
  <2>2. f[T \cup {x}] = v[x] + f[T]
    BY <2>1, SumsInAnyOrder
  <2>3. g[T \cup {x}] = w[x] + g[T]
    BY <2>1, SumsInAnyOrder
  <2> QED
    BY <1>2, <2>1, <2>2, <2>3
<1> HIDE DEF R
<1>3. S \in R
  BY <1>1, <1>2, SetInduction
<1> QED
  BY <1>3 DEF R

(* What such a sum is of nothing, of one entry more and of two parts.      *)
LEMMA SumIsOver ==
  ASSUME NEW S, IsFiniteSet(S), NEW v
  PROVE  \E f : SumsOver(f, v, S) /\ SumOf(v, S) = f[S]
<1> DEFINE F == CHOOSE f : SumsOver(f, v, S)
<1>1. SumsOver(F, v, S)
  BY SumsExist
<1>2. SumOf(v, S) = F[S]
  BY DEF SumOf, MapThenSumSet, MapThenFoldSet, SumsOver, Picked
<1> HIDE DEF F
<1> QED
  BY <1>1, <1>2

LEMMA SumOfNone == \A v : SumOf(v, {}) = 0
<1> TAKE v
<1>1. IsFiniteSet({})
  BY FS_EmptySet
<1>2. PICK f : SumsOver(f, v, {}) /\ SumOf(v, {}) = f[{}]
  BY <1>1, SumIsOver
<1> QED
  BY <1>2 DEF SumsOver

LEMMA SumIsNumber ==
  ASSUME NEW S, IsFiniteSet(S), NEW v, \A x \in S : v[x] \in Int
  PROVE  SumOf(v, S) \in Int
<1>1. PICK f : SumsOver(f, v, S) /\ SumOf(v, S) = f[S]
  BY SumIsOver
<1> QED
  BY <1>1, SumsAreNumbers

LEMMA SumOfMore ==
  ASSUME NEW S, IsFiniteSet(S), NEW x, x \notin S,
         NEW v, \A y \in S \cup {x} : v[y] \in Int
  PROVE  SumOf(v, S \cup {x}) = v[x] + SumOf(v, S)
<1>1. PICK f : SumsOver(f, v, S) /\ SumOf(v, S) = f[S]
  BY SumIsOver
<1>2. IsFiniteSet(S \cup {x})
  BY FS_AddElement
<1>3. PICK g : SumsOver(g, v, S \cup {x}) /\ SumOf(v, S \cup {x}) = g[S \cup {x}]
  BY <1>2, SumIsOver
<1>4. g[S] = f[S]
  BY <1>1, <1>2, <1>3, SumsAgree
<1>5. g[S \cup {x}] = v[x] + g[(S \cup {x}) \ {x}]
  <2> DEFINE U == S \cup {x}
  <2>1. IsFiniteSet(U) /\ SumsOver(g, v, U) /\ (\A y \in U : v[y] \in Int)
    BY <1>2, <1>3
  <2>2. U \in SUBSET U /\ x \in U
    OBVIOUS
  <2> HIDE DEF U
  <2>3. g[U] = v[x] + g[U \ {x}]
    BY <2>1, <2>2, SumsInAnyOrder
  <2> QED
    BY <2>3 DEF U
<1>6. (S \cup {x}) \ {x} = S
  OBVIOUS
<1> QED
  BY <1>1, <1>3, <1>4, <1>5, <1>6

(* What a sum does not notice: the function elsewhere, a renaming of what  *)
(* is summed, and how the set is divided.                                  *)
LEMMA SumByValues ==
  ASSUME NEW S, IsFiniteSet(S), NEW v, NEW w,
         \A x \in S : v[x] \in Int /\ w[x] = v[x]
  PROVE  SumOf(v, S) = SumOf(w, S)
<1>1. PICK f : SumsOver(f, v, S) /\ SumOf(v, S) = f[S]
  BY SumIsOver
<1>2. PICK g : SumsOver(g, w, S) /\ SumOf(w, S) = g[S]
  BY SumIsOver
<1>3. (\A x \in S : v[x] = w[x] /\ v[x] \in Int) /\ (\A x \in S : w[x] \in Int)
  OBVIOUS
<1>4. f[S] = g[S]
  BY <1>1, <1>2, <1>3, SumsAgree
<1> QED
  BY <1>1, <1>2, <1>4

LEMMA SumOfBoth ==
  ASSUME NEW S, IsFiniteSet(S), NEW U, IsFiniteSet(U), S \cap U = {},
         NEW v, \A x \in S \cup U : v[x] \in Int
  PROVE  SumOf(v, S \cup U) = SumOf(v, S) + SumOf(v, U)
<1> DEFINE R == {T \in SUBSET U : SumOf(v, S \cup T) = SumOf(v, S) + SumOf(v, T)}
<1>1. \A T \in SUBSET U : IsFiniteSet(T) /\ IsFiniteSet(S \cup T)
  BY FS_Subset, FS_Union
<1>2. SumOf(v, S) \in Int /\ \A T \in SUBSET U : SumOf(v, T) \in Int /\ SumOf(v, S \cup T) \in Int
  <2>1. SumOf(v, S) \in Int
    BY SumIsNumber
  <2>2. ASSUME NEW T \in SUBSET U PROVE SumOf(v, T) \in Int /\ SumOf(v, S \cup T) \in Int
    <3>1. (\A x \in T : v[x] \in Int) /\ (\A x \in S \cup T : v[x] \in Int)
      OBVIOUS
    <3>2. SumOf(v, T) \in Int
      BY <1>1, <3>1, SumIsNumber
    <3>3. SumOf(v, S \cup T) \in Int
      BY <1>1, <3>1, SumIsNumber
    <3> QED
      BY <3>2, <3>3
  <2> QED
    BY <2>1, <2>2
<1>3. {} \in R
  <2>1. S \cup {} = S
    OBVIOUS
  <2> QED
    BY <1>2, <2>1, SumOfNone
<1>4. ASSUME NEW T \in SUBSET U, NEW x \in U \ T, T \in R
      PROVE  T \cup {x} \in R
  <2>1. /\ x \notin S \cup T /\ S \cup (T \cup {x}) = (S \cup T) \cup {x}
        /\ v[x] \in Int /\ T \cup {x} \in SUBSET U
    OBVIOUS
  <2>2. (\A y \in T \cup {x} : v[y] \in Int) /\ \A y \in (S \cup T) \cup {x} : v[y] \in Int
    OBVIOUS
  <2>3. SumOf(v, T \cup {x}) = v[x] + SumOf(v, T)
    BY <1>1, <2>2, SumOfMore
  <2>4. SumOf(v, (S \cup T) \cup {x}) = v[x] + SumOf(v, S \cup T)
    BY <1>1, <2>1, <2>2, SumOfMore
  <2>5. SumOf(v, S \cup T) = SumOf(v, S) + SumOf(v, T)
    BY <1>4
  <2>6. SumOf(v, S \cup (T \cup {x})) = SumOf(v, S) + SumOf(v, T \cup {x})
    <3>1. SumOf(v, S) \in Int /\ SumOf(v, T) \in Int /\ v[x] \in Int
      BY <1>2, <2>1
    <3>2. \A a, b, c \in Int : c + (a + b) = a + (c + b)
      OBVIOUS
    <3>3. SumOf(v, S \cup (T \cup {x})) = v[x] + (SumOf(v, S) + SumOf(v, T))
      BY <2>1, <2>4, <2>5
    <3> QED
      BY <2>3, <3>1, <3>2, <3>3
  <2> QED
    BY <2>1, <2>6
<1> HIDE DEF R
<1>5. U \in R
  BY <1>3, <1>4, SetInduction
<1> QED
  BY <1>5 DEF R

(* A sum is the same over entries under other names.                       *)
Placed(h, S) == {h[x] : x \in S}

Carries(h, v, w, S) ==
  /\ \A x, y \in S : h[x] = h[y] => x = y
  /\ \A x \in S : v[x] \in Int /\ w[h[x]] = v[x]

LEMMA SumRenamed ==
  ASSUME NEW S, IsFiniteSet(S), NEW h, NEW v, NEW w, Carries(h, v, w, S)
  PROVE  SumOf(v, S) = SumOf(w, Placed(h, S))
<1> \A x, y \in S : h[x] = h[y] => x = y
  BY DEF Carries
<1> \A x \in S : v[x] \in Int /\ w[h[x]] = v[x]
  BY DEF Carries
<1> DEFINE R == {T \in SUBSET S : SumOf(v, T) = SumOf(w, {h[x] : x \in T})}
<1>1. \A T \in SUBSET S : IsFiniteSet(T) /\ IsFiniteSet({h[x] : x \in T})
  <2> TAKE T \in SUBSET S
  <2> DEFINE image == {h[x] : x \in T}
             g == [x \in T |-> h[x]]
  <2>1. IsFiniteSet(T)
    BY FS_Subset
  <2>2. g \in Surjection(T, image)
    BY DEF Surjection
  <2>3. IsFiniteSet(image)
    BY <2>1, <2>2, FS_Surjection
  <2> QED
    BY <2>1, <2>3
<1>2. {} \in R
  <2>1. {h[x] : x \in {}} = {}
    OBVIOUS
  <2> QED
    BY <2>1, SumOfNone
<1>3. ASSUME NEW T \in SUBSET S, NEW x \in S \ T, T \in R
      PROVE  T \cup {x} \in R
  <2> DEFINE image == {h[y] : y \in T}
  <2>1. {h[y] : y \in T \cup {x}} = image \cup {h[x]} /\ h[x] \notin image
    OBVIOUS
  <2>2. (\A y \in T \cup {x} : v[y] \in Int) /\ \A z \in image \cup {h[x]} : w[z] \in Int
    OBVIOUS
  <2>3. SumOf(v, T \cup {x}) = v[x] + SumOf(v, T)
    BY <1>1, <2>2, SumOfMore
  <2>4. IsFiniteSet(image)
    BY <1>1
  <2>5. SumOf(v, T) = SumOf(w, image)
    BY <1>3
  <2> HIDE DEF image
  <2>6. SumOf(w, image \cup {h[x]}) = w[h[x]] + SumOf(w, image)
    BY <2>1, <2>2, <2>4, SumOfMore
  <2>7. SumOf(v, T \cup {x}) = SumOf(w, {h[y] : y \in T \cup {x}})
    BY <2>1, <2>3, <2>5, <2>6
  <2> QED
    BY <2>7
<1> HIDE DEF R
<1>4. S \in R
  BY <1>2, <1>3, SetInduction
<1> QED
  BY <1>4 DEF R, Placed

(* A sum that is nowhere less than another equals it only where they agree *)
(* everywhere; the sum of the differences is the difference of the sums.   *)
LEMMA SumOfDifferences ==
  ASSUME NEW S, IsFiniteSet(S), NEW v, NEW w, NEW u,
         \A x \in S : v[x] \in Int /\ w[x] \in Int /\ u[x] = v[x] - w[x]
  PROVE  SumOf(u, S) = SumOf(v, S) - SumOf(w, S)
<1> DEFINE R == {T \in SUBSET S : SumOf(u, T) = SumOf(v, T) - SumOf(w, T)}
<1>1. {} \in R
  BY SumOfNone
<1>2. ASSUME NEW T \in SUBSET S, NEW x \in S \ T, T \in R
      PROVE  T \cup {x} \in R
  <2>1. IsFiniteSet(T)
    BY FS_Subset
  <2>2. /\ \A y \in T \cup {x} : v[y] \in Int
        /\ \A y \in T \cup {x} : w[y] \in Int
        /\ \A y \in T \cup {x} : u[y] \in Int
        /\ u[x] = v[x] - w[x] /\ v[x] \in Int /\ w[x] \in Int
    OBVIOUS
  <2>3. SumOf(v, T \cup {x}) = v[x] + SumOf(v, T)
    BY <2>1, <2>2, SumOfMore
  <2>4. SumOf(w, T \cup {x}) = w[x] + SumOf(w, T)
    BY <2>1, <2>2, SumOfMore
  <2>5. SumOf(u, T \cup {x}) = u[x] + SumOf(u, T)
    BY <2>1, <2>2, SumOfMore
  <2>6. SumOf(v, T) \in Int /\ SumOf(w, T) \in Int
    BY <2>1, <2>2, SumIsNumber
  <2>7. SumOf(u, T) = SumOf(v, T) - SumOf(w, T)
    BY <1>2
  <2>8. SumOf(u, T \cup {x}) = SumOf(v, T \cup {x}) - SumOf(w, T \cup {x})
    BY <2>2, <2>3, <2>4, <2>5, <2>6, <2>7
  <2> QED
    BY <2>8
<1> HIDE DEF R
<1>3. S \in R
  BY <1>1, <1>2, SetInduction
<1> QED
  BY <1>3 DEF R

LEMMA SumOfNaturals ==
  ASSUME NEW S, IsFiniteSet(S), NEW v, \A x \in S : v[x] \in Nat
  PROVE  SumOf(v, S) \in Nat /\ (SumOf(v, S) = 0 <=> \A x \in S : v[x] = 0)
<1> DEFINE R == {T \in SUBSET S : SumOf(v, T) \in Nat
                                  /\ (SumOf(v, T) = 0 <=> \A x \in T : v[x] = 0)}
<1>1. {} \in R
  BY SumOfNone
<1>2. ASSUME NEW T \in SUBSET S, NEW x \in S \ T, T \in R
      PROVE  T \cup {x} \in R
  <2>1. IsFiniteSet(T)
    BY FS_Subset
  <2>2. (\A y \in T \cup {x} : v[y] \in Int) /\ v[x] \in Nat
    OBVIOUS
  <2>3. SumOf(v, T \cup {x}) = v[x] + SumOf(v, T)
    BY <2>1, <2>2, SumOfMore
  <2>4. SumOf(v, T) \in Nat /\ (SumOf(v, T) = 0 <=> \A y \in T : v[y] = 0)
    BY <1>2
  <2>5. SumOf(v, T \cup {x}) = 0 <=> v[x] = 0 /\ SumOf(v, T) = 0
    BY <2>2, <2>3, <2>4
  <2>6. SumOf(v, T \cup {x}) \in Nat
    BY <2>2, <2>3, <2>4
  <2>7. (\A y \in T \cup {x} : v[y] = 0) <=> v[x] = 0 /\ \A y \in T : v[y] = 0
    OBVIOUS
  <2>8. SumOf(v, T \cup {x}) = 0 <=> \A y \in T \cup {x} : v[y] = 0
    BY <2>4, <2>5, <2>7
  <2> QED
    BY <2>6, <2>8
<1> HIDE DEF R
<1>3. S \in R
  BY <1>1, <1>2, SetInduction
<1> QED
  BY <1>3 DEF R

(* The totals of the checks are such sums.                                 *)
Percent(list) == [i \in DOMAIN list |-> list[i].pct]

LEMMA TotalIsSum ==
  ASSUME NEW list \in Seq(Shares), NEW entries \in SUBSET DOMAIN list
  PROVE  TotalOf(list, entries) = IF \E i \in entries : list[i].pct = NaN THEN NaN
                                  ELSE SumOf(Percent(list), entries)
<1> DEFINE v == Percent(list)
           Summed(g) == g = [s \in SUBSET entries |->
             IF s = {} THEN 0
             ELSE LET x == CHOOSE x \in s : TRUE
                  IN  list[x].pct + g[s \ {x}]]
           F == CHOOSE g : Summed(g)
<1>1. IsFiniteSet(entries)
  <2>1. DOMAIN list = 1..Len(list) /\ Len(list) \in Nat
    OBVIOUS
  <2>2. IsFiniteSet(DOMAIN list)
    BY <2>1, FS_Interval
  <2> QED
    BY <2>2, FS_Subset
<1>2. \A s \in SUBSET entries : s # {} => Picked(s) \in DOMAIN list
                                         /\ v[Picked(s)] = list[Picked(s)].pct
  BY DEF Picked, Percent
<1>3. \A g : Summed(g) <=> SumsOver(g, v, entries)
  <2> TAKE g
  <2> HIDE DEF v
  <2>1. \A s \in SUBSET entries :
          (IF s = {} THEN 0 ELSE v[Picked(s)] + g[s \ {Picked(s)}])
          = (IF s = {} THEN 0
             ELSE LET x == CHOOSE x \in s : TRUE IN list[x].pct + g[s \ {x}])
    BY <1>2 DEF Picked
  <2>2. [s \in SUBSET entries |-> IF s = {} THEN 0 ELSE v[Picked(s)] + g[s \ {Picked(s)}]]
          = [s \in SUBSET entries |-> IF s = {} THEN 0
               ELSE LET x == CHOOSE x \in s : TRUE IN list[x].pct + g[s \ {x}]]
    BY <2>1
  <2> QED
    BY <2>2 DEF SumsOver
<1>4. SumsOver(F, v, entries)
  <2>1. PICK g : SumsOver(g, v, entries)
    BY <1>1, SumsExist
  <2>2. Summed(g)
    BY <1>3, <2>1
  <2>3. Summed(F)
    BY <2>2
  <2> HIDE DEF F, Summed
  <2> QED
    BY <1>3, <2>3
<1>5. MapThenSumSet(LAMBDA i : list[i].pct, entries) = F[entries]
  BY DEF MapThenSumSet, MapThenFoldSet
<1> HIDE DEF F, Summed
<1>6. ASSUME \A i \in entries : list[i].pct # NaN
      PROVE  F[entries] = SumOf(v, entries)
  <2>1. \A i \in entries : v[i] \in Int
    <3>1. \A i \in entries : list[i] \in Shares
      OBVIOUS
    <3> QED
      BY <1>6, <3>1 DEF Shares, Percent
  <2>2. PICK f : SumsOver(f, v, entries) /\ SumOf(v, entries) = f[entries]
    BY <1>1, SumIsOver
  <2> QED
    BY <1>1, <1>4, <2>1, <2>2, SumsAgree
<1> QED
  BY <1>5, <1>6 DEF TotalOf

(* The total of a list of numbers, and what the checks make of it.         *)
LEMMA TotalIsNumber ==
  ASSUME NEW s \in Seq(Shares), Numeric(s)
  PROVE  Total(s) \in Int /\ Total(s) = SumOf(Percent(s), DOMAIN s)
<1>1. \A i \in DOMAIN s : s[i].pct # NaN /\ Percent(s)[i] \in Int
  BY SharesAreNumbers DEF Numeric, Percent
<1>2. Total(s) = SumOf(Percent(s), DOMAIN s)
  BY <1>1, TotalIsSum DEF Total
<1>3. SumOf(Percent(s), DOMAIN s) \in Int
  BY <1>1, PositionsAreCounted, SumIsNumber
<1> QED
  BY <1>2, <1>3

LEMMA SumsInBounds ==
  ASSUME NEW list, Total(list) \in Int
  PROVE  /\ ~Exceeds(list) /\ ~FallsShort(list) => AddsUp(list, Eps)
         /\ AddsUp(list, Eps - 1) => ~Exceeds(list) /\ ~FallsShort(list)
         /\ ~Exceeds(list) => Total(list) <= Whole + Eps
         /\ Total(list) <= Whole + (Eps - 1) => ~Exceeds(list)
         /\ Total(list) > Whole + Eps => Exceeds(list)
         /\ Total(list) < Whole - Eps => ~Exceeds(list) /\ FallsShort(list)
         /\ Total(list) > Whole - Eps => ~FallsShort(list)
<1>1. Total(list) # NaN
  BY NaNAssumption
<1> QED
  BY <1>1 DEF Exceeds, FallsShort, Above, Below, AddsUp, Whole, Eps

-----------------------------------------------------------------------------
(* What the five checks say of a dossier with all its documents, and when  *)
(* they say nothing.                                                       *)
PartialDossiers ==
  {[label \in present |-> whole[label]] :
     whole \in CompleteDossiers, present \in SUBSET Documents}

LEMMA DossierParts ==
  ASSUME NEW d \in PartialDossiers, DOMAIN d = Documents
  PROVE  /\ d.registry \in [date : Int, legal : STRING, tax : STRING, holders : Seq(Shares)]
         /\ d.circular \in [date : Int, legal : STRING, tax : STRING,
                            signatories : Seq(Signatories)]
         /\ d.ubo \in [date : Int, legal : STRING, tax : STRING, holders : Seq(Shares),
                       declared : Seq(Shares), declarant : STRING]
<1>1. PICK whole \in CompleteDossiers, present \in SUBSET Documents :
        d = [label \in present |-> whole[label]]
  BY DEF PartialDossiers
<1>2. d.registry = whole.registry /\ d.circular = whole.circular /\ d.ubo = whole.ubo
  BY <1>1 DEF Documents
<1> QED
  BY <1>2 DEF CompleteDossiers

(* Of the documents that agree on holders, signer and owners: the part of  *)
(* Consistent each check answers for.                                      *)
LEMMA IdentityHolds ==
  ASSUME NEW d, DOMAIN d = Documents
  PROVE  IdentityCodes(d) \subseteq {"A1"} <=> \A m \in Documents : d[m].tax = d.registry.tax
<1>1. IdentityCodes(d) \subseteq {"A1"} <=> ~\E m, n \in Documents : d[m].tax # d[n].tax
  BY DEF IdentityCodes
<1>2. "registry" \in Documents
  BY DEF Documents
<1> QED
  BY <1>1, <1>2

LEMMA OwnershipHolds ==
  ASSUME NEW registry, NEW ubo, registry.holders \in Seq(Shares), ubo.holders \in Seq(Shares),
         Numeric(registry.holders), Numeric(ubo.holders)
  PROVE  /\ OwnershipCodes(registry, ubo) = {} =>
              /\ AddsUp(registry.holders, Eps) /\ AddsUp(ubo.holders, Eps)
              /\ SameHolders(registry.holders, ubo.holders, Eps)
         /\ /\ AddsUp(registry.holders, Eps - 1) /\ AddsUp(ubo.holders, Eps - 1)
            /\ SameStructure(registry.holders, ubo.holders)
            => OwnershipCodes(registry, ubo) = {}
<1>1. OwnershipCodes(registry, ubo) = {} <=>
        /\ ~Exceeds(registry.holders) /\ ~Exceeds(ubo.holders)
        /\ ~FallsShort(registry.holders) /\ ~FallsShort(ubo.holders)
        /\ SameStructure(registry.holders, ubo.holders)
  BY DEF OwnershipCodes
<1>2. Total(registry.holders) \in Int /\ Total(ubo.holders) \in Int
  BY TotalIsNumber
<1>3. /\ ~Exceeds(registry.holders) /\ ~FallsShort(registry.holders)
         => AddsUp(registry.holders, Eps)
      /\ AddsUp(registry.holders, Eps - 1)
         => ~Exceeds(registry.holders) /\ ~FallsShort(registry.holders)
  BY <1>2, SumsInBounds
<1>4. /\ ~Exceeds(ubo.holders) /\ ~FallsShort(ubo.holders) => AddsUp(ubo.holders, Eps)
      /\ AddsUp(ubo.holders, Eps - 1) => ~Exceeds(ubo.holders) /\ ~FallsShort(ubo.holders)
  BY <1>2, SumsInBounds
<1> QED
  BY <1>1, <1>3, <1>4, StructureMeansHolders

LEMMA AuthorityHolds ==
  ASSUME NEW circular, NEW ubo, circular.signatories \in Seq(Signatories), ubo.date \in Int
  PROVE  LET list   == circular.signatories
             listed == {i \in DOMAIN list : SamePerson(ubo.declarant, list[i].name)}
         IN  AuthorityCodes(circular, ubo) = {} <=>
               /\ listed # {}
               /\ \A day \in list[Min(listed)].until : day >= ubo.date
<1> DEFINE list   == circular.signatories
           listed == {i \in DOMAIN list : SamePerson(ubo.declarant, list[i].name)}
<1>1. AuthorityCodes(circular, ubo) = {} <=>
        /\ listed # {}
        /\ ~\E day \in list[Min(listed)].until : day < ubo.date
  BY DEF AuthorityCodes
<1>2. ASSUME listed # {}
      PROVE  \A day \in list[Min(listed)].until : day \in Int
  <2>1. listed \in SUBSET Nat /\ listed \subseteq DOMAIN list
    OBVIOUS
  <2> HIDE DEF listed
  <2>2. Min(listed) \in DOMAIN list
    BY <1>2, <2>1, LeastExists
  <2>3. list[Min(listed)] \in Signatories
    BY <2>2
  <2> QED
    BY <2>3 DEF Signatories
<1>3. ASSUME listed # {}
      PROVE  (~\E day \in list[Min(listed)].until : day < ubo.date)
               <=> \A day \in list[Min(listed)].until : day >= ubo.date
  <2> DEFINE days == list[Min(listed)].until
  <2>1. \A day \in days : day \in Int
    BY <1>2, <1>3
  <2> HIDE DEF days
  <2>2. \A day \in days : ~(day < ubo.date) <=> day >= ubo.date
    BY <2>1
  <2>3. (~\E day \in days : day < ubo.date) <=> \A day \in days : day >= ubo.date
    BY <2>2
  <2> QED
    BY <2>3 DEF days
<1> QED
  BY <1>1, <1>3

LEMMA OwnersHold ==
  ASSUME NEW ubo, ubo.holders \in Seq(Shares), ubo.declared \in Seq(Shares),
         Numeric(ubo.holders), Numeric(ubo.declared)
  PROVE  UboCodes(ubo) = {} <=>
           /\ ~Exceeds(ubo.declared)
           /\ \A j \in DOMAIN ubo.declared : ubo.declared[j].pct \in -Eps .. Whole + Eps
           /\ \A i \in DOMAIN ubo.holders :
                ubo.holders[i].pct + Eps >= UboThreshold =>
                  \E j \in DOMAIN ubo.declared :
                    SamePerson(ubo.holders[i].name, ubo.declared[j].name)
<1> DEFINE impossible == \/ Exceeds(ubo.declared)
                         \/ \E i \in DOMAIN ubo.declared :
                              \/ Below(ubo.declared[i].pct, -Eps)
                              \/ Above(ubo.declared[i].pct, Whole + Eps)
           owes(sh) == sh.pct = NaN \/ sh.pct + Eps >= UboThreshold
           undeclared == {i \in DOMAIN ubo.holders :
                            /\ owes(ubo.holders[i])
                            /\ \A j \in DOMAIN ubo.declared :
                                 ~SamePerson(ubo.holders[i].name, ubo.declared[j].name)}
<1>1. UboCodes(ubo) = {} <=> ~impossible /\ undeclared = {}
  BY DEF UboCodes
<1>2. /\ \A i \in DOMAIN ubo.declared : ubo.declared[i].pct \in Int
      /\ \A i \in DOMAIN ubo.holders : ubo.holders[i].pct \in Int
  BY SharesAreNumbers
<1>3. \A x \in Int : ~Below(x, -Eps) /\ ~Above(x, Whole + Eps) <=> x \in -Eps .. Whole + Eps
  <2> TAKE x \in Int
  <2>1. x # NaN
    BY NaNAssumption
  <2>2. /\ Below(x, -Eps) <=> x < -Eps
        /\ Above(x, Whole + Eps) <=> x > Whole + Eps
    BY <2>1 DEF Below, Above
  <2>3. -Eps \in Int /\ Whole + Eps \in Int
    BY DEF Eps, Whole
  <2>4. \A a, b \in Int : ~(x < a) /\ ~(x > b) <=> x \in a .. b
    OBVIOUS
  <2> QED
    BY <2>2, <2>3, <2>4
<1>4. ~impossible <=>
        /\ ~Exceeds(ubo.declared)
        /\ \A j \in DOMAIN ubo.declared : ubo.declared[j].pct \in -Eps .. Whole + Eps
  BY <1>2, <1>3
<1>5. undeclared = {} <=>
        \A i \in DOMAIN ubo.holders :
          ubo.holders[i].pct + Eps >= UboThreshold =>
            \E j \in DOMAIN ubo.declared :
              SamePerson(ubo.holders[i].name, ubo.declared[j].name)
  BY DEF Numeric
<1> QED
  BY <1>1, <1>4, <1>5

(* A list without holders does not add up.                                 *)
LEMMA EmptyTotal == Total(<< >>) = 0
<1> DEFINE Summed(g) == g = [s \in SUBSET {} |->
             IF s = {} THEN 0
             ELSE LET x == CHOOSE x \in s : TRUE
                  IN  << >>[x].pct + g[s \ {x}]]
           F == CHOOSE g : Summed(g)
<1>1. Summed([s \in SUBSET {} |-> 0])
  OBVIOUS
<1>2. Summed(F)
  BY <1>1
<1>3. F[{}] = 0
  BY <1>2
<1>4. DOMAIN << >> = {}
  OBVIOUS
<1>5. Total(<< >>) = F[{}]
  BY <1>4 DEF Total, TotalOf, MapThenSumSet, MapThenFoldSet
<1> QED
  BY <1>3, <1>5

LEMMA AddsUpOfSome ==
  ASSUME NEW list, AddsUp(list, Eps - 1)
  PROVE  list # << >>
BY EmptyTotal DEF AddsUp, Whole, Eps

-----------------------------------------------------------------------------
(* All that the checks report of a dossier.                                *)
CodesReported(check, d) == IF CanRun(check, DOMAIN d) THEN CodesOf(check, d) ELSE {}

ResultOf(check, d) ==
  [check |-> check, ran |-> CanRun(check, DOMAIN d), codes |-> CodesReported(check, d)]

AllCodes(d) == UNION {CodesReported(check, d) : check \in DocumentChecks}

LEMMA AllCodesAreCodes ==
  ASSUME NEW d, DOMAIN d \subseteq Documents
  PROVE  AllCodes(d) \subseteq TaxonomyCodes
<1>1. \A check \in DocumentChecks : CodesReported(check, d) \subseteq TaxonomyCodes
  BY OutcomesAreComplete, OutcomesAreCodes DEF CodesReported
<1> QED
  BY <1>1 DEF AllCodes

LEMMA AllCodesOfComplete ==
  ASSUME NEW d, DOMAIN d = Documents
  PROVE  AllCodes(d) = IdentityCodes(d) \cup OwnershipCodes(d.registry, d.ubo)
                         \cup AuthorityCodes(d.circular, d.ubo) \cup UboCodes(d.ubo)
                         \cup CompletenessCodes(d)
<1>1. \A check \in DocumentChecks : CanRun(check, DOMAIN d)
  BY DEF DocumentChecks, CanRun, Documents
<1>2. AllCodes(d) = UNION {CodesOf(check, d) : check \in DocumentChecks}
  BY <1>1 DEF AllCodes, CodesReported
<1>3. /\ CodesOf("check_identity_consistency", d) = IdentityCodes(d)
      /\ CodesOf("check_ownership_consistency", d) = OwnershipCodes(d.registry, d.ubo)
      /\ CodesOf("check_authority_chain", d) = AuthorityCodes(d.circular, d.ubo)
      /\ CodesOf("check_ubo_derivation", d) = UboCodes(d.ubo)
      /\ CodesOf("check_completeness", d) = CompletenessCodes(d)
  BY DEF CodesOf
<1>4. \A c : c \in AllCodes(d) <=>
        \/ c \in CodesOf("check_identity_consistency", d)
        \/ c \in CodesOf("check_ownership_consistency", d)
        \/ c \in CodesOf("check_authority_chain", d)
        \/ c \in CodesOf("check_ubo_derivation", d)
        \/ c \in CodesOf("check_completeness", d)
  BY <1>2 DEF DocumentChecks
<1> QED
  BY <1>3, <1>4

LEMMA ApprovalMeans ==
  ASSUME NEW F, F \subseteq TaxonomyCodes
  PROVE  DecisionForSeverities({CodeSeverity(c) : c \in F}) = "approve" <=> F \subseteq {"A1"}
<1>1. \A c \in TaxonomyCodes : /\ c = "A1" <=> CodeSeverity(c) = "info"
                       /\ CodeSeverity(c) \in {"info", "explainable", "unexplainable"}
  BY DEF TaxonomyCodes, CodeSeverity
<1>2. DecisionForSeverities({CodeSeverity(c) : c \in F}) = "approve" <=>
        \A c \in F : CodeSeverity(c) # "unexplainable" /\ CodeSeverity(c) # "explainable"
  BY DEF DecisionForSeverities
<1> QED
  BY <1>1, <1>2

LEMMA MissingIsReported ==
  ASSUME NEW d, AllCodes(d) \subseteq {"A1"}
  PROVE  DOMAIN d = Documents
<1>1. "check_completeness" \in DocumentChecks
  BY DEF DocumentChecks
<1>2. CodesReported("check_completeness", d) = CompletenessCodes(d)
  BY DEF CodesReported, CanRun, CodesOf
<1>3. CompletenessCodes(d) \subseteq {"A1"}
  BY <1>1, <1>2 DEF AllCodes
<1> QED
  BY <1>3 DEF CompletenessCodes

LEMMA NumericParts ==
  ASSUME NEW d, DOMAIN d = Documents, IsNumeric(d)
  PROVE  Numeric(d.registry.holders) /\ Numeric(d.ubo.holders) /\ Numeric(d.ubo.declared)
BY DEF IsNumeric, Numeric, Documents

(* Nothing reported but a benign difference in legal names: the documents  *)
(* agree.                                                                  *)
LEMMA SilenceMeansConsistent ==
  ASSUME NEW d \in PartialDossiers, IsNumeric(d), AllCodes(d) \subseteq {"A1"}
  PROVE  Consistent(d, Eps)
<1>1. DOMAIN d = Documents
  BY MissingIsReported
<1>2. /\ d.registry.holders \in Seq(Shares) /\ d.ubo.holders \in Seq(Shares)
      /\ d.ubo.declared \in Seq(Shares) /\ d.circular.signatories \in Seq(Signatories)
      /\ d.ubo.date \in Int
  BY <1>1, DossierParts
<1>3. Numeric(d.registry.holders) /\ Numeric(d.ubo.holders) /\ Numeric(d.ubo.declared)
  BY <1>1, NumericParts
<1>4. /\ IdentityCodes(d) \subseteq {"A1"}
      /\ OwnershipCodes(d.registry, d.ubo) \subseteq {"A1"}
      /\ AuthorityCodes(d.circular, d.ubo) \subseteq {"A1"}
      /\ UboCodes(d.ubo) \subseteq {"A1"}
      /\ CompletenessCodes(d) \subseteq {"A1"}
  BY <1>1, AllCodesOfComplete
<1>5. OwnershipCodes(d.registry, d.ubo) = {}
  BY <1>4, OwnershipOutcomes
<1>6. AuthorityCodes(d.circular, d.ubo) = {}
  BY <1>4, AuthorityOutcomes
<1>7. UboCodes(d.ubo) = {}
  BY <1>4, UboOutcomes
<1>8. \A label \in Documents : ~LacksField(label, d[label])
  BY <1>1, <1>4 DEF CompletenessCodes
<1>9. d.registry.tax # Blank /\ d.registry.legal # Blank /\ d.ubo.declarant # Blank
  BY <1>8 DEF LacksField, Documents
<1>10. \A m \in Documents : d[m].tax = d.registry.tax
  BY <1>1, <1>4, IdentityHolds
<1>11. /\ AddsUp(d.registry.holders, Eps) /\ AddsUp(d.ubo.holders, Eps)
       /\ SameHolders(d.registry.holders, d.ubo.holders, Eps)
  BY <1>2, <1>3, <1>5, OwnershipHolds
<1>12. \E i \in DOMAIN d.circular.signatories :
         /\ SamePerson(d.ubo.declarant, d.circular.signatories[i].name)
         /\ \A day \in d.circular.signatories[i].until : day >= d.ubo.date
  <2> DEFINE list   == d.circular.signatories
             listed == {i \in DOMAIN list : SamePerson(d.ubo.declarant, list[i].name)}
  <2>1. listed # {} /\ \A day \in list[Min(listed)].until : day >= d.ubo.date
    BY <1>2, <1>6, AuthorityHolds
  <2>2. listed \in SUBSET Nat /\ \A i \in listed : i \in DOMAIN list
                              /\ SamePerson(d.ubo.declarant, list[i].name)
    BY <1>2
  <2> HIDE DEF listed
  <2>3. Min(listed) \in listed
    BY <2>1, <2>2, LeastExists
  <2> QED
    BY <2>1, <2>2, <2>3
<1>13. /\ ~Exceeds(d.ubo.declared)
       /\ \A j \in DOMAIN d.ubo.declared : d.ubo.declared[j].pct \in -Eps .. Whole + Eps
       /\ \A i \in DOMAIN d.ubo.holders :
            d.ubo.holders[i].pct + Eps >= UboThreshold =>
              \E j \in DOMAIN d.ubo.declared :
                SamePerson(d.ubo.holders[i].name, d.ubo.declared[j].name)
  BY <1>2, <1>3, <1>7, OwnersHold
<1>14. Total(d.ubo.declared) <= Whole + Eps
  BY <1>2, <1>3, <1>13, TotalIsNumber, SumsInBounds
<1> QED
  BY <1>1, <1>9, <1>10, <1>11, <1>12, <1>13, <1>14 DEF Consistent

(* Documents that agree, with names told apart: nothing else is reported.  *)
LEMMA ConsistentMeansSilence ==
  ASSUME NEW d \in PartialDossiers, IsNumeric(d), Unambiguous(d), Consistent(d, Eps - 1)
  PROVE  AllCodes(d) \subseteq {"A1"}
<1>1. DOMAIN d = Documents
  BY DEF Consistent
<1>2. /\ d.registry.holders \in Seq(Shares) /\ d.ubo.holders \in Seq(Shares)
      /\ d.ubo.declared \in Seq(Shares) /\ d.circular.signatories \in Seq(Signatories)
      /\ d.ubo.date \in Int
  BY <1>1, DossierParts
<1>3. Numeric(d.registry.holders) /\ Numeric(d.ubo.holders) /\ Numeric(d.ubo.declared)
  BY <1>1, NumericParts
<1>4. IdentityCodes(d) \subseteq {"A1"}
  BY <1>1, IdentityHolds DEF Consistent
<1>5. OwnershipCodes(d.registry, d.ubo) = {}
  <2>1. /\ \A i \in DOMAIN d.registry.holders :
             AtMostOne(d.registry.holders[i].name, d.ubo.holders)
        /\ \A j \in DOMAIN d.ubo.holders :
             \A i, k \in DOMAIN d.registry.holders :
               /\ SamePerson(d.registry.holders[i].name, d.ubo.holders[j].name)
               /\ SamePerson(d.registry.holders[k].name, d.ubo.holders[j].name)
               => i = k
    BY <1>1 DEF Unambiguous, Documents
  <2>2. SameHolders(d.registry.holders, d.ubo.holders, Eps - 1)
    BY DEF Consistent
  <2>3. SameStructure(d.registry.holders, d.ubo.holders)
    BY <1>2, <1>3, <2>1, <2>2, HoldersMeanStructure
  <2> QED
    BY <1>2, <1>3, <2>3, OwnershipHolds DEF Consistent
<1>6. AuthorityCodes(d.circular, d.ubo) = {}
  <2> DEFINE list   == d.circular.signatories
             listed == {i \in DOMAIN list : SamePerson(d.ubo.declarant, list[i].name)}
  <2>1. PICK i \in DOMAIN list : /\ SamePerson(d.ubo.declarant, list[i].name)
                                 /\ \A day \in list[i].until : day >= d.ubo.date
    BY DEF Consistent
  <2>2. AtMostOne(d.ubo.declarant, list)
    BY <1>1 DEF Unambiguous, Documents
  <2>3. listed = {i}
    BY <2>1, <2>2 DEF AtMostOne
  <2>4. i \in Nat
    BY <1>2
  <2>5. Min({i}) = i
    BY <2>4, LeastExists
  <2>6. listed # {} /\ \A day \in list[Min(listed)].until : day >= d.ubo.date
    BY <2>1, <2>3, <2>5
  <2> QED
    BY <1>2, <2>6, AuthorityHolds
<1>7. UboCodes(d.ubo) = {}
  <2>1. Total(d.ubo.declared) \in Int
    BY <1>2, <1>3, TotalIsNumber
  <2>2. Total(d.ubo.declared) <= Whole + (Eps - 1)
    BY DEF Consistent
  <2>3. ~Exceeds(d.ubo.declared)
    BY <2>1, <2>2, SumsInBounds
  <2> QED
    BY <1>2, <1>3, <2>3, OwnersHold DEF Consistent
<1>8. CompletenessCodes(d) = {}
  <2>1. d.registry.holders # << >> /\ d.circular.signatories # << >>
    BY AddsUpOfSome DEF Consistent
  <2>2. \A label \in Documents : ~LacksField(label, d[label])
    BY <2>1 DEF LacksField, Consistent, Documents
  <2> QED
    BY <1>1, <2>2 DEF CompletenessCodes
<1> QED
  BY <1>1, <1>4, <1>5, <1>6, <1>7, <1>8, AllCodesOfComplete

-----------------------------------------------------------------------------
(* The chain of checks: what was due before each has been reported.        *)
DoneBefore ==
  [ check_identity_consistency |-> {},
    check_ownership_consistency |-> {"check_identity_consistency"},
    check_authority_chain |-> {"check_identity_consistency", "check_ownership_consistency"},
    check_ubo_derivation |->
      {"check_identity_consistency", "check_ownership_consistency", "check_authority_chain"},
    check_completeness |-> DocumentChecks \ {"check_completeness"},
    done |-> DocumentChecks ]

ChainInv ==
  /\ dossier \in PartialDossiers
  /\ pc \in DocumentChecks \cup {"done"}
  /\ results = {ResultOf(check, dossier) : check \in DoneBefore[pc]}

(* NextCheck takes the checks one by one: what is done before the next is
   what was done before this one, and this one.                            *)
LEMMA StepsFollow ==
  ASSUME NEW check \in DocumentChecks
  PROVE  /\ NextCheck[check] \in DocumentChecks \cup {"done"}
         /\ DoneBefore[NextCheck[check]] = DoneBefore[check] \cup {check}
<1>1. CASE check = "check_identity_consistency"
  BY <1>1 DEF NextCheck, DoneBefore, DocumentChecks
<1>2. CASE check = "check_ownership_consistency"
  BY <1>2 DEF NextCheck, DoneBefore, DocumentChecks
<1>3. CASE check = "check_authority_chain"
  BY <1>3 DEF NextCheck, DoneBefore, DocumentChecks
<1>4. CASE check = "check_ubo_derivation"
  BY <1>4 DEF NextCheck, DoneBefore, DocumentChecks
<1>5. CASE check = "check_completeness"
  BY <1>5 DEF NextCheck, DoneBefore, DocumentChecks
<1> QED
  BY <1>1, <1>2, <1>3, <1>4, <1>5 DEF DocumentChecks

(* A step of the chain reports what its check has to say, if it can run.  *)
LEMMA NextReports ==
  ASSUME Next
  PROVE  /\ pc \in DocumentChecks /\ pc' = NextCheck[pc] /\ dossier' = dossier
         /\ results' = results \cup {ResultOf(pc, dossier)}
<1>1. CASE RunCheck
  <2>1. CanRun(pc, DOMAIN dossier) = TRUE
    BY <1>1 DEF RunCheck, CanRun
  <2> QED
    BY <1>1, <2>1 DEF RunCheck, ResultOf, CodesReported
<1>2. CASE SkipCheck
  <2>1. CanRun(pc, DOMAIN dossier) = FALSE
    BY <1>2 DEF SkipCheck, CanRun
  <2> QED
    BY <1>2, <2>1 DEF SkipCheck, ResultOf, CodesReported
<1> QED
  BY <1>1, <1>2 DEF Next

(* Along the chain of build_graph, the results are exactly those of the    *)
(* checks that were due before, on the dossier as it was given.            *)
THEOREM ChainHolds == Spec => []ChainInv
<1>1. Init => ChainInv
  BY DossiersAssumption
     DEF Init, ChainInv, PartialDossiers, DocumentChecks, DoneBefore
<1>2. ChainInv /\ [Next]_vars => ChainInv'
  <2> SUFFICES ASSUME ChainInv, [Next]_vars PROVE ChainInv'
    OBVIOUS
  <2>1. CASE Next
    <3>1. /\ pc \in DocumentChecks /\ pc' = NextCheck[pc] /\ dossier' = dossier
          /\ results' = results \cup {ResultOf(pc, dossier)}
      BY <2>1, NextReports
    <3>2. /\ pc' \in DocumentChecks \cup {"done"}
          /\ DoneBefore[pc'] = DoneBefore[pc] \cup {pc}
      BY <3>1, StepsFollow
    <3>3. results' = {ResultOf(check, dossier) : check \in DoneBefore[pc]}
                       \cup {ResultOf(pc, dossier)}
      BY <3>1 DEF ChainInv
    <3>4. results' = {ResultOf(check, dossier) : check \in DoneBefore[pc']}
      BY <3>2, <3>3
    <3> QED
      BY <3>1, <3>2, <3>4 DEF ChainInv
  <2>2. CASE UNCHANGED vars
    BY <2>2 DEF vars, ChainInv, ResultOf, CodesReported
  <2> QED
    BY <2>1, <2>2
<1> QED
  BY <1>1, <1>2, PTL DEF Spec

(* The chain at its end has reported all there is to report.               *)
LEMMA FoundIsAll ==
  ASSUME ChainInv, pc = "done"
  PROVE  Found = AllCodes(dossier)
<1>1. results = {ResultOf(check, dossier) : check \in DocumentChecks}
  BY DEF ChainInv, DoneBefore
<1>2. \A check \in DocumentChecks :
        ResultOf(check, dossier).codes = CodesReported(check, dossier)
  BY DEF ResultOf
<1> QED
  BY <1>1, <1>2 DEF Found, AllCodes

LEMMA VerdictOfAll ==
  ASSUME ChainInv, pc = "done"
  PROVE  Verdict = "approve" <=> AllCodes(dossier) \subseteq {"A1"}
<1>1. Found = AllCodes(dossier)
  BY FoundIsAll
<1>2. DOMAIN dossier \subseteq Documents
  BY DEF ChainInv, PartialDossiers
<1>3. AllCodes(dossier) \subseteq TaxonomyCodes
  BY <1>2, AllCodesAreCodes
<1>4. DecisionForSeverities({CodeSeverity(c) : c \in AllCodes(dossier)}) = "approve"
        <=> AllCodes(dossier) \subseteq {"A1"}
  BY <1>3, ApprovalMeans
<1> QED
  BY <1>1, <1>4 DEF Verdict

(* No false negative: what five checks of two documents at most approve,   *)
(* with whatever spellings taken for one person, is a dossier whose        *)
(* documents agree on holders, signer and owners at once.                  *)
THEOREM ApprovalIsEarned == Spec => []ApprovedIsConsistent
<1>1. ChainInv => ApprovedIsConsistent
  BY VerdictOfAll, SilenceMeansConsistent DEF ApprovedIsConsistent, ChainInv
<1> QED
  BY <1>1, ChainHolds, PTL

(* No false positive: documents that agree are approved, of any size, when *)
(* their names are told apart; the greedy matching finds all the pairs.    *)
THEOREM ConsistencyIsApproved == Spec => []ConsistentIsApproved
<1>1. ChainInv => ConsistentIsApproved
  BY VerdictOfAll, ConsistentMeansSilence DEF ConsistentIsApproved, ChainInv
<1> QED
  BY <1>1, ChainHolds, PTL

-----------------------------------------------------------------------------
(***************************************************************************)
(* The arithmetic of a transfer, in terms of who is like whom.             *)
(***************************************************************************)
OneToOne(s1, s3) ==
  /\ \A i \in DOMAIN s1 : AtMostOne(s1[i].name, s3)
  /\ \A j \in DOMAIN s3 : \A i, k \in DOMAIN s1 :
       SamePerson(s1[i].name, s3[j].name) /\ SamePerson(s1[k].name, s3[j].name) => i = k

(* People told apart are matched just when they are alike.                 *)
LEMMA MatchedIsAlike ==
  ASSUME NEW s1 \in Seq(Shares), NEW s3 \in Seq(Shares), OneToOne(s1, s3)
  PROVE  LET m == MatchShareholders(s1, s3)
         IN  /\ m \in Seq(Nat) /\ DOMAIN m = DOMAIN s1
             /\ \A i \in DOMAIN s1 : m[i] # 0 => m[i] \in DOMAIN s3
             /\ \A i \in DOMAIN s1, j \in DOMAIN s3 :
                  m[i] = j <=> SamePerson(s1[i].name, s3[j].name)
<1> DEFINE m == MatchShareholders(s1, s3)
<1>1. GoodMatch(m, s1, s3)
  BY MatchesAreGood
<1>2. DOMAIN s1 = 1..Len(s1) /\ DOMAIN m = 1..Len(s1) /\ 0 \notin DOMAIN s3
  BY <1>1 DEF GoodMatch
<1> HIDE DEF m
<1>3. ASSUME NEW i \in DOMAIN s1, NEW j \in DOMAIN s3, m[i] = j
      PROVE  SamePerson(s1[i].name, s3[j].name)
  BY <1>1, <1>2, <1>3 DEF GoodMatch
<1>4. ASSUME NEW i \in DOMAIN s1, NEW j \in DOMAIN s3, SamePerson(s1[i].name, s3[j].name)
      PROVE  m[i] = j
  <2>1. CASE m[i] # 0
    <3>1. m[i] \in DOMAIN s3 /\ SamePerson(s1[i].name, s3[m[i]].name)
      BY <1>1, <1>2, <2>1 DEF GoodMatch
    <3> QED
      BY <1>4, <3>1 DEF OneToOne, AtMostOne
  <2>2. CASE m[i] = 0
    <3>1. PICK k \in DOMAIN s1 : m[k] = j
      BY <1>1, <1>2, <1>4, <2>2 DEF GoodMatch
    <3>2. SamePerson(s1[k].name, s3[j].name)
      BY <1>3, <3>1
    <3>3. k = i
      BY <1>4, <3>2 DEF OneToOne
    <3> QED
      BY <3>1, <3>3
  <2> QED
    BY <2>1, <2>2
<1> QED
  BY <1>1, <1>2, <1>3, <1>4 DEF GoodMatch, m

(* What Max(0, x) is.                                                      *)
LEMMA GreaterOfTwo ==
  ASSUME NEW x \in Int
  PROVE  Max({0, x}) = IF x > 0 THEN x ELSE 0
BY DEF Max

(* What each holder who stays gains, and who stays, leaves and comes.      *)
Gains(s1, s3, m) ==
  [i \in DOMAIN s1 |->
     IF NaN \in {s1[i].pct, s3[m[i]].pct} THEN 0
     ELSE Max({0, s3[m[i]].pct - s1[i].pct})]

Staying(s1, m) == {i \in DOMAIN s1 : m[i] # 0}

Coming(s3, m) == DOMAIN s3 \ ToSet(m)

GainedBy(s1, s3, m) ==
  IF TotalOf(s3, Coming(s3, m)) = NaN THEN NaN
  ELSE TotalOf(s3, Coming(s3, m)) + SumOf(Gains(s1, s3, m), Staying(s1, m))

(* A gain is a number whatever the percentages are, and of two numbers it  *)
(* is their difference when that is positive.                              *)
LEMMA GainsAreNumbers ==
  ASSUME NEW s1 \in Seq(Shares), NEW s3 \in Seq(Shares), NEW m, GoodMatch(m, s1, s3)
  PROVE  \A i \in Staying(s1, m) :
           /\ Gains(s1, s3, m)[i] \in Int
           /\ s1[i].pct # NaN /\ s3[m[i]].pct # NaN =>
                /\ s1[i].pct \in Int /\ s3[m[i]].pct \in Int
                /\ Gains(s1, s3, m)[i] = IF s3[m[i]].pct - s1[i].pct > 0
                                         THEN s3[m[i]].pct - s1[i].pct ELSE 0
<1> TAKE i \in Staying(s1, m)
<1>1. i \in DOMAIN s1 /\ m[i] # 0 /\ DOMAIN s1 = 1..Len(s1)
  BY DEF Staying
<1>2. m[i] \in DOMAIN s3
  BY <1>1 DEF GoodMatch
<1>3. s1[i] \in Shares /\ s3[m[i]] \in Shares
  BY <1>1, <1>2
<1>4. s1[i].pct \in Int \cup {NaN} /\ s3[m[i]].pct \in Int \cup {NaN}
  BY <1>3 DEF Shares
<1>5. Gains(s1, s3, m)[i] = IF NaN \in {s1[i].pct, s3[m[i]].pct} THEN 0
                           ELSE Max({0, s3[m[i]].pct - s1[i].pct})
  BY <1>1 DEF Gains
<1>6. CASE s1[i].pct = NaN \/ s3[m[i]].pct = NaN
  BY <1>5, <1>6
<1>7. CASE s1[i].pct # NaN /\ s3[m[i]].pct # NaN
  <2>1. s3[m[i]].pct - s1[i].pct \in Int
    BY <1>4, <1>7
  <2> QED
    BY <1>4, <1>5, <1>7, <2>1, GreaterOfTwo
<1> QED
  BY <1>6, <1>7

(* What ReconcilesAsTransfer compares as sums over positions.              *)
LEMMA TransferIsSums ==
  ASSUME NEW s1 \in Seq(Shares), NEW s3 \in Seq(Shares)
  PROVE  LET m == MatchShareholders(s1, s3)
         IN  /\ Continuing(s1, s3) = Staying(s1, m)
             /\ ExitedTotal(s1, s3) = TotalOf(s1, DOMAIN s1 \ Staying(s1, m))
             /\ Gained(s1, s3) = GainedBy(s1, s3, m)
<1> DEFINE m == MatchShareholders(s1, s3)
           v == Gains(s1, s3, m)
           S == Staying(s1, m)
           gain(i) == LET before == s1[i].pct
                          after  == s3[m[i]].pct
                      IN  IF NaN \in {before, after} THEN 0
                          ELSE Max({0, after - before})
           Summed(g) == g = [s \in SUBSET S |->
             IF s = {} THEN 0
             ELSE LET x == CHOOSE x \in s : TRUE
                  IN  gain(x) + g[s \ {x}]]
           F == CHOOSE g : Summed(g)
<1>1. IsFiniteSet(S)
  <2>1. IsFiniteSet(DOMAIN s1) /\ S \in SUBSET DOMAIN s1
    BY PositionsAreCounted DEF Staying
  <2> QED
    BY <2>1, FS_Subset
<1>2. MapThenSumSet(gain, S) = F[S]
  BY DEF MapThenSumSet, MapThenFoldSet
<1>3. /\ Continuing(s1, s3) = S
      /\ Gained(s1, s3) = IF TotalOf(s3, Coming(s3, m)) = NaN THEN NaN
                          ELSE TotalOf(s3, Coming(s3, m)) + MapThenSumSet(gain, S)
  BY DEF Continuing, Gained, Staying, Coming
<1>4. \A s \in SUBSET S : s # {} => v[Picked(s)] = gain(Picked(s))
  <2>1. \A s \in SUBSET S : s # {} => Picked(s) \in DOMAIN s1
    BY DEF Picked, Staying
  <2> QED
    BY <2>1 DEF Gains
<1>5. \A g : Summed(g) <=> SumsOver(g, v, S)
  <2> TAKE g
  <2> HIDE DEF v, gain, S
  <2>1. \A s \in SUBSET S :
          (IF s = {} THEN 0 ELSE v[Picked(s)] + g[s \ {Picked(s)}])
          = (IF s = {} THEN 0
             ELSE LET x == CHOOSE x \in s : TRUE IN gain(x) + g[s \ {x}])
    BY <1>4 DEF Picked
  <2>2. [s \in SUBSET S |-> IF s = {} THEN 0 ELSE v[Picked(s)] + g[s \ {Picked(s)}]]
          = [s \in SUBSET S |-> IF s = {} THEN 0
               ELSE LET x == CHOOSE x \in s : TRUE IN gain(x) + g[s \ {x}]]
    BY <2>1
  <2> QED
    BY <2>2 DEF SumsOver
<1>6. SumsOver(F, v, S)
  <2>1. PICK g : SumsOver(g, v, S)
    BY <1>1, SumsExist
  <2>2. Summed(g)
    BY <1>5, <2>1
  <2> HIDE DEF Summed
  <2>3. Summed(F)
    BY <2>2
  <2> HIDE DEF F
  <2> QED
    BY <1>5, <2>3
<1> HIDE DEF F, Summed
<1>7. \A i \in S : v[i] \in Int
  BY GainsAreNumbers, MatchesAreGood
<1>8. F[S] = SumOf(v, S)
  <2>1. PICK f : SumsOver(f, v, S) /\ SumOf(v, S) = f[S]
    BY <1>1, SumIsOver
  <2> HIDE DEF v, S
  <2> QED
    BY <1>1, <1>6, <1>7, <2>1, SumsAgree
<1>9. MapThenSumSet(gain, S) = SumOf(v, S)
  BY <1>2, <1>8
<1> HIDE DEF gain
<1> QED
  BY <1>3, <1>9 DEF GainedBy, ExitedTotal

(* What each of the first list has lost, which is nothing for the leavers. *)
Lost(s1, s3) ==
  [i \in DOMAIN s1 |-> Max({0} \cup {s1[i].pct - s3[j].pct :
                          j \in {k \in DOMAIN s3 : SamePerson(s1[i].name, s3[k].name)}})]

LEMMA LostOfEach ==
  ASSUME NEW s1 \in Seq(Shares), NEW s3 \in Seq(Shares), Numeric(s1), Numeric(s3),
         OneToOne(s1, s3), NEW i \in DOMAIN s1
  PROVE  /\ \A j \in DOMAIN s3 : SamePerson(s1[i].name, s3[j].name) =>
              Lost(s1, s3)[i] = IF s1[i].pct - s3[j].pct > 0 THEN s1[i].pct - s3[j].pct ELSE 0
         /\ (\A j \in DOMAIN s3 : ~SamePerson(s1[i].name, s3[j].name)) => Lost(s1, s3)[i] = 0
         /\ Lost(s1, s3)[i] \in Nat
<1> DEFINE alike == {k \in DOMAIN s3 : SamePerson(s1[i].name, s3[k].name)}
           all   == {0} \cup {s1[i].pct - s3[j].pct : j \in alike}
<1>1. Lost(s1, s3)[i] = Max(all)
  BY DEF Lost
<1>2. s1[i].pct \in Int /\ \A j \in DOMAIN s3 : s3[j].pct \in Int
  BY SharesAreNumbers
<1>3. ASSUME NEW j \in DOMAIN s3, SamePerson(s1[i].name, s3[j].name)
      PROVE  Max(all) = IF s1[i].pct - s3[j].pct > 0 THEN s1[i].pct - s3[j].pct ELSE 0
  <2>1. alike = {j}
    BY <1>3 DEF OneToOne, AtMostOne
  <2>2. all = {0, s1[i].pct - s3[j].pct}
    BY <2>1
  <2>3. s1[i].pct - s3[j].pct \in Int
    BY <1>2
  <2> HIDE DEF all
  <2> QED
    BY <2>2, <2>3, GreaterOfTwo
<1>4. ASSUME \A j \in DOMAIN s3 : ~SamePerson(s1[i].name, s3[j].name)
      PROVE  Max(all) = 0
  <2>1. all = {0, 0}
    BY <1>4
  <2> HIDE DEF all
  <2> QED
    BY <2>1, GreaterOfTwo
<1> HIDE DEF all
<1>5. Max(all) \in Nat
  <2>1. CASE \E j \in DOMAIN s3 : SamePerson(s1[i].name, s3[j].name)
    BY <1>2, <1>3, <2>1
  <2>2. CASE \A j \in DOMAIN s3 : ~SamePerson(s1[i].name, s3[j].name)
    BY <1>4, <2>2
  <2> QED
    BY <2>1, <2>2
<1> QED
  BY <1>1, <1>3, <1>4, <1>5

LEMMA LostIsSum ==
  ASSUME NEW s1 \in Seq(Shares), NEW s3 \in Seq(Shares), Numeric(s1), Numeric(s3),
         OneToOne(s1, s3)
  PROVE  LostByStaying(s1, s3) = SumOf(Lost(s1, s3), DOMAIN s1)
<1> DEFINE S == DOMAIN s1
           v == Lost(s1, s3)
           lost(i) == Max({0} \cup {s1[i].pct - s3[j].pct :
                        j \in {k \in DOMAIN s3 : SamePerson(s1[i].name, s3[k].name)}})
           Summed(g) == g = [s \in SUBSET S |->
             IF s = {} THEN 0
             ELSE LET x == CHOOSE x \in s : TRUE
                  IN  lost(x) + g[s \ {x}]]
           F == CHOOSE g : Summed(g)
<1>1. IsFiniteSet(S)
  BY PositionsAreCounted
<1>2. LostByStaying(s1, s3) = F[S]
  BY DEF LostByStaying, MapThenSumSet, MapThenFoldSet
<1>3. \A s \in SUBSET S : s # {} => v[Picked(s)] = lost(Picked(s))
  BY DEF Picked, Lost
<1>4. \A i \in S : v[i] \in Int
  BY LostOfEach
<1>5. \A g : Summed(g) <=> SumsOver(g, v, S)
  <2> TAKE g
  <2> HIDE DEF v, lost, S
  <2>1. \A s \in SUBSET S :
          (IF s = {} THEN 0 ELSE v[Picked(s)] + g[s \ {Picked(s)}])
          = (IF s = {} THEN 0
             ELSE LET x == CHOOSE x \in s : TRUE IN lost(x) + g[s \ {x}])
    BY <1>3 DEF Picked
  <2>2. [s \in SUBSET S |-> IF s = {} THEN 0 ELSE v[Picked(s)] + g[s \ {Picked(s)}]]
          = [s \in SUBSET S |-> IF s = {} THEN 0
               ELSE LET x == CHOOSE x \in s : TRUE IN lost(x) + g[s \ {x}]]
    BY <2>1
  <2> QED
    BY <2>2 DEF SumsOver
<1>6. SumsOver(F, v, S)
  <2>1. PICK g : SumsOver(g, v, S)
    BY <1>1, SumsExist
  <2> HIDE DEF Summed, v, S
  <2>2. Summed(g)
    BY <1>5, <2>1
  <2>3. Summed(F)
    BY <2>2
  <2> HIDE DEF F
  <2> QED
    BY <1>5, <2>3
<1> HIDE DEF F, Summed
<1>7. F[S] = SumOf(v, S)
  <2>1. PICK f : SumsOver(f, v, S) /\ SumOf(v, S) = f[S]
    BY <1>1, SumIsOver
  <2> HIDE DEF v, S
  <2> QED
    BY <1>1, <1>4, <1>6, <2>1, SumsAgree
<1> QED
  BY <1>2, <1>7

(* Between lists of one total, what the leavers held falls short of what   *)
(* the others gained by what those who stay have lost.                     *)
LEMMA TransferMeans ==
  ASSUME NEW s1 \in Seq(Shares), NEW s3 \in Seq(Shares), Numeric(s1), Numeric(s3),
         OneToOne(s1, s3), Total(s1) = Total(s3), NEW newer
  PROVE  /\ ReconcilesAsTransfer(s1, s3, newer) =>
              newer /\ Overlap(s1, s3) /\ LostByStaying(s1, s3) <= Eps
         /\ newer /\ Overlap(s1, s3) /\ LostByStaying(s1, s3) < Eps =>
              ReconcilesAsTransfer(s1, s3, newer)
<1> DEFINE m == MatchShareholders(s1, s3)
           S == Staying(s1, m)
           C == Coming(s3, m)
           G == Gains(s1, s3, m)
           before == Percent(s1)
           after == [i \in DOMAIN s1 |-> s3[m[i]].pct]
           change == [i \in DOMAIN s1 |-> after[i] - before[i]]
           less == [i \in DOMAIN s1 |-> G[i] - change[i]]
           image == {m[x] : x \in S}
<1>1. /\ \A i \in S : m[i] \in DOMAIN s3
      /\ \A i \in DOMAIN s1, j \in DOMAIN s3 :
           m[i] = j <=> SamePerson(s1[i].name, s3[j].name)
      /\ DOMAIN m = DOMAIN s1 /\ 0 \notin DOMAIN s3
  BY MatchedIsAlike DEF Staying
<1>2. GoodMatch(m, s1, s3)
  BY MatchesAreGood
<1>3. S \in SUBSET DOMAIN s1 /\ C \in SUBSET DOMAIN s3
  BY DEF Staying, Coming
<1>4. /\ \A i \in DOMAIN s1 : before[i] = s1[i].pct /\ before[i] \in Int
      /\ \A j \in DOMAIN s3 : Percent(s3)[j] = s3[j].pct /\ Percent(s3)[j] \in Int
  BY SharesAreNumbers DEF Percent
<1>5. \A i \in S : after[i] = s3[m[i]].pct /\ after[i] \in Int
                   /\ change[i] = after[i] - before[i]
                   /\ less[i] = G[i] - change[i]
  BY <1>1, <1>3, <1>4
<1>6. \A i \in S : G[i] \in Int /\ G[i] = IF change[i] > 0 THEN change[i] ELSE 0
  <2> TAKE i \in S
  <2>1. i \in DOMAIN s1 /\ m[i] \in DOMAIN s3
    BY <1>1, <1>3
  <2>2. s1[i].pct # NaN /\ s3[m[i]].pct # NaN
    BY <2>1 DEF Numeric
  <2>3. change[i] = s3[m[i]].pct - s1[i].pct
    BY <1>4, <1>5, <2>1
  <2> HIDE DEF change, G, m
  <2> QED
    BY <1>2, <2>2, <2>3, GainsAreNumbers DEF G
<1>7. IsFiniteSet(DOMAIN s1) /\ IsFiniteSet(DOMAIN s3)
  BY PositionsAreCounted
<1>8. IsFiniteSet(S) /\ IsFiniteSet(C) /\ IsFiniteSet(DOMAIN s1 \ S)
  BY <1>3, <1>7, FS_Subset
<1>9. DOMAIN s3 = C \cup image /\ C \cap image = {} /\ image \in SUBSET DOMAIN s3
  <2>1. ToSet(m) = {m[i] : i \in DOMAIN m}
    BY DEF ToSet
  <2> HIDE DEF m
  <2>2. image = {x \in ToSet(m) : x # 0}
    <3>1. \A x : x \in image <=> x \in ToSet(m) /\ x # 0
      BY <1>1, <2>1, Zenon DEF Staying
    <3> QED
      BY <3>1
  <2>3. image \in SUBSET DOMAIN s3
    BY <1>1
  <2> HIDE DEF image, S
  <2> QED
    BY <1>1, <2>2, <2>3 DEF Coming
<1> HIDE DEF m, S, C, G, before, after, change, less
<1>10. SumOf(after, S) = SumOf(Percent(s3), image)
  <2>1. \A x, y \in S : m[x] = m[y] => x = y
    <3> SUFFICES ASSUME NEW x \in S, NEW y \in S, m[x] = m[y] PROVE x = y
      OBVIOUS
    <3>1. m[x] \in DOMAIN s3 /\ x \in DOMAIN s1 /\ y \in DOMAIN s1
      BY <1>1, <1>3
    <3>2. SamePerson(s1[x].name, s3[m[x]].name) /\ SamePerson(s1[y].name, s3[m[x]].name)
      BY <1>1, <3>1
    <3> QED
      BY <3>1, <3>2 DEF OneToOne
  <2>2. \A x \in S : after[x] \in Int /\ Percent(s3)[m[x]] = after[x]
    BY <1>1, <1>4, <1>5
  <2> DEFINE p == Percent(s3)
  <2>3. \A x \in S : after[x] \in Int /\ p[m[x]] = after[x]
    BY <2>2
  <2> HIDE DEF p
  <2>4. Carries(m, after, p, S)
    BY <2>1, <2>3, Zenon DEF Carries
  <2>5. IsFiniteSet(S)
    BY <1>8
  <2>6. SumOf(after, S) = SumOf(p, Placed(m, S))
    BY <2>4, <2>5, SumRenamed
  <2> QED
    BY <2>6 DEF p, image, Placed
<1>11. IsFiniteSet(image)
  BY <1>7, <1>9, FS_Subset
<1> HIDE DEF image
<1>12. SumOf(before, DOMAIN s1 \ S) + SumOf(before, S) = Total(s1)
  <2>1. SumOf(before, DOMAIN s1) = Total(s1)
    BY TotalIsNumber DEF before
  <2>2. (DOMAIN s1 \ S) \cup S = DOMAIN s1 /\ (DOMAIN s1 \ S) \cap S = {}
    BY <1>3
  <2>3. \A x \in (DOMAIN s1 \ S) \cup S : before[x] \in Int
    BY <1>4, <2>2
  <2>4. SumOf(before, (DOMAIN s1 \ S) \cup S) = SumOf(before, DOMAIN s1 \ S) + SumOf(before, S)
    BY <1>8, <2>2, <2>3, SumOfBoth
  <2> QED
    BY <2>1, <2>2, <2>4
<1>13. SumOf(Percent(s3), C) + SumOf(after, S) = Total(s1)
  <2>1. SumOf(Percent(s3), DOMAIN s3) = Total(s1)
    BY TotalIsNumber
  <2>2. \A x \in C \cup image : Percent(s3)[x] \in Int
    BY <1>4, <1>9
  <2>3. SumOf(Percent(s3), C \cup image)
          = SumOf(Percent(s3), C) + SumOf(Percent(s3), image)
    BY <1>8, <1>9, <1>11, <2>2, SumOfBoth
  <2> QED
    BY <1>9, <1>10, <2>1, <2>3
<1>14. /\ SumOf(change, S) = SumOf(after, S) - SumOf(before, S)
       /\ SumOf(less, S) = SumOf(G, S) - SumOf(change, S)
  <2>1. \A x \in S : after[x] \in Int /\ before[x] \in Int /\ change[x] = after[x] - before[x]
    BY <1>3, <1>4, <1>5
  <2>2. SumOf(change, S) = SumOf(after, S) - SumOf(before, S)
    BY <1>8, <2>1, SumOfDifferences
  <2>3. \A x \in S : G[x] \in Int /\ change[x] \in Int /\ less[x] = G[x] - change[x]
    BY <1>5, <1>6, <2>1
  <2>4. SumOf(less, S) = SumOf(G, S) - SumOf(change, S)
    BY <1>8, <2>3, SumOfDifferences
  <2> QED
    BY <2>2, <2>4
<1>15. LostByStaying(s1, s3) = SumOf(less, S) /\ SumOf(less, S) \in Nat
  <2> DEFINE lost == Lost(s1, s3)
             U    == DOMAIN s1 \ S
  <2>1. \A i \in DOMAIN s1 : lost[i] \in Nat
    BY LostOfEach
  <2>2. \A i \in S : lost[i] = less[i] /\ lost[i] \in Nat
    <3> TAKE i \in S
    <3>1. /\ i \in DOMAIN s1 /\ m[i] \in DOMAIN s3 /\ SamePerson(s1[i].name, s3[m[i]].name)
          /\ change[i] = s3[m[i]].pct - s1[i].pct /\ less[i] = G[i] - change[i]
          /\ G[i] = IF change[i] > 0 THEN change[i] ELSE 0
          /\ s1[i].pct \in Int /\ s3[m[i]].pct \in Int
      BY <1>1, <1>3, <1>4, <1>5, <1>6
    <3>2. lost[i] = IF s1[i].pct - s3[m[i]].pct > 0 THEN s1[i].pct - s3[m[i]].pct ELSE 0
      BY <3>1, LostOfEach
    <3> QED
      BY <2>1, <3>1, <3>2
  <2>3. \A i \in U : lost[i] = 0 /\ lost[i] \in Nat
    <3> TAKE i \in U
    <3>1. \A j \in DOMAIN s3 : ~SamePerson(s1[i].name, s3[j].name)
      BY <1>1 DEF S, Staying
    <3> QED
      BY <3>1, LostOfEach
  <2>4. LostByStaying(s1, s3) = SumOf(lost, DOMAIN s1)
    BY LostIsSum
  <2>5. S \cup U = DOMAIN s1 /\ S \cap U = {} /\ IsFiniteSet(U)
    BY <1>3, <1>8
  <2> HIDE DEF lost, U
  <2>6. \A x \in S \cup U : lost[x] \in Int
    BY <2>1, <2>5
  <2>7. SumOf(lost, S \cup U) = SumOf(lost, S) + SumOf(lost, U)
    BY <1>8, <2>5, <2>6, SumOfBoth
  <2>8. SumOf(lost, U) = 0
    BY <2>3, <2>5, SumOfNaturals
  <2>9. \A x \in S : lost[x] \in Int /\ less[x] = lost[x]
    BY <2>2
  <2>10. SumOf(lost, S) = SumOf(less, S)
    BY <1>8, <2>9, SumByValues
  <2>11. SumOf(lost, S) \in Nat
    BY <1>8, <2>2, SumOfNaturals
  <2> QED
    BY <2>4, <2>5, <2>7, <2>8, <2>10, <2>11
<1>16. /\ SumOf(before, DOMAIN s1 \ S) \in Int /\ SumOf(before, S) \in Int
       /\ SumOf(Percent(s3), C) \in Int /\ SumOf(after, S) \in Int /\ SumOf(G, S) \in Int
  <2>1. SumOf(before, DOMAIN s1 \ S) \in Int
    BY <1>4, <1>8, SumIsNumber
  <2>2. SumOf(before, S) \in Int
    <3>1. \A x \in S : before[x] \in Int
      BY <1>3, <1>4
    <3> QED
      BY <1>8, <3>1, SumIsNumber
  <2>3. SumOf(Percent(s3), C) \in Int
    <3>1. \A x \in C : Percent(s3)[x] \in Int
      BY <1>3, <1>4
    <3> QED
      BY <1>8, <3>1, SumIsNumber
  <2>4. SumOf(after, S) \in Int
    BY <1>5, <1>8, SumIsNumber
  <2>5. SumOf(G, S) \in Int
    BY <1>6, <1>8, SumIsNumber
  <2> QED
    BY <2>1, <2>2, <2>3, <2>4, <2>5
<1>17. TotalOf(s1, DOMAIN s1 \ S) = SumOf(before, DOMAIN s1 \ S)
  <2>1. \A i \in DOMAIN s1 \ S : s1[i].pct # NaN
    BY DEF Numeric
  <2> QED
    BY <2>1, TotalIsSum DEF before
<1>18. TotalOf(s3, C) = SumOf(Percent(s3), C)
  <2>1. \A i \in C : s3[i].pct # NaN
    BY <1>3 DEF Numeric
  <2> QED
    BY <1>3, <2>1, TotalIsSum
<1>19. GainedBy(s1, s3, m) = SumOf(Percent(s3), C) + SumOf(G, S)
  BY <1>16, <1>18, NaNAssumption DEF GainedBy, C, G, S
<1>20. ExitedTotal(s1, s3) = SumOf(before, DOMAIN s1 \ S) /\ Continuing(s1, s3) = S
       /\ Gained(s1, s3) = SumOf(Percent(s3), C) + SumOf(G, S)
  BY <1>17, <1>19, TransferIsSums DEF m, S
<1>21. S # {} <=> Overlap(s1, s3)
  BY <1>1, <1>3 DEF S, Staying, Overlap
<1>22. /\ ExitedTotal(s1, s3) \in Int /\ Gained(s1, s3) \in Int
       /\ Gained(s1, s3) - ExitedTotal(s1, s3) = LostByStaying(s1, s3)
       /\ LostByStaying(s1, s3) \in Nat
  <2>1. \A e, b, c, a, g \in Int : e + b = c + a => (c + g) - e = g - (a - b)
    OBVIOUS
  <2>2. (SumOf(Percent(s3), C) + SumOf(G, S)) - SumOf(before, DOMAIN s1 \ S)
          = SumOf(G, S) - (SumOf(after, S) - SumOf(before, S))
    BY <1>12, <1>13, <1>16, <2>1
  <2> QED
    BY <1>14, <1>15, <1>16, <1>20, <2>2
<1>23. /\ Within(ExitedTotal(s1, s3), Gained(s1, s3)) <=> LostByStaying(s1, s3) < Eps
       /\ AtBound(ExitedTotal(s1, s3), Gained(s1, s3)) => LostByStaying(s1, s3) <= Eps
  BY <1>22, NaNAssumption DEF Within, AtBound, Eps
<1>24. ReconcilesAsTransfer(s1, s3, newer) <=>
         /\ newer
         /\ Overlap(s1, s3)
         /\ \/ Within(ExitedTotal(s1, s3), Gained(s1, s3))
            \/ /\ AtBound(ExitedTotal(s1, s3), Gained(s1, s3))
               /\ <<s1, s3>> \in Rounding.transfer
  BY <1>20, <1>21 DEF ReconcilesAsTransfer
<1>25. LostByStaying(s1, s3) < Eps => LostByStaying(s1, s3) <= Eps
  BY <1>22 DEF Eps
<1> QED
  BY <1>23, <1>24, <1>25

(* In particular nothing stands in the way of a newer declaration when     *)
(* nobody who stays has lost.                                              *)
LEMMA NobodyLost ==
  ASSUME NEW s1 \in Seq(Shares), NEW s3 \in Seq(Shares), Numeric(s1), Numeric(s3),
         OneToOne(s1, s3),
         \A i \in DOMAIN s1, j \in DOMAIN s3 :
           SamePerson(s1[i].name, s3[j].name) => s3[j].pct >= s1[i].pct
  PROVE  LostByStaying(s1, s3) = 0
<1>1. \A i \in DOMAIN s1 : Lost(s1, s3)[i] = 0 /\ Lost(s1, s3)[i] \in Nat
  <2> TAKE i \in DOMAIN s1
  <2>1. CASE \A j \in DOMAIN s3 : ~SamePerson(s1[i].name, s3[j].name)
    BY <2>1, LostOfEach
  <2>2. CASE \E j \in DOMAIN s3 : SamePerson(s1[i].name, s3[j].name)
    <3>1. PICK j \in DOMAIN s3 : SamePerson(s1[i].name, s3[j].name)
      BY <2>2
    <3>2. s3[j].pct >= s1[i].pct /\ s3[j].pct \in Int /\ s1[i].pct \in Int
      BY <3>1, SharesAreNumbers
    <3>3. Lost(s1, s3)[i] = IF s1[i].pct - s3[j].pct > 0 THEN s1[i].pct - s3[j].pct ELSE 0
      BY <3>1, LostOfEach
    <3> QED
      BY <3>2, <3>3
  <2> QED
    BY <2>1, <2>2
<1>2. SumOf(Lost(s1, s3), DOMAIN s1) = 0
  BY <1>1, PositionsAreCounted, SumOfNaturals
<1> QED
  BY <1>2, LostIsSum

LEMMA TransferWithoutLoss ==
  ASSUME NEW s1 \in Seq(Shares), NEW s3 \in Seq(Shares), Numeric(s1), Numeric(s3),
         OneToOne(s1, s3), Total(s1) = Total(s3), NEW newer, Overlap(s1, s3),
         \A i \in DOMAIN s1, j \in DOMAIN s3 :
           SamePerson(s1[i].name, s3[j].name) => s3[j].pct >= s1[i].pct
  PROVE  ReconcilesAsTransfer(s1, s3, newer) <=> newer
<1>1. LostByStaying(s1, s3) < Eps
  BY NobodyLost DEF Eps
<1> QED
  BY <1>1, TransferMeans

(* The parts of a dossier that has the two lists of holders.               *)
LEMMA HoldersParts ==
  ASSUME NEW d \in PartialDossiers, {"registry", "ubo"} \subseteq DOMAIN d
  PROVE  /\ d.registry \in [date : Int, legal : STRING, tax : STRING, holders : Seq(Shares)]
         /\ d.ubo \in [date : Int, legal : STRING, tax : STRING, holders : Seq(Shares),
                       declared : Seq(Shares), declarant : STRING]
<1>1. PICK whole \in CompleteDossiers, present \in SUBSET Documents :
        d = [label \in present |-> whole[label]]
  BY DEF PartialDossiers
<1>2. d.registry = whole.registry /\ d.ubo = whole.ubo
  BY <1>1
<1> QED
  BY <1>2 DEF CompleteDossiers

(* Only the ownership check reports a transfer.                            *)
LEMMA TransferIsFromOwnership ==
  ASSUME NEW d, DOMAIN d \subseteq Documents, {"registry", "ubo"} \subseteq DOMAIN d
  PROVE  "B1a" \in AllCodes(d) <=> OwnershipCodes(d.registry, d.ubo) = {"B1a"}
<1> DEFINE own == "check_ownership_consistency"
<1>1. own \in DocumentChecks /\ CodesReported(own, d) = OwnershipCodes(d.registry, d.ubo)
  BY DEF DocumentChecks, CodesReported, CanRun, CodesOf
<1>2. ASSUME NEW check \in DocumentChecks \ {own}
      PROVE  "B1a" \notin CodesReported(check, d)
  <2>1. CodesOf(check, d) \in Outcomes(check, DOMAIN d)
    BY OutcomesAreComplete
  <2>2. "B1a" \notin CodesOf(check, d)
    <3>1. CASE check = "check_identity_consistency"
      BY <2>1, <3>1 DEF Outcomes
    <3>2. CASE check = "check_authority_chain"
      BY <2>1, <3>2 DEF Outcomes
    <3>3. CASE check = "check_ubo_derivation"
      BY <2>1, <3>3 DEF Outcomes
    <3>4. CASE check = "check_completeness"
      BY <2>1, <3>4 DEF Outcomes
    <3> QED
      BY <3>1, <3>2, <3>3, <3>4 DEF DocumentChecks
  <2> QED
    BY <2>2 DEF CodesReported
<1>3. "B1a" \in AllCodes(d) <=> "B1a" \in CodesReported(own, d)
  BY <1>1, <1>2 DEF AllCodes
<1>4. "B1a" \in OwnershipCodes(d.registry, d.ubo)
        <=> OwnershipCodes(d.registry, d.ubo) = {"B1a"}
  BY OwnershipOutcomes
<1> QED
  BY <1>1, <1>3, <1>4

(* Which lists of one total the ownership check takes for two ends of a    *)
(* transfer.                                                               *)
LEMMA OwnershipOfTransfers ==
  ASSUME NEW registry, NEW ubo, registry.holders \in Seq(Shares), ubo.holders \in Seq(Shares),
         Numeric(registry.holders), Numeric(ubo.holders),
         OneToOne(registry.holders, ubo.holders),
         Total(registry.holders) = Total(ubo.holders)
  PROVE  LET s1    == registry.holders
             s3    == ubo.holders
             newer == ubo.date > registry.date
         IN  /\ OwnershipCodes(registry, ubo) = {"B1a"} =>
                  newer /\ Overlap(s1, s3) /\ LostByStaying(s1, s3) <= Eps
             /\ /\ newer /\ Overlap(s1, s3) /\ LostByStaying(s1, s3) < Eps
                /\ AddsUp(s1, Eps - 1) /\ ~SameHolders(s1, s3, Eps)
                => OwnershipCodes(registry, ubo) = {"B1a"}
<1> DEFINE s1 == registry.holders
           s3 == ubo.holders
           newer == ubo.date > registry.date
<1>1. OwnershipCodes(registry, ubo)
        = IF Exceeds(s1) \/ Exceeds(s3) THEN {"B2b"}
          ELSE IF FallsShort(s1) \/ FallsShort(s3) THEN {"B2a"}
          ELSE IF SameStructure(s1, s3) THEN {}
          ELSE IF ReconcilesAsTransfer(s1, s3, newer) THEN {"B1a"} ELSE {"B1b"}
  BY DEF OwnershipCodes
<1>2. OwnershipCodes(registry, ubo) = {"B1a"} => ReconcilesAsTransfer(s1, s3, newer)
  BY <1>1
<1>3. ASSUME AddsUp(s1, Eps - 1), ~SameHolders(s1, s3, Eps), ReconcilesAsTransfer(s1, s3, newer)
      PROVE  OwnershipCodes(registry, ubo) = {"B1a"}
  <2>1. AddsUp(s3, Eps - 1) /\ Total(s1) \in Int /\ Total(s3) \in Int
    BY <1>3, TotalIsNumber DEF AddsUp
  <2>2. ~Exceeds(s1) /\ ~FallsShort(s1) /\ ~Exceeds(s3) /\ ~FallsShort(s3)
    BY <1>3, <2>1, SumsInBounds
  <2>3. ~SameStructure(s1, s3)
    BY <1>3, StructureMeansHolders
  <2> QED
    BY <1>1, <1>3, <2>2, <2>3
<1> HIDE DEF newer
<1>4. /\ ReconcilesAsTransfer(s1, s3, newer) =>
           newer /\ Overlap(s1, s3) /\ LostByStaying(s1, s3) <= Eps
      /\ newer /\ Overlap(s1, s3) /\ LostByStaying(s1, s3) < Eps =>
           ReconcilesAsTransfer(s1, s3, newer)
  BY TransferMeans
<1> QED
  BY <1>2, <1>3, <1>4 DEF newer

(* A difference between two lists of one total is explained as a transfer  *)
(* when the declaration is newer, somebody stays and those who stay have   *)
(* lost less than a hundredth of a point in all, and never when they have  *)
(* lost more: a partial sale of more than the tolerance never is.          *)
THEOREM TransferMeansExit == Spec => []TransferIsByExitOnly
<1>1. ChainInv => TransferIsByExitOnly
  <2> DEFINE d == dossier
             s1 == dossier.registry.holders
             s3 == dossier.ubo.holders
             newer == dossier.ubo.date > dossier.registry.date
  <2> SUFFICES ASSUME ChainInv, pc = "done", {"registry", "ubo"} \subseteq DOMAIN d,
                      IsNumeric(d), Unambiguous(d), Total(s1) = Total(s3)
               PROVE  /\ "B1a" \in Found =>
                           newer /\ Overlap(s1, s3) /\ LostByStaying(s1, s3) <= Eps
                      /\ /\ newer /\ Overlap(s1, s3) /\ LostByStaying(s1, s3) < Eps
                         /\ AddsUp(s1, Eps - 1) /\ ~SameHolders(s1, s3, Eps)
                         => "B1a" \in Found
    BY Zenon DEF TransferIsByExitOnly
  <2>1. d \in PartialDossiers /\ DOMAIN d \subseteq Documents
    BY DEF ChainInv, PartialDossiers
  <2>2. s1 \in Seq(Shares) /\ s3 \in Seq(Shares)
    BY <2>1, HoldersParts
  <2>3. Numeric(s1) /\ Numeric(s3) /\ OneToOne(s1, s3)
    BY DEF IsNumeric, Unambiguous, Numeric, OneToOne
  <2>4. "B1a" \in Found <=> OwnershipCodes(d.registry, d.ubo) = {"B1a"}
    BY <2>1, FoundIsAll, TransferIsFromOwnership
  <2> QED
    BY <2>2, <2>3, <2>4, OwnershipOfTransfers
<1> QED
  BY <1>1, ChainHolds, PTL

-----------------------------------------------------------------------------
(***************************************************************************)
(* Lists in another order.                                                 *)
(***************************************************************************)
Rearranged(s, t, h) ==
  /\ DOMAIN t = DOMAIN s
  /\ \A i \in DOMAIN s : h[i] \in DOMAIN s /\ t[h[i]] = s[i]
  /\ \A i, k \in DOMAIN s : h[i] = h[k] => i = k
  /\ \A j \in DOMAIN s : \E i \in DOMAIN s : j = h[i]

Flip(s) == [i \in DOMAIN s |-> (Len(s) - i) + 1]

(* The list the other way round is a rearrangement of the list.            *)
LEMMA ReversedIsRearranged ==
  ASSUME NEW X, NEW s \in Seq(X)
  PROVE  Reverse(s) \in Seq(X) /\ Rearranged(s, Reverse(s), Flip(s))
<1>1. DOMAIN s = 1..Len(s) /\ Len(s) \in Nat
  OBVIOUS
<1>2. Reverse(s) = [i \in 1..Len(s) |-> s[(Len(s) - i) + 1]]
  BY DEF Reverse
<1>3. \A i \in 1..Len(s) : (Len(s) - i) + 1 \in 1..Len(s)
  BY <1>1
<1>4. Reverse(s) \in Seq(X) /\ DOMAIN Reverse(s) = DOMAIN s
  BY <1>1, <1>2, <1>3
<1>5. \A i \in DOMAIN s : /\ Flip(s)[i] = (Len(s) - i) + 1
                          /\ Flip(s)[i] \in DOMAIN s
                          /\ (Len(s) - Flip(s)[i]) + 1 = i
  BY <1>1 DEF Flip
<1>6. \A i \in DOMAIN s : Reverse(s)[Flip(s)[i]] = s[i]
  BY <1>1, <1>2, <1>5
<1>7. \A i, k \in DOMAIN s : Flip(s)[i] = Flip(s)[k] => i = k
  BY <1>1, <1>5
<1>8. \A j \in DOMAIN s : \E i \in DOMAIN s : j = Flip(s)[i]
  <2> TAKE j \in DOMAIN s
  <2>1. Flip(s)[j] \in DOMAIN s /\ Flip(s)[Flip(s)[j]] = j
    BY <1>1, <1>5
  <2> QED
    BY <2>1
<1> QED
  BY <1>4, <1>5, <1>6, <1>7, <1>8 DEF Rearranged

(* Where a set of positions goes.                                          *)
LEMMA PlacedNone == \A h, E : Placed(h, E) = {} <=> E = {}
BY DEF Placed

LEMMA PlacedWithin ==
  ASSUME NEW s, NEW t, NEW h, Rearranged(s, t, h), NEW E \in SUBSET DOMAIN s
  PROVE  Placed(h, E) \in SUBSET DOMAIN t
<1>1. DOMAIN t = DOMAIN s
  BY DEF Rearranged
<1>2. \A i \in DOMAIN s : h[i] \in DOMAIN s
  BY DEF Rearranged
<1> QED
  BY <1>1, <1>2 DEF Placed

LEMMA PlacedAll ==
  ASSUME NEW s, NEW t, NEW h, Rearranged(s, t, h)
  PROVE  Placed(h, DOMAIN s) = DOMAIN t
<1>1. DOMAIN t = DOMAIN s
  BY DEF Rearranged
<1>2. \A i \in DOMAIN s : h[i] \in DOMAIN s /\ t[h[i]] = s[i]
  BY DEF Rearranged
<1>3. \A j \in DOMAIN s : \E i \in DOMAIN s : j = h[i]
  BY DEF Rearranged
<1>4. ASSUME NEW j \in DOMAIN s PROVE j \in {h[x] : x \in DOMAIN s}
  BY <1>3
<1>5. ASSUME NEW j \in {h[x] : x \in DOMAIN s} PROVE j \in DOMAIN s
  BY <1>2
<1> QED
  BY <1>1, <1>4, <1>5 DEF Placed

(* A total does not depend on the order.                                   *)
LEMMA TotalRearranged ==
  ASSUME NEW s \in Seq(Shares), NEW t \in Seq(Shares), NEW h, Rearranged(s, t, h),
         NEW E \in SUBSET DOMAIN s
  PROVE  TotalOf(t, Placed(h, E)) = TotalOf(s, E)
<1> DEFINE U == Placed(h, E)
           v == Percent(s)
           w == Percent(t)
<1>1. U \in SUBSET DOMAIN t
  BY PlacedWithin, Zenon
<1>2. \A i \in E : h[i] \in DOMAIN t /\ t[h[i]] = s[i]
  BY Zenon DEF Rearranged
<1>3. (\E j \in U : t[j].pct = NaN) <=> \E i \in E : s[i].pct = NaN
  <2>1. ASSUME NEW j \in U, t[j].pct = NaN PROVE \E i \in E : s[i].pct = NaN
    <3>1. PICK i \in E : j = h[i]
      BY Zenon DEF Placed
    <3> QED
      BY <1>2, <2>1, <3>1, Zenon
  <2>2. ASSUME NEW i \in E, s[i].pct = NaN PROVE \E j \in U : t[j].pct = NaN
    <3>1. h[i] \in U
      BY Zenon DEF Placed
    <3> QED
      BY <1>2, <2>2, <3>1, Zenon
  <2> QED
    BY <2>1, <2>2
<1>4. CASE \E i \in E : s[i].pct = NaN
  BY <1>1, <1>3, <1>4, TotalIsSum
<1>5. CASE ~\E i \in E : s[i].pct = NaN
  <2>1. IsFiniteSet(E)
    <3>1. IsFiniteSet(DOMAIN s)
      BY PositionsAreCounted
    <3> QED
      BY <3>1, FS_Subset
  <2>2. \A x \in E : v[x] \in Int /\ w[h[x]] = v[x]
    <3> TAKE x \in E
    <3>1. s[x] \in Shares /\ h[x] \in DOMAIN t /\ t[h[x]] = s[x]
      BY <1>2
    <3>2. v[x] = s[x].pct /\ w[h[x]] = t[h[x]].pct
      BY <3>1 DEF Percent
    <3> QED
      BY <1>5, <3>1, <3>2 DEF Shares
  <2> HIDE DEF v, w
  <2>3. Carries(h, v, w, E)
    BY <2>2, Zenon DEF Carries, Rearranged
  <2>4. SumOf(v, E) = SumOf(w, U)
    BY <2>1, <2>3, SumRenamed
  <2> HIDE DEF U
  <2>5. TotalOf(t, U) = SumOf(w, U)
    BY <1>1, <1>3, <1>5, TotalIsSum DEF w
  <2>6. TotalOf(s, E) = SumOf(v, E)
    BY <1>5, TotalIsSum DEF v
  <2> QED
    BY <2>4, <2>5, <2>6 DEF U
<1> QED
  BY <1>4, <1>5

(* So the two lists of holders add up, or do not, in any order.            *)
LEMMA TotalInAnyOrder ==
  ASSUME NEW s \in Seq(Shares), NEW t \in Seq(Shares), NEW h, Rearranged(s, t, h)
  PROVE  Total(t) = Total(s)
<1>1. TotalOf(t, Placed(h, DOMAIN s)) = TotalOf(s, DOMAIN s)
  BY TotalRearranged
<1>2. Placed(h, DOMAIN s) = DOMAIN t
  BY PlacedAll, Zenon
<1> QED
  BY <1>1, <1>2 DEF Total

(* Off its bound, a sum is judged alike in any order.                      *)
LEMMA BoundsRearranged ==
  ASSUME NEW s, NEW t, Total(t) = Total(s), ~AtBound(Total(s), Whole)
  PROVE  (Exceeds(t) <=> Exceeds(s)) /\ (FallsShort(t) <=> FallsShort(s))
<1>1. Total(s) # Whole + Eps /\ Total(s) # Whole - Eps
  BY NaNAssumption DEF AtBound, Whole, Eps
<1> QED
  BY <1>1 DEF Exceeds, FallsShort

(* The same people are matched, and the same stay and come.                *)
LEMMA OneToOneRearranged ==
  ASSUME NEW s1, NEW t1, NEW h1, Rearranged(s1, t1, h1),
         NEW s3, NEW t3, NEW h3, Rearranged(s3, t3, h3), OneToOne(s1, s3)
  PROVE  OneToOne(t1, t3)
<1>1. /\ DOMAIN t1 = DOMAIN s1 /\ DOMAIN t3 = DOMAIN s3
      /\ \A i \in DOMAIN s1 : h1[i] \in DOMAIN t1 /\ t1[h1[i]] = s1[i]
      /\ \A j \in DOMAIN s3 : h3[j] \in DOMAIN t3 /\ t3[h3[j]] = s3[j]
      /\ \A x \in DOMAIN t1 : \E i \in DOMAIN s1 : x = h1[i]
      /\ \A y \in DOMAIN t3 : \E j \in DOMAIN s3 : y = h3[j]
  BY DEF Rearranged
<1>2. ASSUME NEW i \in DOMAIN t1, NEW x \in DOMAIN t3, NEW y \in DOMAIN t3,
             SamePerson(t1[i].name, t3[x].name), SamePerson(t1[i].name, t3[y].name)
      PROVE  x = y
  <2>1. PICK p \in DOMAIN s1 : i = h1[p]
    BY <1>1
  <2>2. PICK q \in DOMAIN s3 : x = h3[q]
    BY <1>1
  <2>3. PICK r \in DOMAIN s3 : y = h3[r]
    BY <1>1
  <2>4. t1[i] = s1[p] /\ t3[x] = s3[q] /\ t3[y] = s3[r]
    BY <1>1, <2>1, <2>2, <2>3
  <2>5. SamePerson(s1[p].name, s3[q].name) /\ SamePerson(s1[p].name, s3[r].name)
    BY <1>2, <2>4
  <2>6. q = r
    BY <2>5 DEF OneToOne, AtMostOne
  <2> QED
    BY <2>2, <2>3, <2>6
<1>3. ASSUME NEW j \in DOMAIN t3, NEW x \in DOMAIN t1, NEW y \in DOMAIN t1,
             SamePerson(t1[x].name, t3[j].name), SamePerson(t1[y].name, t3[j].name)
      PROVE  x = y
  <2>1. PICK p \in DOMAIN s3 : j = h3[p]
    BY <1>1
  <2>2. PICK q \in DOMAIN s1 : x = h1[q]
    BY <1>1
  <2>3. PICK r \in DOMAIN s1 : y = h1[r]
    BY <1>1
  <2>4. t3[j] = s3[p] /\ t1[x] = s1[q] /\ t1[y] = s1[r]
    BY <1>1, <2>1, <2>2, <2>3
  <2>5. SamePerson(s1[q].name, s3[p].name) /\ SamePerson(s1[r].name, s3[p].name)
    BY <1>3, <2>4
  <2>6. q = r
    BY <2>5 DEF OneToOne
  <2> QED
    BY <2>2, <2>3, <2>6
<1> QED
  BY <1>2, <1>3 DEF OneToOne, AtMostOne

MatchesTheAlike(m, s1, s3) ==
  /\ DOMAIN m = DOMAIN s1 /\ 0 \notin DOMAIN s3
  /\ \A i \in DOMAIN s1 : m[i] # 0 => m[i] \in DOMAIN s3
  /\ \A i \in DOMAIN s1, j \in DOMAIN s3 : m[i] = j <=> SamePerson(s1[i].name, s3[j].name)

SameMatches(s1, t1, h1, s3, t3, h3, m, n) ==
  /\ \A i \in DOMAIN s1 : m[i] = 0 <=> n[h1[i]] = 0
  /\ \A i \in DOMAIN s1 : m[i] # 0 => m[i] \in DOMAIN s3 /\ n[h1[i]] = h3[m[i]]
  /\ Staying(t1, n) = Placed(h1, Staying(s1, m))
  /\ DOMAIN t1 \ Staying(t1, n) = Placed(h1, DOMAIN s1 \ Staying(s1, m))
  /\ Coming(t3, n) = Placed(h3, Coming(s3, m))

(* Whoever is matched with everyone alike finds the same people under      *)
(* their new positions.                                                    *)
LEMMA MatchesRenamed ==
  ASSUME NEW s1, NEW t1, NEW h1, Rearranged(s1, t1, h1),
         NEW s3, NEW t3, NEW h3, Rearranged(s3, t3, h3),
         NEW m, MatchesTheAlike(m, s1, s3), NEW n, MatchesTheAlike(n, t1, t3)
  PROVE  SameMatches(s1, t1, h1, s3, t3, h3, m, n)
<1>1. /\ \A i \in DOMAIN s1 : h1[i] \in DOMAIN t1 /\ t1[h1[i]] = s1[i]
      /\ \A j \in DOMAIN s3 : h3[j] \in DOMAIN t3 /\ t3[h3[j]] = s3[j]
      /\ \A x \in DOMAIN t1 : \E i \in DOMAIN s1 : x = h1[i]
      /\ \A y \in DOMAIN t3 : \E j \in DOMAIN s3 : y = h3[j]
      /\ \A i, k \in DOMAIN s1 : h1[i] = h1[k] => i = k
      /\ \A j, k \in DOMAIN s3 : h3[j] = h3[k] => j = k
  BY DEF Rearranged
<1>2. /\ DOMAIN m = DOMAIN s1 /\ 0 \notin DOMAIN s3
      /\ \A i \in DOMAIN s1 : m[i] # 0 => m[i] \in DOMAIN s3
      /\ \A i \in DOMAIN s1, j \in DOMAIN s3 : m[i] = j <=> SamePerson(s1[i].name, s3[j].name)
  BY DEF MatchesTheAlike
<1>3. /\ DOMAIN n = DOMAIN t1 /\ 0 \notin DOMAIN t3
      /\ \A i \in DOMAIN t1 : n[i] # 0 => n[i] \in DOMAIN t3
      /\ \A i \in DOMAIN t1, j \in DOMAIN t3 : n[i] = j <=> SamePerson(t1[i].name, t3[j].name)
  BY DEF MatchesTheAlike
<1>4. \A i \in DOMAIN s1, j \in DOMAIN s3 : m[i] = j <=> n[h1[i]] = h3[j]
  BY <1>1, <1>2, <1>3
<1>5. \A i \in DOMAIN s1 : m[i] # 0 => m[i] \in DOMAIN s3 /\ n[h1[i]] = h3[m[i]]
  BY <1>2, <1>4
<1>6. \A i \in DOMAIN s1 : m[i] = 0 <=> n[h1[i]] = 0
  <2> TAKE i \in DOMAIN s1
  <2>1. m[i] # 0 => n[h1[i]] # 0
    BY <1>1, <1>3, <1>5
  <2>2. ASSUME n[h1[i]] # 0 PROVE m[i] # 0
    <3>1. PICK j \in DOMAIN s3 : n[h1[i]] = h3[j]
      BY <1>1, <1>3, <2>2
    <3>2. m[i] = j
      BY <1>4, <3>1
    <3> QED
      BY <1>2, <3>2
  <2> QED
    BY <2>1, <2>2
<1>7. Staying(t1, n) = Placed(h1, Staying(s1, m))
  <2>1. ASSUME NEW y \in Staying(t1, n) PROVE y \in Placed(h1, Staying(s1, m))
    BY <1>1, <1>6 DEF Staying, Placed
  <2>2. ASSUME NEW y \in Placed(h1, Staying(s1, m)) PROVE y \in Staying(t1, n)
    BY <1>1, <1>6 DEF Staying, Placed
  <2> QED
    BY <2>1, <2>2
<1>8. DOMAIN t1 \ Staying(t1, n) = Placed(h1, DOMAIN s1 \ Staying(s1, m))
  <2>1. ASSUME NEW y \in DOMAIN t1 \ Staying(t1, n)
        PROVE  y \in Placed(h1, DOMAIN s1 \ Staying(s1, m))
    BY <1>1, <1>6 DEF Staying, Placed
  <2>2. ASSUME NEW y \in Placed(h1, DOMAIN s1 \ Staying(s1, m))
        PROVE  y \in DOMAIN t1 \ Staying(t1, n)
    BY <1>1, <1>6 DEF Staying, Placed
  <2> QED
    BY <2>1, <2>2
<1>9. Coming(t3, n) = Placed(h3, Coming(s3, m))
  <2>1. \A j \in DOMAIN s3 : j \in ToSet(m) <=> h3[j] \in ToSet(n)
    <3>1. \A j \in DOMAIN s3 : j \in ToSet(m) <=> \E i \in DOMAIN s1 : m[i] = j
      BY <1>2 DEF ToSet
    <3>2. \A j \in DOMAIN s3 : h3[j] \in ToSet(n) <=> \E x \in DOMAIN t1 : n[x] = h3[j]
      BY <1>3 DEF ToSet
    <3> QED
      BY <1>1, <1>4, <3>1, <3>2
  <2>2. ASSUME NEW y \in Coming(t3, n) PROVE y \in Placed(h3, Coming(s3, m))
    BY <1>1, <2>1 DEF Coming, Placed
  <2>3. ASSUME NEW y \in Placed(h3, Coming(s3, m)) PROVE y \in Coming(t3, n)
    BY <1>1, <2>1 DEF Coming, Placed
  <2> QED
    BY <2>2, <2>3
<1> QED
  BY <1>5, <1>6, <1>7, <1>8, <1>9 DEF SameMatches

(* The greedy matching does so, when names are told apart.                 *)
LEMMA MatchRearranged ==
  ASSUME NEW s1 \in Seq(Shares), NEW t1 \in Seq(Shares), NEW h1, Rearranged(s1, t1, h1),
         NEW s3 \in Seq(Shares), NEW t3 \in Seq(Shares), NEW h3, Rearranged(s3, t3, h3),
         OneToOne(s1, s3)
  PROVE  SameMatches(s1, t1, h1, s3, t3, h3,
                     MatchShareholders(s1, s3), MatchShareholders(t1, t3))
<1>1. OneToOne(t1, t3)
  BY OneToOneRearranged
<1>2. 0 \notin DOMAIN s3 /\ 0 \notin DOMAIN t3
  OBVIOUS
<1>3. MatchesTheAlike(MatchShareholders(s1, s3), s1, s3)
  BY <1>2, MatchedIsAlike DEF MatchesTheAlike
<1>4. MatchesTheAlike(MatchShareholders(t1, t3), t1, t3)
  BY <1>1, <1>2, MatchedIsAlike DEF MatchesTheAlike
<1> QED
  BY <1>3, <1>4, MatchesRenamed

(* So what the others gained is the same, the two lists are the same       *)
(* structure or not, and the difference is a transfer or not.              *)
LEMMA GainedRearranged ==
  ASSUME NEW s1 \in Seq(Shares), NEW t1 \in Seq(Shares), NEW h1, Rearranged(s1, t1, h1),
         NEW s3 \in Seq(Shares), NEW t3 \in Seq(Shares), NEW h3, Rearranged(s3, t3, h3),
         OneToOne(s1, s3)
  PROVE  GainedBy(t1, t3, MatchShareholders(t1, t3)) = GainedBy(s1, s3, MatchShareholders(s1, s3))
<1> DEFINE m == MatchShareholders(s1, s3)
           n == MatchShareholders(t1, t3)
           S == Staying(s1, m)
           v == Gains(s1, s3, m)
           w == Gains(t1, t3, n)
<1>0. SameMatches(s1, t1, h1, s3, t3, h3, m, n)
  BY MatchRearranged
<1>1. /\ \A i \in DOMAIN s1 : m[i] # 0 => m[i] \in DOMAIN s3 /\ n[h1[i]] = h3[m[i]]
      /\ Staying(t1, n) = Placed(h1, S)
      /\ Coming(t3, n) = Placed(h3, Coming(s3, m))
  BY <1>0, Zenon DEF SameMatches
<1>2. GoodMatch(m, s1, s3)
  BY MatchesAreGood
<1> HIDE DEF m, n
<1>3. TotalOf(t3, Coming(t3, n)) = TotalOf(s3, Coming(s3, m))
  <2>1. Coming(s3, m) \in SUBSET DOMAIN s3
    BY DEF Coming
  <2> QED
    BY <1>1, <2>1, TotalRearranged
<1>4. SumOf(v, S) = SumOf(w, Placed(h1, S))
  <2>1. IsFiniteSet(S)
    <3>1. IsFiniteSet(DOMAIN s1) /\ S \in SUBSET DOMAIN s1
      BY PositionsAreCounted DEF Staying
    <3> QED
      BY <3>1, FS_Subset
  <2>2. \A x, y \in S : h1[x] = h1[y] => x = y
    BY DEF Staying, Rearranged
  <2>3. \A x \in S : v[x] \in Int
    BY <1>2, GainsAreNumbers
  <2>4. \A x \in S : w[h1[x]] = v[x]
    <3> TAKE x \in S
    <3>1. x \in DOMAIN s1 /\ m[x] \in DOMAIN s3 /\ n[h1[x]] = h3[m[x]]
      BY <1>1 DEF Staying
    <3>2. h1[x] \in DOMAIN t1 /\ t1[h1[x]] = s1[x] /\ t3[n[h1[x]]] = s3[m[x]]
      BY <3>1 DEF Rearranged
    <3> QED
      BY <3>1, <3>2 DEF Gains
  <2> HIDE DEF v, w, S
  <2>5. Carries(h1, v, w, S)
    BY <2>2, <2>3, <2>4, Zenon DEF Carries
  <2> QED
    BY <2>1, <2>5, SumRenamed
<1> QED
  BY <1>1, <1>3, <1>4 DEF GainedBy, m, n

LEMMA TransferRearranged ==
  ASSUME NEW s1 \in Seq(Shares), NEW t1 \in Seq(Shares), NEW h1, Rearranged(s1, t1, h1),
         NEW s3 \in Seq(Shares), NEW t3 \in Seq(Shares), NEW h3, Rearranged(s3, t3, h3),
         OneToOne(s1, s3), ~AtBound(ExitedTotal(s1, s3), Gained(s1, s3)), NEW newer
  PROVE  ReconcilesAsTransfer(t1, t3, newer) <=> ReconcilesAsTransfer(s1, s3, newer)
<1> DEFINE m == MatchShareholders(s1, s3)
           n == MatchShareholders(t1, t3)
<1>0. SameMatches(s1, t1, h1, s3, t3, h3, m, n)
  BY MatchRearranged
<1>1. /\ Staying(t1, n) = Placed(h1, Staying(s1, m))
      /\ DOMAIN t1 \ Staying(t1, n) = Placed(h1, DOMAIN s1 \ Staying(s1, m))
  BY <1>0, Zenon DEF SameMatches
<1>2. GainedBy(t1, t3, n) = GainedBy(s1, s3, m)
  BY GainedRearranged
<1>3. /\ Continuing(s1, s3) = Staying(s1, m)
      /\ ExitedTotal(s1, s3) = TotalOf(s1, DOMAIN s1 \ Staying(s1, m))
      /\ Gained(s1, s3) = GainedBy(s1, s3, m)
  BY TransferIsSums
<1>4. /\ Continuing(t1, t3) = Staying(t1, n)
      /\ ExitedTotal(t1, t3) = TotalOf(t1, DOMAIN t1 \ Staying(t1, n))
      /\ Gained(t1, t3) = GainedBy(t1, t3, n)
  BY TransferIsSums
<1> HIDE DEF m, n
<1>5. TotalOf(t1, DOMAIN t1 \ Staying(t1, n)) = TotalOf(s1, DOMAIN s1 \ Staying(s1, m))
  <2>1. DOMAIN s1 \ Staying(s1, m) \in SUBSET DOMAIN s1
    OBVIOUS
  <2>2. TotalOf(t1, Placed(h1, DOMAIN s1 \ Staying(s1, m)))
          = TotalOf(s1, DOMAIN s1 \ Staying(s1, m))
    BY <2>1, TotalRearranged
  <2> QED
    BY <1>1, <2>2
<1>6. Staying(t1, n) # {} <=> Staying(s1, m) # {}
  BY <1>1, PlacedNone, Zenon
<1>7. /\ Continuing(t1, t3) # {} <=> Continuing(s1, s3) # {}
      /\ ExitedTotal(t1, t3) = ExitedTotal(s1, s3) /\ Gained(t1, t3) = Gained(s1, s3)
  BY <1>2, <1>3, <1>4, <1>5, <1>6
<1> QED
  BY <1>7 DEF ReconcilesAsTransfer

LEMMA StructureRearranged ==
  ASSUME NEW s1 \in Seq(Shares), NEW t1 \in Seq(Shares), NEW h1, Rearranged(s1, t1, h1),
         NEW s3 \in Seq(Shares), NEW t3 \in Seq(Shares), NEW h3, Rearranged(s3, t3, h3),
         OneToOne(s1, s3)
  PROVE  SameStructure(t1, t3) <=> SameStructure(s1, s3)
<1> DEFINE m == MatchShareholders(s1, s3)
           n == MatchShareholders(t1, t3)
           alike(s, t, p, i) == p[i] # 0 /\ Near(s[i].pct, t[p[i]].pct)
<1>0. SameMatches(s1, t1, h1, s3, t3, h3, m, n)
  BY MatchRearranged
<1>1. /\ \A i \in DOMAIN s1 : m[i] = 0 <=> n[h1[i]] = 0
      /\ \A i \in DOMAIN s1 : m[i] # 0 => m[i] \in DOMAIN s3 /\ n[h1[i]] = h3[m[i]]
      /\ Coming(t3, n) = Placed(h3, Coming(s3, m))
  BY <1>0, Zenon DEF SameMatches
<1>2. /\ SameStructure(s1, s3) <=>
           DOMAIN s3 \subseteq ToSet(m) /\ \A i \in DOMAIN s1 : alike(s1, s3, m, i)
      /\ SameStructure(t1, t3) <=>
           DOMAIN t3 \subseteq ToSet(n) /\ \A i \in DOMAIN t1 : alike(t1, t3, n, i)
  BY DEF SameStructure
<1> HIDE DEF m, n
<1>3. DOMAIN s3 \subseteq ToSet(m) <=> DOMAIN t3 \subseteq ToSet(n)
  <2>1. Coming(s3, m) = {} <=> Coming(t3, n) = {}
    BY <1>1, PlacedNone, Zenon
  <2>2. /\ DOMAIN s3 \subseteq ToSet(m) <=> Coming(s3, m) = {}
        /\ DOMAIN t3 \subseteq ToSet(n) <=> Coming(t3, n) = {}
    BY DEF Coming
  <2> QED
    BY <2>1, <2>2
<1>4. \A i \in DOMAIN s1 : alike(s1, s3, m, i) <=> alike(t1, t3, n, h1[i])
  <2> TAKE i \in DOMAIN s1
  <2>1. CASE m[i] = 0
    BY <1>1, <2>1
  <2>2. CASE m[i] # 0
    <3>1. m[i] \in DOMAIN s3 /\ n[h1[i]] # 0 /\ n[h1[i]] = h3[m[i]]
      BY <1>1, <2>2
    <3>2. t1[h1[i]] = s1[i] /\ t3[n[h1[i]]] = s3[m[i]]
      BY <3>1 DEF Rearranged
    <3> QED
      BY <2>2, <3>1, <3>2
  <2> QED
    BY <2>1, <2>2
<1> HIDE DEF alike
<1>5. (\A i \in DOMAIN s1 : alike(s1, s3, m, i)) <=> \A i \in DOMAIN t1 : alike(t1, t3, n, i)
  <2>1. Placed(h1, DOMAIN s1) = DOMAIN t1
    BY PlacedAll, Zenon
  <2>2. ASSUME NEW j \in DOMAIN t1, \A i \in DOMAIN s1 : alike(s1, s3, m, i)
        PROVE  alike(t1, t3, n, j)
    <3>1. PICK i \in DOMAIN s1 : j = h1[i]
      BY <2>1, Zenon DEF Placed
    <3> QED
      BY <1>4, <2>2, <3>1, Zenon
  <2>3. ASSUME NEW i \in DOMAIN s1, \A j \in DOMAIN t1 : alike(t1, t3, n, j)
        PROVE  alike(s1, s3, m, i)
    <3>1. h1[i] \in DOMAIN t1
      BY Zenon DEF Rearranged
    <3> QED
      BY <1>4, <2>3, <3>1, Zenon
  <2> QED
    BY <2>2, <2>3
<1> QED
  BY <1>2, <1>3, <1>5

(* A document with its list the other way round.                           *)
HoldersReversed(x, y) ==
  /\ x.holders \in Seq(Shares) /\ y.holders = Reverse(x.holders)
  /\ y.date = x.date

SignatoriesReversed(x, y) ==
  /\ x.signatories \in Seq(Signatories) /\ y.signatories = Reverse(x.signatories)
  /\ y.date = x.date

SameDeclarant(x, y) == y.declarant = x.declarant /\ y.date = x.date

(* Each check on the dossier with its lists the other way round.           *)
LEMMA OwnershipReversed ==
  ASSUME NEW registry, NEW ubo, NEW registry2, NEW ubo2,
         HoldersReversed(registry, registry2), HoldersReversed(ubo, ubo2),
         OneToOne(registry.holders, ubo.holders),
         ~AtBound(Total(registry.holders), Whole), ~AtBound(Total(ubo.holders), Whole),
         ~AtBound(ExitedTotal(registry.holders, ubo.holders),
                  Gained(registry.holders, ubo.holders))
  PROVE  OwnershipCodes(registry2, ubo2) = OwnershipCodes(registry, ubo)
<1> DEFINE s1 == registry.holders
           t1 == registry2.holders
           s3 == ubo.holders
           t3 == ubo2.holders
           newer == ubo.date > registry.date
<1>1. /\ s1 \in Seq(Shares) /\ t1 \in Seq(Shares) /\ Rearranged(s1, t1, Flip(s1))
      /\ s3 \in Seq(Shares) /\ t3 \in Seq(Shares) /\ Rearranged(s3, t3, Flip(s3))
      /\ OneToOne(s1, s3)
  BY ReversedIsRearranged DEF HoldersReversed
<1>2. /\ OwnershipCodes(registry, ubo)
           = IF Exceeds(s1) \/ Exceeds(s3) THEN {"B2b"}
             ELSE IF FallsShort(s1) \/ FallsShort(s3) THEN {"B2a"}
             ELSE IF SameStructure(s1, s3) THEN {}
             ELSE IF ReconcilesAsTransfer(s1, s3, newer) THEN {"B1a"} ELSE {"B1b"}
      /\ OwnershipCodes(registry2, ubo2)
           = IF Exceeds(t1) \/ Exceeds(t3) THEN {"B2b"}
             ELSE IF FallsShort(t1) \/ FallsShort(t3) THEN {"B2a"}
             ELSE IF SameStructure(t1, t3) THEN {}
             ELSE IF ReconcilesAsTransfer(t1, t3, newer) THEN {"B1a"} ELSE {"B1b"}
  BY DEF OwnershipCodes, HoldersReversed
<1>0. /\ ~AtBound(Total(s1), Whole) /\ ~AtBound(Total(s3), Whole)
      /\ ~AtBound(ExitedTotal(s1, s3), Gained(s1, s3))
  OBVIOUS
<1> HIDE DEF s1, t1, s3, t3, newer
<1>3. /\ Exceeds(t1) <=> Exceeds(s1)
      /\ FallsShort(t1) <=> FallsShort(s1)
      /\ Exceeds(t3) <=> Exceeds(s3)
      /\ FallsShort(t3) <=> FallsShort(s3)
  <2>1. Total(t1) = Total(s1) /\ Total(t3) = Total(s3)
    BY <1>1, TotalInAnyOrder
  <2> QED
    BY <1>0, <2>1, BoundsRearranged
<1>4. SameStructure(t1, t3) <=> SameStructure(s1, s3)
  BY <1>1, StructureRearranged
<1>5. ReconcilesAsTransfer(t1, t3, newer) <=> ReconcilesAsTransfer(s1, s3, newer)
  BY <1>0, <1>1, TransferRearranged
<1> QED
  BY <1>2, <1>3, <1>4, <1>5

LEMMA AuthorityReversed ==
  ASSUME NEW circular, NEW circular2, NEW ubo, NEW ubo2,
         SignatoriesReversed(circular, circular2), SameDeclarant(ubo, ubo2),
         AtMostOne(ubo.declarant, circular.signatories)
  PROVE  AuthorityCodes(circular2, ubo2) = AuthorityCodes(circular, ubo)
<1> DEFINE s == circular.signatories
           t == circular2.signatories
           h == Flip(s)
           listed(list) == {i \in DOMAIN list : SamePerson(ubo.declarant, list[i].name)}
           expires(list) == \E day \in list[Min(listed(list))].until : day < ubo.date
<1>1. DOMAIN s \subseteq Nat /\ Rearranged(s, t, h)
  BY ReversedIsRearranged DEF SignatoriesReversed
<1>2. /\ AuthorityCodes(circular, ubo)
           = IF listed(s) # {} THEN IF expires(s) THEN {"C2"} ELSE {}
             ELSE IF ubo.date - circular.date > StalenessDays THEN {"C1a"} ELSE {"C1b"}
      /\ AuthorityCodes(circular2, ubo2)
           = IF listed(t) # {} THEN IF expires(t) THEN {"C2"} ELSE {}
             ELSE IF ubo.date - circular.date > StalenessDays THEN {"C1a"} ELSE {"C1b"}
  BY DEF AuthorityCodes, SignatoriesReversed, SameDeclarant
<1> HIDE DEF s, t, h
<1>3. DOMAIN t = DOMAIN s
  BY <1>1, Zenon DEF Rearranged
<1>4. \A i \in DOMAIN s : h[i] \in DOMAIN s /\ t[h[i]] = s[i]
  BY <1>1, Zenon DEF Rearranged
<1>5. \A j \in DOMAIN t : \E i \in DOMAIN s : j = h[i]
  BY <1>1, <1>3, Zenon DEF Rearranged
<1>6. \A i \in DOMAIN s : i \in listed(s) <=> h[i] \in listed(t)
  BY <1>3, <1>4
<1>7. CASE listed(s) = {}
  <2>1. listed(t) = {}
    BY <1>5, <1>6, <1>7
  <2> QED
    BY <1>2, <1>7, <2>1
<1>8. CASE listed(s) # {}
  <2>1. PICK i \in listed(s) : TRUE
    BY <1>8
  <2>2. \A k \in listed(s) : k = i
    BY <2>1 DEF AtMostOne, s
  <2>3. h[i] \in listed(t) /\ \A k \in listed(t) : k = h[i]
    BY <1>5, <1>6, <2>1, <2>2
  <2>4. listed(s) \subseteq Nat /\ listed(t) \subseteq Nat
    BY <1>1, <1>3
  <2> HIDE DEF listed
  <2>5. Min(listed(s)) = i
    <3>1. Min(listed(s)) \in listed(s)
      BY <1>8, <2>4, LeastExists
    <3> QED
      BY <2>2, <3>1
  <2>6. Min(listed(t)) = h[i] /\ listed(t) # {}
    <3>1. listed(t) # {}
      BY <2>3
    <3>2. Min(listed(t)) \in listed(t)
      BY <2>4, <3>1, LeastExists
    <3> QED
      BY <2>3, <3>1, <3>2
  <2>7. t[Min(listed(t))] = s[Min(listed(s))]
    BY <1>4, <2>1, <2>5, <2>6 DEF listed
  <2>8. expires(s) <=> expires(t)
    BY <2>7
  <2> HIDE DEF expires
  <2> QED
    BY <1>2, <1>8, <2>6, <2>8
<1> QED
  BY <1>7, <1>8

SameEntries(s, t) ==
  /\ \A i \in DOMAIN s : \E j \in DOMAIN t : t[j] = s[i]
  /\ \A j \in DOMAIN t : \E i \in DOMAIN s : t[j] = s[i]

(* A rearrangement has the same entries, which is all that                 *)
(* check_ubo_derivation asks of the lists, beside the total.               *)
LEMMA EntriesRearranged ==
  ASSUME NEW s, NEW t, NEW h, Rearranged(s, t, h)
  PROVE  SameEntries(s, t)
<1>1. DOMAIN t = DOMAIN s
  BY DEF Rearranged
<1>2. \A i \in DOMAIN s : h[i] \in DOMAIN s /\ t[h[i]] = s[i]
  BY DEF Rearranged
<1>3. \A j \in DOMAIN s : \E i \in DOMAIN s : j = h[i]
  BY DEF Rearranged
<1> QED
  BY <1>1, <1>2, <1>3 DEF SameEntries

LEMMA UboRearranged ==
  ASSUME NEW ubo, NEW ubo2, NEW h, NEW k,
         ubo.holders \in Seq(Shares), ubo2.holders \in Seq(Shares),
         ubo.declared \in Seq(Shares), ubo2.declared \in Seq(Shares),
         Rearranged(ubo.holders, ubo2.holders, h),
         Rearranged(ubo.declared, ubo2.declared, k), ~AtBound(Total(ubo.declared), Whole)
  PROVE  UboCodes(ubo2) = UboCodes(ubo)
<1> DEFINE absurd(list) == \E i \in DOMAIN list :
                             Below(list[i].pct, -Eps) \/ Above(list[i].pct, Whole + Eps)
           owes(sh) == sh.pct = NaN \/ sh.pct + Eps >= UboThreshold
           named(sh, list) == \E j \in DOMAIN list : SamePerson(sh.name, list[j].name)
           owing(s, list) == \E i \in DOMAIN s : owes(s[i]) /\ ~named(s[i], list)
           codes(u) == IF Exceeds(u.declared) \/ absurd(u.declared)
                         THEN {"D1b"}
                       ELSE IF owing(u.holders, u.declared) THEN {"D1a"} ELSE {}
<1>1. UboCodes(ubo) = codes(ubo) /\ UboCodes(ubo2) = codes(ubo2)
  BY DEF UboCodes
<1>2. Exceeds(ubo2.declared) <=> Exceeds(ubo.declared)
  BY TotalInAnyOrder, BoundsRearranged
<1>0. SameEntries(ubo.declared, ubo2.declared) /\ SameEntries(ubo.holders, ubo2.holders)
  BY EntriesRearranged
<1>3. /\ \A i \in DOMAIN ubo.declared : \E j \in DOMAIN ubo2.declared :
           ubo2.declared[j] = ubo.declared[i]
      /\ \A j \in DOMAIN ubo2.declared : \E i \in DOMAIN ubo.declared :
           ubo2.declared[j] = ubo.declared[i]
  BY <1>0, Zenon DEF SameEntries
<1>4. /\ \A i \in DOMAIN ubo.holders : \E j \in DOMAIN ubo2.holders :
           ubo2.holders[j] = ubo.holders[i]
      /\ \A j \in DOMAIN ubo2.holders : \E i \in DOMAIN ubo.holders :
           ubo2.holders[j] = ubo.holders[i]
  BY <1>0, Zenon DEF SameEntries
<1>5. absurd(ubo2.declared) <=> absurd(ubo.declared)
  BY <1>3
<1>6. \A sh : named(sh, ubo2.declared) <=> named(sh, ubo.declared)
  BY <1>3
<1> HIDE DEF absurd, named, owes
<1>7. owing(ubo2.holders, ubo2.declared) <=> owing(ubo.holders, ubo.declared)
  BY <1>4, <1>6
<1> HIDE DEF owing
<1> QED
  BY <1>1, <1>2, <1>5, <1>7

(* What the other order keeps of a dossier.                                *)
LEMMA RelistedParts ==
  ASSUME NEW d \in PartialDossiers
  PROVE  LET e == Relisted(d)
         IN  /\ DOMAIN d \subseteq Documents /\ DOMAIN e = DOMAIN d
             /\ \A label \in DOMAIN d : e[label].tax = d[label].tax
                                        /\ e[label].legal = d[label].legal
             /\ "registry" \in DOMAIN d =>
                  /\ d.registry.holders \in Seq(Shares)
                  /\ e.registry.date = d.registry.date
                  /\ e.registry.holders = Reverse(d.registry.holders)
             /\ "circular" \in DOMAIN d =>
                  /\ d.circular.signatories \in Seq(Signatories)
                  /\ e.circular.date = d.circular.date
                  /\ e.circular.signatories = Reverse(d.circular.signatories)
             /\ "ubo" \in DOMAIN d =>
                  /\ d.ubo.holders \in Seq(Shares) /\ d.ubo.declared \in Seq(Shares)
                  /\ e.ubo.date = d.ubo.date /\ e.ubo.declarant = d.ubo.declarant
                  /\ e.ubo.holders = Reverse(d.ubo.holders)
                  /\ e.ubo.declared = Reverse(d.ubo.declared)
<1> DEFINE e == Relisted(d)
<1>1. PICK whole \in CompleteDossiers, present \in SUBSET Documents :
        d = [label \in present |-> whole[label]]
  BY DEF PartialDossiers
<1>2. DOMAIN d \subseteq Documents /\ DOMAIN e = DOMAIN d
  BY <1>1 DEF Relisted
<1>3. ASSUME "registry" \in DOMAIN d
      PROVE  /\ d.registry \in [date : Int, legal : STRING, tax : STRING, holders : Seq(Shares)]
             /\ e.registry = [d.registry EXCEPT !.holders = Reverse(d.registry.holders)]
  <2>1. d.registry = whole.registry
    BY <1>1, <1>3
  <2> QED
    BY <1>3, <2>1 DEF CompleteDossiers, Relisted
<1>4. ASSUME "circular" \in DOMAIN d
      PROVE  /\ d.circular \in [date : Int, legal : STRING, tax : STRING,
                                signatories : Seq(Signatories)]
             /\ e.circular = [d.circular EXCEPT !.signatories = Reverse(d.circular.signatories)]
  <2>1. d.circular = whole.circular
    BY <1>1, <1>4
  <2> QED
    BY <1>4, <2>1 DEF CompleteDossiers, Relisted
<1>5. ASSUME "ubo" \in DOMAIN d
      PROVE  /\ d.ubo \in [date : Int, legal : STRING, tax : STRING, holders : Seq(Shares),
                           declared : Seq(Shares), declarant : STRING]
             /\ e.ubo = [d.ubo EXCEPT !.holders = Reverse(d.ubo.holders),
                                      !.declared = Reverse(d.ubo.declared)]
  <2>1. d.ubo = whole.ubo
    BY <1>1, <1>5
  <2> QED
    BY <1>5, <2>1 DEF CompleteDossiers, Relisted
<1> HIDE DEF e
<1>6. "registry" \in DOMAIN d =>
        /\ d.registry.holders \in Seq(Shares)
        /\ e.registry.date = d.registry.date
        /\ e.registry.tax = d.registry.tax /\ e.registry.legal = d.registry.legal
        /\ e.registry.holders = Reverse(d.registry.holders)
  BY <1>3
<1>7. "circular" \in DOMAIN d =>
        /\ d.circular.signatories \in Seq(Signatories)
        /\ e.circular.date = d.circular.date
        /\ e.circular.tax = d.circular.tax /\ e.circular.legal = d.circular.legal
        /\ e.circular.signatories = Reverse(d.circular.signatories)
  BY <1>4
<1>8. "ubo" \in DOMAIN d =>
        /\ d.ubo.holders \in Seq(Shares) /\ d.ubo.declared \in Seq(Shares)
        /\ e.ubo.date = d.ubo.date /\ e.ubo.declarant = d.ubo.declarant
        /\ e.ubo.tax = d.ubo.tax /\ e.ubo.legal = d.ubo.legal
        /\ e.ubo.holders = Reverse(d.ubo.holders)
        /\ e.ubo.declared = Reverse(d.ubo.declared)
  BY <1>5
<1>9. \A label \in DOMAIN d : e[label].tax = d[label].tax /\ e[label].legal = d[label].legal
  BY <1>2, <1>6, <1>7, <1>8 DEF Documents
<1> QED
  BY <1>2, <1>6, <1>7, <1>8, <1>9 DEF e

(* The checks of names, numbers and mandatory fields do not look into the  *)
(* lists, except whether one is empty.                                     *)
LEMMA IdentityRelisted ==
  ASSUME NEW d, NEW e, DOMAIN e = DOMAIN d, DOMAIN d \subseteq Documents, DOMAIN d # {},
         \A label \in DOMAIN d : e[label].tax = d[label].tax /\ e[label].legal = d[label].legal
  PROVE  IdentityCodes(e) = IdentityCodes(d)
<1>1. FirstPresent(e) = FirstPresent(d) /\ FirstPresent(d) \in DOMAIN d
  BY DEF FirstPresent, Documents
<1>2. (\E m, n \in DOMAIN e : e[m].tax # e[n].tax) <=> \E m, n \in DOMAIN d : d[m].tax # d[n].tax
  OBVIOUS
<1>3. (\E m, n \in DOMAIN e : e[m].legal # e[n].legal)
        <=> \E m, n \in DOMAIN d : d[m].legal # d[n].legal
  OBVIOUS
<1>4. (\A n \in DOMAIN e : SameEntity(e[FirstPresent(e)].legal, e[n].legal))
        <=> \A n \in DOMAIN d : SameEntity(d[FirstPresent(d)].legal, d[n].legal)
  BY <1>1
<1> QED
  BY <1>2, <1>3, <1>4, Zenon DEF IdentityCodes

LEMMA EmptyReversed ==
  ASSUME NEW X, NEW s \in Seq(X)
  PROVE  Reverse(s) = << >> <=> s = << >>
<1>1. Reverse(s) \in Seq(X) /\ Len(Reverse(s)) = Len(s)
  BY DEF Reverse
<1> QED
  BY <1>1

LEMMA CompletenessRelisted ==
  ASSUME NEW d \in PartialDossiers
  PROVE  CompletenessCodes(Relisted(d)) = CompletenessCodes(d)
<1> DEFINE e == Relisted(d)
<1>1. DOMAIN d \subseteq Documents /\ DOMAIN e = DOMAIN d
  BY RelistedParts
<1>2. \A label \in DOMAIN d : e[label].tax = d[label].tax /\ e[label].legal = d[label].legal
  BY RelistedParts
<1>3. "registry" \in DOMAIN d => (e.registry.holders = << >> <=> d.registry.holders = << >>)
  BY RelistedParts, EmptyReversed
<1>4. "circular" \in DOMAIN d =>
        (e.circular.signatories = << >> <=> d.circular.signatories = << >>)
  BY RelistedParts, EmptyReversed
<1>5. "ubo" \in DOMAIN d => e.ubo.declarant = d.ubo.declarant
  BY RelistedParts
<1> HIDE DEF e
<1>6. \A label \in DOMAIN d : LacksField(label, e[label]) <=> LacksField(label, d[label])
  <2> TAKE label \in DOMAIN d
  <2>1. CASE label = "registry"
    BY <1>2, <1>3, <2>1 DEF LacksField
  <2>2. CASE label = "circular"
    BY <1>2, <1>4, <2>2 DEF LacksField
  <2>3. CASE label = "ubo"
    BY <1>2, <1>5, <2>3 DEF LacksField
  <2> QED
    BY <1>1, <2>1, <2>2, <2>3 DEF Documents
<1>7. (\E label \in DOMAIN e : LacksField(label, e[label]))
        <=> \E label \in DOMAIN d : LacksField(label, d[label])
  BY <1>1, <1>6
<1> QED
  BY <1>1, <1>7 DEF CompletenessCodes, e

(* So every check that can run reports the same.                           *)
LEMMA RelistedCodes ==
  ASSUME NEW d \in PartialDossiers, Unambiguous(d), ~SumOnBound(d),
         NEW check \in DocumentChecks, CanRun(check, DOMAIN d)
  PROVE  CodesOf(check, Relisted(d)) = CodesOf(check, d)
<1> DEFINE e == Relisted(d)
<1>1. DOMAIN d \subseteq Documents /\ DOMAIN e = DOMAIN d
  BY RelistedParts
<1>2. CASE check = "check_identity_consistency"
  <2>1. DOMAIN d # {}
    BY <1>2 DEF CanRun
  <2>2. \A label \in DOMAIN d : e[label].tax = d[label].tax /\ e[label].legal = d[label].legal
    BY RelistedParts
  <2> HIDE DEF e
  <2>3. IdentityCodes(e) = IdentityCodes(d)
    BY <1>1, <2>1, <2>2, IdentityRelisted
  <2> QED
    BY <1>2, <2>3 DEF CodesOf, e
<1>3. CASE check = "check_ownership_consistency"
  <2>1. {"registry", "ubo"} \subseteq DOMAIN d
    BY <1>3 DEF CanRun
  <2>2. /\ d.registry.holders \in Seq(Shares) /\ d.ubo.holders \in Seq(Shares)
        /\ e.registry.date = d.registry.date /\ e.ubo.date = d.ubo.date
        /\ e.registry.holders = Reverse(d.registry.holders)
        /\ e.ubo.holders = Reverse(d.ubo.holders)
    BY <2>1, RelistedParts
  <2>3. HoldersReversed(d.registry, e.registry) /\ HoldersReversed(d.ubo, e.ubo)
    BY <2>2, Zenon DEF HoldersReversed
  <2>4. OneToOne(d.registry.holders, d.ubo.holders)
    BY <2>1 DEF Unambiguous, OneToOne
  <2> HIDE DEF e
  <2>5. /\ ~AtBound(Total(d.registry.holders), Whole) /\ ~AtBound(Total(d.ubo.holders), Whole)
        /\ ~AtBound(ExitedTotal(d.registry.holders, d.ubo.holders),
                    Gained(d.registry.holders, d.ubo.holders))
    BY <2>1, Zenon DEF SumOnBound
  <2>6. OwnershipCodes(e.registry, e.ubo) = OwnershipCodes(d.registry, d.ubo)
    BY <2>3, <2>4, <2>5, OwnershipReversed
  <2> QED
    BY <1>3, <2>6 DEF CodesOf, e
<1>4. CASE check = "check_authority_chain"
  <2>1. {"circular", "ubo"} \subseteq DOMAIN d
    BY <1>4 DEF CanRun
  <2>2. /\ d.circular.signatories \in Seq(Signatories)
        /\ e.circular.date = d.circular.date /\ e.ubo.date = d.ubo.date
        /\ e.ubo.declarant = d.ubo.declarant
        /\ e.circular.signatories = Reverse(d.circular.signatories)
    BY <2>1, RelistedParts
  <2>3. SignatoriesReversed(d.circular, e.circular) /\ SameDeclarant(d.ubo, e.ubo)
    BY <2>2, Zenon DEF SignatoriesReversed, SameDeclarant
  <2>4. AtMostOne(d.ubo.declarant, d.circular.signatories)
    BY <2>1 DEF Unambiguous
  <2> HIDE DEF e
  <2>5. AuthorityCodes(e.circular, e.ubo) = AuthorityCodes(d.circular, d.ubo)
    BY <2>3, <2>4, AuthorityReversed
  <2> QED
    BY <1>4, <2>5 DEF CodesOf, e
<1>5. CASE check = "check_ubo_derivation"
  <2>1. "ubo" \in DOMAIN d
    BY <1>5 DEF CanRun
  <2>2. /\ d.ubo.holders \in Seq(Shares) /\ d.ubo.declared \in Seq(Shares)
        /\ e.ubo.holders = Reverse(d.ubo.holders)
        /\ e.ubo.declared = Reverse(d.ubo.declared)
    BY <2>1, RelistedParts
  <2>3. /\ e.ubo.holders \in Seq(Shares) /\ e.ubo.declared \in Seq(Shares)
        /\ Rearranged(d.ubo.holders, e.ubo.holders, Flip(d.ubo.holders))
        /\ Rearranged(d.ubo.declared, e.ubo.declared, Flip(d.ubo.declared))
    BY <2>2, ReversedIsRearranged
  <2> HIDE DEF e
  <2>4. ~AtBound(Total(d.ubo.declared), Whole)
    BY <2>1, Zenon DEF SumOnBound
  <2>5. UboCodes(e.ubo) = UboCodes(d.ubo)
    BY <2>2, <2>3, <2>4, UboRearranged
  <2> QED
    BY <1>5, <2>5 DEF CodesOf, e
<1>6. CASE check = "check_completeness"
  BY <1>6, CompletenessRelisted DEF CodesOf
<1> QED
  BY <1>2, <1>3, <1>4, <1>5, <1>6 DEF DocumentChecks

(* The order in which the documents list people changes no result, when    *)
(* names are told apart and no sum is on its bound: the pairs found, the   *)
(* totals compared and the first signatory found are the same, even of     *)
(* percentages that are not numbers.                                       *)
THEOREM AnyOrderIsAsGood == Spec => []OrderIsImmaterial
<1>1. ChainInv => OrderIsImmaterial
  <2> SUFFICES ASSUME ChainInv, pc = "done", Unambiguous(dossier), ~SumOnBound(dossier),
                      NEW r \in results, r.ran
               PROVE  r.codes = CodesOf(r.check, Relisted(dossier))
    BY DEF OrderIsImmaterial
  <2>1. PICK check \in DocumentChecks : r = ResultOf(check, dossier)
    BY DEF ChainInv, DoneBefore
  <2>2. r.check = check /\ CanRun(check, DOMAIN dossier) /\ r.codes = CodesOf(check, dossier)
    BY <2>1 DEF ResultOf, CodesReported
  <2> QED
    BY <2>2, RelistedCodes DEF ChainInv
<1> QED
  BY <1>1, ChainHolds, PTL

-----------------------------------------------------------------------------
(* Lists of people who hold a number.                                      *)
Paid == [name : STRING, pct : Nat]

LEMMA PaidAreShares ==
  ASSUME NEW s \in Seq(Paid)
  PROVE  /\ s \in Seq(Shares) /\ Numeric(s)
         /\ \A i \in DOMAIN s : s[i] \in Paid /\ s[i].pct \in Nat /\ s[i].name \in STRING
<1>1. Paid \subseteq Shares
  BY DEF Paid, Shares
<1>2. \A i \in DOMAIN s : s[i] \in Paid
  OBVIOUS
<1>3. s \in Seq(Shares)
  BY <1>1
<1>4. \A p \in Paid : p.pct \in Nat /\ p.name \in STRING /\ p.pct # NaN
  BY NaNAssumption DEF Paid
<1> QED
  BY <1>2, <1>3, <1>4 DEF Numeric

LEMMA TotalOfPaid ==
  ASSUME NEW s \in Seq(Paid)
  PROVE  /\ Total(s) = SumOf(Percent(s), DOMAIN s)
         /\ Total(s) \in Nat
         /\ \A i \in DOMAIN s : Percent(s)[i] = s[i].pct
<1>1. s \in Seq(Shares) /\ Numeric(s) /\ \A i \in DOMAIN s : s[i].pct \in Nat
  BY PaidAreShares
<1>2. TotalOf(s, DOMAIN s) = IF \E i \in DOMAIN s : s[i].pct = NaN THEN NaN
                             ELSE SumOf(Percent(s), DOMAIN s)
  BY <1>1, TotalIsSum
<1>3. Total(s) = SumOf(Percent(s), DOMAIN s)
  BY <1>1, <1>2 DEF Total, Numeric
<1>4. \A i \in DOMAIN s : Percent(s)[i] = s[i].pct
  BY DEF Percent
<1>5. IsFiniteSet(DOMAIN s)
  BY PositionsAreCounted
<1>6. \A i \in DOMAIN s : Percent(s)[i] \in Nat
  BY <1>1, <1>4
<1>7. SumOf(Percent(s), DOMAIN s) \in Nat
  <2> DEFINE v == Percent(s)
             S == DOMAIN s
  <2>1. IsFiniteSet(S) /\ \A i \in S : v[i] \in Nat
    BY <1>5, <1>6
  <2> HIDE DEF v, S
  <2>2. SumOf(v, S) \in Nat
    BY <2>1, SumOfNaturals
  <2> QED
    BY <2>2 DEF v, S
<1> QED
  BY <1>3, <1>4, <1>7

LEMMA TotalOfMore ==
  ASSUME NEW s \in Seq(Paid), NEW x \in Paid
  PROVE  /\ Append(s, x) \in Seq(Paid)
         /\ Total(Append(s, x)) = Total(s) + x.pct
<1> DEFINE t == Append(s, x)
           n == Len(s)
           S == DOMAIN s
           v == Percent(s)
           w == Percent(t)
<1>1. /\ t \in Seq(Paid) /\ n \in Nat /\ S = 1..n /\ DOMAIN t = 1..(n + 1) /\ t[n + 1] = x
      /\ \A i \in S : t[i] = s[i]
  OBVIOUS
<1>2. 1..(n + 1) = (1..n) \cup {n + 1} /\ n + 1 \notin 1..n
  BY <1>1
<1>3. DOMAIN t = S \cup {n + 1} /\ n + 1 \notin S
  BY <1>1, <1>2
<1>4. /\ Total(s) = SumOf(v, S) /\ \A i \in S : v[i] = s[i].pct
      /\ Total(t) = SumOf(w, DOMAIN t) /\ \A i \in DOMAIN t : w[i] = t[i].pct
  BY <1>1, TotalOfPaid
<1>5. (\A i \in S : s[i].pct \in Int) /\ (\A i \in DOMAIN t : t[i].pct \in Int)
  <2>1. \A i \in S : s[i].pct \in Int
    BY PaidAreShares
  <2>2. t \in Seq(Paid)
    BY <1>1
  <2> HIDE DEF t
  <2>3. \A i \in DOMAIN t : t[i].pct \in Int
    BY <2>2, PaidAreShares
  <2> QED
    BY <2>1, <2>3
<1>6. IsFiniteSet(S)
  BY PositionsAreCounted
<1>7. /\ \A i \in S : v[i] \in Int /\ w[i] = v[i]
      /\ \A i \in S \cup {n + 1} : w[i] \in Int
      /\ w[n + 1] = x.pct
  BY <1>1, <1>3, <1>4, <1>5
<1>8. Total(t) = SumOf(w, S \cup {n + 1})
  BY <1>3, <1>4
<1> HIDE DEF S, v, w, n
<1>9. SumOf(w, S \cup {n + 1}) = w[n + 1] + SumOf(w, S)
  BY <1>3, <1>6, <1>7, SumOfMore
<1>10. SumOf(v, S) = SumOf(w, S)
  BY <1>6, <1>7, SumByValues
<1>11. Total(s) \in Int /\ x.pct \in Int
  <2>1. Total(s) \in Nat
    BY TotalOfPaid
  <2> QED
    BY <2>1 DEF Paid
<1> QED
  BY <1>1, <1>4, <1>7, <1>8, <1>9, <1>10, <1>11

(* Lists of the lengths that are drawn.                                    *)
LEMMA TotalOfThree ==
  ASSUME NEW s \in Seq(Paid), Len(s) \in {1, 2, 3}
  PROVE  Total(s) = s[1].pct + (IF Len(s) > 1 THEN s[2].pct ELSE 0)
                      + (IF Len(s) > 2 THEN s[3].pct ELSE 0)
<1> DEFINE v == Percent(s)
           n == Len(s)
<1>0. 1..1 = {1} /\ 1..2 = {1, 2} /\ 1..3 = {1, 2, 3}
  OBVIOUS
<1>1. n \in {1, 2, 3} /\ DOMAIN s = 1..n
  OBVIOUS
<1>2. Total(s) = SumOf(v, 1..n) /\ \A i \in 1..n : v[i] = s[i].pct /\ v[i] \in Nat
  <2>1. /\ Total(s) = SumOf(v, DOMAIN s)
        /\ \A i \in DOMAIN s : v[i] = s[i].pct
    BY TotalOfPaid
  <2>2. \A i \in DOMAIN s : s[i].pct \in Nat
    BY PaidAreShares
  <2> HIDE DEF v, n
  <2> QED
    BY <1>1, <2>1, <2>2
<1> HIDE DEF v, n
<1>3. SumOf(v, {}) = 0 /\ IsFiniteSet({})
  BY SumOfNone, FS_EmptySet
<1>4. ASSUME NEW S, NEW k, NEW T, IsFiniteSet(S), k \notin S, T = S \cup {k}, T \subseteq 1..n
      PROVE  IsFiniteSet(T) /\ SumOf(v, T) = v[k] + SumOf(v, S)
  <2>1. \A i \in S \cup {k} : v[i] \in Int
    BY <1>2, <1>4
  <2> QED
    BY <1>4, <2>1, SumOfMore, FS_AddElement
<1>8. /\ n = 1 => 1..n = {1}
      /\ n = 2 => 1..n = {1, 2}
      /\ n = 3 => 1..n = {1, 2, 3}
  BY <1>0
<1> DEFINE A == {1}
           B == {1, 2}
           C == {1, 2, 3}
<1>5. /\ A = {} \cup {1} /\ 1 \notin {} /\ A \subseteq 1..n
      /\ n > 1 => B = A \cup {2} /\ 2 \notin A /\ B \subseteq 1..n
      /\ n > 2 => n > 1 /\ C = B \cup {3} /\ 3 \notin B /\ C \subseteq 1..n
  BY <1>1, <1>8
<1>6. /\ n = 1 => SumOf(v, 1..n) = SumOf(v, A)
      /\ n = 2 => SumOf(v, 1..n) = SumOf(v, B)
      /\ n = 3 => SumOf(v, 1..n) = SumOf(v, C)
  BY <1>8
<1> HIDE DEF A, B, C
<1>7. /\ IsFiniteSet(A) /\ SumOf(v, A) = v[1] + SumOf(v, {})
      /\ n > 1 => IsFiniteSet(B) /\ SumOf(v, B) = v[2] + SumOf(v, A)
      /\ n > 2 => SumOf(v, C) = v[3] + SumOf(v, B)
  <2>1. IsFiniteSet(A) /\ SumOf(v, A) = v[1] + SumOf(v, {})
    BY <1>3, <1>4, <1>5
  <2>2. n > 1 => IsFiniteSet(B) /\ SumOf(v, B) = v[2] + SumOf(v, A)
    BY <1>4, <1>5, <2>1
  <2>3. n > 2 => SumOf(v, C) = v[3] + SumOf(v, B)
    BY <1>4, <1>5, <2>2
  <2> QED
    BY <2>1, <2>2, <2>3
<1>9. v[1] \in Nat /\ v[1] = s[1].pct
  BY <1>1, <1>2
<1>10. n > 1 => v[2] \in Nat /\ v[2] = s[2].pct
  BY <1>1, <1>2
<1>11. n > 2 => v[3] \in Nat /\ v[3] = s[3].pct
  BY <1>1, <1>2
<1>12. CASE n = 1
  BY <1>2, <1>3, <1>6, <1>7, <1>9, <1>12 DEF n
<1>13. CASE n = 2
  BY <1>2, <1>3, <1>6, <1>7, <1>9, <1>10, <1>13 DEF n
<1>14. CASE n = 3
  BY <1>2, <1>3, <1>6, <1>7, <1>9, <1>10, <1>11, <1>14 DEF n
<1> QED
  BY <1>1, <1>12, <1>13, <1>14

(* Who is to be declared: of the owners, in their order, those who hold so *)
(* much.                                                                   *)
IsDue(o) == o.pct + 1 >= UboThreshold

AddDue(e, due, o) == IF IsDue(o) THEN Append(due, o) ELSE due

Declaring == INSTANCE FoldLemmas WITH Op <- AddDue, Base <- << >>

LEMMA DeclaringIsFold ==
  ASSUME NEW owners
  PROVE  Declaring!Fold(0, owners) = Declared(owners)
BY DEF Declaring!Fold, Declared, AddDue, IsDue, FoldLeft, MapThenFoldSet,
       Declaring!FoldLeft, Declaring!MapThenFoldSet, Max, Declaring!Max

IsFrom(h, due, owners) ==
  /\ h \in [DOMAIN due -> DOMAIN owners]
  /\ \A j, k \in DOMAIN due : h[j] = h[k] => j = k
  /\ \A j \in DOMAIN due : due[j] = owners[h[j]] /\ IsDue(due[j])
  /\ \A i \in DOMAIN owners : IsDue(owners[i]) => \E j \in DOMAIN due : h[j] = i

AreDue(due, owners) ==
  (\E h : IsFrom(h, due, owners)) /\ Total(due) <= Total(owners)

LEMMA DueOfMore ==
  ASSUME NEW s \in Seq(Paid), NEW t \in Seq(Paid), NEW x \in Paid, AreDue(t, s)
  PROVE  AreDue(AddDue(0, t, x), Append(s, x)) /\ AddDue(0, t, x) \in Seq(Paid)
<1> DEFINE n == Len(s)
           m == Len(t)
           u == Append(s, x)
<1>1. /\ u \in Seq(Paid) /\ n \in Nat /\ DOMAIN s = 1..n /\ DOMAIN u = 1..(n + 1)
      /\ u[n + 1] = x /\ \A i \in DOMAIN s : u[i] = s[i]
  OBVIOUS
<1>2. \A i \in DOMAIN u : i \in DOMAIN s \/ i = n + 1
  BY <1>1
<1>3. n + 1 \notin DOMAIN s /\ n + 1 \in DOMAIN u /\ DOMAIN s \subseteq DOMAIN u
  BY <1>1
<1>4. PICK h : IsFrom(h, t, s)
  BY DEF AreDue
<1>5. /\ Total(u) = Total(s) + x.pct
      /\ Total(s) \in Nat /\ Total(t) \in Nat /\ x.pct \in Nat
      /\ Total(t) <= Total(s)
  BY TotalOfMore, TotalOfPaid DEF AreDue, Paid
<1>6. CASE ~(IsDue(x))
  <2>1. AddDue(0, t, x) = t
    BY <1>6 DEF AddDue
  <2> HIDE DEF u, n
  <2>2. h \in [DOMAIN t -> DOMAIN u]
    BY <1>3, <1>4 DEF IsFrom
  <2>3. \A j \in DOMAIN t : t[j] = u[h[j]] /\ IsDue(t[j])
    BY <1>1, <1>4 DEF IsFrom
  <2>4. \A i \in DOMAIN u : IsDue(u[i]) => \E j \in DOMAIN t : h[j] = i
    BY <1>1, <1>2, <1>4, <1>6 DEF IsFrom
  <2>5. IsFrom(h, t, u)
    BY <1>4, <2>2, <2>3, <2>4 DEF IsFrom
  <2>6. Total(t) <= Total(u)
    BY <1>5
  <2> QED
    BY <2>1, <2>5, <2>6 DEF AreDue, u
<1>7. CASE IsDue(x)
  <2> DEFINE v == Append(t, x)
             g == [j \in DOMAIN v |-> IF j = m + 1 THEN n + 1 ELSE h[j]]
  <2>1. AddDue(0, t, x) = v
    BY <1>7 DEF AddDue
  <2>2. /\ v \in Seq(Paid) /\ m \in Nat /\ DOMAIN t = 1..m /\ DOMAIN v = 1..(m + 1)
        /\ v[m + 1] = x /\ \A i \in DOMAIN t : v[i] = t[i]
    OBVIOUS
  <2>3. /\ \A j \in DOMAIN v : j \in DOMAIN t \/ j = m + 1
        /\ m + 1 \notin DOMAIN t /\ m + 1 \in DOMAIN v /\ DOMAIN t \subseteq DOMAIN v
    BY <2>2
  <2>4. Total(v) = Total(t) + x.pct
    BY TotalOfMore
  <2>5. Total(v) <= Total(u)
    BY <1>5, <2>4
  <2> HIDE DEF u, n, v, m
  <2>6. /\ \A j \in DOMAIN t : g[j] = h[j] /\ h[j] \in DOMAIN s
        /\ g[m + 1] = n + 1 /\ g \in [DOMAIN v -> DOMAIN u]
    <3>1. \A j \in DOMAIN t : h[j] \in DOMAIN s
      BY <1>4 DEF IsFrom
    <3>2. \A j \in DOMAIN t : g[j] = h[j]
      BY <2>3
    <3>3. g[m + 1] = n + 1
      BY <2>3
    <3>4. \A j \in DOMAIN v : g[j] \in DOMAIN u
      BY <1>3, <2>3, <3>1, <3>2, <3>3, Zenon
    <3> QED
      BY <3>1, <3>2, <3>3, <3>4
  <2> HIDE DEF g
  <2>7. \A j, k \in DOMAIN v : g[j] = g[k] => j = k
    <3>1. \A j, k \in DOMAIN t : h[j] = h[k] => j = k
      BY <1>4 DEF IsFrom
    <3>2. \A j \in DOMAIN t : g[j] # g[m + 1]
      BY <1>3, <2>6, Zenon
    <3> SUFFICES ASSUME NEW j \in DOMAIN v, NEW k \in DOMAIN v, g[j] = g[k] PROVE j = k
      OBVIOUS
    <3>3. j = m + 1 => k = m + 1
      BY <2>3, <3>2, Zenon
    <3>4. k = m + 1 => j = m + 1
      BY <2>3, <3>2, Zenon
    <3>5. j \in DOMAIN t /\ k \in DOMAIN t => j = k
      BY <2>6, <3>1, Zenon
    <3> QED
      BY <2>3, <3>3, <3>4, <3>5, Zenon
  <2>8. \A j \in DOMAIN v : v[j] = u[g[j]] /\ IsDue(v[j])
    <3>1. \A j \in DOMAIN t : t[j] = s[h[j]] /\ IsDue(t[j])
      BY <1>4 DEF IsFrom
    <3>2. ASSUME NEW j \in DOMAIN t PROVE v[j] = u[g[j]] /\ IsDue(v[j])
      <4>1. v[j] = t[j] /\ g[j] = h[j] /\ h[j] \in DOMAIN s /\ u[h[j]] = s[h[j]]
        BY <1>1, <2>2, <2>6, Zenon
      <4> QED
        BY <3>1, <4>1, Zenon
    <3>3. v[m + 1] = u[g[m + 1]] /\ IsDue(v[m + 1])
      BY <1>1, <1>7, <2>2, <2>6, Zenon
    <3> QED
      BY <2>3, <3>2, <3>3, Zenon
  <2>9. \A i \in DOMAIN u : IsDue(u[i]) => \E j \in DOMAIN v : g[j] = i
    <3>1. ASSUME NEW i \in DOMAIN s, IsDue(u[i])
          PROVE  \E j \in DOMAIN v : g[j] = i
      <4>1. PICK j \in DOMAIN t : h[j] = i
        BY <1>1, <1>4, <3>1 DEF IsFrom
      <4> QED
        BY <2>3, <2>6, <4>1, Zenon
    <3> QED
      BY <1>2, <2>3, <2>6, <3>1, Zenon
  <2>10. IsFrom(g, v, u)
    BY <2>6, <2>7, <2>8, <2>9, Zenon DEF IsFrom
  <2> QED
    BY <2>1, <2>2, <2>5, <2>10 DEF AreDue, u
<1>8. AddDue(0, t, x) \in Seq(Paid)
  BY DEF AddDue
<1> QED
  BY <1>6, <1>7, <1>8

LEMMA DeclaredAreDue ==
  ASSUME NEW owners \in Seq(Paid)
  PROVE  Declared(owners) \in Seq(Paid) /\ AreDue(Declared(owners), owners)
<1> DEFINE R == {p \in Seq(Paid) \X Seq(Paid) : AreDue(p[2], p[1])}
<1>1. <<<< >>, << >>>> \in R
  <2>1. << >> \in Seq(Paid) /\ DOMAIN << >> = {}
    OBVIOUS
  <2>2. IsFrom([j \in {} |-> j], << >>, << >>)
    BY <2>1 DEF IsFrom
  <2>3. Total(<< >>) <= Total(<< >>)
    BY EmptyTotal
  <2> QED
    BY <2>1, <2>2, <2>3 DEF AreDue
<1>2. ASSUME NEW s \in Seq(Paid), NEW t, NEW x \in Paid, <<s, t>> \in R
      PROVE  <<Append(s, x), AddDue(0, t, x)>> \in R
  <2>1. t \in Seq(Paid) /\ AreDue(t, s)
    BY <1>2
  <2>2. AreDue(AddDue(0, t, x), Append(s, x)) /\ AddDue(0, t, x) \in Seq(Paid)
    BY <2>1, DueOfMore
  <2>3. Append(s, x) \in Seq(Paid)
    OBVIOUS
  <2> QED
    BY <2>2, <2>3
<1> HIDE DEF R
<1>3. \A s \in Seq(Paid) : <<s, Declaring!Fold(0, s)>> \in R
  BY <1>1, <1>2, Declaring!FoldInduction
<1>4. <<owners, Declared(owners)>> \in R
  BY <1>3, DeclaringIsFold
<1> QED
  BY <1>4 DEF R

-----------------------------------------------------------------------------
(* What each check says of documents in order, and of each way in which    *)
(* they are not.                                                           *)
LEMMA IdentityIs ==
  ASSUME NEW d, DOMAIN d = Documents
  PROVE  LET oneTax   == d.registry.tax = d.circular.tax /\ d.registry.tax = d.ubo.tax
             oneLegal == d.registry.legal = d.circular.legal /\ d.registry.legal = d.ubo.legal
             alike    == /\ SameEntity(d.registry.legal, d.circular.legal)
                         /\ SameEntity(d.registry.legal, d.ubo.legal)
         IN  IdentityCodes(d) = (IF oneTax THEN {} ELSE {"A2"})
                                  \cup (IF ~oneLegal /\ alike THEN {"A1"} ELSE {})
<1> DEFINE oneTax   == d.registry.tax = d.circular.tax /\ d.registry.tax = d.ubo.tax
           oneLegal == d.registry.legal = d.circular.legal /\ d.registry.legal = d.ubo.legal
           alike    == /\ SameEntity(d.registry.legal, d.circular.legal)
                       /\ SameEntity(d.registry.legal, d.ubo.legal)
<1>1. FirstPresent(d) = "registry"
  BY DEF FirstPresent, Documents
<1>2. (\E m, n \in DOMAIN d : d[m].tax # d[n].tax) <=> ~oneTax
  BY DEF Documents
<1>3. (\E m, n \in DOMAIN d : d[m].legal # d[n].legal) <=> ~oneLegal
  BY DEF Documents
<1>4. (\A n \in DOMAIN d : SameEntity(d.registry.legal, d[n].legal)) <=> alike
  BY DEF Documents, SameEntity
<1> HIDE DEF oneTax, oneLegal, alike
<1>5. d[FirstPresent(d)].legal = d.registry.legal
  BY <1>1
<1>6. IdentityCodes(d) = (IF ~oneTax THEN {"A2"} ELSE {})
                           \cup (IF ~oneLegal /\ alike THEN {"A1"} ELSE {})
  BY <1>2, <1>3, <1>4, <1>5 DEF IdentityCodes
<1>7. IdentityCodes(d) = (IF oneTax THEN {} ELSE {"A2"})
                           \cup (IF ~oneLegal /\ alike THEN {"A1"} ELSE {})
  BY <1>6
<1> QED
  BY <1>7 DEF oneTax, oneLegal, alike

(* The same people with the same shares, place by place.                   *)
Paired(s1, s3) ==
  /\ DOMAIN s3 = DOMAIN s1
  /\ \A i \in DOMAIN s1 : s3[i].pct = s1[i].pct
  /\ \A i, j \in DOMAIN s1 : SamePerson(s1[i].name, s3[j].name) <=> i = j

LEMMA PairedTotal ==
  ASSUME NEW s \in Seq(Paid), NEW t \in Seq(Paid), DOMAIN t = DOMAIN s,
         \A i \in DOMAIN s : t[i].pct = s[i].pct
  PROVE  Total(t) = Total(s)
<1> DEFINE S == DOMAIN s
           v == Percent(s)
           w == Percent(t)
<1>1. /\ Total(s) = SumOf(v, S) /\ \A i \in S : v[i] = s[i].pct
      /\ Total(t) = SumOf(w, S) /\ \A i \in S : w[i] = t[i].pct
  BY TotalOfPaid
<1>2. IsFiniteSet(S) /\ \A i \in S : s[i].pct \in Int
  BY PositionsAreCounted, PaidAreShares
<1>3. \A i \in S : v[i] \in Int /\ w[i] = v[i]
  BY <1>1, <1>2
<1> HIDE DEF S, v, w
<1> QED
  BY <1>1, <1>2, <1>3, SumByValues

LEMMA PairedIsSilent ==
  ASSUME NEW registry, NEW ubo, registry.holders \in Seq(Paid), ubo.holders \in Seq(Paid),
         Paired(registry.holders, ubo.holders), Total(registry.holders) = Whole
  PROVE  OwnershipCodes(registry, ubo) = {}
<1> DEFINE s1 == registry.holders
           s3 == ubo.holders
<1>1. Total(s3) = Whole
  BY PairedTotal DEF Paired
<1>2. s1 \in Seq(Shares) /\ s3 \in Seq(Shares) /\ Numeric(s1) /\ Numeric(s3)
  BY PaidAreShares
<1>3. AddsUp(s1, Eps - 1) /\ AddsUp(s3, Eps - 1)
  BY <1>1 DEF AddsUp, Whole, Eps
<1>4. SameHolders(s1, s3, Eps - 1)
  <2> DEFINE f == [i \in DOMAIN s1 |-> i]
  <2>1. Len(s1) = Len(s3)
    BY DEF Paired
  <2>2. f \in [DOMAIN s1 -> DOMAIN s3] /\ \A i \in DOMAIN s1 : f[i] = i
    BY DEF Paired
  <2> HIDE DEF f
  <2>3. \A i \in DOMAIN s1 : SamePerson(s1[i].name, s3[f[i]].name) /\ s1[i].pct = s3[f[i]].pct
    BY <2>2, Zenon DEF Paired
  <2>4. \A i, j \in DOMAIN s1 : f[i] = f[j] => i = j
    BY <2>2, Zenon
  <2>5. \A i \in DOMAIN s1 : s1[i].pct - s3[f[i]].pct \in -(Eps - 1) .. (Eps - 1)
    <3> TAKE i \in DOMAIN s1
    <3>1. s1[i].pct \in Int /\ s3[f[i]].pct = s1[i].pct
      BY <1>2, <2>3, SharesAreNumbers
    <3>2. \A x \in Int : x - x \in -(Eps - 1) .. (Eps - 1)
      BY DEF Eps
    <3> QED
      BY <3>1, <3>2
  <2> QED
    BY <2>1, <2>2, <2>3, <2>4, <2>5 DEF SameHolders
<1>5. /\ \A i \in DOMAIN s1 : AtMostOne(s1[i].name, s3)
      /\ \A j \in DOMAIN s3 : \A i, k \in DOMAIN s1 :
           SamePerson(s1[i].name, s3[j].name) /\ SamePerson(s1[k].name, s3[j].name) => i = k
  BY Zenon DEF AtMostOne, Paired
<1>6. SameStructure(s1, s3)
  BY <1>2, <1>4, <1>5, HoldersMeanStructure
<1> QED
  BY <1>2, <1>3, <1>6, OwnershipHolds

(* Lists that do not total 100 percent.                                    *)
LEMMA SumsAreOff ==
  ASSUME NEW registry, NEW ubo, registry.holders \in Seq(Paid),
         ubo.holders = registry.holders
  PROVE  /\ Total(registry.holders) > Whole + Eps => OwnershipCodes(registry, ubo) = {"B2b"}
         /\ Total(registry.holders) < Whole - Eps => OwnershipCodes(registry, ubo) = {"B2a"}
<1>1. Total(registry.holders) \in Nat
  BY TotalOfPaid
<1>2. /\ Total(registry.holders) > Whole + Eps => Exceeds(registry.holders)
      /\ Total(registry.holders) < Whole - Eps =>
           ~Exceeds(registry.holders) /\ FallsShort(registry.holders)
  BY <1>1, SumsInBounds
<1> QED
  BY <1>2 DEF OwnershipCodes

(* A list of 100 percent is neither over nor under.                        *)
LEMMA WholeIsFine ==
  ASSUME NEW list, Total(list) = Whole
  PROVE  ~Exceeds(list) /\ ~FallsShort(list)
<1>1. Total(list) \in Int /\ AddsUp(list, Eps - 1)
  BY DEF AddsUp, Whole, Eps
<1> QED
  BY <1>1, SumsInBounds

(* Two lists of 100 percent, of different lengths.                         *)
LEMMA ExitCodes ==
  ASSUME NEW registry, NEW ubo, registry.holders \in Seq(Paid), ubo.holders \in Seq(Paid),
         OneToOne(registry.holders, ubo.holders),
         Total(registry.holders) = Whole, Total(ubo.holders) = Whole,
         ~SameHolders(registry.holders, ubo.holders, Eps),
         \E i \in DOMAIN registry.holders, j \in DOMAIN ubo.holders :
           SamePerson(registry.holders[i].name, ubo.holders[j].name),
         \A i \in DOMAIN registry.holders, j \in DOMAIN ubo.holders :
           SamePerson(registry.holders[i].name, ubo.holders[j].name)
             => ubo.holders[j].pct >= registry.holders[i].pct
  PROVE  OwnershipCodes(registry, ubo)
           = IF ubo.date > registry.date THEN {"B1a"} ELSE {"B1b"}
<1> DEFINE s1 == registry.holders
           s3 == ubo.holders
           newer == ubo.date > registry.date
<1>1. s1 \in Seq(Shares) /\ s3 \in Seq(Shares) /\ Numeric(s1) /\ Numeric(s3)
  BY PaidAreShares
<1>2. ~Exceeds(s1) /\ ~FallsShort(s1) /\ ~Exceeds(s3) /\ ~FallsShort(s3)
  BY WholeIsFine
<1>3. ~SameStructure(s1, s3)
  BY <1>1, StructureMeansHolders
<1>4. OwnershipCodes(registry, ubo)
        = IF ReconcilesAsTransfer(s1, s3, newer) THEN {"B1a"} ELSE {"B1b"}
  BY <1>2, <1>3 DEF OwnershipCodes
<1>5. ReconcilesAsTransfer(s1, s3, newer) <=> newer
  <2>1. /\ OneToOne(s1, s3) /\ Total(s1) = Total(s3) /\ Overlap(s1, s3)
        /\ \A i \in DOMAIN s1, j \in DOMAIN s3 :
             SamePerson(s1[i].name, s3[j].name) => s3[j].pct >= s1[i].pct
    BY DEF Overlap
  <2> HIDE DEF s1, s3, newer
  <2> QED
    BY <1>1, <2>1, TransferWithoutLoss
<1> QED
  BY <1>4, <1>5

(* An older declaration with other holders is not a transfer.              *)
LEMMA OlderCodes ==
  ASSUME NEW registry, NEW ubo, registry.holders \in Seq(Paid), ubo.holders \in Seq(Paid),
         Total(registry.holders) = Whole, Total(ubo.holders) = Whole,
         ~SameHolders(registry.holders, ubo.holders, Eps), ~(ubo.date > registry.date)
  PROVE  OwnershipCodes(registry, ubo) = {"B1b"}
<1> DEFINE s1 == registry.holders
           s3 == ubo.holders
           newer == ubo.date > registry.date
<1>1. s1 \in Seq(Shares) /\ s3 \in Seq(Shares) /\ Numeric(s1) /\ Numeric(s3)
  BY PaidAreShares
<1>2. ~Exceeds(s1) /\ ~FallsShort(s1) /\ ~Exceeds(s3) /\ ~FallsShort(s3)
  BY WholeIsFine
<1>3. ~SameStructure(s1, s3)
  BY <1>1, StructureMeansHolders
<1>4. ~ReconcilesAsTransfer(s1, s3, newer)
  BY DEF ReconcilesAsTransfer
<1> QED
  BY <1>2, <1>3, <1>4 DEF OwnershipCodes

(* The declarant among the signatories, first or with everybody's day; or  *)
(* nobody on the list.                                                     *)
LEMMA FirstSigns ==
  ASSUME NEW circular, NEW ubo, DOMAIN circular.signatories \subseteq Nat \ {0},
         1 \in DOMAIN circular.signatories,
         SamePerson(ubo.declarant, circular.signatories[1].name),
         NEW day, circular.signatories[1].until = {day}
  PROVE  AuthorityCodes(circular, ubo) = IF day < ubo.date THEN {"C2"} ELSE {}
<1> DEFINE list   == circular.signatories
           listed == {i \in DOMAIN list : SamePerson(ubo.declarant, list[i].name)}
<1>1. listed \in SUBSET Nat /\ 1 \in listed /\ \A i \in listed : i \in Nat \ {0}
  OBVIOUS
<1>2. Min(listed) = 1
  <2> HIDE DEF listed
  <2>1. Min(listed) \in listed /\ \A k \in listed : Min(listed) <= k
    BY <1>1, LeastExists
  <2>2. Min(listed) \in Nat \ {0} /\ Min(listed) <= 1
    BY <1>1, <2>1
  <2> QED
    BY <2>2
<1>3. list[Min(listed)].until = {day} /\ listed # {}
  BY <1>1, <1>2
<1>4. AuthorityCodes(circular, ubo)
        = IF \E x \in list[Min(listed)].until : x < ubo.date THEN {"C2"} ELSE {}
  BY <1>3 DEF AuthorityCodes
<1> HIDE DEF list, listed
<1> QED
  BY <1>3, <1>4

LEMMA SomebodySigns ==
  ASSUME NEW circular, NEW ubo, DOMAIN circular.signatories \subseteq Nat,
         NEW i \in DOMAIN circular.signatories,
         SamePerson(ubo.declarant, circular.signatories[i].name),
         NEW day, \A j \in DOMAIN circular.signatories : circular.signatories[j].until = {day}
  PROVE  AuthorityCodes(circular, ubo) = IF day < ubo.date THEN {"C2"} ELSE {}
<1> DEFINE list   == circular.signatories
           listed == {j \in DOMAIN list : SamePerson(ubo.declarant, list[j].name)}
<1>1. listed \in SUBSET Nat /\ listed # {} /\ listed \subseteq DOMAIN list
  OBVIOUS
<1>2. Min(listed) \in DOMAIN list
  <2> HIDE DEF listed
  <2>1. Min(listed) \in listed
    BY <1>1, LeastExists
  <2> QED
    BY <1>1, <2>1
<1>3. list[Min(listed)].until = {day}
  BY <1>2
<1>4. AuthorityCodes(circular, ubo)
        = IF \E x \in list[Min(listed)].until : x < ubo.date THEN {"C2"} ELSE {}
  BY <1>1 DEF AuthorityCodes
<1> HIDE DEF list, listed
<1> QED
  BY <1>3, <1>4

LEMMA NobodySigns ==
  ASSUME NEW circular, NEW ubo,
         \A i \in DOMAIN circular.signatories :
           ~SamePerson(ubo.declarant, circular.signatories[i].name)
  PROVE  AuthorityCodes(circular, ubo)
           = IF ubo.date - circular.date > StalenessDays THEN {"C1a"} ELSE {"C1b"}
<1>1. {i \in DOMAIN circular.signatories :
         SamePerson(ubo.declarant, circular.signatories[i].name)} = {}
  OBVIOUS
<1> QED
  BY <1>1 DEF AuthorityCodes

(* Declared owners whose shares are possible: everybody declared, or not.  *)
LEMMA OwnersAre ==
  ASSUME NEW ubo, ubo.holders \in Seq(Paid), ubo.declared \in Seq(Paid),
         Total(ubo.declared) <= Whole,
         \A j \in DOMAIN ubo.declared : ubo.declared[j].pct <= Whole
  PROVE  UboCodes(ubo)
           = IF \A i \in DOMAIN ubo.holders :
                  ubo.holders[i].pct + Eps >= UboThreshold =>
                    \E j \in DOMAIN ubo.declared :
                      SamePerson(ubo.holders[i].name, ubo.declared[j].name)
               THEN {} ELSE {"D1a"}
<1> DEFINE declared == ubo.declared
           holders == ubo.holders
<1>1. /\ Total(declared) \in Nat /\ \A j \in DOMAIN declared : declared[j].pct \in Nat
      /\ \A i \in DOMAIN holders : holders[i].pct # NaN
  <2>1. \A j \in DOMAIN declared : declared[j].pct \in Nat
    BY PaidAreShares
  <2>2. \A i \in DOMAIN holders : holders[i].pct # NaN
    <3>1. Numeric(holders)
      BY PaidAreShares
    <3> QED
      BY <3>1 DEF Numeric
  <2> QED
    BY <2>1, <2>2, TotalOfPaid
<1>2. ~Exceeds(declared)
  <2> DEFINE t == Total(declared)
  <2>1. t \in Nat /\ t <= Whole
    BY <1>1
  <2> HIDE DEF t
  <2>2. t \in Int /\ t <= Whole + (Eps - 1)
    BY <2>1 DEF Whole, Eps
  <2> QED
    BY <2>2, SumsInBounds DEF t
<1>3. \A x \in Nat : x <= Whole => ~Below(x, -Eps) /\ ~Above(x, Whole + Eps)
  BY DEF Above, Below, Whole, Eps
<1>4. \A j \in DOMAIN declared :
        ~Below(declared[j].pct, -Eps) /\ ~Above(declared[j].pct, Whole + Eps)
  BY <1>1, <1>3
<1> DEFINE undeclared == {i \in DOMAIN holders :
                           /\ holders[i].pct = NaN \/ holders[i].pct + Eps >= UboThreshold
                           /\ \A j \in DOMAIN declared :
                                ~SamePerson(holders[i].name, declared[j].name)}
<1>5. UboCodes(ubo) = IF undeclared # {} THEN {"D1a"} ELSE {}
  BY <1>2, <1>4 DEF UboCodes
<1>6. undeclared = {} <=>
        \A i \in DOMAIN holders :
          holders[i].pct + Eps >= UboThreshold =>
            \E j \in DOMAIN declared : SamePerson(holders[i].name, declared[j].name)
  BY <1>1
<1> HIDE DEF undeclared
<1> QED
  BY <1>5, <1>6

LEMMA TooMuchDeclared ==
  ASSUME NEW ubo, ubo.declared \in Seq(Paid), Total(ubo.declared) > Whole + Eps
  PROVE  UboCodes(ubo) = {"D1b"}
<1>1. Total(ubo.declared) \in Nat
  BY TotalOfPaid
<1>2. Exceeds(ubo.declared)
  BY <1>1, SumsInBounds
<1> QED
  BY <1>2 DEF UboCodes

(* A share that is due by the check is due by the generator, whose         *)
(* tolerance is less.                                                      *)
Settled(x) == x < UboThreshold - Eps \/ x >= UboThreshold

(* Those who are due are declared: the list of the generator.              *)
LEMMA DeclaredIsComplete ==
  ASSUME NEW ubo, ubo.holders \in Seq(Paid), ubo.declared = Declared(ubo.holders),
         Total(ubo.holders) <= Whole,
         \A i \in DOMAIN ubo.holders : /\ ubo.holders[i].pct <= Whole
                                       /\ Settled(ubo.holders[i].pct)
  PROVE  UboCodes(ubo) = {}
<1> DEFINE declared == ubo.declared
           holders == ubo.holders
<1>1. declared \in Seq(Paid) /\ AreDue(declared, holders)
  BY DeclaredAreDue
<1>2. PICK h : IsFrom(h, declared, holders)
  BY <1>1 DEF AreDue
<1>3. Total(declared) <= Whole
  <2>1. Total(declared) \in Nat /\ Total(holders) \in Nat /\ Total(declared) <= Total(holders)
    BY <1>1, TotalOfPaid DEF AreDue
  <2> QED
    BY <2>1 DEF Whole, Eps
<1>4. \A j \in DOMAIN declared : declared[j].pct <= Whole
  BY <1>2 DEF IsFrom
<1>5. \A i \in DOMAIN holders : holders[i].pct \in Nat
  BY PaidAreShares
<1>6. \A x \in Nat : x + Eps >= UboThreshold /\ Settled(x) => x + 1 >= UboThreshold
  BY DEF Eps, UboThreshold, Settled
<1>7. ASSUME NEW i \in DOMAIN holders, holders[i].pct + Eps >= UboThreshold
      PROVE  \E j \in DOMAIN declared : SamePerson(holders[i].name, declared[j].name)
  <2>1. IsDue(holders[i])
    BY <1>5, <1>6, <1>7 DEF IsDue
  <2>2. PICK j \in DOMAIN declared : h[j] = i
    BY <1>2, <2>1 DEF IsFrom
  <2>3. declared[j] = holders[i]
    BY <1>2, <2>2 DEF IsFrom
  <2> QED
    BY <2>3 DEF SamePerson
<1> QED
  BY <1>1, <1>3, <1>4, <1>7, OwnersAre

(* No document is missing and no field of one is empty.                    *)
Filled(d) ==
  /\ Blank \notin {d.registry.tax, d.circular.tax, d.ubo.tax, d.registry.legal, d.ubo.declarant}
  /\ d.registry.holders # << >> /\ d.circular.signatories # << >>

LEMMA CompletenessIs ==
  ASSUME NEW d, DOMAIN d = Documents
  PROVE  CompletenessCodes(d) = IF Filled(d) THEN {} ELSE {"E2"}
<1>1. (\E label \in DOMAIN d : LacksField(label, d[label])) <=> ~Filled(d)
  BY DEF LacksField, Filled, Documents
<1> QED
  BY <1>1 DEF CompletenessCodes

-----------------------------------------------------------------------------
(* The bases. What matters of a split, of the owners drawn with it, and of *)
(* the three documents.                                                    *)
GoodShare(x) == x \in Nat /\ x >= 20000 /\ x <= 70000 /\ Settled(x)

LeadShare(x) == x \in Nat /\ x >= 34000 /\ x <= 70000

NextShare(x) == x \in Nat /\ x >= 25000 /\ x <= 50000

GoodSplit(s) ==
  /\ s \in Seq(Nat) /\ Len(s) \in {2, 3} /\ DOMAIN s = 1..Len(s)
  /\ \A i \in DOMAIN s : GoodShare(s[i])
  /\ LeadShare(s[1]) /\ NextShare(s[2])
  /\ s[1] + s[2] + (IF Len(s) > 2 THEN s[3] ELSE 0) = Whole

LEMMA SplitOfTwo ==
  ASSUME NEW x \in Nat, NEW y \in Nat, GoodShare(x), GoodShare(y), LeadShare(x), NextShare(y),
         x + y = Whole
  PROVE  GoodSplit(<<x, y>>)
<1> DEFINE s == <<x, y>>
<1>1. /\ s \in Seq(Nat) /\ Len(s) = 2 /\ s[1] = x /\ s[2] = y /\ DOMAIN s = 1..2
  OBVIOUS
<1>2. DOMAIN s = {1, 2}
  OBVIOUS
<1> HIDE DEF s
<1>3. \A i \in DOMAIN s : GoodShare(s[i])
  BY <1>1, <1>2, Zenon
<1>4. s[1] + s[2] + (IF Len(s) > 2 THEN s[3] ELSE 0) = Whole
  BY <1>1
<1>5. LeadShare(s[1]) /\ NextShare(s[2])
  BY <1>1, Zenon
<1>6. s \in Seq(Nat) /\ Len(s) \in {2, 3} /\ DOMAIN s = 1..Len(s)
  BY <1>1
<1> QED
  BY <1>3, <1>4, <1>5, <1>6, Zenon DEF GoodSplit, s

LEMMA SplitOfThree ==
  ASSUME NEW x \in Nat, NEW y \in Nat, NEW z \in Nat, GoodShare(x), GoodShare(y), GoodShare(z),
         LeadShare(x), NextShare(y), x + y + z = Whole
  PROVE  GoodSplit(<<x, y, z>>)
<1> DEFINE s == <<x, y, z>>
<1>1. /\ s \in Seq(Nat) /\ Len(s) = 3 /\ s[1] = x /\ s[2] = y /\ s[3] = z /\ DOMAIN s = 1..3
  OBVIOUS
<1>2. DOMAIN s = {1, 2, 3}
  OBVIOUS
<1> HIDE DEF s
<1>3. \A i \in DOMAIN s : GoodShare(s[i])
  BY <1>1, <1>2, Zenon
<1>4. s[1] + s[2] + (IF Len(s) > 2 THEN s[3] ELSE 0) = Whole
  BY <1>1
<1>5. LeadShare(s[1]) /\ NextShare(s[2])
  BY <1>1, Zenon
<1>6. s \in Seq(Nat) /\ Len(s) \in {2, 3} /\ DOMAIN s = 1..Len(s)
  BY <1>1
<1> QED
  BY <1>3, <1>4, <1>5, <1>6, Zenon DEF GoodSplit, s

LEMMA SplitsAreGood == \A split \in Splits : GoodSplit(split)
<1>1. \A x \in Nat :
        x \in {20000, 25000, 30000, 33000, 34000, 35000, 40000, 45000, 50000, 55000, 60000,
               65000, 70000}
          => GoodShare(x)
  BY DEF GoodShare, Settled, UboThreshold, Eps
<1>2. \A x \in Nat :
        x \in {34000, 40000, 45000, 50000, 55000, 60000, 65000, 70000} => LeadShare(x)
  BY DEF LeadShare
<1>3. \A x \in Nat :
        x \in {25000, 30000, 33000, 35000, 40000, 45000, 50000} => NextShare(x)
  BY DEF NextShare
<1>4. \A x, y \in Nat : GoodShare(x) /\ GoodShare(y) /\ LeadShare(x) /\ NextShare(y)
                          /\ x + y = Whole => GoodSplit(<<x, y>>)
  BY SplitOfTwo
<1>5. \A x, y, z \in Nat :
        GoodShare(x) /\ GoodShare(y) /\ GoodShare(z) /\ LeadShare(x) /\ NextShare(y)
        /\ x + y + z = Whole => GoodSplit(<<x, y, z>>)
  BY SplitOfThree
<1>6. GoodSplit(<<50000, 50000>>)
  BY <1>1, <1>2, <1>3, <1>4 DEF Whole
<1>7. GoodSplit(<<55000, 45000>>)
  BY <1>1, <1>2, <1>3, <1>4 DEF Whole
<1>8. GoodSplit(<<60000, 40000>>)
  BY <1>1, <1>2, <1>3, <1>4 DEF Whole
<1>9. GoodSplit(<<65000, 35000>>)
  BY <1>1, <1>2, <1>3, <1>4 DEF Whole
<1>10. GoodSplit(<<70000, 30000>>)
  BY <1>1, <1>2, <1>3, <1>4 DEF Whole
<1>11. GoodSplit(<<45000, 35000, 20000>>)
  BY <1>1, <1>2, <1>3, <1>5 DEF Whole
<1>12. GoodSplit(<<50000, 30000, 20000>>)
  BY <1>1, <1>2, <1>3, <1>5 DEF Whole
<1>13. GoodSplit(<<40000, 35000, 25000>>)
  BY <1>1, <1>2, <1>3, <1>5 DEF Whole
<1>14. GoodSplit(<<34000, 33000, 33000>>)
  BY <1>1, <1>2, <1>3, <1>5 DEF Whole
<1>15. GoodSplit(<<50000, 25000, 25000>>)
  BY <1>1, <1>2, <1>3, <1>5 DEF Whole
<1>16. GoodSplit(<<45000, 30000, 25000>>)
  BY <1>1, <1>2, <1>3, <1>5 DEF Whole
<1>17. ASSUME NEW split \in Splits
       PROVE  \/ split = <<50000, 50000>> \/ split = <<55000, 45000>> \/ split = <<60000, 40000>>
              \/ split = <<65000, 35000>> \/ split = <<70000, 30000>>
              \/ split = <<45000, 35000, 20000>>
              \/ split = <<50000, 30000, 20000>> \/ split = <<40000, 35000, 25000>>
              \/ split = <<34000, 33000, 33000>> \/ split = <<50000, 25000, 25000>>
              \/ split = <<45000, 30000, 25000>>
  BY <1>17 DEF Splits
<1> SUFFICES ASSUME NEW split \in Splits PROVE GoodSplit(split)
  OBVIOUS
<1> QED
  BY <1>6, <1>7, <1>8, <1>9, <1>10, <1>11, <1>12, <1>13, <1>14, <1>15, <1>16, <1>17

Drawn(s) ==
  /\ s \in Seq(Paid) /\ Len(s) \in {2, 3} /\ DOMAIN s = 1..Len(s)
  /\ \A i \in DOMAIN s : /\ s[i].name \in DOMAIN Ascii /\ s[i].name # Blank
                         /\ GoodShare(s[i].pct)
  /\ LeadShare(s[1].pct) /\ NextShare(s[2].pct)
  /\ Total(s) = Whole

LEMMA OwnersAreDrawn ==
  ASSUME NEW split \in Splits, NEW owners \in OwnersOf(split)
  PROVE  Drawn(owners)
<1>1. PICK people \in Rolls : /\ Len(people) = Len(split)
                              /\ owners = [i \in DOMAIN split |-> Party(people[i], split[i])]
  BY DEF OwnersOf
<1>2. GoodSplit(split)
  BY SplitsAreGood
<1> DEFINE n == Len(split)
<1>3. n \in {2, 3} /\ DOMAIN split = 1..n /\ 1 \in 1..n /\ 2 \in 1..n
  <2>1. n \in {2, 3} /\ DOMAIN split = 1..n
    BY <1>2, Zenon DEF GoodSplit
  <2> HIDE DEF n
  <2>2. 1 \in 1..n /\ 2 \in 1..n
    BY <2>1
  <2> QED
    BY <2>1, <2>2
<1>12. \A i \in 1..n : GoodShare(split[i])
  BY <1>2, <1>3, Zenon DEF GoodSplit
<1>4. \A i \in 1..n : people[i] \in DOMAIN Ascii /\ people[i] \in STRING \ {Blank}
  <2>1. people \in Seq(DOMAIN Ascii) /\ Len(people) = n
    BY <1>1, NamesAssumption
  <2>2. \A i \in 1..n : people[i] \in DOMAIN Ascii
    BY <2>1
  <2> QED
    BY <2>2, NamesAssumption
<1>5. /\ DOMAIN owners = 1..n
      /\ \A i \in 1..n : /\ owners[i] = Party(people[i], split[i])
                         /\ owners[i].name = people[i] /\ owners[i].pct = split[i]
  BY <1>1, <1>3 DEF Party
<1>6. \A i \in 1..n : split[i] \in Nat /\ owners[i] \in Paid
  <2>1. \A i \in 1..n : split[i] \in Nat
    BY <1>12 DEF GoodShare
  <2> QED
    BY <1>4, <1>5, <2>1 DEF Paid, Party
<1>7. owners \in Seq(Paid) /\ Len(owners) = n
  <2>1. owners \in [1..n -> Paid]
    <3>1. owners = [i \in 1..n |-> Party(people[i], split[i])]
      BY <1>1, <1>3
    <3> QED
      BY <1>5, <1>6, <3>1
  <2>2. n \in Nat
    BY <1>3
  <2> HIDE DEF n
  <2> QED
    BY <2>1, <2>2
<1>8. Total(owners) = Whole
  <2>1. Total(owners) = owners[1].pct + (IF n > 1 THEN owners[2].pct ELSE 0)
                          + (IF n > 2 THEN owners[3].pct ELSE 0)
    BY <1>3, <1>7, TotalOfThree
  <2>2. split[1] + split[2] + (IF n > 2 THEN split[3] ELSE 0) = Whole
    BY <1>2, Zenon DEF GoodSplit
  <2>3. /\ owners[1].pct = split[1] /\ split[1] \in Nat
        /\ owners[2].pct = split[2] /\ split[2] \in Nat
        /\ n = 3 => owners[3].pct = split[3] /\ split[3] \in Nat
    BY <1>3, <1>5, <1>6
  <2> HIDE DEF n
  <2> QED
    BY <1>3, <2>1, <2>2, <2>3
<1>9. LeadShare(split[1]) /\ NextShare(split[2])
  BY <1>2, Zenon DEF GoodSplit
<1> HIDE DEF n
<1>10. owners[1].pct = split[1] /\ owners[2].pct = split[2]
  BY <1>3, <1>5
<1>11. /\ \A i \in 1..n : /\ owners[i].name \in DOMAIN Ascii /\ owners[i].name # Blank
                          /\ GoodShare(owners[i].pct)
       /\ LeadShare(owners[1].pct) /\ NextShare(owners[2].pct)
  BY <1>4, <1>5, <1>9, <1>10, <1>12, Zenon
<1> QED
  BY <1>3, <1>5, <1>7, <1>8, <1>11, Zenon DEF Drawn

RegistryFields == {"date", "legal", "tax", "holders"}
CircularFields == {"date", "legal", "tax", "signatories"}
UboFields == {"date", "legal", "tax", "holders", "declared", "declarant"}

(* The documents of a base.                                                *)
SignedBy(list, owners, day) ==
  /\ DOMAIN list = 1..Len(list) /\ Len(list) \in {1, 2}
  /\ \A i \in DOMAIN list : /\ i \in DOMAIN owners
                            /\ list[i] = Sig(owners[i].name, day)

CleanFields(b) ==
  /\ DOMAIN b = Documents
  /\ DOMAIN b.registry = RegistryFields /\ DOMAIN b.circular = CircularFields
  /\ DOMAIN b.ubo = UboFields
  /\ b.registry.tax = "t1" /\ b.circular.tax = "t1" /\ b.ubo.tax = "t1"
  /\ b.registry.legal = LegalForms.full /\ b.circular.legal = LegalForms.full
  /\ b.ubo.legal = LegalForms.full

CleanDays(b) ==
  /\ b.registry.date = 0 /\ b.circular.date \in Nat /\ b.circular.date >= 20
  /\ b.circular.date <= 120 /\ b.ubo.date \in Nat
  /\ b.ubo.date - b.circular.date >= 30 /\ b.ubo.date - b.circular.date <= 200

LongUntil(b, day) == day >= b.ubo.date + 700

CleanPeople(b) ==
  /\ Drawn(b.ubo.holders) /\ b.registry.holders = b.ubo.holders
  /\ b.ubo.declared = Declared(b.ubo.holders)
  /\ b.ubo.declarant = b.ubo.holders[1].name
  /\ \E day \in Nat : LongUntil(b, day)
                      /\ SignedBy(b.circular.signatories, b.ubo.holders, day)

IsClean(b) == CleanFields(b) /\ CleanDays(b) /\ CleanPeople(b)

LEMMA DrawnLength ==
  ASSUME NEW s, Drawn(s)
  PROVE  Len(s) \in {2, 3} /\ DOMAIN s = 1..Len(s)
BY Zenon DEF Drawn

Few(n, s) == n = 1 \/ n = Len(s) - 1

LEMMA FirstFew ==
  ASSUME NEW s, Drawn(s), NEW n, Few(n, s)
  PROVE  n \in {1, 2} /\ 1..n \subseteq DOMAIN s /\ n \in Nat
<1> DEFINE len == Len(s)
           places == DOMAIN s
<1>1. len \in {2, 3} /\ places = 1..len /\ (n = 1 \/ n = len - 1)
  BY DrawnLength DEF Few
<1> HIDE DEF len, places
<1>2. n \in {1, 2} /\ 1..n \subseteq places /\ n \in Nat
  BY <1>1
<1> QED
  BY <1>2 DEF places

LEMMA PeopleAreClean ==
  ASSUME NEW b, Drawn(b.ubo.holders), b.registry.holders = b.ubo.holders,
         b.ubo.declared = Declared(b.ubo.holders), b.ubo.declarant = b.ubo.holders[1].name,
         \E day \in Nat : /\ LongUntil(b, day)
                         /\ SignedBy(b.circular.signatories, b.ubo.holders, day)
  PROVE  CleanPeople(b)
BY Zenon DEF CleanPeople

LEMMA BasesAreClean == \A b \in CleanBases : IsClean(b)
<1> SUFFICES ASSUME NEW b \in CleanBases PROVE IsClean(b)
  OBVIOUS
<1>1. PICK owners \in UNION {OwnersOf(split) : split \in Splits} :
        \E n \in {1, Len(owners) - 1}, circ \in Draw(20, 120), gap \in Draw(30, 200),
           validity \in Draw(700, 1400) :
          b = CleanBase(owners, n, circ, circ + gap, circ + gap + validity)
  BY DEF CleanBases
<1>2. PICK n \in {1, Len(owners) - 1}, circ \in Draw(20, 120), gap \in Draw(30, 200),
           validity \in Draw(700, 1400) :
        b = CleanBase(owners, n, circ, circ + gap, circ + gap + validity)
  BY <1>1
<1>3. Drawn(owners)
  BY OwnersAreDrawn
<1> DEFINE day == circ + gap + validity
           date == circ + gap
           list == [i \in 1..n |-> Sig(owners[i].name, day)]
<1>4. n \in {1, 2} /\ 1..n \subseteq DOMAIN owners /\ n \in Nat
  <2>1. Few(n, owners)
    BY <1>2 DEF Few
  <2> QED
    BY <2>1, <1>3, FirstFew
<1>5. DOMAIN list = 1..n /\ Len(list) = n /\ \A i \in 1..n : list[i] = Sig(owners[i].name, day)
  BY <1>4
<1> HIDE DEF list
<1>6. SignedBy(list, owners, day)
  BY <1>4, <1>5 DEF SignedBy
<1>7. /\ circ \in Nat /\ circ >= 20 /\ circ <= 120 /\ date \in Nat /\ day \in Nat
      /\ date - circ >= 30 /\ date - circ <= 200 /\ day >= date + 700
  <2>1. circ \in 20..120 /\ gap \in 30..200 /\ validity \in 700..1400
    BY <1>2 DEF Draw
  <2> QED
    BY <2>1
<1> DEFINE full == LegalForms.full
<1>8. b = Filing(<<0, circ, date>>, OneLegalName, owners, list, owners, Declared(owners),
                 owners[1].name)
  BY <1>2 DEF CleanBase, list
<1> HIDE DEF day, date, full
<1>9. /\ b.registry = [date |-> 0, legal |-> full, tax |-> "t1", holders |-> owners]
      /\ b.circular = [date |-> circ, legal |-> full, tax |-> "t1", signatories |-> list]
      /\ b.ubo = [date |-> date, legal |-> full, tax |-> "t1", holders |-> owners,
                  declared |-> Declared(owners), declarant |-> owners[1].name]
      /\ DOMAIN b = Documents
  BY <1>8 DEF Filing, OneLegalName, Documents, full
<1>10. /\ DOMAIN b.registry = RegistryFields /\ DOMAIN b.circular = CircularFields
       /\ DOMAIN b.ubo = UboFields
  BY <1>9 DEF RegistryFields, CircularFields, UboFields
<1>11. /\ b.registry.tax = "t1" /\ b.circular.tax = "t1" /\ b.ubo.tax = "t1"
       /\ b.registry.legal = full /\ b.circular.legal = full /\ b.ubo.legal = full
       /\ b.registry.date = 0 /\ b.circular.date = circ /\ b.ubo.date = date
       /\ b.registry.holders = owners /\ b.ubo.holders = owners
       /\ b.ubo.declared = Declared(owners) /\ b.ubo.declarant = owners[1].name
       /\ b.circular.signatories = list
  BY <1>9
<1>12. CleanFields(b)
  BY <1>9, <1>10, <1>11, Zenon DEF CleanFields, full
<1>14. CleanDays(b)
  BY <1>7, <1>11 DEF CleanDays
<1>15. CleanPeople(b)
  <2>1. /\ Drawn(b.ubo.holders) /\ b.registry.holders = b.ubo.holders
        /\ b.ubo.declared = Declared(b.ubo.holders)
        /\ b.ubo.declarant = b.ubo.holders[1].name
    BY <1>3, <1>11
  <2>2. \E until \in Nat : LongUntil(b, until)
                         /\ SignedBy(b.circular.signatories, b.ubo.holders, until)
    BY <1>6, <1>7, <1>11 DEF LongUntil
  <2> QED
    BY <2>1, <2>2, PeopleAreClean
<1> QED
  BY <1>12, <1>14, <1>15 DEF IsClean

-----------------------------------------------------------------------------
(* What the documents of a labelled dossier have in common, part by part,  *)
(* and the check that stays silent because of it.                          *)
Apart(d, codes) ==
  /\ "registry" \in DOMAIN d => DifferentPeople(d.registry.holders)
  /\ "ubo" \in DOMAIN d => DifferentPeople(d.ubo.holders)
  /\ codes \cap {"C1a", "C1b"} # {} =>
       \A i \in DOMAIN d.circular.signatories :
         ~SamePerson(d.ubo.declarant, d.circular.signatories[i].name)

OneEntity(d) ==
  /\ d.registry.tax = "t1" /\ d.circular.tax = "t1" /\ d.ubo.tax = "t1"
  /\ d.registry.legal = LegalForms.full /\ d.circular.legal = LegalForms.full
  /\ d.ubo.legal = LegalForms.full

OwnersAgree(d) ==
  /\ d.registry.holders \in Seq(Paid) /\ d.ubo.holders \in Seq(Paid)
  /\ Paired(d.registry.holders, d.ubo.holders)
  /\ Total(d.registry.holders) = Whole

FirstMaySign(d) ==
  /\ DOMAIN d.circular.signatories \subseteq Nat \ {0} /\ 1 \in DOMAIN d.circular.signatories
  /\ SamePerson(d.ubo.declarant, d.circular.signatories[1].name)
  /\ \E day : d.circular.signatories[1].until = {day} /\ ~(day < d.ubo.date)

SmallShare(x) == x <= Whole /\ Settled(x)

OwnersDeclared(d) ==
  /\ d.ubo.holders \in Seq(Paid) /\ d.ubo.declared = Declared(d.ubo.holders)
  /\ Total(d.ubo.holders) <= Whole
  /\ \A i \in DOMAIN d.ubo.holders : SmallShare(d.ubo.holders[i].pct)

LEMMA OneEntityIsSilent ==
  ASSUME NEW d, DOMAIN d = Documents, OneEntity(d)
  PROVE  IdentityCodes(d) = {}
BY IdentityIs DEF OneEntity

LEMMA AgreedIsSilent ==
  ASSUME NEW d, OwnersAgree(d)
  PROVE  OwnershipCodes(d.registry, d.ubo) = {}
BY PairedIsSilent DEF OwnersAgree

LEMMA SignedIsSilent ==
  ASSUME NEW d, FirstMaySign(d)
  PROVE  AuthorityCodes(d.circular, d.ubo) = {}
<1>1. PICK day : d.circular.signatories[1].until = {day} /\ ~(day < d.ubo.date)
  BY DEF FirstMaySign
<1>2. AuthorityCodes(d.circular, d.ubo) = IF day < d.ubo.date THEN {"C2"} ELSE {}
  BY <1>1, FirstSigns DEF FirstMaySign
<1> QED
  BY <1>1, <1>2

LEMMA DeclaredIsSilent ==
  ASSUME NEW d, OwnersDeclared(d)
  PROVE  UboCodes(d.ubo) = {}
<1>1. \A i \in DOMAIN d.ubo.holders : /\ d.ubo.holders[i].pct <= Whole
                                     /\ Settled(d.ubo.holders[i].pct)
  BY Zenon DEF OwnersDeclared, SmallShare
<1>2. d.ubo.holders \in Seq(Paid) /\ d.ubo.declared = Declared(d.ubo.holders)
      /\ Total(d.ubo.holders) <= Whole
  BY Zenon DEF OwnersDeclared
<1> QED
  BY <1>1, <1>2, DeclaredIsComplete

(* The codes of a dossier with its three documents filled in.              *)
LEMMA CodesOfFilled ==
  ASSUME NEW d, DOMAIN d = Documents, Filled(d)
  PROVE  AllCodes(d) = IdentityCodes(d) \cup OwnershipCodes(d.registry, d.ubo)
                         \cup AuthorityCodes(d.circular, d.ubo) \cup UboCodes(d.ubo)
BY AllCodesOfComplete, CompletenessIs

(* A base has all of it.                                                   *)
Apt(d) == OneEntity(d) /\ OwnersAgree(d) /\ FirstMaySign(d) /\ OwnersDeclared(d)

LEMMA DrawnArePaired ==
  ASSUME NEW s, DifferentPeople(s)
  PROVE  Paired(s, s)
BY DEF Paired, DifferentPeople, SamePerson

LEMMA DrawnAreSmall ==
  ASSUME NEW s, Drawn(s)
  PROVE  /\ s \in Seq(Paid) /\ Total(s) = Whole /\ Total(s) <= Whole
         /\ \A i \in DOMAIN s : SmallShare(s[i].pct)
<1>1. s \in Seq(Paid) /\ Total(s) = Whole /\ \A i \in DOMAIN s : GoodShare(s[i].pct)
  BY Zenon DEF Drawn
<1>2. Total(s) <= Whole
  <2> DEFINE t == Total(s)
  <2>1. t = Whole
    BY <1>1
  <2> HIDE DEF t
  <2>2. t <= Whole
    BY <2>1 DEF Whole, Eps
  <2> QED
    BY <2>2 DEF t
<1>3. \A x : GoodShare(x) => SmallShare(x)
  BY DEF GoodShare, SmallShare, Whole, Eps
<1> QED
  BY <1>1, <1>2, <1>3, Zenon

LEMMA DrawnHasTwo ==
  ASSUME NEW s, Drawn(s)
  PROVE  /\ 1 \in DOMAIN s /\ 2 \in DOMAIN s /\ DOMAIN s \subseteq Nat \ {0} /\ s # << >>
         /\ \A i \in DOMAIN s : i = 1 \/ i = 2 \/ (i = 3 /\ Len(s) = 3)
<1>1. DOMAIN s = 1..Len(s) /\ Len(s) \in {2, 3}
  BY Zenon DEF Drawn
<1> DEFINE n == Len(s)
<1>2. DOMAIN s = 1..n /\ n \in {2, 3}
  BY <1>1
<1> HIDE DEF n
<1>3. /\ 1 \in DOMAIN s /\ 2 \in DOMAIN s /\ DOMAIN s \subseteq Nat \ {0}
      /\ \A i \in DOMAIN s : i = 1 \/ i = 2 \/ (i = 3 /\ n = 3)
  BY <1>2
<1>4. DOMAIN << >> = {}
  OBVIOUS
<1>5. s # << >>
  BY <1>3, <1>4, Zenon
<1> QED
  BY <1>3, <1>5 DEF n

LEMMA BaseIsApt ==
  ASSUME NEW b, IsClean(b), DifferentPeople(b.ubo.holders)
  PROVE  DOMAIN b = Documents /\ Filled(b) /\ Apt(b)
<1>1. DOMAIN b = Documents /\ OneEntity(b)
  BY DEF IsClean, CleanFields, OneEntity
<1> DEFINE s == b.ubo.holders
           list == b.circular.signatories
<1>2. /\ Drawn(s) /\ b.registry.holders = s /\ b.ubo.declared = Declared(s)
      /\ b.ubo.declarant = s[1].name
  BY DEF IsClean, CleanPeople
<1>3. PICK day \in Nat : LongUntil(b, day) /\ SignedBy(list, s, day)
  BY DEF IsClean, CleanPeople
<1>4. s \in Seq(Paid) /\ Total(s) = Whole /\ Total(s) <= Whole
      /\ \A i \in DOMAIN s : SmallShare(s[i].pct)
  BY <1>2, DrawnAreSmall
<1>5. OwnersAgree(b)
  BY <1>2, <1>4, DrawnArePaired, Zenon DEF OwnersAgree
<1>6. OwnersDeclared(b)
  BY <1>2, <1>4, Zenon DEF OwnersDeclared
<1>7. DOMAIN list \subseteq Nat \ {0} /\ 1 \in DOMAIN list /\ list[1] = Sig(s[1].name, day)
  <2>1. DOMAIN list = 1..Len(list) /\ Len(list) \in {1, 2}
    BY <1>3, Zenon DEF SignedBy
  <2> DEFINE n == Len(list)
  <2>2. DOMAIN list = 1..n /\ n \in {1, 2}
    BY <2>1
  <2> HIDE DEF n, list
  <2>3. DOMAIN list \subseteq Nat \ {0} /\ 1 \in DOMAIN list
    BY <2>2
  <2> QED
    BY <1>3, <2>3, Zenon DEF SignedBy
<1>8. ~(day < b.ubo.date)
  BY <1>3 DEF IsClean, CleanDays, LongUntil
<1>9. FirstMaySign(b)
  <2>1. list[1].name = s[1].name /\ list[1].until = {day}
    BY <1>7 DEF Sig
  <2>2. SamePerson(b.ubo.declarant, list[1].name)
    BY <1>2, <2>1 DEF SamePerson
  <2> QED
    BY <1>7, <1>8, <2>1, <2>2, Zenon DEF FirstMaySign
<1>10. Filled(b)
  <2>1. "t1" # Blank
    BY DEF Blank
  <2>2. LegalForms.full # Blank
    BY LegalFormsAssumption
  <2>3. s[1].name # Blank
    <3>1. 1 \in DOMAIN s
      BY <1>2, DrawnHasTwo
    <3> QED
      BY <1>2, <3>1, Zenon DEF Drawn
  <2>4. s # << >>
    BY <1>2, DrawnHasTwo
  <2>5. list # << >>
    BY <1>7
  <2> QED
    BY <1>1, <1>2, <2>1, <2>2, <2>3, <2>4, <2>5 DEF OneEntity, Filled
<1> QED
  BY <1>1, <1>5, <1>6, <1>9, <1>10 DEF Apt

(* What an injector leaves alone stays as it was.                          *)
SameEntities(d, b) ==
  /\ d.registry.tax = b.registry.tax /\ d.circular.tax = b.circular.tax
  /\ d.ubo.tax = b.ubo.tax /\ d.registry.legal = b.registry.legal
  /\ d.circular.legal = b.circular.legal /\ d.ubo.legal = b.ubo.legal

SameHolding(d, b) ==
  d.registry.holders = b.registry.holders /\ d.ubo.holders = b.ubo.holders

SameSigning(d, b) ==
  /\ d.circular.signatories = b.circular.signatories
  /\ d.ubo.declarant = b.ubo.declarant /\ d.ubo.date = b.ubo.date

SameDeclaring(d, b) ==
  d.ubo.holders = b.ubo.holders /\ d.ubo.declared = b.ubo.declared

LEMMA StaysApt ==
  ASSUME NEW d, NEW b
  PROVE  /\ SameEntities(d, b) /\ OneEntity(b) => OneEntity(d)
         /\ SameHolding(d, b) /\ OwnersAgree(b) => OwnersAgree(d)
         /\ SameSigning(d, b) /\ FirstMaySign(b) => FirstMaySign(d)
         /\ SameDeclaring(d, b) /\ OwnersDeclared(b) => OwnersDeclared(d)
<1>1. SameEntities(d, b) /\ OneEntity(b) => OneEntity(d)
  BY DEF SameEntities, OneEntity
<1>2. SameHolding(d, b) /\ OwnersAgree(b) => OwnersAgree(d)
  BY Zenon DEF SameHolding, OwnersAgree
<1>3. SameSigning(d, b) /\ FirstMaySign(b) => FirstMaySign(d)
  BY Zenon DEF SameSigning, FirstMaySign
<1>4. SameDeclaring(d, b) /\ OwnersDeclared(b) => OwnersDeclared(d)
  BY Zenon DEF SameDeclaring, OwnersDeclared
<1> QED
  BY <1>1, <1>2, <1>3, <1>4

(* NONE: the base as it is.                                                *)
LEMMA BaseIsClear ==
  ASSUME NEW b, IsClean(b), Apart(b, {"NONE"})
  PROVE  AllCodes(b) = {}
<1>1. DifferentPeople(b.ubo.holders)
  BY DEF Apart, IsClean, CleanFields, Documents
<1>2. DOMAIN b = Documents /\ Filled(b) /\ Apt(b)
  BY <1>1, BaseIsApt
<1> QED
  BY <1>2, CodesOfFilled, OneEntityIsSilent, AgreedIsSilent, SignedIsSilent, DeclaredIsSilent
     DEF Apt

(* A2: another tax number in the declaration.                              *)
LEMMA A2IsFound ==
  ASSUME NEW b, IsClean(b), NEW d \in InjectA2(b), Apart(d, {"A2"})
  PROVE  AllCodes(d) = {"A2"}
<1>1. d = [b EXCEPT !.ubo.tax = "t2"]
  BY DEF InjectA2
<1>2. /\ DOMAIN d = Documents /\ d.registry = b.registry /\ d.circular = b.circular
      /\ d.ubo.date = b.ubo.date /\ d.ubo.legal = b.ubo.legal /\ d.ubo.tax = "t2"
      /\ SameHolding(d, b) /\ SameSigning(d, b) /\ SameDeclaring(d, b)
  BY <1>1 DEF IsClean, CleanFields, Documents, UboFields, SameHolding, SameSigning,
              SameDeclaring
<1>3. DifferentPeople(b.ubo.holders)
  BY <1>2 DEF Apart, Documents, SameHolding
<1>4. DOMAIN b = Documents /\ Filled(b) /\ Apt(b)
  BY <1>3, BaseIsApt
<1>5. /\ OwnershipCodes(d.registry, d.ubo) = {} /\ AuthorityCodes(d.circular, d.ubo) = {}
      /\ UboCodes(d.ubo) = {}
  BY <1>2, <1>4, StaysApt, AgreedIsSilent, SignedIsSilent, DeclaredIsSilent DEF Apt
<1>6. IdentityCodes(d) = {"A2"}
  BY <1>2, <1>4, IdentityIs DEF Apt, OneEntity
<1>7. Filled(d)
  BY <1>2, <1>4 DEF Filled, SameHolding, SameSigning, Blank
<1> QED
  BY <1>2, <1>5, <1>6, <1>7, CodesOfFilled

(* The first share changed, and the last entry left out.                   *)
IsAdjusted(t, s, x) == t = [s EXCEPT ![1].pct = x]

NoLess(x, y) == x >= y

Short(s) == Len(s) \in {1, 2, 3}

LEMMA AdjustedIs ==
  ASSUME NEW s \in Seq(Paid), Short(s), NEW x \in Nat, NEW t, IsAdjusted(t, s, x)
  PROVE  /\ t \in Seq(Paid) /\ Len(t) = Len(s) /\ DOMAIN t = DOMAIN s
         /\ \A i \in DOMAIN s : t[i].name = s[i].name /\ (i # 1 => t[i] = s[i])
         /\ t[1].pct = x
         /\ Total(t) = Total(s) - s[1].pct + x
<1> DEFINE n == Len(s)
<1>1. n \in {1, 2, 3} /\ DOMAIN s = 1..n /\ n \in Nat /\ \A i \in DOMAIN s : s[i] \in Paid
  BY DEF Short
<1>2. \A p \in Paid : /\ p = [name |-> p.name, pct |-> p.pct]
                      /\ p.name \in STRING /\ p.pct \in Nat
  BY DEF Paid
<1>3. 1 \in DOMAIN s
  BY <1>1
<1>4. /\ DOMAIN t = DOMAIN s /\ t[1] = [s[1] EXCEPT !.pct = x]
      /\ \A i \in DOMAIN s : i # 1 => t[i] = s[i]
  <2>1. DOMAIN t = DOMAIN s
    BY Zenon DEF IsAdjusted
  <2>2. t[1] = [s[1] EXCEPT !.pct = x]
    BY <1>3, Zenon DEF IsAdjusted
  <2>3. \A i \in DOMAIN s : i # 1 => t[i] = s[i]
    BY Zenon DEF IsAdjusted
  <2> QED
    BY <2>1, <2>2, <2>3
<1>5. s[1] \in Paid /\ DOMAIN s[1] = {"name", "pct"}
  <2>1. s[1] \in Paid
    BY <1>1, <1>3
  <2> QED
    BY <2>1 DEF Paid
<1>6. t[1] = [name |-> s[1].name, pct |-> x]
  BY <1>4, <1>5
<1>7. t[1] \in Paid /\ t[1].name = s[1].name /\ t[1].pct = x
  BY <1>2, <1>5, <1>6 DEF Paid
<1> HIDE DEF n
<1>8. \A i \in DOMAIN s : t[i] \in Paid /\ t[i].name = s[i].name
  BY <1>1, <1>4, <1>7, Zenon
<1>9. t \in Seq(Paid) /\ Len(t) = n
  <2>1. t = [i \in 1..n |-> t[i]]
    <3>1. DOMAIN t = 1..n
      BY <1>1, <1>4
    <3> QED
      BY <3>1 DEF IsAdjusted
  <2>2. t \in [1..n -> Paid]
    BY <1>1, <1>8, <2>1
  <2> QED
    BY <1>1, <2>2
<1>10. Total(t) = Total(s) - s[1].pct + x
  <2>1. /\ Total(s) = s[1].pct + (IF n > 1 THEN s[2].pct ELSE 0)
                        + (IF n > 2 THEN s[3].pct ELSE 0)
        /\ Total(t) = t[1].pct + (IF n > 1 THEN t[2].pct ELSE 0)
                        + (IF n > 2 THEN t[3].pct ELSE 0)
    BY <1>1, <1>9, TotalOfThree DEF n
  <2>2. \A i \in DOMAIN s : s[i].pct \in Nat
    BY <1>1, <1>2
  <2>3. s[1].pct \in Nat
    BY <1>3, <2>2
  <2>4. n > 1 => t[2].pct = s[2].pct /\ s[2].pct \in Nat
    BY <1>1, <1>4, <2>2
  <2>5. n > 2 => t[3].pct = s[3].pct /\ s[3].pct \in Nat
    BY <1>1, <1>4, <2>2
  <2> QED
    BY <1>1, <1>7, <2>1, <2>3, <2>4, <2>5
<1> QED
  BY <1>4, <1>7, <1>8, <1>9, <1>10 DEF n

LEMMA FrontIs ==
  ASSUME NEW s \in Seq(Paid), s # << >>
  PROVE  /\ Front(s) \in Seq(Paid) /\ Last(s) \in Paid
         /\ s = Append(Front(s), Last(s))
         /\ Len(s) \in Nat /\ Len(s) > 0 /\ Len(Front(s)) = Len(s) - 1
         /\ DOMAIN Front(s) = 1..(Len(s) - 1) /\ DOMAIN s = 1..Len(s)
         /\ \A i \in DOMAIN Front(s) : i \in DOMAIN s /\ Front(s)[i] = s[i]
         /\ Last(s) = s[Len(s)]
         /\ Total(s) = Total(Front(s)) + Last(s).pct
<1> DEFINE n == Len(s)
           f == SubSeq(s, 1, n - 1)
           l == s[n]
           a == Append(f, l)
<1>1. n \in Nat /\ n > 0 /\ DOMAIN s = 1..n /\ \A i \in 1..n : s[i] \in Paid
  OBVIOUS
<1>2. f \in Seq(Paid) /\ Len(f) = n - 1 /\ \A i \in 1..(n - 1) : f[i] = s[i]
  BY <1>1
<1>3. DOMAIN f = 1..(n - 1) /\ 1..(n - 1) \subseteq 1..n /\ l \in Paid
  BY <1>1, <1>2
<1>4. /\ a \in Seq(Paid) /\ Len(a) = Len(f) + 1 /\ a[Len(f) + 1] = l
      /\ \A i \in 1..Len(f) : a[i] = f[i]
  BY <1>2, <1>3
<1>5. Len(a) = n /\ \A i \in 1..n : a[i] = s[i]
  <2> HIDE DEF a, f, n, l
  <2>1. Len(a) = n /\ a[n] = l /\ \A i \in 1..(n - 1) : a[i] = s[i]
    <3> DEFINE k == Len(f)
    <3>1. k = n - 1 /\ k + 1 = n
      BY <1>1, <1>2
    <3>2. Len(a) = k + 1 /\ a[k + 1] = l /\ \A i \in 1..k : a[i] = f[i]
      BY <1>4
    <3>3. \A i \in 1..k : f[i] = s[i]
      BY <1>2, <3>1
    <3> HIDE DEF k
    <3> QED
      BY <3>1, <3>2, <3>3
  <2>2. \A i \in 1..n : i = n \/ i \in 1..(n - 1)
    BY <1>1
  <2> QED
    BY <2>1, <2>2, Zenon DEF l
<1>6. a = s
  <2>1. a \in Seq(Paid) /\ s \in Seq(Paid) /\ Len(a) = n
    BY <1>4, <1>5
  <2> HIDE DEF a
  <2> QED
    BY <1>5, <2>1
<1>7. Total(a) = Total(f) + l.pct
  BY <1>2, <1>3, TotalOfMore
<1>8. Front(s) = f /\ Last(s) = l
  BY DEF Front, Last
<1> HIDE DEF a, f, l, n
<1>9. /\ f \in Seq(Paid) /\ l \in Paid /\ s = Append(f, l) /\ n \in Nat /\ n > 0
      /\ Len(f) = n - 1 /\ DOMAIN f = 1..(n - 1) /\ DOMAIN s = 1..n
      /\ \A i \in DOMAIN f : i \in DOMAIN s /\ f[i] = s[i]
      /\ l = s[n] /\ Total(s) = Total(f) + l.pct
  <2>1. s = Append(f, l) /\ Total(s) = Total(f) + l.pct
    BY <1>6, <1>7 DEF a
  <2>2. \A i \in DOMAIN f : i \in DOMAIN s /\ f[i] = s[i]
    BY <1>1, <1>2, <1>3, Zenon
  <2>3. l = s[n]
    BY DEF l
  <2> QED
    BY <1>1, <1>2, <1>3, <2>1, <2>2, <2>3
<1> QED
  BY <1>8, <1>9, Zenon DEF n

(* The lists of owners the injectors make of those that were drawn.        *)
LEMMA DrawnShares ==
  ASSUME NEW s, Drawn(s)
  PROVE  /\ Len(s) \in {2, 3} /\ s \in Seq(Paid) /\ s # << >>
         /\ \A i \in DOMAIN s : s[i].pct \in Nat /\ GoodShare(s[i].pct)
         /\ LeadShare(s[1].pct) /\ NextShare(s[2].pct)
         /\ s[1].name \in STRING /\ s[1].name # Blank /\ s[2].name \in STRING
         /\ Total(s) = Whole
<1>1. /\ Len(s) \in {2, 3} /\ s \in Seq(Paid) /\ Total(s) = Whole
      /\ \A i \in DOMAIN s : GoodShare(s[i].pct) /\ s[i].name \in DOMAIN Ascii /\ s[i].name # Blank
      /\ LeadShare(s[1].pct) /\ NextShare(s[2].pct)
  BY Zenon DEF Drawn
<1>2. 1 \in DOMAIN s /\ 2 \in DOMAIN s /\ s # << >>
  BY DrawnHasTwo
<1>3. \A i \in DOMAIN s : s[i].name \in STRING
  BY <1>1, NamesAssumption
<1>4. \A x : GoodShare(x) => x \in Nat
  BY DEF GoodShare
<1> QED
  BY <1>1, <1>2, <1>3, <1>4, Zenon

IsLeft(left, s) == left = [Front(s) EXCEPT ![1].pct = @ + Last(s).pct]

LEMMA LeftIs ==
  ASSUME NEW s, Drawn(s), DifferentPeople(s), NEW left, IsLeft(left, s)
  PROVE  /\ left \in Seq(Paid) /\ Total(left) = Whole /\ Len(left) # Len(s)
         /\ 1 \in DOMAIN left /\ left[1].name = s[1].name
         /\ \A i \in DOMAIN left : SmallShare(left[i].pct)
         /\ OneToOne(s, left)
         /\ SamePerson(s[1].name, left[1].name)
         /\ \A i \in DOMAIN s, j \in DOMAIN left :
              SamePerson(s[i].name, left[j].name) => NoLess(left[j].pct, s[i].pct)
<1> DEFINE f == Front(s)
           l == Last(s)
           x == f[1].pct + l.pct
<1>1. /\ Len(s) \in {2, 3} /\ s \in Seq(Paid) /\ s # << >> /\ Total(s) = Whole
      /\ \A i \in DOMAIN s : s[i].pct \in Nat /\ GoodShare(s[i].pct)
      /\ LeadShare(s[1].pct)
  BY DrawnShares
<1>2. /\ f \in Seq(Paid) /\ l \in Paid /\ Len(f) = Len(s) - 1
      /\ \A i \in DOMAIN f : i \in DOMAIN s /\ f[i] = s[i]
      /\ Total(s) = Total(f) + l.pct
  BY <1>1, FrontIs
<1>3. Len(f) \in {1, 2, 3} /\ Len(f) # Len(s) /\ 1 \in DOMAIN f
  <2> DEFINE n == Len(s)
             m == Len(f)
  <2>1. n \in {2, 3} /\ m = n - 1 /\ DOMAIN f = 1..m
    BY <1>1, <1>2
  <2> HIDE DEF n, m
  <2>2. m \in {1, 2, 3} /\ m # n /\ 1 \in 1..m
    BY <2>1
  <2> QED
    BY <2>1, <2>2 DEF n, m
<1>4. l.pct \in Nat /\ f[1] = s[1] /\ x \in Nat /\ NoLess(x, s[1].pct)
      /\ Total(f) \in Nat
  <2>1. l.pct \in Nat
    BY <1>2 DEF Paid
  <2>2. f[1] = s[1]
    BY <1>2, <1>3, Zenon
  <2>3. Total(f) \in Nat
    BY <1>2, TotalOfPaid
  <2> HIDE DEF l, f
  <2> QED
    BY <1>1, <2>1, <2>2, <2>3 DEF NoLess, LeadShare
<1>5. IsAdjusted(left, f, x)
  BY DEF IsAdjusted, IsLeft
<1> HIDE DEF f, l, x
<1>6. /\ left \in Seq(Paid) /\ Len(left) = Len(f) /\ DOMAIN left = DOMAIN f
      /\ \A i \in DOMAIN f : left[i].name = f[i].name /\ (i # 1 => left[i] = f[i])
      /\ left[1].pct = x /\ Total(left) = Total(f) - f[1].pct + x
  <2>1. Short(f)
    BY <1>3 DEF Short
  <2> QED
    BY <1>2, <1>4, <1>5, <2>1, AdjustedIs
<1>7. Total(left) = Whole
  <2>1. Total(left) = Total(f) - f[1].pct + (f[1].pct + l.pct) /\ f[1].pct \in Nat
    BY <1>1, <1>4, <1>6 DEF x, LeadShare
  <2> QED
    BY <1>1, <1>2, <1>4, <2>1
<1>8. \A i \in DOMAIN left : i \in DOMAIN s /\ left[i].name = s[i].name
                             /\ left[i].pct \in Nat /\ NoLess(left[i].pct, s[i].pct)
  <2> SUFFICES ASSUME NEW i \in DOMAIN left
               PROVE  i \in DOMAIN s /\ left[i].name = s[i].name
                      /\ left[i].pct \in Nat /\ NoLess(left[i].pct, s[i].pct)
    OBVIOUS
  <2>1. i \in DOMAIN f /\ i \in DOMAIN s /\ f[i] = s[i] /\ left[i].name = f[i].name
    BY <1>2, <1>6, Zenon
  <2>2. CASE i = 1
    <3>1. left[i].pct = x
      BY <1>6, <2>2
    <3> QED
      BY <1>4, <2>1, <2>2, <3>1
  <2>3. CASE i # 1
    <3>1. left[i] = s[i]
      BY <1>6, <2>1, <2>3, Zenon
    <3>2. s[i].pct \in Nat
      BY <1>1, <2>1, Zenon
    <3>3. NoLess(s[i].pct, s[i].pct)
      BY <3>2 DEF NoLess
    <3> QED
      BY <2>1, <3>1, <3>2, <3>3, Zenon
  <2> QED
    BY <2>2, <2>3
<1>9. \A i \in DOMAIN left : SmallShare(left[i].pct)
  <2>1. \A i \in DOMAIN left : i # 1 => left[i] = s[i] /\ i \in DOMAIN s
    BY <1>2, <1>6, Zenon
  <2>2. \A y : GoodShare(y) => SmallShare(y)
    BY DEF GoodShare, SmallShare, Whole, Eps
  <2>3. \A i \in DOMAIN left : i # 1 => SmallShare(left[i].pct)
    BY <1>1, <2>1, <2>2, Zenon
  <2>4. x <= Whole
    <3> DEFINE a == f[1].pct
               n == Len(f)
               b == f[2].pct
    <3>1. Total(f) = a + (IF n > 1 THEN b ELSE 0) + (IF n > 2 THEN f[3].pct ELSE 0)
      BY <1>2, <1>3, TotalOfThree
    <3>2. \A i \in DOMAIN f : f[i].pct \in Nat
      BY <1>2, PaidAreShares
    <3>3. DOMAIN f = 1..n /\ n \in {1, 2, 3} /\ a \in Nat
      BY <1>1, <1>2, <1>3, <1>4 DEF LeadShare
    <3> HIDE DEF n
    <3>4. (n > 1 => b \in Nat) /\ (n > 2 => f[3].pct \in Nat)
      BY <3>2, <3>3
    <3>5. Total(f) >= a
      BY <3>1, <3>3, <3>4
    <3>6. Total(f) + l.pct = Whole
      BY <1>1, <1>2
    <3> QED
      BY <1>4, <3>3, <3>5, <3>6 DEF x
  <2>5. SmallShare(left[1].pct)
    <3>1. SmallShare(x)
      BY <1>1, <1>4, <2>4 DEF SmallShare, Settled, UboThreshold, Eps, Whole, LeadShare, NoLess
    <3> QED
      BY <1>6, <3>1
  <2> QED
    BY <2>3, <2>5, Zenon
<1>10. \A i \in DOMAIN s, j \in DOMAIN left : SamePerson(s[i].name, left[j].name) => i = j
  BY <1>8, Zenon DEF DifferentPeople
<1>11. OneToOne(s, left)
  BY <1>8, <1>10, Zenon DEF OneToOne, AtMostOne
<1>12. \A i \in DOMAIN s, j \in DOMAIN left :
         SamePerson(s[i].name, left[j].name) => NoLess(left[j].pct, s[i].pct)
  BY <1>8, <1>10, Zenon
<1>13. 1 \in DOMAIN left /\ left[1].name = s[1].name
  BY <1>3, <1>6, <1>8, Zenon
<1>14. SamePerson(s[1].name, left[1].name)
  BY <1>13 DEF SamePerson
<1>15. Len(left) # Len(s)
  BY <1>3, <1>6
<1> QED
  BY <1>6, <1>7, <1>9, <1>11, <1>12, <1>13, <1>14, <1>15, Zenon

(* B1a and B1b: the last owner's share goes to the first, in a newer or in *)
(* an older declaration.                                                   *)
IsTransferred(d, b, day) ==
  /\ DOMAIN d = Documents /\ SameEntities(d, b)
  /\ d.registry.holders = b.ubo.holders
  /\ IsLeft(d.ubo.holders, b.ubo.holders)
  /\ d.ubo.declared = Declared(d.ubo.holders)
  /\ d.ubo.declarant = d.ubo.holders[1].name
  /\ d.circular.signatories = <<Sig(d.ubo.holders[1].name, day)>>
  /\ ~(day < d.ubo.date)

LEMMA TransferIsFound ==
  ASSUME NEW b, IsClean(b), NEW d, NEW day, IsTransferred(d, b, day),
         DifferentPeople(b.ubo.holders)
  PROVE  AllCodes(d) = IF d.ubo.date > d.registry.date THEN {"B1a"} ELSE {"B1b"}
<1> DEFINE s == b.ubo.holders
           left == d.ubo.holders
<1>1. DOMAIN b = Documents /\ Filled(b) /\ Apt(b) /\ Drawn(s)
  BY BaseIsApt DEF IsClean, CleanPeople
<1>2. IsLeft(left, s) /\ d.registry.holders = s /\ DifferentPeople(s)
  BY DEF IsTransferred
<1>3. /\ left \in Seq(Paid) /\ Total(left) = Whole /\ Len(left) # Len(s)
      /\ 1 \in DOMAIN left /\ left[1].name = s[1].name
      /\ \A i \in DOMAIN left : SmallShare(left[i].pct)
      /\ OneToOne(s, left)
      /\ SamePerson(s[1].name, left[1].name)
      /\ \A i \in DOMAIN s, j \in DOMAIN left :
           SamePerson(s[i].name, left[j].name) => NoLess(left[j].pct, s[i].pct)
  BY <1>1, <1>2, LeftIs
<1>4. s \in Seq(Paid) /\ Total(s) = Whole /\ 1 \in DOMAIN s /\ s # << >> /\ s[1].name # Blank
  BY <1>1, DrawnShares, DrawnHasTwo
<1>5. OwnershipCodes(d.registry, d.ubo) = IF d.ubo.date > d.registry.date THEN {"B1a"} ELSE {"B1b"}
  <2>1. ~SameHolders(s, left, Eps)
    BY <1>3, Zenon DEF SameHolders
  <2>2. \A i \in DOMAIN s, j \in DOMAIN left :
          SamePerson(s[i].name, left[j].name) => left[j].pct >= s[i].pct
    BY <1>3 DEF NoLess
  <2>3. \E i \in DOMAIN s, j \in DOMAIN left : SamePerson(s[i].name, left[j].name)
    BY <1>3, <1>4, Zenon
  <2>4. /\ d.registry.holders \in Seq(Paid) /\ d.ubo.holders \in Seq(Paid)
        /\ OneToOne(d.registry.holders, d.ubo.holders)
        /\ Total(d.registry.holders) = Whole /\ Total(d.ubo.holders) = Whole
        /\ ~SameHolders(d.registry.holders, d.ubo.holders, Eps)
    BY <1>2, <1>3, <1>4, <2>1
  <2>5. \E i \in DOMAIN d.registry.holders, j \in DOMAIN d.ubo.holders :
          SamePerson(d.registry.holders[i].name, d.ubo.holders[j].name)
    BY <1>2, <2>3
  <2>6. \A i \in DOMAIN d.registry.holders, j \in DOMAIN d.ubo.holders :
          SamePerson(d.registry.holders[i].name, d.ubo.holders[j].name)
            => d.ubo.holders[j].pct >= d.registry.holders[i].pct
    BY <1>2, <2>2
  <2> QED
    BY <2>4, <2>5, <2>6, ExitCodes
<1>6. IdentityCodes(d) = {}
  BY <1>1, StaysApt, OneEntityIsSilent DEF IsTransferred, Apt
<1>7. AuthorityCodes(d.circular, d.ubo) = {}
  <2> DEFINE list == d.circular.signatories
  <2>1. list = <<Sig(left[1].name, day)>>
    BY DEF IsTransferred
  <2>2. DOMAIN list \subseteq Nat \ {0} /\ 1 \in DOMAIN list /\ list[1] = Sig(left[1].name, day)
    BY <2>1
  <2> HIDE DEF list, left
  <2>3. list[1].name = left[1].name /\ list[1].until = {day}
    BY <2>2 DEF Sig
  <2>4. SamePerson(d.ubo.declarant, list[1].name)
    BY <2>3 DEF SamePerson, IsTransferred, left
  <2>5. FirstMaySign(d)
    <3>1. ~(day < d.ubo.date)
      BY DEF IsTransferred
    <3> QED
      BY <2>2, <2>3, <2>4, <3>1, Zenon DEF FirstMaySign, list
  <2> QED
    BY <2>5, SignedIsSilent
<1>8. UboCodes(d.ubo) = {}
  <2>1. Total(left) <= Whole
    <3> DEFINE t == Total(left)
    <3>1. t = Whole
      BY <1>3
    <3> HIDE DEF t
    <3>2. t <= Whole
      BY <3>1 DEF Whole, Eps
    <3> QED
      BY <3>2 DEF t
  <2>2. OwnersDeclared(d)
    BY <1>3, <2>1, Zenon DEF OwnersDeclared, IsTransferred
  <2> QED
    BY <2>2, DeclaredIsSilent
<1>9. Filled(d)
  <2>1. d.circular.signatories # << >>
    BY DEF IsTransferred
  <2>2. d.ubo.declarant # Blank
    BY <1>3, <1>4 DEF IsTransferred
  <2>3. /\ d.registry.tax = "t1" /\ d.circular.tax = "t1" /\ d.ubo.tax = "t1"
        /\ d.registry.legal = LegalForms.full
    BY <1>1 DEF IsTransferred, SameEntities, Apt, OneEntity
  <2> QED
    BY <1>2, <1>4, <2>1, <2>2, <2>3, LegalFormsAssumption DEF Filled, Blank
<1>10. DOMAIN d = Documents
  BY DEF IsTransferred
<1> QED
  BY <1>5, <1>6, <1>7, <1>8, <1>9, <1>10, CodesOfFilled

IsTransferOf(e, b, day) == e = Transferred(b, day)

LEMMA TransferIs ==
  ASSUME NEW b, IsClean(b), NEW day, NEW e, IsTransferOf(e, b, day)
  PROVE  /\ DOMAIN e = Documents /\ DOMAIN e.ubo = UboFields /\ SameEntities(e, b)
         /\ e.registry = b.registry /\ e.ubo.date = b.ubo.date
         /\ e.registry.holders = b.ubo.holders /\ IsLeft(e.ubo.holders, b.ubo.holders)
         /\ e.ubo.declared = Declared(e.ubo.holders)
         /\ e.ubo.declarant = e.ubo.holders[1].name
         /\ e.circular.signatories = <<Sig(e.ubo.holders[1].name, day)>>
<1> DEFINE s == b.registry.holders
           left == [Front(s) EXCEPT ![1].pct = @ + Last(s).pct]
<1>1. e = [b EXCEPT !.ubo.holders = left, !.ubo.declared = Declared(left),
                    !.ubo.declarant = left[1].name,
                    !.circular.signatories = <<Sig(left[1].name, day)>>]
  BY DEF IsTransferOf, Transferred
<1>2. s = b.ubo.holders /\ IsLeft(left, s)
  BY DEF IsClean, CleanPeople, IsLeft
<1> HIDE DEF left
<1>3. /\ DOMAIN b = Documents /\ DOMAIN b.ubo = UboFields /\ DOMAIN b.circular = CircularFields
  BY DEF IsClean, CleanFields
<1>4. /\ DOMAIN e = Documents /\ DOMAIN e.ubo = UboFields /\ SameEntities(e, b)
      /\ e.registry = b.registry /\ e.ubo.date = b.ubo.date
      /\ e.ubo.holders = left /\ e.ubo.declared = Declared(left)
      /\ e.ubo.declarant = left[1].name
      /\ e.circular.signatories = <<Sig(left[1].name, day)>>
  BY <1>1, <1>3 DEF SameEntities, Documents, UboFields, CircularFields
<1> QED
  BY <1>2, <1>4

LEMMA B1aIsFound ==
  ASSUME NEW b, IsClean(b), NEW d \in InjectB1a(b), Apart(d, {"B1a"})
  PROVE  AllCodes(d) = {"B1a"}
<1> DEFINE day == b.ubo.date + 900
<1>1. IsTransferOf(d, b, day)
  BY DEF InjectB1a, IsTransferOf
<1>2. b.ubo.date \in Nat /\ b.registry.date = 0 /\ b.ubo.date > 0
  BY DEF IsClean, CleanDays
<1>3. ~(day < b.ubo.date)
  BY <1>2
<1> HIDE DEF day
<1>4. IsTransferred(d, b, day) /\ d.ubo.date > d.registry.date
  BY <1>1, <1>2, <1>3, TransferIs DEF IsTransferred
<1>5. DifferentPeople(b.ubo.holders)
  BY <1>4 DEF Apart, IsTransferred, Documents
<1> QED
  BY <1>4, <1>5, TransferIsFound

LEMMA B1bIsFound ==
  ASSUME NEW b, IsClean(b), NEW d \in InjectB1b(b), Apart(d, {"B1b"})
  PROVE  AllCodes(d) = {"B1b"}
<1> DEFINE day == b.registry.date + 1200
           e == Transferred(b, day)
<1>1. PICK days \in Draw(200, 900) : d = [e EXCEPT !.ubo.date = b.registry.date - days]
  BY DEF InjectB1b
<1> DEFINE before == b.registry.date - days
<1>2. b.registry.date = 0 /\ ~(day < before) /\ ~(before > b.registry.date)
  BY DEF IsClean, CleanDays, Draw
<1>3. IsTransferOf(e, b, day)
  BY DEF IsTransferOf
<1> HIDE DEF day, e, before
<1>4. /\ DOMAIN e = Documents /\ DOMAIN e.ubo = UboFields /\ SameEntities(e, b)
      /\ e.registry = b.registry
      /\ e.registry.holders = b.ubo.holders /\ IsLeft(e.ubo.holders, b.ubo.holders)
      /\ e.ubo.declared = Declared(e.ubo.holders)
      /\ e.ubo.declarant = e.ubo.holders[1].name
      /\ e.circular.signatories = <<Sig(e.ubo.holders[1].name, day)>>
  BY <1>3, TransferIs
<1>5. /\ DOMAIN d = Documents /\ d.registry = e.registry /\ d.circular = e.circular
      /\ d.ubo.date = before /\ d.ubo.tax = e.ubo.tax /\ d.ubo.legal = e.ubo.legal
      /\ d.ubo.holders = e.ubo.holders /\ d.ubo.declared = e.ubo.declared
      /\ d.ubo.declarant = e.ubo.declarant
  BY <1>1, <1>4 DEF Documents, UboFields, before
<1>6. SameEntities(d, b)
  BY <1>4, <1>5 DEF SameEntities
<1>7. IsTransferred(d, b, day) /\ ~(d.ubo.date > d.registry.date)
  BY <1>2, <1>4, <1>5, <1>6 DEF IsTransferred
<1>8. DifferentPeople(b.ubo.holders)
  BY <1>7 DEF Apart, IsTransferred, Documents
<1> QED
  BY <1>7, <1>8, TransferIsFound

(* B2a and B2b: holdings that do not come to 100 percent.                  *)
Owing(x) == x + Eps >= UboThreshold

Bounded(x) == x <= Whole

LEMMA DueIs ==
  ASSUME NEW s, s \in Seq(Paid), Bounded(Total(s)), \A i \in DOMAIN s : SmallShare(s[i].pct)
  PROVE  /\ Declared(s) \in Seq(Paid) /\ Bounded(Total(Declared(s)))
         /\ \A j \in DOMAIN Declared(s) : Bounded(Declared(s)[j].pct)
         /\ \A i \in DOMAIN s : Owing(s[i].pct) =>
              \E j \in DOMAIN Declared(s) : Declared(s)[j] = s[i]
<1> DEFINE due == Declared(s)
<1>1. due \in Seq(Paid) /\ AreDue(due, s)
  BY DeclaredAreDue
<1>2. PICK h : IsFrom(h, due, s)
  BY <1>1 DEF AreDue
<1>3. Bounded(Total(due))
  <2>1. Total(due) \in Nat /\ Total(s) \in Nat /\ Total(due) <= Total(s)
    BY <1>1, TotalOfPaid DEF AreDue
  <2> DEFINE t == Total(due)
             u == Total(s)
  <2>2. t \in Nat /\ u \in Nat /\ t <= u /\ Bounded(u)
    BY <2>1
  <2> HIDE DEF t, u
  <2>3. Bounded(t)
    BY <2>2 DEF Bounded, Whole, Eps
  <2> QED
    BY <2>3 DEF t
<1> HIDE DEF due
<1>4. \A j \in DOMAIN due : h[j] \in DOMAIN s /\ due[j] = s[h[j]]
  BY <1>2 DEF IsFrom
<1>5. \A x : SmallShare(x) => Bounded(x)
  BY DEF SmallShare, Bounded
<1>6. \A j \in DOMAIN due : Bounded(due[j].pct)
  BY <1>4, <1>5, Zenon
<1>7. \A i \in DOMAIN s : s[i].pct \in Nat
  BY PaidAreShares
<1>8. \A x \in Nat : Owing(x) /\ SmallShare(x) => x + 1 >= UboThreshold
  BY DEF Owing, SmallShare, Settled, Eps, UboThreshold
<1>9. ASSUME NEW i \in DOMAIN s, Owing(s[i].pct)
      PROVE  \E j \in DOMAIN due : due[j] = s[i]
  <2>1. IsDue(s[i])
    BY <1>7, <1>8, <1>9 DEF IsDue
  <2>2. PICK j \in DOMAIN due : h[j] = i
    BY <1>2, <2>1 DEF IsFrom
  <2> QED
    BY <1>4, <2>2
<1> QED
  BY <1>1, <1>3, <1>6, <1>9 DEF due

ChangedShare(x) == x >= 26000 /\ x <= 85000

(* What the injectors of B2 make of the owners.                            *)
LEMMA ChangedIs ==
  ASSUME NEW s, Drawn(s), NEW x \in Nat, ChangedShare(x), NEW t, IsAdjusted(t, s, x)
  PROVE  /\ t \in Seq(Paid) /\ t # << >> /\ DOMAIN t = DOMAIN s /\ t[1].name = s[1].name
         /\ \A i \in DOMAIN t : SmallShare(t[i].pct) /\ t[i].name = s[i].name
                                /\ (Owing(t[i].pct) => Owing(s[i].pct))
         /\ Total(t) = Whole - s[1].pct + x
<1>1. /\ s \in Seq(Paid) /\ Total(s) = Whole /\ 1 \in DOMAIN s /\ LeadShare(s[1].pct)
      /\ \A i \in DOMAIN s : GoodShare(s[i].pct)
  BY DrawnShares, DrawnHasTwo
<1>2. Short(s)
  BY DrawnShares DEF Short
<1>3. /\ t \in Seq(Paid) /\ DOMAIN t = DOMAIN s
      /\ \A i \in DOMAIN s : t[i].name = s[i].name /\ (i # 1 => t[i] = s[i])
      /\ t[1].pct = x /\ Total(t) = Total(s) - s[1].pct + x
  BY <1>1, <1>2, AdjustedIs
<1>4. SmallShare(x) /\ Owing(s[1].pct)
  BY <1>1 DEF SmallShare, Settled, Owing, LeadShare, ChangedShare, Whole, Eps, UboThreshold
<1>5. \A y : GoodShare(y) => SmallShare(y)
  BY DEF GoodShare, SmallShare, Whole, Eps
<1>6. ASSUME NEW i \in DOMAIN t
      PROVE  SmallShare(t[i].pct) /\ t[i].name = s[i].name
             /\ (Owing(t[i].pct) => Owing(s[i].pct))
  <2>1. CASE i = 1
    BY <1>1, <1>3, <1>4, <2>1
  <2>2. CASE i # 1
    <3>1. t[i] = s[i] /\ i \in DOMAIN s
      BY <1>3, <2>2
    <3> QED
      BY <1>1, <1>5, <3>1
  <2> QED
    BY <2>1, <2>2
<1>7. t # << >>
  <2>1. DOMAIN << >> = {}
    OBVIOUS
  <2>2. DOMAIN t # {}
    BY <1>1, <1>3
  <2> QED
    BY <2>1, <2>2, Zenon
<1> QED
  BY <1>1, <1>3, <1>6, <1>7

LEMMA NamesStayApart ==
  ASSUME NEW t, NEW s, DOMAIN t = DOMAIN s, \A i \in DOMAIN t : t[i].name = s[i].name,
         DifferentPeople(t)
  PROVE  DifferentPeople(s)
<1>1. SUFFICES ASSUME NEW i \in DOMAIN s, NEW j \in DOMAIN s, i # j
               PROVE  ~SamePerson(s[i].name, s[j].name)
  BY DEF DifferentPeople
<1>2. ~SamePerson(t[i].name, t[j].name)
  BY <1>1 DEF DifferentPeople
<1>3. t[i].name = s[i].name /\ t[j].name = s[j].name
  OBVIOUS
<1> QED
  BY <1>2, <1>3

(* What a change of holders and declared owners does to the documents.     *)
IsRedrawn(d, b, t, due) ==
  d = [b EXCEPT !.registry.holders = t, !.ubo.holders = t, !.ubo.declared = due]

LEMMA RestStays ==
  ASSUME NEW b, CleanFields(b), NEW t, NEW due, NEW d, IsRedrawn(d, b, t, due)
  PROVE  /\ DOMAIN d = Documents /\ SameEntities(d, b) /\ SameSigning(d, b)
         /\ d.registry.holders = t /\ d.ubo.holders = t /\ d.ubo.declared = due
BY DEF IsRedrawn, CleanFields, SameEntities, SameSigning, Documents, UboFields, CircularFields,
       RegistryFields

(* The same change in both lists.                                          *)
IsChanged(d, b, x) ==
  /\ DOMAIN d = Documents /\ SameEntities(d, b) /\ SameSigning(d, b)
  /\ d.registry.holders = d.ubo.holders
  /\ IsAdjusted(d.ubo.holders, b.ubo.holders, x)

LEMMA ChangeIsFound ==
  ASSUME NEW b, IsClean(b), NEW d, NEW x \in Nat, IsChanged(d, b, x), ChangedShare(x),
         DifferentPeople(d.ubo.holders), UboCodes(d.ubo) = {}
  PROVE  /\ x < b.ubo.holders[1].pct - Eps => AllCodes(d) = {"B2a"}
         /\ x > b.ubo.holders[1].pct + Eps => AllCodes(d) = {"B2b"}
<1> DEFINE s == b.ubo.holders
           t == d.ubo.holders
<1>1. Drawn(s) /\ IsAdjusted(t, s, x) /\ d.registry.holders = t
  BY DEF IsClean, CleanPeople, IsChanged
<1>2. /\ t \in Seq(Paid) /\ t # << >> /\ DOMAIN t = DOMAIN s
      /\ \A i \in DOMAIN t : t[i].name = s[i].name
      /\ Total(t) = Whole - s[1].pct + x
  BY <1>1, ChangedIs
<1>3. LeadShare(s[1].pct)
  BY <1>1, DrawnShares
<1>4. DifferentPeople(s)
  BY <1>2, NamesStayApart
<1>5. DOMAIN b = Documents /\ Filled(b) /\ Apt(b)
  BY <1>4, BaseIsApt
<1>6. IdentityCodes(d) = {} /\ AuthorityCodes(d.circular, d.ubo) = {} /\ DOMAIN d = Documents
  BY <1>5, StaysApt, OneEntityIsSilent, SignedIsSilent DEF IsChanged, Apt
<1>7. /\ Total(t) > Whole + Eps => OwnershipCodes(d.registry, d.ubo) = {"B2b"}
      /\ Total(t) < Whole - Eps => OwnershipCodes(d.registry, d.ubo) = {"B2a"}
  BY <1>1, <1>2, SumsAreOff
<1>8. /\ x > s[1].pct + Eps => Total(t) > Whole + Eps
      /\ x < s[1].pct - Eps => Total(t) < Whole - Eps
  <2> DEFINE total == Total(t)
             lead == s[1].pct
  <2>1. total = Whole - lead + x /\ lead \in Nat
    BY <1>2, <1>3 DEF LeadShare
  <2> HIDE DEF total, lead
  <2>2. /\ x > lead + Eps => total > Whole + Eps
        /\ x < lead - Eps => total < Whole - Eps
    BY <2>1 DEF Whole, Eps
  <2> QED
    BY <2>2 DEF total, lead
<1>9. Filled(d)
  <2>1. /\ d.registry.tax = b.registry.tax /\ d.circular.tax = b.circular.tax
        /\ d.ubo.tax = b.ubo.tax /\ d.registry.legal = b.registry.legal
        /\ d.ubo.declarant = b.ubo.declarant
        /\ d.circular.signatories = b.circular.signatories
    BY DEF IsChanged, SameEntities, SameSigning
  <2> QED
    BY <1>1, <1>2, <1>5, <2>1 DEF Filled
<1> QED
  BY <1>6, <1>7, <1>8, <1>9, CodesOfFilled

LEMMA B2aIsFound ==
  ASSUME NEW b, IsClean(b), NEW d \in InjectB2a(b), Apart(d, {"B2a"})
  PROVE  AllCodes(d) = {"B2a"}
<1> DEFINE s == b.ubo.holders
<1>1. PICK drop \in {3000, 5000, 8000} :
        d = [b EXCEPT !.registry.holders = [s EXCEPT ![1].pct = @ - drop],
                      !.ubo.holders = [s EXCEPT ![1].pct = @ - drop],
                      !.ubo.declared = Declared([s EXCEPT ![1].pct = @ - drop])]
  BY DEF InjectB2a
<1> DEFINE x == s[1].pct - drop
           t == [s EXCEPT ![1].pct = @ - drop]
<1>2. Drawn(s) /\ LeadShare(s[1].pct)
  BY DrawnShares DEF IsClean, CleanPeople
<1>3. x \in Nat /\ ChangedShare(x) /\ x < s[1].pct - Eps
  BY <1>2 DEF LeadShare, ChangedShare, Eps
<1>4. IsAdjusted(t, s, x)
  BY DEF IsAdjusted
<1> HIDE DEF t, x
<1>5. /\ DOMAIN d = Documents /\ SameEntities(d, b) /\ SameSigning(d, b)
      /\ d.registry.holders = t /\ d.ubo.holders = t /\ d.ubo.declared = Declared(t)
  <2>1. IsRedrawn(d, b, t, Declared(t))
    BY <1>1 DEF IsRedrawn, t
  <2> QED
    BY <2>1, RestStays DEF IsClean
<1>6. IsChanged(d, b, x)
  BY <1>4, <1>5 DEF IsChanged
<1>7. DifferentPeople(d.ubo.holders)
  BY <1>5 DEF Apart, Documents
<1>8. UboCodes(d.ubo) = {}
  <2>1. /\ t \in Seq(Paid) /\ \A i \in DOMAIN t : SmallShare(t[i].pct)
        /\ Total(t) = Whole - s[1].pct + x
    BY <1>2, <1>3, <1>4, ChangedIs
  <2> DEFINE total == Total(t)
             lead == s[1].pct
  <2>2. total = Whole - lead + x /\ x < lead - Eps /\ lead \in Nat /\ x \in Nat
    BY <1>2, <1>3, <2>1 DEF LeadShare
  <2> HIDE DEF total, lead
  <2>4. total <= Whole
    BY <2>2 DEF Whole, Eps
  <2>3. OwnersDeclared(d)
    BY <1>5, <2>1, <2>4 DEF OwnersDeclared, total
  <2> QED
    BY <2>3, DeclaredIsSilent
<1> QED
  BY <1>3, <1>6, <1>7, <1>8, ChangeIsFound

LEMMA B2bIsFound ==
  ASSUME NEW b, IsClean(b), NEW d \in InjectB2b(b), Apart(d, {"B2b"})
  PROVE  AllCodes(d) = {"B2b"}
<1> DEFINE s == b.ubo.holders
<1>1. PICK add \in {5000, 10000, 15000} :
        d = [b EXCEPT !.registry.holders = [s EXCEPT ![1].pct = @ + add],
                      !.ubo.holders = [s EXCEPT ![1].pct = @ + add],
                      !.ubo.declared = Declared(s)]
  BY DEF InjectB2b
<1> DEFINE x == s[1].pct + add
           t == [s EXCEPT ![1].pct = @ + add]
<1>2. Drawn(s) /\ LeadShare(s[1].pct)
  BY DrawnShares DEF IsClean, CleanPeople
<1>3. x \in Nat /\ ChangedShare(x) /\ x > s[1].pct + Eps
  BY <1>2 DEF LeadShare, ChangedShare, Eps
<1>4. IsAdjusted(t, s, x)
  BY DEF IsAdjusted
<1> HIDE DEF t, x
<1>5. /\ DOMAIN d = Documents /\ SameEntities(d, b) /\ SameSigning(d, b)
      /\ d.registry.holders = t /\ d.ubo.holders = t /\ d.ubo.declared = Declared(s)
  <2>1. IsRedrawn(d, b, t, Declared(s))
    BY <1>1 DEF IsRedrawn, t
  <2> QED
    BY <2>1, RestStays DEF IsClean
<1>6. IsChanged(d, b, x)
  BY <1>4, <1>5 DEF IsChanged
<1>7. DifferentPeople(d.ubo.holders)
  BY <1>5 DEF Apart, Documents
<1>8. UboCodes(d.ubo) = {}
  <2>1. /\ t \in Seq(Paid) /\ DOMAIN t = DOMAIN s
        /\ \A i \in DOMAIN t : t[i].name = s[i].name /\ (Owing(t[i].pct) => Owing(s[i].pct))
    BY <1>2, <1>3, <1>4, ChangedIs
  <2>2. s \in Seq(Paid) /\ Bounded(Total(s)) /\ \A i \in DOMAIN s : SmallShare(s[i].pct)
    BY <1>2, DrawnAreSmall DEF Bounded
  <2> HIDE DEF s
  <2>3. /\ Declared(s) \in Seq(Paid) /\ Bounded(Total(Declared(s)))
        /\ \A j \in DOMAIN Declared(s) : Bounded(Declared(s)[j].pct)
        /\ \A i \in DOMAIN s : Owing(s[i].pct) =>
             \E j \in DOMAIN Declared(s) : Declared(s)[j] = s[i]
    BY <2>2, DueIs
  <2> DEFINE due == Declared(s)
  <2>4. ASSUME NEW i \in DOMAIN t, Owing(t[i].pct)
        PROVE  \E j \in DOMAIN due : SamePerson(t[i].name, due[j].name)
    <3>1. i \in DOMAIN s /\ t[i].name = s[i].name /\ Owing(s[i].pct)
      BY <2>1, <2>4
    <3>2. PICK j \in DOMAIN due : due[j] = s[i]
      BY <2>3, <3>1
    <3>3. t[i].name = due[j].name
      BY <3>1, <3>2
    <3> QED
      BY <3>3 DEF SamePerson
  <2> HIDE DEF due
  <2>5. /\ d.ubo.holders \in Seq(Paid) /\ d.ubo.declared \in Seq(Paid)
        /\ Total(d.ubo.declared) <= Whole
        /\ \A j \in DOMAIN d.ubo.declared : d.ubo.declared[j].pct <= Whole
    BY <1>5, <2>1, <2>3 DEF Bounded, due
  <2>6. \A i \in DOMAIN d.ubo.holders :
          d.ubo.holders[i].pct + Eps >= UboThreshold =>
            \E j \in DOMAIN d.ubo.declared :
              SamePerson(d.ubo.holders[i].name, d.ubo.declared[j].name)
    BY <1>5, <2>4 DEF Owing, due
  <2> QED
    BY <2>5, <2>6, OwnersAre
<1> QED
  BY <1>3, <1>6, <1>7, <1>8, ChangeIsFound

(* A1: everybody is spelt without diacritics in the declaration.           *)
IsDegraded(t, s) == t = [i \in DOMAIN s |-> Party(Ascii[s[i].name], s[i].pct)]

Spelt(s) == \A i \in DOMAIN s : s[i].name \in DOMAIN Ascii

LEMMA DegradedIs ==
  ASSUME NEW s \in Seq(Paid), Spelt(s), NEW t, IsDegraded(t, s)
  PROVE  /\ t \in Seq(Paid) /\ DOMAIN t = DOMAIN s /\ Total(t) = Total(s)
         /\ \A i \in DOMAIN s : t[i].pct = s[i].pct /\ t[i].name = Ascii[s[i].name]
<1>1. /\ DOMAIN t = DOMAIN s
      /\ \A i \in DOMAIN s : /\ t[i] = Party(Ascii[s[i].name], s[i].pct)
                             /\ t[i].pct = s[i].pct /\ t[i].name = Ascii[s[i].name]
  BY DEF IsDegraded, Party
<1>2. \A i \in DOMAIN s : t[i] \in Paid
  <2>1. \A i \in DOMAIN s : s[i].pct \in Nat /\ Ascii[s[i].name] \in STRING
    BY PaidAreShares, NamesAssumption DEF Spelt
  <2> QED
    BY <1>1, <2>1 DEF Party, Paid
<1>3. t \in Seq(Paid)
  <2> DEFINE n == Len(s)
  <2>1. n \in Nat /\ DOMAIN s = 1..n
    OBVIOUS
  <2> HIDE DEF n
  <2>2. t = [i \in 1..n |-> t[i]]
    BY <1>1, <2>1 DEF IsDegraded
  <2>3. t \in [1..n -> Paid]
    BY <1>2, <2>1, <2>2
  <2> QED
    BY <2>1, <2>3
<1>4. Total(t) = Total(s)
  BY <1>1, <1>3, PairedTotal
<1> QED
  BY <1>1, <1>3, <1>4

(* What of a dossier A1 leaves alone.                                      *)
IsRespelt(d, b, t, due, name) ==
  d = [b EXCEPT !.circular.legal = LegalForms.caps, !.ubo.legal = LegalForms.ascii,
                !.ubo.holders = t, !.ubo.declared = due, !.ubo.declarant = name]

LEMMA RespeltIs ==
  ASSUME NEW b, CleanFields(b), NEW t, NEW due, NEW name, NEW d, IsRespelt(d, b, t, due, name)
  PROVE  /\ DOMAIN d = Documents /\ d.registry = b.registry
         /\ d.circular.signatories = b.circular.signatories /\ d.ubo.date = b.ubo.date
         /\ d.registry.tax = "t1" /\ d.circular.tax = "t1" /\ d.ubo.tax = "t1"
         /\ d.registry.legal = LegalForms.full
         /\ d.circular.legal = LegalForms.caps /\ d.ubo.legal = LegalForms.ascii
         /\ d.ubo.holders = t /\ d.ubo.declared = due /\ d.ubo.declarant = name
BY DEF IsRespelt, CleanFields, Documents, UboFields, CircularFields, RegistryFields

LEMMA SpeltAreSame ==
  ASSUME NEW m \in DOMAIN Ascii, NEW n \in DOMAIN Ascii
  PROVE  /\ SamePerson(m, Ascii[n]) <=> SamePerson(m, n)
         /\ SamePerson(Ascii[m], n) <=> SamePerson(m, n)
BY AsciiAssumption, Zenon

LEMMA DegradedArePaired ==
  ASSUME NEW s \in Seq(Paid), Spelt(s), DifferentPeople(s), NEW t, IsDegraded(t, s)
  PROVE  Paired(s, t)
<1>1. /\ DOMAIN t = DOMAIN s
      /\ \A i \in DOMAIN s : t[i].pct = s[i].pct /\ t[i].name = Ascii[s[i].name]
  BY DegradedIs
<1>2. ASSUME NEW i \in DOMAIN s, NEW j \in DOMAIN s
      PROVE  SamePerson(s[i].name, t[j].name) <=> i = j
  <2>1. SamePerson(s[i].name, t[j].name) <=> SamePerson(s[i].name, s[j].name)
    BY <1>1, SpeltAreSame DEF Spelt
  <2>2. SamePerson(s[i].name, s[j].name) <=> i = j
    BY DEF DifferentPeople, SamePerson
  <2> QED
    BY <2>1, <2>2
<1> QED
  BY <1>1, <1>2 DEF Paired

(* Whoever is due was spelt with the others.                               *)
LEMMA DegradedAreDeclared ==
  ASSUME NEW s, Drawn(s), NEW t, IsDegraded(t, s), NEW due, IsDegraded(due, Declared(s)),
         NEW ubo, ubo.holders = t, ubo.declared = due
  PROVE  UboCodes(ubo) = {}
<1> DEFINE full == Declared(s)
<1>1. s \in Seq(Paid) /\ Bounded(Total(s)) /\ \A i \in DOMAIN s : SmallShare(s[i].pct)
  BY DrawnAreSmall DEF Bounded
<1>2. /\ full \in Seq(Paid) /\ Bounded(Total(full))
      /\ \A j \in DOMAIN full : Bounded(full[j].pct)
      /\ \A i \in DOMAIN s : Owing(s[i].pct) => \E j \in DOMAIN full : full[j] = s[i]
  BY <1>1, DueIs
<1>3. Spelt(s)
  BY Zenon DEF Spelt, Drawn
<1>4. Spelt(full)
  <2>1. AreDue(full, s)
    BY <1>1, DeclaredAreDue
  <2>2. PICK h : IsFrom(h, full, s)
    BY <2>1 DEF AreDue
  <2> HIDE DEF full
  <2>3. \A j \in DOMAIN full : h[j] \in DOMAIN s /\ full[j] = s[h[j]]
    BY <2>2 DEF IsFrom
  <2> QED
    BY <1>3, <2>3 DEF Spelt
<1>5. /\ t \in Seq(Paid) /\ DOMAIN t = DOMAIN s
      /\ \A i \in DOMAIN s : t[i].pct = s[i].pct /\ t[i].name = Ascii[s[i].name]
  BY <1>1, <1>3, DegradedIs
<1> HIDE DEF full
<1>6. /\ due \in Seq(Paid) /\ DOMAIN due = DOMAIN full /\ Total(due) = Total(full)
      /\ \A j \in DOMAIN full : due[j].pct = full[j].pct /\ due[j].name = Ascii[full[j].name]
  BY <1>2, <1>4, DegradedIs DEF full
<1>7. ASSUME NEW i \in DOMAIN t, Owing(t[i].pct)
      PROVE  \E j \in DOMAIN due : SamePerson(t[i].name, due[j].name)
  <2>1. i \in DOMAIN s /\ Owing(s[i].pct) /\ t[i].name = Ascii[s[i].name]
    BY <1>5, <1>7
  <2>2. PICK j \in DOMAIN full : full[j] = s[i]
    BY <1>2, <2>1
  <2>3. j \in DOMAIN due /\ due[j].name = t[i].name
    BY <1>6, <2>1, <2>2
  <2> QED
    BY <2>3 DEF SamePerson
<1>8. Total(due) <= Whole /\ \A j \in DOMAIN due : due[j].pct <= Whole
  BY <1>2, <1>6 DEF Bounded
<1>9. /\ ubo.holders \in Seq(Paid) /\ ubo.declared \in Seq(Paid)
      /\ Total(ubo.declared) <= Whole
      /\ \A j \in DOMAIN ubo.declared : ubo.declared[j].pct <= Whole
  BY <1>5, <1>6, <1>8
<1>10. \A i \in DOMAIN ubo.holders : ubo.holders[i].pct + Eps >= UboThreshold =>
         \E j \in DOMAIN ubo.declared : SamePerson(ubo.holders[i].name, ubo.declared[j].name)
  BY <1>7 DEF Owing
<1> QED
  BY <1>9, <1>10, OwnersAre

LEMMA A1IsFound ==
  ASSUME NEW b, IsClean(b), NEW d \in InjectA1(b), Apart(d, {"A1"})
  PROVE  AllCodes(d) = {"A1"}
<1> DEFINE s == b.ubo.holders
           t == [i \in DOMAIN s |-> Party(Ascii[s[i].name], s[i].pct)]
           full == b.ubo.declared
           due == [i \in DOMAIN full |-> Party(Ascii[full[i].name], full[i].pct)]
           name == Ascii[b.ubo.declarant]
<1>1. IsRespelt(d, b, t, due, name)
  BY DEF InjectA1, IsRespelt
<1>2. IsDegraded(t, s) /\ IsDegraded(due, full)
  BY DEF IsDegraded
<1>3. CleanFields(b) /\ Drawn(s) /\ b.registry.holders = s /\ full = Declared(s)
      /\ b.ubo.declarant = s[1].name
  BY DEF IsClean, CleanPeople
<1> HIDE DEF t, due, name
<1>4. /\ DOMAIN d = Documents /\ d.registry = b.registry
      /\ d.circular.signatories = b.circular.signatories /\ d.ubo.date = b.ubo.date
      /\ d.registry.tax = "t1" /\ d.circular.tax = "t1" /\ d.ubo.tax = "t1"
      /\ d.registry.legal = LegalForms.full
      /\ d.circular.legal = LegalForms.caps /\ d.ubo.legal = LegalForms.ascii
      /\ d.ubo.holders = t /\ d.ubo.declared = due /\ d.ubo.declarant = name
  BY <1>1, <1>3, RespeltIs
<1>5. DifferentPeople(s)
  BY <1>3, <1>4 DEF Apart, Documents
<1>6. s \in Seq(Paid) /\ Total(s) = Whole /\ Spelt(s)
  <2>1. Spelt(s)
    BY <1>3, Zenon DEF Drawn, Spelt
  <2> QED
    BY <1>3, <2>1, DrawnAreSmall
<1>7. Filled(b) /\ FirstMaySign(b)
  BY <1>5, BaseIsApt DEF Apt
<1>8. 1 \in DOMAIN s /\ s[1].name \in DOMAIN Ascii
  <2>1. 1 \in DOMAIN s
    BY <1>3, DrawnHasTwo
  <2> QED
    BY <1>6, <2>1 DEF Spelt
<1>9. IdentityCodes(d) = {"A1"}
  BY <1>4, IdentityIs, LegalFormsAssumption
<1>10. OwnershipCodes(d.registry, d.ubo) = {}
  <2>1. Paired(s, t)
    BY <1>2, <1>5, <1>6, DegradedArePaired
  <2>2. t \in Seq(Paid)
    BY <1>2, <1>6, DegradedIs
  <2>3. OwnersAgree(d)
    BY <1>3, <1>4, <1>6, <2>1, <2>2, Zenon DEF OwnersAgree
  <2> QED
    BY <2>3, AgreedIsSilent
<1>11. AuthorityCodes(d.circular, d.ubo) = {}
  <2> DEFINE first == b.circular.signatories[1].name
  <2>1. first = s[1].name
    <3>1. PICK day \in Nat : SignedBy(b.circular.signatories, s, day)
      BY DEF IsClean, CleanPeople
    <3>2. 1 \in DOMAIN b.circular.signatories
      BY <1>7 DEF FirstMaySign
    <3>3. b.circular.signatories[1] = Sig(s[1].name, day)
      BY <3>1, <3>2, Zenon DEF SignedBy
    <3> QED
      BY <3>3 DEF Sig
  <2>2. SamePerson(name, first)
    <3>1. SamePerson(s[1].name, s[1].name)
      BY DEF SamePerson
    <3>2. name = Ascii[s[1].name]
      BY <1>3 DEF name
    <3> QED
      BY <1>8, <2>1, <3>1, <3>2, SpeltAreSame
  <2> HIDE DEF first
  <2>3. SamePerson(d.ubo.declarant, d.circular.signatories[1].name)
    BY <1>4, <2>2 DEF first
  <2>4. FirstMaySign(d)
    BY <1>4, <1>7, <2>3, Zenon DEF FirstMaySign
  <2> QED
    BY <2>4, SignedIsSilent
<1>12. UboCodes(d.ubo) = {}
  BY <1>2, <1>3, <1>4, DegradedAreDeclared
<1>13. Filled(d)
  <2>1. name # Blank
    BY <1>3, <1>8, NamesAssumption DEF name
  <2> QED
    BY <1>4, <1>7, <2>1 DEF Filled, Blank
<1> QED
  BY <1>4, <1>9, <1>10, <1>11, <1>12, <1>13, CodesOfFilled

(* C1a, C1b and C2: who signs the declaration, and when.                   *)
SameCompany(d, b) ==
  /\ DOMAIN d = Documents /\ SameEntities(d, b) /\ SameHolding(d, b) /\ SameDeclaring(d, b)
  /\ d.circular.signatories # << >> /\ d.ubo.declarant # Blank

LEMMA OnlyAuthorityCounts ==
  ASSUME NEW b, IsClean(b), NEW d, SameCompany(d, b), DifferentPeople(d.ubo.holders)
  PROVE  AllCodes(d) = AuthorityCodes(d.circular, d.ubo)
<1>1. DifferentPeople(b.ubo.holders)
  BY DEF SameCompany, SameHolding
<1>2. DOMAIN b = Documents /\ Filled(b) /\ Apt(b)
  BY <1>1, BaseIsApt
<1>3. OneEntity(d) /\ OwnersAgree(d) /\ OwnersDeclared(d) /\ DOMAIN d = Documents
  BY <1>2, StaysApt DEF SameCompany, Apt
<1>4. Filled(d)
  BY <1>2 DEF SameCompany, SameEntities, SameHolding, Filled
<1> QED
  BY <1>3, <1>4, CodesOfFilled, OneEntityIsSilent, AgreedIsSilent, DeclaredIsSilent

LEMMA StrangerIsFound ==
  ASSUME NEW b, IsClean(b), NEW d, SameCompany(d, b), NEW code \in {"C1a", "C1b"},
         Apart(d, {code}), NEW age \in Int, d.ubo.date - d.circular.date = age
  PROVE  AllCodes(d) = IF age > StalenessDays THEN {"C1a"} ELSE {"C1b"}
<1>1. DifferentPeople(d.ubo.holders)
  BY DEF SameCompany, Apart, Documents
<1>2. \A i \in DOMAIN d.circular.signatories :
        ~SamePerson(d.ubo.declarant, d.circular.signatories[i].name)
  <2>1. {code} \cap {"C1a", "C1b"} # {}
    OBVIOUS
  <2> QED
    BY <2>1 DEF Apart
<1>3. AuthorityCodes(d.circular, d.ubo) = IF age > StalenessDays THEN {"C1a"} ELSE {"C1b"}
  BY <1>2, NobodySigns
<1> QED
  BY <1>1, <1>3, OnlyAuthorityCounts

(* The injectors of C1, as fields.                                         *)
LEMMA SignsAre ==
  ASSUME NEW b, IsClean(b)
  PROVE  /\ 1 \in DOMAIN b.circular.signatories
         /\ b.circular.signatories # << >>
         /\ DOMAIN b.circular.signatories \subseteq Nat \ {0}
<1>1. PICK day \in Nat : SignedBy(b.circular.signatories, b.ubo.holders, day)
  BY DEF IsClean, CleanPeople
<1> DEFINE list == b.circular.signatories
           n == Len(list)
<1>2. DOMAIN list = 1..n /\ n \in {1, 2}
  BY <1>1, Zenon DEF SignedBy
<1> HIDE DEF list, n
<1>3. 1 \in DOMAIN list /\ DOMAIN list \subseteq Nat \ {0}
  BY <1>2
<1>4. DOMAIN << >> = {}
  OBVIOUS
<1>5. list # << >>
  BY <1>3, <1>4, Zenon
<1> QED
  BY <1>3, <1>5 DEF list

LEMMA StaleIs ==
  ASSUME NEW b, IsClean(b), NEW age \in Int, NEW older \in Int, NEW name \in NewPeople(b),
         NEW d, d = StaleCircular(b, age, older, name)
  PROVE  SameCompany(d, b) /\ d.ubo.date - d.circular.date = age /\ d.ubo.date = b.ubo.date
         /\ DOMAIN d.circular = CircularFields
<1>1. name # Blank
  BY NamesAssumption DEF NewPeople
<1>2. /\ DOMAIN d = Documents /\ SameEntities(d, b) /\ SameHolding(d, b) /\ SameDeclaring(d, b)
      /\ d.circular.signatories = b.circular.signatories /\ d.ubo.declarant = name
      /\ d.ubo.date = b.ubo.date /\ d.circular.date = b.ubo.date - age
      /\ DOMAIN d.circular = CircularFields
  BY DEF StaleCircular, IsClean, CleanFields, Documents, UboFields, CircularFields,
         RegistryFields, SameEntities, SameHolding, SameDeclaring
<1>3. d.ubo.date - d.circular.date = age
  BY <1>2 DEF IsClean, CleanDays
<1> QED
  BY <1>1, <1>2, <1>3, SignsAre DEF SameCompany

LEMMA ValidIs ==
  ASSUME NEW d, DOMAIN d = Documents, DOMAIN d.circular = CircularFields, NEW until,
         1 \in DOMAIN d.circular.signatories, NEW e, e = ValidUntil(d, until)
  PROVE  /\ DOMAIN e = Documents /\ e.registry = d.registry /\ e.ubo = d.ubo
         /\ e.circular.legal = d.circular.legal /\ e.circular.tax = d.circular.tax
         /\ e.circular.date = d.circular.date /\ DOMAIN e.circular = CircularFields
         /\ e.circular.signatories # << >>
<1> DEFINE list == d.circular.signatories
           new == [i \in DOMAIN list |-> Sig(list[i].name, until)]
<1>1. e = [d EXCEPT !.circular.signatories = new]
  BY DEF ValidUntil
<1>2. 1 \in DOMAIN new /\ DOMAIN << >> = {}
  OBVIOUS
<1> HIDE DEF new
<1>3. new # << >>
  BY <1>2, Zenon
<1> QED
  BY <1>1, <1>3 DEF Documents, CircularFields

LEMMA ValidKeepsCompany ==
  ASSUME NEW b, IsClean(b), NEW d, SameCompany(d, b), DOMAIN d.circular = CircularFields,
         1 \in DOMAIN d.circular.signatories, NEW until, NEW e, e = ValidUntil(d, until)
  PROVE  /\ SameCompany(e, b) /\ e.ubo = d.ubo /\ e.circular.date = d.circular.date
         /\ DOMAIN e.circular = CircularFields
<1>1. /\ DOMAIN e = Documents /\ e.registry = d.registry /\ e.ubo = d.ubo
      /\ e.circular.legal = d.circular.legal /\ e.circular.tax = d.circular.tax
      /\ e.circular.date = d.circular.date /\ DOMAIN e.circular = CircularFields
      /\ e.circular.signatories # << >>
  BY ValidIs DEF SameCompany
<1> QED
  BY <1>1 DEF SameCompany, SameEntities, SameHolding, SameDeclaring

LEMMA C1aIsFound ==
  ASSUME NEW b, IsClean(b), NEW d \in InjectC1a(b) \cup BoundaryC1a(b), Apart(d, {"C1a"})
  PROVE  AllCodes(d) = {"C1a"}
<1>1. PICK age \in Int, older \in Int, name \in NewPeople(b) :
        age > StalenessDays /\ d = StaleCircular(b, age, older, name)
  <2>1. CASE d \in InjectC1a(b)
    <3>1. PICK age \in Draw(30, 500), older \in Draw(10, 60), name \in NewPeople(b) :
            d = StaleCircular(b, StalenessDays + age, older, name)
      BY <2>1 DEF InjectC1a
    <3>2. age \in 30..500 /\ older \in 10..60
      BY DEF Draw
    <3>3. StalenessDays + age \in Int /\ older \in Int /\ StalenessDays + age > StalenessDays
      BY <3>2 DEF StalenessDays
    <3> QED
      BY <3>1, <3>3
  <2>2. CASE d \in BoundaryC1a(b)
    <3>1. PICK name \in NewPeople(b) : d = StaleCircular(b, StalenessDays + 1, 10, name)
      BY <2>2 DEF BoundaryC1a
    <3>2. StalenessDays + 1 \in Int /\ StalenessDays + 1 > StalenessDays
      BY DEF StalenessDays
    <3> QED
      BY <3>1, <3>2
  <2> QED
    BY <2>1, <2>2
<1>2. SameCompany(d, b) /\ d.ubo.date - d.circular.date = age
  BY <1>1, StaleIs
<1> QED
  BY <1>1, <1>2, StrangerIsFound

LEMMA C1bIsFound ==
  ASSUME NEW b, IsClean(b), NEW d \in InjectC1b(b), Apart(d, {"C1b"})
  PROVE  AllCodes(d) = {"C1b"}
<1>1. PICK days \in Draw(10, 200), name \in NewPeople(b) : d = NewCircular(b, days, name)
  BY DEF InjectC1b
<1> DEFINE e == ValidUntil(b, b.ubo.date + days + 900)
<1>2. /\ DOMAIN e = Documents /\ e.registry = b.registry /\ e.ubo = b.ubo
      /\ e.circular.legal = b.circular.legal /\ e.circular.tax = b.circular.tax
      /\ DOMAIN e.circular = CircularFields /\ e.circular.signatories # << >>
  BY ValidIs, SignsAre DEF IsClean, CleanFields
<1>3. d = [e EXCEPT !.circular.date = b.ubo.date + days, !.ubo.declarant = name]
  BY <1>1 DEF NewCircular
<1>4. DOMAIN b.ubo = UboFields
  BY DEF IsClean, CleanFields
<1> HIDE DEF e
<1>5. /\ DOMAIN d = Documents /\ d.registry = b.registry /\ d.ubo.date = b.ubo.date
      /\ d.ubo.tax = b.ubo.tax /\ d.ubo.legal = b.ubo.legal
      /\ d.ubo.holders = b.ubo.holders /\ d.ubo.declared = b.ubo.declared
      /\ d.ubo.declarant = name /\ d.circular.date = b.ubo.date + days
      /\ d.circular.legal = b.circular.legal /\ d.circular.tax = b.circular.tax
      /\ d.circular.signatories # << >>
  BY <1>2, <1>3, <1>4 DEF Documents, UboFields, CircularFields
<1>6. SameCompany(d, b)
  BY <1>5, NamesAssumption DEF SameCompany, SameEntities, SameHolding, SameDeclaring, NewPeople
<1>7. days \in 10..200 /\ b.ubo.date \in Nat
  BY DEF Draw, IsClean, CleanDays
<1> DEFINE age == 0 - days
           today == b.ubo.date
<1>8. age \in Int /\ d.ubo.date - d.circular.date = age /\ ~(age > StalenessDays)
  <2>1. d.ubo.date = today /\ d.circular.date = today + days /\ today \in Nat
    BY <1>5, <1>7
  <2> HIDE DEF today
  <2> QED
    BY <1>7, <2>1 DEF StalenessDays
<1> QED
  BY <1>6, <1>8, StrangerIsFound

LEMMA BoundaryC1bIsFound ==
  ASSUME NEW b, IsClean(b), NEW d \in BoundaryC1b(b), Apart(d, {"C1b"})
  PROVE  AllCodes(d) = {"C1b"}
<1>1. PICK name \in NewPeople(b) :
        d = ValidUntil(StaleCircular(b, StalenessDays, 10, name), b.ubo.date + 900)
  BY DEF BoundaryC1b
<1> DEFINE e == StaleCircular(b, StalenessDays, 10, name)
           until == b.ubo.date + 900
<1>2. d = ValidUntil(e, until) /\ StalenessDays \in Int
  BY <1>1 DEF StalenessDays
<1>3. SameCompany(e, b) /\ e.ubo.date - e.circular.date = StalenessDays
      /\ DOMAIN e.circular = CircularFields
  BY <1>2, StaleIs
<1>4. 1 \in DOMAIN e.circular.signatories
  BY SignsAre DEF StaleCircular, IsClean, CleanFields, Documents, CircularFields
<1> HIDE DEF e, until
<1>5. SameCompany(d, b) /\ d.ubo = e.ubo /\ d.circular.date = e.circular.date
  BY <1>2, <1>3, <1>4, ValidKeepsCompany
<1>6. d.ubo.date - d.circular.date = StalenessDays /\ ~(StalenessDays > StalenessDays)
  BY <1>3, <1>5 DEF StalenessDays
<1> QED
  BY <1>2, <1>5, <1>6, StrangerIsFound

LEMMA C2IsFound ==
  ASSUME NEW b, IsClean(b), NEW d \in InjectC2(b) \cup BoundaryC2(b), Apart(d, {"C2"})
  PROVE  AllCodes(d) = {"C2"}
<1>1. PICK days \in Int : days > 0 /\ d = Expired(b, days)
  <2>1. CASE d \in InjectC2(b)
    <3>1. PICK days \in Draw(10, 400) : d = Expired(b, days)
      BY <2>1 DEF InjectC2
    <3> QED
      BY <3>1 DEF Draw
  <2>2. CASE d \in BoundaryC2(b)
    BY <2>2 DEF BoundaryC2
  <2> QED
    BY <2>1, <2>2
<1> DEFINE list == b.circular.signatories
           day == b.ubo.date - days
           new == [list EXCEPT ![1] = Sig(b.ubo.declarant, day)]
<1>2. 1 \in DOMAIN list /\ DOMAIN list \subseteq Nat \ {0}
  BY SignsAre
<1>3. d = [b EXCEPT !.circular.signatories = new]
  BY <1>1 DEF Expired
<1>4. DOMAIN new = DOMAIN list /\ new[1] = Sig(b.ubo.declarant, day)
  BY <1>2
<1>5. new # << >>
  <2> HIDE DEF new
  <2>1. DOMAIN << >> = {}
    OBVIOUS
  <2> QED
    BY <1>2, <1>4, <2>1, Zenon
<1> HIDE DEF new, day, list
<1>6. /\ DOMAIN d = Documents /\ d.registry = b.registry /\ d.ubo = b.ubo
      /\ d.circular.legal = b.circular.legal /\ d.circular.tax = b.circular.tax
      /\ d.circular.signatories = new
  BY <1>3 DEF IsClean, CleanFields, Documents, CircularFields
<1>7. b.ubo.declarant # Blank
  <2>1. Drawn(b.ubo.holders) /\ b.ubo.declarant = b.ubo.holders[1].name
    BY DEF IsClean, CleanPeople
  <2> QED
    BY <2>1, DrawnShares
<1>8. SameCompany(d, b)
  BY <1>5, <1>6, <1>7 DEF SameCompany, SameEntities, SameHolding, SameDeclaring
<1>9. AuthorityCodes(d.circular, d.ubo) = {"C2"}
  <2>1. new[1].name = b.ubo.declarant /\ new[1].until = {day}
    BY <1>4 DEF Sig
  <2>2. SamePerson(d.ubo.declarant, d.circular.signatories[1].name)
    BY <1>6, <2>1 DEF SamePerson
  <2>3. day < d.ubo.date
    BY <1>1, <1>6 DEF day, IsClean, CleanDays
  <2>4. /\ DOMAIN d.circular.signatories \subseteq Nat \ {0}
        /\ 1 \in DOMAIN d.circular.signatories /\ d.circular.signatories[1].until = {day}
    BY <1>2, <1>4, <1>6, <2>1
  <2> QED
    BY <2>2, <2>3, <2>4, FirstSigns
<1>10. DifferentPeople(d.ubo.holders)
  BY <1>8 DEF SameCompany, Apart, Documents
<1> QED
  BY <1>8, <1>9, <1>10, OnlyAuthorityCounts

(* D1a and D1b: the declared owners are not the ones who are due.          *)
LEMMA TwoAreDue ==
  ASSUME NEW s, Drawn(s)
  PROVE  /\ Declared(s) \in Seq(Paid) /\ Len(Declared(s)) >= 2 /\ Declared(s) # << >>
         /\ 1 \in DOMAIN Declared(s) /\ 2 \in DOMAIN Declared(s)
<1> DEFINE due == Declared(s)
           n == Len(due)
<1>1. s \in Seq(Paid) /\ LeadShare(s[1].pct) /\ NextShare(s[2].pct)
  BY DrawnShares
<1>2. 1 \in DOMAIN s /\ 2 \in DOMAIN s
  BY DrawnHasTwo
<1>3. due \in Seq(Paid) /\ AreDue(due, s)
  BY <1>1, DeclaredAreDue
<1>4. PICK h : IsFrom(h, due, s)
  BY <1>3 DEF AreDue
<1>5. IsDue(s[1]) /\ IsDue(s[2])
  BY <1>1 DEF LeadShare, NextShare, UboThreshold, IsDue
<1>6. n \in Nat /\ DOMAIN due = 1..n
  BY <1>3
<1> HIDE DEF due
<1>7. PICK i \in DOMAIN due : h[i] = 1
  BY <1>2, <1>4, <1>5 DEF IsFrom
<1>8. PICK j \in DOMAIN due : h[j] = 2
  BY <1>2, <1>4, <1>5 DEF IsFrom
<1>9. i # j
  BY <1>7, <1>8
<1>10. n >= 2
  <2> HIDE DEF n
  <2> QED
    BY <1>6, <1>9
<1>11. 1 \in DOMAIN due /\ 2 \in DOMAIN due
  <2> HIDE DEF n
  <2> QED
    BY <1>6, <1>10
<1>12. due # << >>
  BY <1>10 DEF n
<1> QED
  BY <1>3, <1>10, <1>11, <1>12 DEF due, n

(* The dossier but for what is declared.                                   *)
SameButDeclared(d, b) ==
  /\ DOMAIN d = Documents /\ SameEntities(d, b) /\ SameHolding(d, b) /\ SameSigning(d, b)
  /\ d.registry = b.registry

LEMMA OnlyDeclaredCounts ==
  ASSUME NEW b, IsClean(b), NEW d, SameButDeclared(d, b), DifferentPeople(d.ubo.holders)
  PROVE  AllCodes(d) = UboCodes(d.ubo)
<1>1. DifferentPeople(b.ubo.holders)
  BY DEF SameButDeclared, SameHolding
<1>2. DOMAIN b = Documents /\ Filled(b) /\ Apt(b)
  BY <1>1, BaseIsApt
<1>3. OneEntity(d) /\ OwnersAgree(d) /\ FirstMaySign(d) /\ DOMAIN d = Documents
  BY <1>2, StaysApt DEF SameButDeclared, Apt
<1>4. Filled(d)
  BY <1>2 DEF SameButDeclared, SameEntities, SameSigning, Filled
<1> QED
  BY <1>3, <1>4, CodesOfFilled, OneEntityIsSilent, AgreedIsSilent, SignedIsSilent

IsDeclaring(d, b, due) == d = [b EXCEPT !.ubo.declared = due]

LEMMA DeclaringIs ==
  ASSUME NEW b, IsClean(b), NEW due, NEW d, IsDeclaring(d, b, due)
  PROVE  SameButDeclared(d, b) /\ d.ubo.declared = due
BY DEF IsDeclaring, IsClean, CleanFields, Documents, UboFields, SameButDeclared, SameEntities,
       SameHolding, SameSigning

(* The last of those who are due is not declared.                          *)
LEMMA LastIsUndeclared ==
  ASSUME NEW s, Drawn(s), DifferentPeople(s), NEW ubo, ubo.holders = s,
         ubo.declared = Front(Declared(s))
  PROVE  UboCodes(ubo) = {"D1a"}
<1> DEFINE due == Declared(s)
           f == Front(due)
           n == Len(due)
<1>1. s \in Seq(Paid) /\ Bounded(Total(s)) /\ \A i \in DOMAIN s : SmallShare(s[i].pct)
  BY DrawnAreSmall DEF Bounded
<1>2. /\ due \in Seq(Paid) /\ Bounded(Total(due))
      /\ \A j \in DOMAIN due : Bounded(due[j].pct)
  BY <1>1, DueIs
<1>3. due # << >>
  BY TwoAreDue
<1>4. PICK h : IsFrom(h, due, s)
  BY <1>1, DeclaredAreDue DEF AreDue
<1> HIDE DEF due
<1>5. /\ f \in Seq(Paid) /\ Last(due) \in Paid /\ n \in Nat /\ n > 0
      /\ DOMAIN f = 1..(n - 1) /\ DOMAIN due = 1..n
      /\ \A i \in DOMAIN f : i \in DOMAIN due /\ f[i] = due[i]
      /\ Total(due) = Total(f) + Last(due).pct
  BY <1>2, <1>3, FrontIs
<1>6. Total(f) \in Nat /\ Last(due).pct \in Nat
  BY <1>5, TotalOfPaid DEF Paid
<1>7. Total(f) <= Whole
  <2> DEFINE t == Total(f)
             u == Total(due)
             l == Last(due).pct
  <2>1. t \in Nat /\ l \in Nat /\ u = t + l /\ u <= Whole
    BY <1>2, <1>5, <1>6 DEF Bounded
  <2> HIDE DEF t, u, l
  <2>2. t <= Whole
    BY <2>1 DEF Whole, Eps
  <2> QED
    BY <2>2 DEF t
<1> HIDE DEF f, n
<1>8. n \in DOMAIN due /\ \A i \in DOMAIN f : i # n
  BY <1>5
<1>9. h[n] \in DOMAIN s /\ due[n] = s[h[n]] /\ IsDue(due[n])
  BY <1>4, <1>8 DEF IsFrom
<1>10. \A j \in DOMAIN f : ~SamePerson(s[h[n]].name, f[j].name)
  <2> SUFFICES ASSUME NEW j \in DOMAIN f PROVE ~SamePerson(s[h[n]].name, f[j].name)
    OBVIOUS
  <2>1. j \in DOMAIN due /\ f[j] = due[j] /\ j # n
    BY <1>5, <1>8
  <2>2. h[j] \in DOMAIN s /\ due[j] = s[h[j]] /\ h[j] # h[n]
    BY <1>4, <1>8, <2>1 DEF IsFrom
  <2>3. ~SamePerson(s[h[n]].name, s[h[j]].name)
    BY <1>9, <2>2 DEF DifferentPeople
  <2> QED
    BY <2>1, <2>2, <2>3
<1>11. s[h[n]].pct + Eps >= UboThreshold
  <2> DEFINE x == s[h[n]].pct
  <2>1. x \in Nat /\ x + 1 >= UboThreshold
    BY <1>1, <1>9, PaidAreShares DEF IsDue
  <2> HIDE DEF x
  <2>2. x + Eps >= UboThreshold
    BY <2>1 DEF Eps, UboThreshold
  <2> QED
    BY <2>2 DEF x
<1>12. \A j \in DOMAIN f : f[j].pct <= Whole
  BY <1>2, <1>5 DEF Bounded
<1>13. ubo.declared = f
  BY DEF f, due
<1>14. /\ ubo.holders \in Seq(Paid) /\ ubo.declared \in Seq(Paid)
       /\ Total(ubo.declared) <= Whole
       /\ \A j \in DOMAIN ubo.declared : ubo.declared[j].pct <= Whole
  BY <1>1, <1>5, <1>7, <1>12, <1>13
<1>15. ~\A i \in DOMAIN ubo.holders :
          ubo.holders[i].pct + Eps >= UboThreshold =>
            \E j \in DOMAIN ubo.declared :
              SamePerson(ubo.holders[i].name, ubo.declared[j].name)
  BY <1>9, <1>10, <1>11, <1>13
<1> QED
  BY <1>14, <1>15, OwnersAre

LEMMA D1aIsFound ==
  ASSUME NEW b, IsClean(b), NEW d \in InjectD1a(b), Apart(d, {"D1a"})
  PROVE  AllCodes(d) = {"D1a"}
<1> DEFINE s == b.ubo.holders
           due == Front(Declared(s))
<1>1. IsDeclaring(d, b, due)
  BY DEF InjectD1a, IsDeclaring
<1> HIDE DEF due
<1>2. SameButDeclared(d, b) /\ d.ubo.declared = due
  BY <1>1, DeclaringIs
<1>3. d.ubo.holders = s /\ DifferentPeople(d.ubo.holders)
  BY <1>2 DEF SameButDeclared, SameHolding, Apart, Documents
<1>4. Drawn(s)
  BY DEF IsClean, CleanPeople
<1>5. UboCodes(d.ubo) = {"D1a"}
  BY <1>2, <1>3, <1>4, LastIsUndeclared DEF due
<1> QED
  BY <1>2, <1>3, <1>5, OnlyDeclaredCounts

IsPair(t, p, q) == t = <<p, q>>

IsTwo(t, p, q) ==
  /\ t \in Seq(Paid) /\ Len(t) = 2 /\ DOMAIN t = {1, 2} /\ t # << >>
  /\ t[1] = p /\ t[2] = q

LEMMA PairIs ==
  ASSUME NEW p \in Paid, NEW q \in Paid, NEW t, IsPair(t, p, q)
  PROVE  IsTwo(t, p, q)
<1>1. 1..2 = {1, 2}
  OBVIOUS
<1>2. DOMAIN <<p, q>> = 1..2
  OBVIOUS
<1>3. /\ <<p, q>> \in Seq(Paid) /\ Len(<<p, q>>) = 2
      /\ <<p, q>> # << >> /\ <<p, q>>[1] = p /\ <<p, q>>[2] = q
  OBVIOUS
<1>4. t = <<p, q>>
  BY DEF IsPair
<1> QED
  BY <1>1, <1>2, <1>3, <1>4 DEF IsTwo

LEMMA TwoPaid ==
  ASSUME NEW m \in STRING, NEW n \in STRING, NEW x \in Nat, NEW y \in Nat,
         NEW t, t = <<Party(m, x), Party(n, y)>>
  PROVE  /\ t \in Seq(Paid) /\ Total(t) = x + y /\ DOMAIN t = {1, 2} /\ t # << >>
         /\ t[1].name = m /\ t[1].pct = x /\ t[2].name = n /\ t[2].pct = y
<1>1. Party(m, x) \in Paid /\ Party(n, y) \in Paid
  BY DEF Party, Paid
<1>2. /\ t \in Seq(Paid) /\ Len(t) = 2 /\ DOMAIN t = {1, 2} /\ t # << >>
      /\ t[1] = Party(m, x) /\ t[2] = Party(n, y)
  <2> DEFINE p == Party(m, x)
             q == Party(n, y)
  <2>1. p \in Paid /\ q \in Paid
    BY <1>1
  <2>2. IsPair(t, p, q)
    BY DEF IsPair
  <2> HIDE DEF p, q
  <2>3. IsTwo(t, p, q)
    BY <2>1, <2>2, PairIs, Zenon
  <2> QED
    BY <2>3 DEF p, q, IsTwo
<1>3. t[1].name = m /\ t[1].pct = x /\ t[2].name = n /\ t[2].pct = y
  BY <1>2 DEF Party
<1>4. Total(t) = x + y
  <2>1. Total(t) = t[1].pct + (IF Len(t) > 1 THEN t[2].pct ELSE 0)
                     + (IF Len(t) > 2 THEN t[3].pct ELSE 0)
    BY <1>2, TotalOfThree
  <2> QED
    BY <1>2, <1>3, <2>1
<1> QED
  BY <1>2, <1>3, <1>4

LEMMA D1bIsFound ==
  ASSUME NEW b, IsClean(b), NEW d \in InjectD1b(b), Apart(d, {"D1b"})
  PROVE  AllCodes(d) = {"D1b"}
<1> DEFINE s == b.ubo.holders
           full == Declared(s)
           due == <<Party(full[1].name, 70000), Party(full[2].name, 60000)>>
<1>1. IsDeclaring(d, b, due)
  BY DEF InjectD1b, IsDeclaring
<1>2. Drawn(s)
  BY DEF IsClean, CleanPeople
<1>3. full[1].name \in STRING /\ full[2].name \in STRING
  <2>1. full \in Seq(Paid) /\ 1 \in DOMAIN full /\ 2 \in DOMAIN full
    BY <1>2, TwoAreDue
  <2> HIDE DEF full
  <2>2. full[1] \in Paid /\ full[2] \in Paid
    BY <2>1
  <2> QED
    BY <2>2 DEF Paid
<1>4. due \in Seq(Paid) /\ Total(due) = 70000 + 60000
  <2> DEFINE m == full[1].name
             n == full[2].name
  <2>1. m \in STRING /\ n \in STRING /\ due = <<Party(m, 70000), Party(n, 60000)>>
    BY <1>3
  <2> HIDE DEF full, m, n, due
  <2> QED
    BY <2>1, TwoPaid
<1> HIDE DEF due, full
<1>5. SameButDeclared(d, b) /\ d.ubo.declared = due
  BY <1>1, DeclaringIs
<1>6. DifferentPeople(d.ubo.holders)
  BY <1>5 DEF SameButDeclared, Apart, Documents
<1>7. UboCodes(d.ubo) = {"D1b"}
  BY <1>4, <1>5, TooMuchDeclared DEF Whole, Eps
<1> QED
  BY <1>5, <1>6, <1>7, OnlyDeclaredCounts

(* The boundary variants with two owners, of whom one is declared.         *)
LeadPeople(b, lead, name, small) ==
  <<Party(b.ubo.holders[1].name, lead), Party(name, small)>>

LEMMA LeadAloneIs ==
  ASSUME NEW b, IsClean(b), NEW lead, NEW small, NEW name,
         NEW d, d = LeadAlone(b, lead, name, small)
  PROVE  LET first == Party(b.ubo.holders[1].name, lead)
             owners == LeadPeople(b, lead, name, small)
         IN  /\ DOMAIN d = Documents /\ SameEntities(d, b) /\ d.ubo.date = b.ubo.date
             /\ d.registry.holders = owners /\ d.ubo.holders = owners
             /\ d.ubo.declared = <<first>> /\ d.ubo.declarant = first.name
             /\ d.circular.signatories = <<Sig(first.name, b.ubo.date + 900)>>
<1> DEFINE first == Party(b.ubo.holders[1].name, lead)
           owners == LeadPeople(b, lead, name, small)
           due == <<first>>
           who == first.name
           list == <<Sig(first.name, b.ubo.date + 900)>>
<1>1. d = [b EXCEPT !.registry.holders = owners, !.ubo.holders = owners,
                    !.ubo.declared = due, !.ubo.declarant = who,
                    !.circular.signatories = list]
  BY DEF LeadAlone, LeadPeople
<1> HIDE DEF owners, due, who, list
<1> DEFINE e == [b EXCEPT !.registry.holders = owners, !.ubo.holders = owners,
                          !.ubo.declared = due]
<1>2. d = [e EXCEPT !.ubo.declarant = who, !.circular.signatories = list]
  BY <1>1
<1>3. /\ DOMAIN e = Documents /\ SameEntities(e, b) /\ e.ubo.date = b.ubo.date
      /\ e.registry.holders = owners /\ e.ubo.holders = owners /\ e.ubo.declared = due
      /\ DOMAIN e.ubo = UboFields /\ DOMAIN e.circular = CircularFields
  BY DEF IsClean, CleanFields, Documents, UboFields, CircularFields, RegistryFields,
         SameEntities
<1> HIDE DEF e
<1>4. /\ DOMAIN d = Documents /\ SameEntities(d, b) /\ d.ubo.date = b.ubo.date
      /\ d.registry.holders = owners /\ d.ubo.holders = owners
      /\ d.ubo.declared = due /\ d.ubo.declarant = who
      /\ d.circular.signatories = list
  BY <1>2, <1>3 DEF Documents, UboFields, CircularFields, SameEntities
<1> QED
  BY <1>4 DEF owners, due, who, list

LEMMA SoleSignatory ==
  ASSUME NEW d, NEW name, NEW day \in Int, d.ubo.date \in Int, ~(day < d.ubo.date),
         d.ubo.declarant = name, d.circular.signatories = <<Sig(name, day)>>
  PROVE  FirstMaySign(d) /\ d.circular.signatories # << >>
<1> DEFINE sig == Sig(name, day)
           list == d.circular.signatories
<1>1. sig.name = name /\ sig.until = {day}
  BY DEF Sig
<1> HIDE DEF sig
<1>2. list = <<sig>>
  BY DEF sig
<1>3. DOMAIN list = {1} /\ list[1] = sig /\ list # << >>
  <2>1. 1..1 = {1}
    OBVIOUS
  <2> QED
    BY <1>2, <2>1
<1>4. DOMAIN list \subseteq Nat \ {0} /\ 1 \in DOMAIN list
  BY <1>3
<1> HIDE DEF list
<1>5. /\ SamePerson(d.ubo.declarant, list[1].name)
      /\ \E until : list[1].until = {until} /\ ~(until < d.ubo.date)
  BY <1>1, <1>3 DEF SamePerson
<1> QED
  BY <1>3, <1>4, <1>5, Zenon DEF FirstMaySign, list

(* Of two owners the first alone is declared: it is the other's share that *)
(* matters.                                                                *)
LEMMA LeadAloneCodes ==
  ASSUME NEW b, IsClean(b), NEW lead \in Nat, NEW small \in Nat, lead + small = Whole,
         NEW name \in Strangers, NEW d, d = LeadAlone(b, lead, name, small),
         DifferentPeople(d.ubo.holders)
  PROVE  AllCodes(d) = IF small + Eps >= UboThreshold THEN {"D1a"} ELSE {}
<1> DEFINE who == b.ubo.holders[1].name
           first == Party(who, lead)
           owners == LeadPeople(b, lead, name, small)
           until == b.ubo.date + 900
<1>1. /\ DOMAIN d = Documents /\ SameEntities(d, b) /\ d.ubo.date = b.ubo.date
      /\ d.registry.holders = owners /\ d.ubo.holders = owners
      /\ d.ubo.declared = <<first>> /\ d.ubo.declarant = first.name
      /\ d.circular.signatories = <<Sig(first.name, until)>>
  BY LeadAloneIs
<1>2. who \in STRING /\ who # Blank /\ name \in STRING
  <2>1. Drawn(b.ubo.holders)
    BY DEF IsClean, CleanPeople
  <2> QED
    BY <2>1, DrawnShares, NamesAssumption
<1>3. first.name = who /\ first.pct = lead /\ first \in Paid
  BY <1>2 DEF Party, Paid
<1>4. owners = <<Party(who, lead), Party(name, small)>>
  BY DEF LeadPeople
<1>5. b.ubo.date \in Nat /\ until \in Nat /\ ~(until < b.ubo.date)
  BY DEF IsClean, CleanDays
<1> HIDE DEF who, first, owners, until
<1>6. /\ owners \in Seq(Paid) /\ Total(owners) = Whole /\ DOMAIN owners = {1, 2}
      /\ owners # << >> /\ owners[1].name = who /\ owners[1].pct = lead
      /\ owners[2].name = name /\ owners[2].pct = small
  BY <1>2, <1>4, TwoPaid
<1>7. OneEntity(d)
  BY <1>1, StaysApt DEF IsClean, CleanFields, OneEntity
<1>8. OwnersAgree(d)
  <2>1. Paired(owners, owners)
    BY <1>1, DrawnArePaired
  <2> QED
    BY <1>1, <1>6, <2>1 DEF OwnersAgree
<1>9. FirstMaySign(d) /\ d.circular.signatories # << >>
  <2>1. until \in Int /\ d.ubo.date \in Int /\ ~(until < d.ubo.date)
    BY <1>1, <1>5
  <2> QED
    BY <1>1, <2>1, SoleSignatory
<1>10. Filled(d)
  BY <1>1, <1>2, <1>3, <1>6, <1>7, <1>9, LegalFormsAssumption DEF Filled, OneEntity, Blank
<1>11. UboCodes(d.ubo) = IF small + Eps >= UboThreshold THEN {"D1a"} ELSE {}
  <2> DEFINE due == d.ubo.declared
             people == d.ubo.holders
  <2>1. due = <<first>> /\ people = owners /\ 1..1 = {1}
    BY <1>1
  <2> HIDE DEF due, people
  <2>2. due \in Seq(Paid) /\ Len(due) = 1 /\ DOMAIN due = {1} /\ due[1] = first
    BY <1>3, <2>1
  <2>3. Total(due) = lead
    <3>1. Total(due) = due[1].pct + (IF Len(due) > 1 THEN due[2].pct ELSE 0)
                         + (IF Len(due) > 2 THEN due[3].pct ELSE 0)
      BY <2>2, TotalOfThree
    <3> QED
      BY <1>3, <2>2, <3>1
  <2>4. Total(due) <= Whole /\ \A j \in DOMAIN due : due[j].pct <= Whole
    BY <1>3, <2>2, <2>3 DEF Whole, Eps
  <2>5. SamePerson(people[1].name, due[1].name)
    BY <1>3, <1>6, <2>1, <2>2 DEF SamePerson
  <2>6. ~SamePerson(people[2].name, due[1].name)
    <3>1. ~SamePerson(people[2].name, people[1].name)
      BY <1>6, <2>1 DEF DifferentPeople, people
    <3> QED
      BY <1>3, <1>6, <2>1, <2>2, <3>1
  <2>7. (\A i \in DOMAIN people : people[i].pct + Eps >= UboThreshold =>
           \E j \in DOMAIN due : SamePerson(people[i].name, due[j].name))
          <=> ~(small + Eps >= UboThreshold)
    BY <1>6, <2>1, <2>2, <2>5, <2>6
  <2>8. UboCodes(d.ubo)
          = IF \A i \in DOMAIN people : people[i].pct + Eps >= UboThreshold =>
                 \E j \in DOMAIN due : SamePerson(people[i].name, due[j].name)
            THEN {} ELSE {"D1a"}
    BY <1>6, <2>1, <2>2, <2>4, OwnersAre DEF due, people
  <2> QED
    BY <2>7, <2>8
<1> QED
  BY <1>1, <1>7, <1>8, <1>9, <1>10, <1>11, CodesOfFilled, OneEntityIsSilent, AgreedIsSilent,
     SignedIsSilent

LEMMA BoundaryNoneIsClear ==
  ASSUME NEW b, IsClean(b), NEW d \in BoundaryNONE(b), Apart(d, {"NONE"})
  PROVE  AllCodes(d) = {}
<1>1. PICK name \in Strangers : d = LeadAlone(b, 75100, name, 24900)
  BY DEF BoundaryNONE
<1>2. DOMAIN d = Documents
  BY <1>1, LeadAloneIs
<1>3. DifferentPeople(d.ubo.holders)
  BY <1>2 DEF Apart, Documents
<1>4. 75100 + 24900 = Whole /\ ~(24900 + Eps >= UboThreshold)
  BY DEF Whole, Eps, UboThreshold
<1> QED
  BY <1>1, <1>3, <1>4, LeadAloneCodes

LEMMA BoundaryD1aIsFound ==
  ASSUME NEW b, IsClean(b), NEW d \in BoundaryD1a(b), Apart(d, {"D1a"})
  PROVE  AllCodes(d) = {"D1a"}
<1>1. PICK name \in Strangers : d = LeadAlone(b, 75000, name, 25000)
  BY DEF BoundaryD1a
<1>2. DOMAIN d = Documents
  BY <1>1, LeadAloneIs
<1>3. DifferentPeople(d.ubo.holders)
  BY <1>2 DEF Apart, Documents
<1>4. 75000 + 25000 = Whole /\ 25000 + Eps >= UboThreshold
  BY DEF Whole, Eps, UboThreshold
<1> QED
  BY <1>1, <1>3, <1>4, LeadAloneCodes

(* E1: what is left of a base without one document.                        *)
Without(b, which) == [label \in Documents \ {which} |-> b[label]]

LEMMA PartIdentity ==
  ASSUME NEW b, DOMAIN b = Documents, OneEntity(b), NEW which \in Documents,
         NEW d, d = Without(b, which)
  PROVE  IdentityCodes(d) = {}
<1>1. DOMAIN d = Documents \ {which} /\ \A label \in DOMAIN d : d[label] = b[label]
  BY DEF Without
<1>2. \A label \in Documents : b[label].tax = "t1" /\ b[label].legal = LegalForms.full
  BY DEF OneEntity, Documents
<1>3. \A m \in DOMAIN d : d[m].tax = "t1" /\ d[m].legal = LegalForms.full
  BY <1>1, <1>2
<1> QED
  <2>1. /\ ~\E m, n \in DOMAIN d : d[m].tax # d[n].tax
        /\ ~\E m, n \in DOMAIN d : d[m].legal # d[n].legal
    BY <1>3
  <2> QED
    BY <2>1 DEF IdentityCodes

LEMMA PartCompleteness ==
  ASSUME NEW b, Filled(b), NEW which \in Documents, NEW d, d = Without(b, which)
  PROVE  CompletenessCodes(d) = {"E1"}
<1>1. /\ DOMAIN d = Documents \ {which} /\ DOMAIN d # Documents
      /\ \A label \in DOMAIN d : d[label] = b[label]
  BY DEF Without
<1>2. \A label \in Documents : ~LacksField(label, b[label])
  BY DEF LacksField, Filled, Documents
<1>3. \A label \in DOMAIN d : ~LacksField(label, d[label])
  BY <1>1, <1>2
<1> QED
  BY <1>1, <1>3 DEF CompletenessCodes

LEMMA E1IsFound ==
  ASSUME NEW b, IsClean(b), NEW d \in InjectE1(b), Apart(d, {"E1"})
  PROVE  AllCodes(d) = {"E1"}
<1>1. PICK which \in Documents : d = Without(b, which)
  BY DEF InjectE1, Without
<1>2. /\ DOMAIN d = Documents \ {which}
      /\ \A label \in DOMAIN d : d[label] = b[label]
  BY <1>1 DEF Without
<1>3. b.registry.holders = b.ubo.holders
  BY DEF IsClean, CleanPeople
<1>4. DifferentPeople(b.ubo.holders)
  <2>1. CASE which = "ubo"
    <3>1. "registry" \in DOMAIN d /\ d.registry = b.registry
      BY <1>2, <2>1 DEF Documents
    <3> QED
      BY <1>3, <3>1 DEF Apart
  <2>2. CASE which # "ubo"
    <3>1. "ubo" \in DOMAIN d /\ d.ubo = b.ubo
      BY <1>2, <2>2 DEF Documents
    <3> QED
      BY <3>1 DEF Apart
  <2> QED
    BY <2>1, <2>2
<1>5. DOMAIN b = Documents /\ Filled(b) /\ Apt(b)
  BY <1>4, BaseIsApt
<1>6. IdentityCodes(d) = {} /\ CompletenessCodes(d) = {"E1"}
  BY <1>1, <1>5, PartIdentity, PartCompleteness DEF Apt
<1>7. /\ OwnershipCodes(b.registry, b.ubo) = {} /\ AuthorityCodes(b.circular, b.ubo) = {}
      /\ UboCodes(b.ubo) = {}
  BY <1>5, AgreedIsSilent, SignedIsSilent, DeclaredIsSilent DEF Apt
<1>8. CodesReported("check_identity_consistency", d) = {}
  BY <1>6 DEF CodesReported, CodesOf
<1>9. CodesReported("check_ownership_consistency", d) = {}
  <2>1. {"registry", "ubo"} \subseteq DOMAIN d => d.registry = b.registry /\ d.ubo = b.ubo
    BY <1>2
  <2> QED
    BY <1>7, <2>1 DEF CodesReported, CodesOf, CanRun
<1>10. CodesReported("check_authority_chain", d) = {}
  <2>1. {"circular", "ubo"} \subseteq DOMAIN d => d.circular = b.circular /\ d.ubo = b.ubo
    BY <1>2
  <2> QED
    BY <1>7, <2>1 DEF CodesReported, CodesOf, CanRun
<1>11. CodesReported("check_ubo_derivation", d) = {}
  <2>1. "ubo" \in DOMAIN d => d.ubo = b.ubo
    BY <1>2
  <2> QED
    BY <1>7, <2>1 DEF CodesReported, CodesOf, CanRun
<1>12. CodesReported("check_completeness", d) = {"E1"}
  BY <1>6 DEF CodesReported, CodesOf, CanRun
<1> QED
  BY <1>8, <1>9, <1>10, <1>11, <1>12 DEF AllCodes, DocumentChecks

(* E2: a field is blank in every document.                                 *)
IsBlanked(d, b, tax, legal) ==
  /\ DOMAIN d = Documents /\ SameHolding(d, b) /\ SameSigning(d, b) /\ SameDeclaring(d, b)
  /\ d.registry.tax = tax /\ d.circular.tax = tax /\ d.ubo.tax = tax
  /\ d.registry.legal = legal /\ d.circular.legal = legal /\ d.ubo.legal = legal

LEMMA BlankIsFound ==
  ASSUME NEW b, IsClean(b), NEW d, NEW tax, NEW legal, IsBlanked(d, b, tax, legal),
         Blank \in {tax, legal}, DifferentPeople(d.ubo.holders)
  PROVE  AllCodes(d) = {"E2"}
<1>1. DifferentPeople(b.ubo.holders) /\ DOMAIN d = Documents
  BY DEF IsBlanked, SameHolding
<1>2. Apt(b)
  BY <1>1, BaseIsApt
<1>3. /\ OwnershipCodes(d.registry, d.ubo) = {} /\ AuthorityCodes(d.circular, d.ubo) = {}
      /\ UboCodes(d.ubo) = {}
  BY <1>2, StaysApt, AgreedIsSilent, SignedIsSilent, DeclaredIsSilent DEF IsBlanked, Apt
<1>4. IdentityCodes(d) = {}
  BY <1>1, IdentityIs DEF IsBlanked
<1>5. ~Filled(d)
  BY DEF IsBlanked, Filled
<1> QED
  BY <1>1, <1>3, <1>4, <1>5, CompletenessIs, AllCodesOfComplete

LEMMA E2IsFound ==
  ASSUME NEW b, IsClean(b), NEW d \in InjectE2(b), Apart(d, {"E2"})
  PROVE  AllCodes(d) = {"E2"}
<1>1. IsBlanked(d, b, Blank, LegalForms.full) \/ IsBlanked(d, b, "t1", Blank)
  <2>1. \/ d = [label \in Documents |-> [b[label] EXCEPT !.tax = Blank]]
        \/ d = [label \in Documents |-> [b[label] EXCEPT !.legal = Blank]]
    BY DEF InjectE2
  <2>2. CASE d = [label \in Documents |-> [b[label] EXCEPT !.tax = Blank]]
    <3>1. /\ d.registry = [b.registry EXCEPT !.tax = Blank]
          /\ d.circular = [b.circular EXCEPT !.tax = Blank]
          /\ d.ubo = [b.ubo EXCEPT !.tax = Blank] /\ DOMAIN d = Documents
      BY <2>2 DEF Documents
    <3>2. IsBlanked(d, b, Blank, LegalForms.full)
      BY <3>1 DEF IsClean, CleanFields, IsBlanked, SameHolding, SameSigning, SameDeclaring,
                  RegistryFields, CircularFields, UboFields
    <3> QED
      BY <3>2
  <2>3. CASE d = [label \in Documents |-> [b[label] EXCEPT !.legal = Blank]]
    <3>1. /\ d.registry = [b.registry EXCEPT !.legal = Blank]
          /\ d.circular = [b.circular EXCEPT !.legal = Blank]
          /\ d.ubo = [b.ubo EXCEPT !.legal = Blank] /\ DOMAIN d = Documents
      BY <2>3 DEF Documents
    <3>2. IsBlanked(d, b, "t1", Blank)
      BY <3>1 DEF IsClean, CleanFields, IsBlanked, SameHolding, SameSigning, SameDeclaring,
                  RegistryFields, CircularFields, UboFields
    <3> QED
      BY <3>2
  <2> QED
    BY <2>1, <2>2, <2>3
<1>2. DifferentPeople(d.ubo.holders)
  BY <1>1 DEF IsBlanked, Apart, Documents
<1> QED
  BY <1>1, <1>2, BlankIsFound

(* Every variant carries the code it is labelled with, and no other.       *)
LEMMA VariantsAreAsLabelled ==
  ASSUME NEW code \in Codes, NEW b \in CleanBases, NEW d \in Variants(code, b),
         Apart(d, {code})
  PROVE  AllCodes(d) = {code} \ {"NONE"}
<1>0. IsClean(b)
  BY BasesAreClean
<1>1. CASE code = "NONE"
  <2>1. d = b \/ d \in BoundaryNONE(b)
    BY <1>1 DEF Variants
  <2>2. AllCodes(d) = {}
    BY <1>0, <1>1, <2>1, BaseIsClear, BoundaryNoneIsClear
  <2> QED
    BY <1>1, <2>2
<1>2. CASE code = "A1"
  BY <1>0, <1>2, A1IsFound DEF Variants
<1>3. CASE code = "A2"
  BY <1>0, <1>3, A2IsFound DEF Variants
<1>4. CASE code = "B1a"
  BY <1>0, <1>4, B1aIsFound DEF Variants
<1>5. CASE code = "B1b"
  BY <1>0, <1>5, B1bIsFound DEF Variants
<1>6. CASE code = "B2a"
  BY <1>0, <1>6, B2aIsFound DEF Variants
<1>7. CASE code = "B2b"
  BY <1>0, <1>7, B2bIsFound DEF Variants
<1>8. CASE code = "C1a"
  BY <1>0, <1>8, C1aIsFound DEF Variants
<1>9. CASE code = "C1b"
  BY <1>0, <1>9, C1bIsFound, BoundaryC1bIsFound DEF Variants
<1>10. CASE code = "C2"
  BY <1>0, <1>10, C2IsFound DEF Variants
<1>11. CASE code = "D1a"
  BY <1>0, <1>11, D1aIsFound, BoundaryD1aIsFound DEF Variants
<1>12. CASE code = "D1b"
  BY <1>0, <1>12, D1bIsFound DEF Variants
<1>13. CASE code = "E1"
  BY <1>0, <1>13, E1IsFound DEF Variants
<1>14. CASE code = "E2"
  BY <1>0, <1>14, E2IsFound DEF Variants
<1> QED
  BY <1>1, <1>2, <1>3, <1>4, <1>5, <1>6, <1>7, <1>8, <1>9, <1>10, <1>11, <1>12, <1>13, <1>14
     DEF Codes

-----------------------------------------------------------------------------
(* The dossiers written by hand. What is filed, field by field.            *)
IsFiling(d, days, legal, owners, signatories, holders, declared, declarant) ==
  d = Filing(days, legal, owners, signatories, holders, declared, declarant)

LEMMA FilingIs ==
  ASSUME NEW d, NEW days, NEW legal, NEW owners, NEW signatories, NEW holders, NEW declared,
         NEW declarant,
         IsFiling(d, days, legal, owners, signatories, holders, declared, declarant)
  PROVE  /\ DOMAIN d = Documents
         /\ d.registry.date = days[1] /\ d.circular.date = days[2] /\ d.ubo.date = days[3]
         /\ d.registry.legal = legal[1] /\ d.circular.legal = legal[2] /\ d.ubo.legal = legal[3]
         /\ d.registry.tax = "t1" /\ d.circular.tax = "t1" /\ d.ubo.tax = "t1"
         /\ d.registry.holders = owners /\ d.circular.signatories = signatories
         /\ d.ubo.holders = holders /\ d.ubo.declared = declared
         /\ d.ubo.declarant = declarant
BY DEF IsFiling, Filing, Documents

(* Owners who hold everything between them.                                *)
Fine(s) ==
  /\ s \in Seq(Paid) /\ s # << >> /\ Total(s) = Whole
  /\ \A i \in DOMAIN s : SmallShare(s[i].pct)

LEMMA FineOwners ==
  ASSUME NEW d, Fine(d.ubo.holders)
  PROVE  /\ d.registry.holders = d.ubo.holders /\ DifferentPeople(d.ubo.holders) =>
              OwnersAgree(d)
         /\ d.ubo.declared = Declared(d.ubo.holders) => OwnersDeclared(d)
<1> DEFINE s == d.ubo.holders
           t == Total(s)
<1>1. s \in Seq(Paid) /\ t = Whole /\ \A i \in DOMAIN s : SmallShare(s[i].pct)
  BY DEF Fine
<1>2. t <= Whole
  <2> HIDE DEF t
  <2> QED
    BY <1>1 DEF Whole, Eps
<1>3. DifferentPeople(s) => Paired(s, s)
  BY DrawnArePaired
<1> HIDE DEF s, t
<1>4. d.registry.holders = s /\ DifferentPeople(s) => OwnersAgree(d)
  BY <1>1, <1>3 DEF OwnersAgree, s, t
<1>5. d.ubo.declared = Declared(s) => OwnersDeclared(d)
  BY <1>1, <1>2 DEF OwnersDeclared, s, t
<1> QED
  BY <1>4, <1>5 DEF s

LEMMA TwoAreFine ==
  ASSUME NEW m \in STRING, NEW n \in STRING, NEW x \in Nat, NEW y \in Nat, x + y = Whole,
         SmallShare(x), SmallShare(y), NEW t, t = <<Party(m, x), Party(n, y)>>
  PROVE  Fine(t)
<1>1. /\ t \in Seq(Paid) /\ Total(t) = x + y /\ DOMAIN t = {1, 2} /\ t # << >>
      /\ t[1].pct = x /\ t[2].pct = y
  BY TwoPaid
<1> QED
  BY <1>1 DEF Fine

IsTriple(t, p, q, r) == t = <<p, q, r>>

IsThree(t, p, q, r) ==
  /\ t \in Seq(Paid) /\ Len(t) = 3 /\ DOMAIN t = {1, 2, 3} /\ t # << >>
  /\ t[1] = p /\ t[2] = q /\ t[3] = r

LEMMA TripleIs ==
  ASSUME NEW p \in Paid, NEW q \in Paid, NEW r \in Paid, NEW t, IsTriple(t, p, q, r)
  PROVE  IsThree(t, p, q, r)
<1>1. 1..3 = {1, 2, 3}
  OBVIOUS
<1>2. DOMAIN <<p, q, r>> = 1..3
  OBVIOUS
<1>3. /\ <<p, q, r>> \in Seq(Paid) /\ Len(<<p, q, r>>) = 3 /\ <<p, q, r>> # << >>
      /\ <<p, q, r>>[1] = p /\ <<p, q, r>>[2] = q /\ <<p, q, r>>[3] = r
  OBVIOUS
<1>4. t = <<p, q, r>>
  BY DEF IsTriple
<1> QED
  BY <1>1, <1>2, <1>3, <1>4 DEF IsThree

LEMMA ThreePaid ==
  ASSUME NEW m \in STRING, NEW n \in STRING, NEW k \in STRING, NEW x \in Nat, NEW y \in Nat,
         NEW z \in Nat, NEW t, t = <<Party(m, x), Party(n, y), Party(k, z)>>
  PROVE  /\ t \in Seq(Paid) /\ Total(t) = x + y + z /\ DOMAIN t = {1, 2, 3} /\ t # << >>
         /\ Len(t) = 3 /\ t[1] = Party(m, x) /\ t[2] = Party(n, y) /\ t[3] = Party(k, z)
         /\ t[1].pct = x /\ t[2].pct = y /\ t[3].pct = z
<1> DEFINE p == Party(m, x)
           q == Party(n, y)
           r == Party(k, z)
<1>1. p \in Paid /\ q \in Paid /\ r \in Paid /\ p.pct = x /\ q.pct = y /\ r.pct = z
  BY DEF Party, Paid
<1>2. IsTriple(t, p, q, r)
  BY DEF IsTriple
<1> HIDE DEF p, q, r
<1>3. IsThree(t, p, q, r)
  BY <1>1, <1>2, TripleIs, Zenon
<1>4. /\ t \in Seq(Paid) /\ Len(t) = 3 /\ DOMAIN t = {1, 2, 3} /\ t # << >>
      /\ t[1] = p /\ t[2] = q /\ t[3] = r /\ t[1].pct = x /\ t[2].pct = y /\ t[3].pct = z
  BY <1>1, <1>3 DEF IsThree
<1>5. Total(t) = x + y + z
  <2>1. Total(t) = t[1].pct + (IF Len(t) > 1 THEN t[2].pct ELSE 0)
                     + (IF Len(t) > 2 THEN t[3].pct ELSE 0)
    BY <1>4, TotalOfThree
  <2> QED
    BY <1>4, <2>1
<1> QED
  BY <1>4, <1>5 DEF p, q, r

LEMMA ThreeAreFine ==
  ASSUME NEW m \in STRING, NEW n \in STRING, NEW k \in STRING, NEW x \in Nat, NEW y \in Nat,
         NEW z \in Nat, x + y + z = Whole, SmallShare(x), SmallShare(y), SmallShare(z),
         NEW t, t = <<Party(m, x), Party(n, y), Party(k, z)>>
  PROVE  Fine(t)
<1>1. /\ t \in Seq(Paid) /\ Total(t) = x + y + z /\ DOMAIN t = {1, 2, 3} /\ t # << >>
      /\ t[1].pct = x /\ t[2].pct = y /\ t[3].pct = z
  BY ThreePaid
<1> QED
  BY <1>1 DEF Fine

(* A seed under one legal name, filled in.                                 *)
LEMMA OneNameIs ==
  ASSUME NEW d, NEW days, NEW owners, NEW signatories, NEW holders, NEW declarant,
         IsFiling(d, days, OneLegalName, owners, signatories, holders, Declared(holders),
                  declarant),
         owners # << >>, signatories # << >>, declarant # Blank
  PROVE  /\ DOMAIN d = Documents /\ OneEntity(d) /\ Filled(d)
         /\ d.registry.date = days[1] /\ d.circular.date = days[2] /\ d.ubo.date = days[3]
         /\ d.registry.holders = owners /\ d.circular.signatories = signatories
         /\ d.ubo.holders = holders /\ d.ubo.declared = Declared(holders)
         /\ d.ubo.declarant = declarant
<1>1. /\ DOMAIN d = Documents
      /\ d.registry.date = days[1] /\ d.circular.date = days[2] /\ d.ubo.date = days[3]
      /\ d.registry.legal = OneLegalName[1] /\ d.circular.legal = OneLegalName[2]
      /\ d.ubo.legal = OneLegalName[3]
      /\ d.registry.tax = "t1" /\ d.circular.tax = "t1" /\ d.ubo.tax = "t1"
      /\ d.registry.holders = owners /\ d.circular.signatories = signatories
      /\ d.ubo.holders = holders /\ d.ubo.declared = Declared(holders)
      /\ d.ubo.declarant = declarant
  BY FilingIs
<1>2. OneEntity(d)
  BY <1>1 DEF OneEntity, OneLegalName
<1>3. Filled(d)
  BY <1>1, <1>2, LegalFormsAssumption DEF Filled, OneEntity, Blank
<1> QED
  BY <1>1, <1>2, <1>3

(* The codes of a label that are not the checks' to find.                  *)
NotOfChecks == {"NONE", "X1", "X2"}

AsLabelled(d, codes) == Apart(d, codes) => AllCodes(d) = codes \ NotOfChecks

Labelled(c, code) == c.case.truth.codes = {code}

ApartFor(c, code) == Apart(c.dossier, {code})

IsSeed(c, legal, owners, circular, signatories, ubo, holders, declarant, code, decision) ==
  c = Seed(legal, owners, circular, signatories, ubo, holders, declarant, code, decision)

LEMMA SeedsAreFilings ==
  ASSUME NEW c, NEW legal, NEW owners, NEW circular, NEW signatories, NEW ubo, NEW holders,
         NEW declarant, NEW code, NEW decision,
         IsSeed(c, legal, owners, circular, signatories, ubo, holders, declarant, code, decision)
  PROVE  /\ IsFiling(c.dossier, <<0, circular, ubo>>, legal, owners, signatories, holders,
                     Declared(holders), declarant)
         /\ Labelled(c, code)
BY DEF IsSeed, Seed, Case, Truth, IsFiling, Labelled

(* Lists of owners and of signatories, written out.                        *)
TwoOwners(t, m, x, n, y) == t = <<Party(m, x), Party(n, y)>>

ThreeOwners(t, m, x, n, y, k, z) == t = <<Party(m, x), Party(n, y), Party(k, z)>>

OneSig(list, name, day) == list = <<Sig(name, day)>>

TwoSigs(list, m, n, day) == list = <<Sig(m, day), Sig(n, day)>>

OneSigns(list, name, day) ==
  /\ DOMAIN list \subseteq Nat \ {0} /\ 1 \in DOMAIN list /\ list # << >>
  /\ list[1].name = name /\ list[1].until = {day}

TwoSign(list, n, day) ==
  /\ DOMAIN list \subseteq Nat \ {0} /\ 2 \in DOMAIN list /\ list # << >>
  /\ list[2].name = n /\ \A j \in DOMAIN list : list[j].until = {day}

TwoShares(x, y) ==
  x \in Nat /\ y \in Nat /\ x + y = Whole /\ SmallShare(x) /\ SmallShare(y)

ThreeShares(x, y, z) ==
  /\ x \in Nat /\ y \in Nat /\ z \in Nat /\ x + y + z = Whole
  /\ SmallShare(x) /\ SmallShare(y) /\ SmallShare(z)

LEMMA TwoOwnersAreFine ==
  ASSUME NEW m, NEW n, NEW x, NEW y, m \in STRING, n \in STRING, TwoShares(x, y),
         NEW t, TwoOwners(t, m, x, n, y)
  PROVE  Fine(t)
BY TwoAreFine DEF TwoOwners, TwoShares

LEMMA ThreeOwnersAreFine ==
  ASSUME NEW m, NEW n, NEW k, NEW x, NEW y, NEW z, m \in STRING, n \in STRING, k \in STRING,
         ThreeShares(x, y, z), NEW t, ThreeOwners(t, m, x, n, y, k, z)
  PROVE  Fine(t)
BY ThreeAreFine DEF ThreeOwners, ThreeShares

LEMMA OneSignatory ==
  ASSUME NEW name, NEW day, NEW list, OneSig(list, name, day)
  PROVE  OneSigns(list, name, day)
<1> DEFINE sig == Sig(name, day)
<1>1. sig.name = name /\ sig.until = {day} /\ list = <<sig>>
  BY DEF Sig, OneSig
<1> HIDE DEF sig
<1>2. DOMAIN list = 1..1 /\ list # << >> /\ list[1] = sig
  BY <1>1
<1> QED
  BY <1>1, <1>2 DEF OneSigns

LEMMA TwoSignatories ==
  ASSUME NEW m, NEW n, NEW day, NEW list, TwoSigs(list, m, n, day)
  PROVE  TwoSign(list, n, day)
<1> DEFINE p == Sig(m, day)
           q == Sig(n, day)
<1>1. /\ p.until = {day} /\ q.name = n /\ q.until = {day} /\ list = <<p, q>>
  BY DEF Sig, TwoSigs
<1> HIDE DEF p, q
<1>2. DOMAIN list = 1..2 /\ list # << >> /\ list[1] = p /\ list[2] = q
  BY <1>1
<1> QED
  BY <1>1, <1>2 DEF TwoSign

Current(until, day) == ~(until < day)

(* Only the authority of the declarant is in question.                     *)
SignerDecides(d, circular, signatories, ubo, declarant) ==
  /\ AllCodes(d) = AuthorityCodes(d.circular, d.ubo)
  /\ d.circular.signatories = signatories /\ d.ubo.declarant = declarant
  /\ d.circular.date = circular /\ d.ubo.date = ubo

LEMMA LeadDecides ==
  ASSUME NEW d, NEW circular, NEW list, NEW ubo, NEW declarant,
         SignerDecides(d, circular, list, ubo, declarant),
         NEW day, OneSigns(list, declarant, day), Current(day, ubo)
  PROVE  AllCodes(d) = {}
<1>1. /\ DOMAIN d.circular.signatories \subseteq Nat \ {0} /\ 1 \in DOMAIN d.circular.signatories
      /\ SamePerson(d.ubo.declarant, d.circular.signatories[1].name)
      /\ d.circular.signatories[1].until = {day}
  BY DEF SignerDecides, OneSigns, SamePerson
<1>2. ~(day < d.ubo.date)
  BY DEF SignerDecides, Current
<1>3. AuthorityCodes(d.circular, d.ubo) = {}
  BY <1>1, <1>2, FirstSigns
<1> QED
  BY <1>3 DEF SignerDecides

LEMMA SecondDecides ==
  ASSUME NEW d, NEW circular, NEW list, NEW ubo, NEW declarant,
         SignerDecides(d, circular, list, ubo, declarant),
         NEW day, TwoSign(list, declarant, day), Current(day, ubo)
  PROVE  AllCodes(d) = {}
<1>1. /\ DOMAIN d.circular.signatories \subseteq Nat /\ 2 \in DOMAIN d.circular.signatories
      /\ SamePerson(d.ubo.declarant, d.circular.signatories[2].name)
      /\ \A j \in DOMAIN d.circular.signatories : d.circular.signatories[j].until = {day}
  BY DEF SignerDecides, TwoSign, SamePerson
<1>2. ~(day < d.ubo.date)
  BY DEF SignerDecides, Current
<1>3. AuthorityCodes(d.circular, d.ubo) = {}
  BY <1>1, <1>2, SomebodySigns
<1> QED
  BY <1>3 DEF SignerDecides

(* The seeds in which both documents name the same owners.                 *)
LEMMA AgreeingSeed ==
  ASSUME NEW c, NEW owners, NEW circular, NEW signatories, NEW ubo, NEW declarant, NEW code,
         NEW decision,
         IsSeed(c, OneLegalName, owners, circular, signatories, ubo, owners, declarant, code,
                decision),
         Fine(owners), signatories # << >>, declarant # Blank, ApartFor(c, code)
  PROVE  SignerDecides(c.dossier, circular, signatories, ubo, declarant)
<1> DEFINE d == c.dossier
           days == <<0, circular, ubo>>
<1>1. IsFiling(d, days, OneLegalName, owners, signatories, owners, Declared(owners), declarant)
  BY SeedsAreFilings
<1>2. owners # << >> /\ days[2] = circular /\ days[3] = ubo
  BY DEF Fine
<1> HIDE DEF d, days
<1>3. /\ DOMAIN d = Documents /\ OneEntity(d) /\ Filled(d)
      /\ d.circular.date = days[2] /\ d.ubo.date = days[3]
      /\ d.registry.holders = owners /\ d.circular.signatories = signatories
      /\ d.ubo.holders = owners /\ d.ubo.declared = Declared(owners)
      /\ d.ubo.declarant = declarant
  BY <1>1, <1>2, OneNameIs
<1>4. DifferentPeople(d.ubo.holders)
  BY <1>3 DEF ApartFor, Apart, Documents, d
<1>5. OwnersAgree(d) /\ OwnersDeclared(d)
  BY <1>3, <1>4, FineOwners
<1>6. AllCodes(d) = AuthorityCodes(d.circular, d.ubo)
  BY <1>3, <1>5, CodesOfFilled, OneEntityIsSilent, AgreedIsSilent, DeclaredIsSilent
<1> QED
  BY <1>2, <1>3, <1>6 DEF d, SignerDecides

LEMMA Seed01IsAsLabelled ==
  AsLabelled(Seed01.dossier, Seed01.case.truth.codes)
<1> DEFINE owners == <<Party("hasan", 60000), Party("emine", 40000)>>
           list == <<Sig("hasan", 1114)>>
           c == Seed01
<1>1. IsSeed(c, OneLegalName, owners, 19, list, 222, owners, "hasan", "NONE", "approve")
  BY DEF Seed01, IsSeed
<1>2. TwoOwners(owners, "hasan", 60000, "emine", 40000) /\ OneSig(list, "hasan", 1114)
  BY DEF TwoOwners, OneSig
<1> HIDE DEF owners, list, c
<1>3. Fine(owners)
  <2>1. TwoShares(60000, 40000)
    BY DEF TwoShares, SmallShare, Settled, Whole, Eps, UboThreshold
  <2> QED
    BY <1>2, <2>1, TwoOwnersAreFine, AuthoredNamesAssumption
<1>4. OneSigns(list, "hasan", 1114) /\ list # << >>
  BY <1>2, OneSignatory DEF OneSigns
<1>5. Labelled(c, "NONE") /\ "hasan" # Blank
  BY <1>1, SeedsAreFilings DEF Blank
<1> SUFFICES ASSUME ApartFor(c, "NONE") PROVE AllCodes(c.dossier) = {}
  BY <1>5 DEF AsLabelled, NotOfChecks, Labelled, ApartFor, c
<1>6. SignerDecides(c.dossier, 19, list, 222, "hasan")
  BY <1>1, <1>3, <1>4, <1>5, AgreeingSeed
<1>7. Current(1114, 222)
  BY DEF Current
<1> QED
  BY <1>4, <1>6, <1>7, LeadDecides

LEMMA Seed02IsAsLabelled ==
  AsLabelled(Seed02.dossier, Seed02.case.truth.codes)
<1> DEFINE owners == <<Party("cemil", 45000), Party("nurten", 35000), Party("oguz", 20000)>>
           list == <<Sig("cemil", 1111), Sig("nurten", 1111)>>
           c == Seed02
<1>1. IsSeed(c, OneLegalName, owners, 15, list, 193, owners, "nurten", "NONE", "approve")
  BY DEF Seed02, IsSeed
<1>2. /\ ThreeOwners(owners, "cemil", 45000, "nurten", 35000, "oguz", 20000)
      /\ TwoSigs(list, "cemil", "nurten", 1111)
  BY DEF ThreeOwners, TwoSigs
<1> HIDE DEF owners, list, c
<1>3. Fine(owners)
  <2>1. ThreeShares(45000, 35000, 20000)
    BY DEF ThreeShares, SmallShare, Settled, Whole, Eps, UboThreshold
  <2> QED
    BY <1>2, <2>1, ThreeOwnersAreFine, AuthoredNamesAssumption
<1>4. TwoSign(list, "nurten", 1111) /\ list # << >>
  BY <1>2, TwoSignatories DEF TwoSign
<1>5. Labelled(c, "NONE") /\ "nurten" # Blank
  BY <1>1, SeedsAreFilings DEF Blank
<1> SUFFICES ASSUME ApartFor(c, "NONE") PROVE AllCodes(c.dossier) = {}
  BY <1>5 DEF AsLabelled, NotOfChecks, Labelled, ApartFor, c
<1>6. SignerDecides(c.dossier, 15, list, 193, "nurten")
  BY <1>1, <1>3, <1>4, <1>5, AgreeingSeed
<1>7. Current(1111, 193)
  BY DEF Current
<1> QED
  BY <1>4, <1>6, <1>7, SecondDecides

(* The seeds in which a stranger declares.                                 *)
LEMMA StrangeSeed ==
  ASSUME NEW c, NEW owners, NEW circular \in Int, NEW signatories, NEW ubo \in Int,
         NEW declarant, NEW code, code = "C1a" \/ code = "C1b", NEW decision,
         IsSeed(c, OneLegalName, owners, circular, signatories, ubo, owners, declarant, code,
                decision),
         Fine(owners), signatories # << >>, declarant # Blank,
         code = IF ubo - circular > StalenessDays THEN "C1a" ELSE "C1b"
  PROVE  AsLabelled(c.dossier, c.case.truth.codes)
<1>1. c.case.truth.codes = {code}
  BY SeedsAreFilings DEF Labelled
<1> SUFFICES ASSUME ApartFor(c, code) PROVE AllCodes(c.dossier) = {code}
  BY <1>1 DEF AsLabelled, NotOfChecks, ApartFor
<1>2. /\ AllCodes(c.dossier) = AuthorityCodes(c.dossier.circular, c.dossier.ubo)
      /\ c.dossier.circular.date = circular /\ c.dossier.ubo.date = ubo
  BY AgreeingSeed DEF SignerDecides
<1>3. \A i \in DOMAIN c.dossier.circular.signatories :
        ~SamePerson(c.dossier.ubo.declarant, c.dossier.circular.signatories[i].name)
  BY DEF ApartFor, Apart
<1>4. AuthorityCodes(c.dossier.circular, c.dossier.ubo)
        = IF ubo - circular > StalenessDays THEN {"C1a"} ELSE {"C1b"}
  BY <1>2, <1>3, NobodySigns
<1> QED
  BY <1>2, <1>4

LEMMA Seed06IsAsLabelled ==
  AsLabelled(Seed06.dossier, Seed06.case.truth.codes)
<1> DEFINE owners == <<Party("pelin", 55000), Party("deniz", 45000)>>
           list == <<Sig("mehmet", 470)>>
           c == Seed06
<1>1. IsSeed(c, OneLegalName, owners, -626, list, 128, owners, "elif", "C1a",
             "request_more_info")
  BY DEF Seed06, IsSeed
<1>2. TwoOwners(owners, "pelin", 55000, "deniz", 45000) /\ OneSig(list, "mehmet", 470)
  BY DEF TwoOwners, OneSig
<1> HIDE DEF owners, list, c
<1>3. Fine(owners)
  <2>1. TwoShares(55000, 45000)
    BY DEF TwoShares, SmallShare, Settled, Whole, Eps, UboThreshold
  <2> QED
    BY <1>2, <2>1, TwoOwnersAreFine, AuthoredNamesAssumption
<1>4. list # << >>
  BY <1>2, OneSignatory DEF OneSigns
<1>5. -626 \in Int /\ 128 \in Int /\ 128 - (-626) > StalenessDays /\ "elif" # Blank
  BY DEF StalenessDays, Blank
<1> QED
  BY <1>1, <1>3, <1>4, <1>5, StrangeSeed DEF c

LEMMA Seed07IsAsLabelled ==
  AsLabelled(Seed07.dossier, Seed07.case.truth.codes)
<1> DEFINE owners == <<Party("serkan", 65000), Party("hulya", 35000)>>
           list == <<Sig("serkan", 1319), Sig("hulya", 1319)>>
           c == Seed07
<1>1. IsSeed(c, OneLegalName, owners, 223, list, 54, owners, "burak", "C1b", "escalate")
  BY DEF Seed07, IsSeed
<1>2. TwoOwners(owners, "serkan", 65000, "hulya", 35000) /\ TwoSigs(list, "serkan", "hulya", 1319)
  BY DEF TwoOwners, TwoSigs
<1> HIDE DEF owners, list, c
<1>3. Fine(owners)
  <2>1. TwoShares(65000, 35000)
    BY DEF TwoShares, SmallShare, Settled, Whole, Eps, UboThreshold
  <2> QED
    BY <1>2, <2>1, TwoOwnersAreFine, AuthoredNamesAssumption
<1>4. list # << >>
  BY <1>2, TwoSignatories DEF TwoSign
<1>5. 223 \in Int /\ 54 \in Int /\ ~(54 - 223 > StalenessDays) /\ "burak" # Blank
  BY DEF StalenessDays, Blank
<1> QED
  BY <1>1, <1>3, <1>4, <1>5, StrangeSeed DEF c

(* The seeds whose documents name different owners.                        *)
OwnersDecide(d, owners, holders, ubo) ==
  /\ AllCodes(d) = OwnershipCodes(d.registry, d.ubo)
  /\ d.registry.holders = owners /\ d.ubo.holders = holders
  /\ d.registry.date = 0 /\ d.ubo.date = ubo
  /\ DifferentPeople(owners) /\ DifferentPeople(holders)

LEMMA MovedSeed ==
  ASSUME NEW c, NEW owners, NEW circular, NEW list, NEW ubo, NEW holders, NEW declarant,
         NEW code, NEW decision, NEW day,
         IsSeed(c, OneLegalName, owners, circular, list, ubo, holders, declarant, code, decision),
         Fine(owners), Fine(holders), OneSigns(list, declarant, day), Current(day, ubo),
         declarant # Blank, ApartFor(c, code)
  PROVE  OwnersDecide(c.dossier, owners, holders, ubo)
<1> DEFINE d == c.dossier
           days == <<0, circular, ubo>>
<1>1. IsFiling(d, days, OneLegalName, owners, list, holders, Declared(holders), declarant)
  BY SeedsAreFilings
<1>2. owners # << >> /\ list # << >> /\ days[1] = 0 /\ days[3] = ubo
  BY DEF Fine, OneSigns
<1> HIDE DEF d, days
<1>3. /\ DOMAIN d = Documents /\ OneEntity(d) /\ Filled(d)
      /\ d.registry.date = days[1] /\ d.ubo.date = days[3]
      /\ d.registry.holders = owners /\ d.circular.signatories = list
      /\ d.ubo.holders = holders /\ d.ubo.declared = Declared(holders)
      /\ d.ubo.declarant = declarant
  BY <1>1, <1>2, OneNameIs
<1>4. DifferentPeople(owners) /\ DifferentPeople(holders)
  BY <1>3 DEF ApartFor, Apart, Documents, d
<1>5. OwnersDeclared(d)
  BY <1>3, FineOwners
<1>6. AuthorityCodes(d.circular, d.ubo) = {}
  <2>1. /\ DOMAIN d.circular.signatories \subseteq Nat \ {0}
        /\ 1 \in DOMAIN d.circular.signatories
        /\ SamePerson(d.ubo.declarant, d.circular.signatories[1].name)
        /\ d.circular.signatories[1].until = {day}
    BY <1>3 DEF OneSigns, SamePerson
  <2>2. ~(day < d.ubo.date)
    BY <1>2, <1>3 DEF Current
  <2> QED
    BY <2>1, <2>2, FirstSigns
<1>7. AllCodes(d) = OwnershipCodes(d.registry, d.ubo)
  BY <1>3, <1>5, <1>6, CodesOfFilled, OneEntityIsSilent, DeclaredIsSilent
<1> QED
  BY <1>2, <1>3, <1>4, <1>7 DEF d, OwnersDecide

(* Two and three owners, entry by entry.                                   *)
AreTwo(t, m, x, n, y) ==
  /\ t \in Seq(Paid) /\ DOMAIN t = {1, 2} /\ Len(t) = 2
  /\ t[1].name = m /\ t[1].pct = x /\ t[2].name = n /\ t[2].pct = y

AreThree(t, m, x, n, y, k, z) ==
  /\ t \in Seq(Paid) /\ DOMAIN t = {1, 2, 3} /\ Len(t) = 3
  /\ t[1].name = m /\ t[1].pct = x /\ t[2].name = n /\ t[2].pct = y
  /\ t[3].name = k /\ t[3].pct = z

LEMMA TwoOwnersAre ==
  ASSUME NEW m, NEW n, NEW x, NEW y, m \in STRING, n \in STRING, TwoShares(x, y),
         NEW t, TwoOwners(t, m, x, n, y)
  PROVE  AreTwo(t, m, x, n, y)
<1>1. x \in Nat /\ y \in Nat /\ t = <<Party(m, x), Party(n, y)>>
  BY DEF TwoOwners, TwoShares
<1>2. /\ t \in Seq(Paid) /\ DOMAIN t = {1, 2}
      /\ t[1].name = m /\ t[1].pct = x /\ t[2].name = n /\ t[2].pct = y
  BY <1>1, TwoPaid
<1>3. Len(t) = 2
  BY <1>1
<1> QED
  BY <1>2, <1>3 DEF AreTwo

LEMMA ThreeOwnersAre ==
  ASSUME NEW m, NEW n, NEW k, NEW x, NEW y, NEW z, m \in STRING, n \in STRING, k \in STRING,
         ThreeShares(x, y, z), NEW t, ThreeOwners(t, m, x, n, y, k, z)
  PROVE  AreThree(t, m, x, n, y, k, z)
<1>1. /\ x \in Nat /\ y \in Nat /\ z \in Nat
      /\ t = <<Party(m, x), Party(n, y), Party(k, z)>>
  BY DEF ThreeOwners, ThreeShares
<1>2. /\ t \in Seq(Paid) /\ DOMAIN t = {1, 2, 3} /\ Len(t) = 3
      /\ t[1] = Party(m, x) /\ t[2] = Party(n, y) /\ t[3] = Party(k, z)
  BY <1>1, ThreePaid
<1> QED
  BY <1>2 DEF AreThree, Party

(* The last of three has left, and the second holds more.                  *)
LEMMA ExitIs ==
  ASSUME NEW s, NEW t, NEW m, NEW n, NEW k, AreThree(s, m, 50000, n, 30000, k, 20000),
         AreTwo(t, m, 50000, n, 50000), DifferentPeople(s)
  PROVE  /\ OneToOne(s, t) /\ ~SameHolders(s, t, Eps)
         /\ \E i \in DOMAIN s, j \in DOMAIN t : SamePerson(s[i].name, t[j].name)
         /\ \A i \in DOMAIN s, j \in DOMAIN t :
              SamePerson(s[i].name, t[j].name) => t[j].pct >= s[i].pct
<1>1. \A j \in DOMAIN t : j \in DOMAIN s /\ t[j].name = s[j].name /\ t[j].pct >= s[j].pct
  BY DEF AreThree, AreTwo
<1>2. \A i \in DOMAIN s, j \in DOMAIN t : SamePerson(s[i].name, t[j].name) => i = j
  BY <1>1 DEF DifferentPeople
<1>3. \A i \in DOMAIN s, j \in DOMAIN t :
        SamePerson(s[i].name, t[j].name) => t[j].pct >= s[i].pct
  BY <1>1, <1>2
<1>4. OneToOne(s, t)
  BY <1>1, <1>2 DEF OneToOne, AtMostOne
<1>5. Len(s) # Len(t)
  BY DEF AreThree, AreTwo
<1>6. ~SameHolders(s, t, Eps)
  BY <1>5 DEF SameHolders
<1>7. 1 \in DOMAIN s /\ 1 \in DOMAIN t /\ SamePerson(s[1].name, t[1].name)
  BY <1>1 DEF AreThree, AreTwo, SamePerson
<1> QED
  BY <1>3, <1>4, <1>6, <1>7

LEMMA Seed04IsAsLabelled ==
  AsLabelled(Seed04.dossier, Seed04.case.truth.codes)
<1> DEFINE owners == <<Party("ahmet", 50000), Party("zeynep", 30000), Party("murat", 20000)>>
           holders == <<Party("ahmet", 50000), Party("zeynep", 50000)>>
           list == <<Sig("ahmet", 1108)>>
           c == Seed04
<1>1. IsSeed(c, OneLegalName, owners, 13, list, 622, holders, "ahmet", "B1a",
             "request_more_info")
  BY DEF Seed04, IsSeed
<1>2. /\ ThreeOwners(owners, "ahmet", 50000, "zeynep", 30000, "murat", 20000)
      /\ TwoOwners(holders, "ahmet", 50000, "zeynep", 50000) /\ OneSig(list, "ahmet", 1108)
  BY DEF ThreeOwners, TwoOwners, OneSig
<1> HIDE DEF owners, holders, list, c
<1>3. ThreeShares(50000, 30000, 20000) /\ TwoShares(50000, 50000)
  BY DEF ThreeShares, TwoShares, SmallShare, Settled, Whole, Eps, UboThreshold
<1>4. Fine(owners) /\ AreThree(owners, "ahmet", 50000, "zeynep", 30000, "murat", 20000)
  BY <1>2, <1>3, ThreeOwnersAreFine, ThreeOwnersAre, AuthoredNamesAssumption
<1>5. Fine(holders) /\ AreTwo(holders, "ahmet", 50000, "zeynep", 50000)
  BY <1>2, <1>3, TwoOwnersAreFine, TwoOwnersAre, AuthoredNamesAssumption
<1>6. OneSigns(list, "ahmet", 1108) /\ Current(1108, 622) /\ "ahmet" # Blank
  BY <1>2, OneSignatory DEF Current, Blank
<1>7. Labelled(c, "B1a")
  BY <1>1 DEF IsSeed, Seed, Case, Truth, Labelled
<1> SUFFICES ASSUME ApartFor(c, "B1a") PROVE AllCodes(c.dossier) = {"B1a"}
  BY <1>7 DEF AsLabelled, NotOfChecks, Labelled, ApartFor, c
<1>8. OwnersDecide(c.dossier, owners, holders, 622)
  BY <1>1, <1>4, <1>5, <1>6, MovedSeed
<1> DEFINE d == c.dossier
<1> HIDE DEF d
<1>9. /\ AllCodes(d) = OwnershipCodes(d.registry, d.ubo) /\ DifferentPeople(owners)
      /\ d.registry.holders = owners /\ d.ubo.holders = holders /\ d.ubo.date > d.registry.date
  BY <1>8 DEF OwnersDecide, d
<1>10. /\ OneToOne(owners, holders) /\ ~SameHolders(owners, holders, Eps)
       /\ \E i \in DOMAIN owners, j \in DOMAIN holders :
            SamePerson(owners[i].name, holders[j].name)
       /\ \A i \in DOMAIN owners, j \in DOMAIN holders :
            SamePerson(owners[i].name, holders[j].name) => holders[j].pct >= owners[i].pct
  BY <1>4, <1>5, <1>9, ExitIs
<1>11. OwnershipCodes(d.registry, d.ubo) = {"B1a"}
  <2>1. /\ d.registry.holders \in Seq(Paid) /\ d.ubo.holders \in Seq(Paid)
        /\ OneToOne(d.registry.holders, d.ubo.holders)
        /\ Total(d.registry.holders) = Whole /\ Total(d.ubo.holders) = Whole
        /\ ~SameHolders(d.registry.holders, d.ubo.holders, Eps)
    BY <1>4, <1>5, <1>9, <1>10 DEF Fine
  <2>2. \E i \in DOMAIN d.registry.holders, j \in DOMAIN d.ubo.holders :
          SamePerson(d.registry.holders[i].name, d.ubo.holders[j].name)
    BY <1>9, <1>10
  <2>3. \A i \in DOMAIN d.registry.holders, j \in DOMAIN d.ubo.holders :
          SamePerson(d.registry.holders[i].name, d.ubo.holders[j].name)
            => d.ubo.holders[j].pct >= d.registry.holders[i].pct
    BY <1>9, <1>10
  <2> QED
    BY <1>9, <2>1, <2>2, <2>3, ExitCodes
<1> QED
  BY <1>9, <1>11 DEF d

LEMMA Seed05IsAsLabelled ==
  AsLabelled(Seed05.dossier, Seed05.case.truth.codes)
<1> DEFINE owners == <<Party("ali", 60000), Party("ayse", 40000)>>
           holders == <<Party("ali", 40000), Party("ayse", 30000), Party("kemal", 30000)>>
           list == <<Sig("ali", 1113)>>
           older == -835
           c == Seed05
<1>1. IsSeed(c, OneLegalName, owners, 17, list, older, holders, "ali", "B1b", "escalate")
  BY DEF Seed05, IsSeed
<1>2. /\ TwoOwners(owners, "ali", 60000, "ayse", 40000)
      /\ ThreeOwners(holders, "ali", 40000, "ayse", 30000, "kemal", 30000)
      /\ OneSig(list, "ali", 1113)
  BY DEF ThreeOwners, TwoOwners, OneSig
<1> HIDE DEF owners, holders, list, older, c
<1>3. ThreeShares(40000, 30000, 30000) /\ TwoShares(60000, 40000)
  BY DEF ThreeShares, TwoShares, SmallShare, Settled, Whole, Eps, UboThreshold
<1>4. Fine(holders) /\ AreThree(holders, "ali", 40000, "ayse", 30000, "kemal", 30000)
  BY <1>2, <1>3, ThreeOwnersAreFine, ThreeOwnersAre, AuthoredNamesAssumption
<1>5. Fine(owners) /\ AreTwo(owners, "ali", 60000, "ayse", 40000)
  BY <1>2, <1>3, TwoOwnersAreFine, TwoOwnersAre, AuthoredNamesAssumption
<1>6. OneSigns(list, "ali", 1113) /\ Current(1113, older) /\ "ali" # Blank
  BY <1>2, OneSignatory DEF Current, Blank, older
<1>7. Labelled(c, "B1b")
  BY <1>1 DEF IsSeed, Seed, Case, Truth, Labelled
<1> SUFFICES ASSUME ApartFor(c, "B1b") PROVE AllCodes(c.dossier) = {"B1b"}
  BY <1>7 DEF AsLabelled, NotOfChecks, Labelled, ApartFor, c
<1>8. OwnersDecide(c.dossier, owners, holders, older)
  BY <1>1, <1>4, <1>5, <1>6, MovedSeed
<1> DEFINE d == c.dossier
<1> HIDE DEF d
<1>9. /\ AllCodes(d) = OwnershipCodes(d.registry, d.ubo)
      /\ d.registry.holders = owners /\ d.ubo.holders = holders
      /\ ~(d.ubo.date > d.registry.date)
  BY <1>8 DEF OwnersDecide, d, older
<1>10. ~SameHolders(owners, holders, Eps)
  BY <1>4, <1>5 DEF AreTwo, AreThree, SameHolders
<1>11. OwnershipCodes(d.registry, d.ubo) = {"B1b"}
  BY <1>4, <1>5, <1>9, <1>10, OlderCodes DEF Fine
<1> QED
  BY <1>9, <1>11 DEF d

(* One entity in three spellings.                                          *)
Respelt(d) ==
  /\ d.registry.tax = "t1" /\ d.circular.tax = "t1"
  /\ d.registry.legal = LegalForms.full
  /\ d.circular.legal = LegalForms.caps /\ d.ubo.legal = LegalForms.ascii

LEMMA RespeltIsFound ==
  ASSUME NEW d, DOMAIN d = Documents, Respelt(d)
  PROVE  /\ d.ubo.tax = "t1" => IdentityCodes(d) = {"A1"}
         /\ d.ubo.tax # "t1" => IdentityCodes(d) = {"A1", "A2"}
<1> DEFINE oneTax   == d.registry.tax = d.circular.tax /\ d.registry.tax = d.ubo.tax
           oneLegal == d.registry.legal = d.circular.legal /\ d.registry.legal = d.ubo.legal
           alike    == /\ SameEntity(d.registry.legal, d.circular.legal)
                       /\ SameEntity(d.registry.legal, d.ubo.legal)
<1>1. IdentityCodes(d) = (IF oneTax THEN {} ELSE {"A2"})
                           \cup (IF ~oneLegal /\ alike THEN {"A1"} ELSE {})
  BY IdentityIs
<1>2. ~oneLegal /\ alike
  BY LegalFormsAssumption DEF Respelt
<1>3. oneTax <=> d.ubo.tax = "t1"
  BY DEF Respelt
<1> HIDE DEF oneTax, oneLegal, alike
<1> QED
  BY <1>1, <1>2, <1>3

LEMMA RespeltOwnersArePaired ==
  ASSUME NEW m, NEW n, m \in DOMAIN Ascii, n \in DOMAIN Ascii, NEW x, NEW y, NEW s, NEW t,
         AreTwo(s, m, x, n, y), AreTwo(t, Ascii[m], x, Ascii[n], y), DifferentPeople(s)
  PROVE  Paired(s, t)
<1>1. DOMAIN t = DOMAIN s /\ \A i \in DOMAIN s : i = 1 \/ i = 2
  BY DEF AreTwo
<1>2. \A i \in DOMAIN s : /\ t[i].pct = s[i].pct /\ t[i].name = Ascii[s[i].name]
                          /\ s[i].name \in DOMAIN Ascii
  BY <1>1 DEF AreTwo
<1>3. ASSUME NEW i \in DOMAIN s, NEW j \in DOMAIN s
      PROVE  SamePerson(s[i].name, t[j].name) <=> i = j
  <2>1. SamePerson(s[i].name, t[j].name) <=> SamePerson(s[i].name, s[j].name)
    BY <1>2, SpeltAreSame
  <2>2. SamePerson(s[i].name, s[j].name) <=> i = j
    BY DEF DifferentPeople, SamePerson
  <2> QED
    BY <2>1, <2>2
<1> QED
  BY <1>1, <1>2, <1>3 DEF Paired

LEMMA RespeltSeed ==
  ASSUME NEW c, NEW owners, NEW circular, NEW list, NEW ubo, NEW holders, NEW declarant,
         NEW decision, NEW name, NEW day,
         IsSeed(c, Surfaces, owners, circular, list, ubo, holders, declarant, "A1", decision),
         Fine(owners), Fine(holders), DifferentPeople(owners) => Paired(owners, holders),
         OneSigns(list, name, day), SamePerson(declarant, name), Current(day, ubo),
         declarant # Blank, ApartFor(c, "A1")
  PROVE  AllCodes(c.dossier) = {"A1"}
<1> DEFINE d == c.dossier
           days == <<0, circular, ubo>>
<1>1. IsFiling(d, days, Surfaces, owners, list, holders, Declared(holders), declarant)
  BY SeedsAreFilings
<1>2. owners # << >> /\ list # << >> /\ days[3] = ubo
  BY DEF Fine, OneSigns
<1> HIDE DEF d, days
<1>3. /\ DOMAIN d = Documents /\ d.ubo.date = ubo
      /\ d.registry.legal = Surfaces[1] /\ d.circular.legal = Surfaces[2]
      /\ d.ubo.legal = Surfaces[3]
      /\ d.registry.tax = "t1" /\ d.circular.tax = "t1" /\ d.ubo.tax = "t1"
      /\ d.registry.holders = owners /\ d.circular.signatories = list
      /\ d.ubo.holders = holders /\ d.ubo.declared = Declared(holders)
      /\ d.ubo.declarant = declarant
  BY <1>1, <1>2, FilingIs
<1>4. Respelt(d)
  BY <1>3 DEF Respelt, Surfaces
<1>5. Filled(d)
  BY <1>2, <1>3, <1>4, LegalFormsAssumption DEF Filled, Respelt, Blank
<1>6. DifferentPeople(owners)
  BY <1>3 DEF ApartFor, Apart, Documents, d
<1>7. OwnersAgree(d) /\ OwnersDeclared(d)
  <2>1. OwnersAgree(d)
    BY <1>3, <1>6 DEF OwnersAgree, Fine
  <2>2. OwnersDeclared(d)
    BY <1>3, FineOwners
  <2> QED
    BY <2>1, <2>2
<1>8. AuthorityCodes(d.circular, d.ubo) = {}
  <2>1. /\ DOMAIN d.circular.signatories \subseteq Nat \ {0}
        /\ 1 \in DOMAIN d.circular.signatories
        /\ SamePerson(d.ubo.declarant, d.circular.signatories[1].name)
        /\ d.circular.signatories[1].until = {day}
    BY <1>3 DEF OneSigns
  <2>2. ~(day < d.ubo.date)
    BY <1>3 DEF Current
  <2> QED
    BY <2>1, <2>2, FirstSigns
<1>9. IdentityCodes(d) = {"A1"}
  BY <1>3, <1>4, RespeltIsFound
<1> QED
  BY <1>3, <1>5, <1>7, <1>8, <1>9, CodesOfFilled, AgreedIsSilent, DeclaredIsSilent DEF d

LEMMA Seed03IsAsLabelled ==
  AsLabelled(Seed03.dossier, Seed03.case.truth.codes)
<1> DEFINE m == "ilker"
           n == "sila"
           owners == <<Party(m, 70000), Party(n, 30000)>>
           holders == <<Party(Ascii[m], 70000), Party(Ascii[n], 30000)>>
           list == <<Sig("ILKER", 1120)>>
           c == Seed03
<1>1. IsSeed(c, Surfaces, owners, 25, list, 191, holders, Ascii[m], "A1", "approve")
  BY DEF Seed03, IsSeed
<1>2. /\ TwoOwners(owners, m, 70000, n, 30000)
      /\ TwoOwners(holders, Ascii[m], 70000, Ascii[n], 30000) /\ OneSig(list, "ILKER", 1120)
  BY DEF TwoOwners, OneSig
<1>3. /\ m \in DOMAIN Ascii /\ n \in DOMAIN Ascii /\ m \in STRING /\ n \in STRING
      /\ SamePerson(Ascii[m], "ILKER")
  BY AuthoredNamesAssumption
<1>4. Ascii[m] \in STRING /\ Ascii[n] \in STRING /\ Ascii[m] # Blank
  <2> HIDE DEF m, n
  <2> QED
    BY <1>3, NamesAssumption
<1> DEFINE u == Ascii[m]
           v == Ascii[n]
<1>5. /\ TwoOwners(holders, u, 70000, v, 30000) /\ u \in STRING /\ v \in STRING /\ u # Blank
      /\ u = Ascii[m] /\ v = Ascii[n]
  BY <1>2, <1>4
<1> HIDE DEF owners, holders, list, c, m, n
<1>6. TwoShares(70000, 30000)
  BY DEF TwoShares, SmallShare, Settled, Whole, Eps, UboThreshold
<1>7. Fine(owners) /\ AreTwo(owners, m, 70000, n, 30000)
  BY <1>2, <1>3, <1>6, TwoOwnersAreFine, TwoOwnersAre
<1>8. Fine(holders) /\ AreTwo(holders, u, 70000, v, 30000)
  <2> HIDE DEF u, v
  <2> QED
    BY <1>5, <1>6, TwoOwnersAreFine, TwoOwnersAre
<1>9. DifferentPeople(owners) => Paired(owners, holders)
  BY <1>3, <1>7, <1>8, RespeltOwnersArePaired
<1>10. OneSigns(list, "ILKER", 1120) /\ Current(1120, 191)
  BY <1>2, OneSignatory DEF Current
<1>11. Labelled(c, "A1") /\ IsSeed(c, Surfaces, owners, 25, list, 191, holders, u, "A1", "approve")
  BY <1>1, SeedsAreFilings
<1> SUFFICES ASSUME ApartFor(c, "A1") PROVE AllCodes(c.dossier) = {"A1"}
  BY <1>11 DEF AsLabelled, NotOfChecks, Labelled, ApartFor, c
<1>12. SamePerson(u, "ILKER")
  BY <1>3
<1> HIDE DEF u, v
<1> QED
  BY <1>5, <1>7, <1>8, <1>9, <1>10, <1>11, <1>12, RespeltSeed

LEMMA Seed08IsAsLabelled ==
  AsLabelled(Seed08.dossier, Seed08.case.truth.codes)
<1> DEFINE owners == <<Party("derya", 51000), Party("tolga", 29000), Party("ferhat", 20000)>>
           list == <<Sig("derya", 1110)>>
           whole == Seed(OneLegalName, owners, 14, list, 0, owners, "derya", "E1",
                         "request_more_info")
           b == whole.dossier
           d == Seed08.dossier
           days == <<0, 14, 0>>
<1>1. IsSeed(whole, OneLegalName, owners, 14, list, 0, owners, "derya", "E1",
             "request_more_info")
  BY DEF IsSeed
<1>2. /\ ThreeOwners(owners, "derya", 51000, "tolga", 29000, "ferhat", 20000)
      /\ OneSig(list, "derya", 1110)
  BY DEF ThreeOwners, OneSig
<1>3. d = Without(b, "ubo") /\ Seed08.case.truth.codes = {"E1"}
  <2>1. Documents \ {"ubo"} = {"registry", "circular"}
    BY DEF Documents
  <2>2. d = [label \in {"registry", "circular"} |-> b[label]]
    BY DEF Seed08, Seed
  <2>3. Seed08.case.truth.codes = {"E1"}
    BY DEF Seed08, Seed, Case, Truth
  <2> QED
    BY <2>1, <2>2, <2>3 DEF Without
<1>4. Fine(owners)
  <2>1. ThreeShares(51000, 29000, 20000)
    BY DEF ThreeShares, SmallShare, Settled, Whole, Eps, UboThreshold
  <2> HIDE DEF owners
  <2> QED
    BY <1>2, <2>1, ThreeOwnersAreFine, AuthoredNamesAssumption
<1>5. OneSigns(list, "derya", 1110)
  <2> HIDE DEF list
  <2> QED
    BY <1>2, OneSignatory
<1> HIDE DEF owners, list, whole
<1>6. IsFiling(b, days, OneLegalName, owners, list, owners, Declared(owners), "derya")
  BY <1>1, SeedsAreFilings
<1> HIDE DEF b, d, days
<1>7. DOMAIN b = Documents /\ OneEntity(b) /\ Filled(b)
  <2>1. owners # << >> /\ list # << >> /\ "derya" # Blank
    BY <1>4, <1>5 DEF Fine, OneSigns, Blank
  <2> QED
    BY <1>6, <2>1, OneNameIs
<1>8. IdentityCodes(d) = {} /\ CompletenessCodes(d) = {"E1"}
  BY <1>3, <1>7, PartIdentity, PartCompleteness DEF Documents
<1>9. DOMAIN d = Documents \ {"ubo"}
  BY <1>3 DEF Without
<1>10. /\ CodesReported("check_identity_consistency", d) = {}
       /\ CodesReported("check_completeness", d) = {"E1"}
  BY <1>8 DEF CodesReported, CodesOf, CanRun
<1>11. /\ CodesReported("check_ownership_consistency", d) = {}
       /\ CodesReported("check_authority_chain", d) = {}
       /\ CodesReported("check_ubo_derivation", d) = {}
  BY <1>9 DEF CodesReported, CanRun
<1>12. AllCodes(d) = {"E1"}
  BY <1>10, <1>11 DEF AllCodes, DocumentChecks
<1> QED
  BY <1>3, <1>12 DEF AsLabelled, NotOfChecks, d

LEMMA SeedsAreAsLabelled ==
  \A c \in Seeds : AsLabelled(c.dossier, c.case.truth.codes)
<1> SUFFICES ASSUME NEW c \in Seeds PROVE AsLabelled(c.dossier, c.case.truth.codes)
  OBVIOUS
<1>1. \/ c = Seed01 \/ c = Seed02 \/ c = Seed03 \/ c = Seed04
      \/ c = Seed05 \/ c = Seed06 \/ c = Seed07 \/ c = Seed08
  BY DEF Seeds
<1> QED
  BY <1>1, Seed01IsAsLabelled, Seed02IsAsLabelled, Seed03IsAsLabelled, Seed04IsAsLabelled,
     Seed05IsAsLabelled, Seed06IsAsLabelled, Seed07IsAsLabelled, Seed08IsAsLabelled

-----------------------------------------------------------------------------
(* The compound matrix: each of five codes has a part of the dossier to    *)
(* itself, so that the codes of a case are those whose part was spoilt.    *)
Spoilt == {"A1", "A2", "B2a", "C2", "D1b"}

OwnersFor(codes) == IF "B2a" \in codes THEN B2aOwners ELSE CleanOwners

DeclaredFor(codes) == IF "D1b" \in codes THEN D1bDeclared ELSE Declared(OwnersFor(codes))

UntilFor(codes) == IF "C2" \in codes THEN ValidExpired ELSE ValidFar

TaxFor(codes) == IF "A2" \in codes THEN "t2" ELSE "t1"

LegalFor(codes) == IF "A1" \in codes THEN Surfaces ELSE OneLegalName

IsCompound(d, codes) ==
  /\ DOMAIN d = Documents /\ d.ubo.date = 229
  /\ d.registry.tax = "t1" /\ d.circular.tax = "t1" /\ d.ubo.tax = TaxFor(codes)
  /\ d.registry.legal = LegalFor(codes)[1] /\ d.circular.legal = LegalFor(codes)[2]
  /\ d.ubo.legal = LegalFor(codes)[3]
  /\ d.registry.holders = OwnersFor(codes) /\ d.ubo.holders = OwnersFor(codes)
  /\ d.ubo.declared = DeclaredFor(codes) /\ d.ubo.declarant = "yildiz"
  /\ d.circular.signatories = <<Sig("yildiz", UntilFor(codes))>>

LEMMA CompoundIdentity ==
  ASSUME NEW d, NEW codes, IsCompound(d, codes)
  PROVE  /\ IdentityCodes(d) = codes \cap {"A1", "A2"}
         /\ d.registry.legal # Blank /\ d.ubo.tax # Blank
<1>1. /\ DOMAIN d = Documents
      /\ d.registry.tax = "t1" /\ d.circular.tax = "t1" /\ d.ubo.tax = TaxFor(codes)
      /\ d.registry.legal = LegalFor(codes)[1] /\ d.circular.legal = LegalFor(codes)[2]
      /\ d.ubo.legal = LegalFor(codes)[3]
  BY DEF IsCompound
<1>2. d.registry.legal = LegalForms.full
  BY <1>1 DEF LegalFor, Surfaces, OneLegalName
<1>3. CASE "A1" \in codes
  <2>1. Respelt(d)
    BY <1>1, <1>3 DEF Respelt, LegalFor, Surfaces
  <2>2. d.ubo.tax = IF "A2" \in codes THEN "t2" ELSE "t1"
    BY <1>1 DEF TaxFor
  <2>3. IdentityCodes(d) = IF "A2" \in codes THEN {"A1", "A2"} ELSE {"A1"}
    BY <1>1, <2>1, <2>2, RespeltIsFound
  <2> QED
    BY <1>2, <1>3, <2>2, <2>3, LegalFormsAssumption DEF Blank
<1>4. CASE "A1" \notin codes
  <2> DEFINE oneTax   == d.registry.tax = d.circular.tax /\ d.registry.tax = d.ubo.tax
             oneLegal == d.registry.legal = d.circular.legal /\ d.registry.legal = d.ubo.legal
             alike    == /\ SameEntity(d.registry.legal, d.circular.legal)
                         /\ SameEntity(d.registry.legal, d.ubo.legal)
  <2>1. IdentityCodes(d) = (IF oneTax THEN {} ELSE {"A2"})
                             \cup (IF ~oneLegal /\ alike THEN {"A1"} ELSE {})
    BY <1>1, IdentityIs
  <2>2. oneLegal
    BY <1>1, <1>4 DEF LegalFor, OneLegalName
  <2>3. oneTax <=> "A2" \notin codes
    BY <1>1 DEF TaxFor
  <2>4. d.ubo.tax # Blank
    BY <1>1 DEF TaxFor, Blank
  <2> HIDE DEF oneTax, oneLegal, alike
  <2>5. IdentityCodes(d) = IF "A2" \in codes THEN {"A2"} ELSE {}
    BY <2>1, <2>2, <2>3
  <2> QED
    BY <1>2, <1>4, <2>4, <2>5, LegalFormsAssumption DEF Blank
<1> QED
  BY <1>3, <1>4

LEMMA CompoundAuthority ==
  ASSUME NEW d, NEW codes, IsCompound(d, codes)
  PROVE  /\ AuthorityCodes(d.circular, d.ubo) = codes \cap {"C2"}
         /\ d.circular.signatories # << >>
<1> DEFINE list == d.circular.signatories
           day == UntilFor(codes)
           name == "yildiz"
<1>1. OneSig(list, name, day) /\ d.ubo.declarant = name /\ d.ubo.date = 229
  BY DEF IsCompound, OneSig
<1>2. day < 229 <=> "C2" \in codes
  BY DEF UntilFor, ValidExpired, ValidFar
<1> HIDE DEF list, day, name
<1>3. OneSigns(list, name, day)
  BY <1>1, OneSignatory
<1>4. /\ DOMAIN d.circular.signatories \subseteq Nat \ {0} /\ 1 \in DOMAIN d.circular.signatories
      /\ SamePerson(d.ubo.declarant, d.circular.signatories[1].name)
      /\ d.circular.signatories[1].until = {day} /\ d.circular.signatories # << >>
  BY <1>1, <1>3 DEF OneSigns, SamePerson, list
<1>5. AuthorityCodes(d.circular, d.ubo) = IF day < d.ubo.date THEN {"C2"} ELSE {}
  BY <1>4, FirstSigns
<1>6. AuthorityCodes(d.circular, d.ubo) = IF "C2" \in codes THEN {"C2"} ELSE {}
  BY <1>1, <1>2, <1>5
<1> QED
  BY <1>4, <1>6

LEMMA CompoundPeople ==
  /\ Fine(CleanOwners)
  /\ B2aOwners \in Seq(Paid) /\ B2aOwners # << >> /\ Total(B2aOwners) = 95000
  /\ \A i \in DOMAIN B2aOwners : SmallShare(B2aOwners[i].pct)
  /\ D1bDeclared \in Seq(Paid) /\ Total(D1bDeclared) = 130000
<1> DEFINE m == "yildiz"
           n == "demir"
<1>1. m \in STRING /\ n \in STRING
  BY AuthoredNamesAssumption
<1>2. /\ CleanOwners = <<Party(m, 60000), Party(n, 40000)>>
      /\ B2aOwners = <<Party(m, 55000), Party(n, 40000)>>
      /\ D1bDeclared = <<Party(m, 70000), Party(n, 60000)>>
  BY DEF CleanOwners, B2aOwners, D1bDeclared
<1> HIDE DEF m, n
<1>3. Fine(CleanOwners)
  <2> DEFINE x == 60000
             y == 40000
             t == CleanOwners
  <2>1. x \in Nat /\ y \in Nat /\ t = <<Party(m, x), Party(n, y)>>
    BY <1>2
  <2>2. x + y = Whole /\ SmallShare(x) /\ SmallShare(y)
    BY DEF SmallShare, Settled, Whole, Eps, UboThreshold
  <2> HIDE DEF x, y, t
  <2>3. Fine(t)
    BY <1>1, <2>1, <2>2, TwoAreFine
  <2> QED
    BY <2>3 DEF t
<1>4. /\ B2aOwners \in Seq(Paid) /\ B2aOwners # << >> /\ Total(B2aOwners) = 55000 + 40000
      /\ DOMAIN B2aOwners = {1, 2} /\ B2aOwners[1].pct = 55000 /\ B2aOwners[2].pct = 40000
  <2> DEFINE x == 55000
             y == 40000
             t == B2aOwners
  <2>1. x \in Nat /\ y \in Nat /\ t = <<Party(m, x), Party(n, y)>>
    BY <1>2
  <2> HIDE DEF x, y, t
  <2>2. /\ t \in Seq(Paid) /\ Total(t) = x + y /\ DOMAIN t = {1, 2} /\ t # << >>
        /\ t[1].pct = x /\ t[2].pct = y
    BY <1>1, <2>1, TwoPaid
  <2> QED
    BY <2>2 DEF x, y, t
<1>5. D1bDeclared \in Seq(Paid) /\ Total(D1bDeclared) = 70000 + 60000
  <2> DEFINE x == 70000
             y == 60000
             t == D1bDeclared
  <2>1. x \in Nat /\ y \in Nat /\ t = <<Party(m, x), Party(n, y)>>
    BY <1>2
  <2> HIDE DEF x, y, t
  <2>2. t \in Seq(Paid) /\ Total(t) = x + y
    BY <1>1, <2>1, TwoPaid
  <2> QED
    BY <2>2 DEF x, y, t
<1>6. \A i \in DOMAIN B2aOwners : SmallShare(B2aOwners[i].pct)
  BY <1>4 DEF SmallShare, Settled, Whole, Eps, UboThreshold
<1>7. Total(B2aOwners) = 95000 /\ Total(D1bDeclared) = 130000
  BY <1>4, <1>5
<1> QED
  BY <1>3, <1>4, <1>5, <1>6, <1>7

LEMMA CompoundOwnership ==
  ASSUME NEW d, NEW codes, IsCompound(d, codes), DifferentPeople(d.ubo.holders)
  PROVE  /\ OwnershipCodes(d.registry, d.ubo) = codes \cap {"B2a"}
         /\ UboCodes(d.ubo) = codes \cap {"D1b"} /\ d.registry.holders # << >>
<1> DEFINE s == d.ubo.holders
           t == Total(s)
<1>1. s = OwnersFor(codes) /\ d.registry.holders = s /\ d.ubo.declared = DeclaredFor(codes)
  BY DEF IsCompound
<1>2. /\ s \in Seq(Paid) /\ s # << >> /\ \A i \in DOMAIN s : SmallShare(s[i].pct)
      /\ t = IF "B2a" \in codes THEN 95000 ELSE Whole
      /\ "B2a" \notin codes => Fine(s)
  BY <1>1, CompoundPeople DEF OwnersFor, Fine
<1> HIDE DEF t
<1>3. OwnershipCodes(d.registry, d.ubo) = codes \cap {"B2a"}
  <2>1. CASE "B2a" \in codes
    <3>1. t < Whole - Eps
      BY <1>2, <2>1 DEF Whole, Eps
    <3>2. OwnershipCodes(d.registry, d.ubo) = {"B2a"}
      BY <1>1, <1>2, <3>1, SumsAreOff DEF t
    <3> QED
      BY <2>1, <3>2
  <2>2. CASE "B2a" \notin codes
    <3>1. OwnersAgree(d)
      BY <1>1, <1>2, <2>2, FineOwners
    <3>2. OwnershipCodes(d.registry, d.ubo) = {}
      BY <3>1, AgreedIsSilent
    <3> QED
      BY <2>2, <3>2
  <2> QED
    BY <2>1, <2>2
<1>4. UboCodes(d.ubo) = codes \cap {"D1b"}
  <2>1. CASE "D1b" \in codes
    <3>1. d.ubo.declared \in Seq(Paid) /\ Total(d.ubo.declared) > Whole + Eps
      <4>1. d.ubo.declared = D1bDeclared
        BY <1>1, <2>1 DEF DeclaredFor
      <4> DEFINE u == Total(d.ubo.declared)
      <4>2. u = 130000 /\ d.ubo.declared \in Seq(Paid)
        BY <4>1, CompoundPeople
      <4> HIDE DEF u
      <4>3. u > Whole + Eps
        BY <4>2 DEF Whole, Eps
      <4> QED
        BY <4>2, <4>3 DEF u
    <3>2. UboCodes(d.ubo) = {"D1b"}
      BY <3>1, TooMuchDeclared
    <3> QED
      BY <2>1, <3>2
  <2>2. CASE "D1b" \notin codes
    <3>1. d.ubo.declared = Declared(s)
      BY <1>1, <2>2 DEF DeclaredFor
    <3>2. t <= Whole
      BY <1>2 DEF Whole, Eps
    <3>3. OwnersDeclared(d)
      BY <1>2, <3>1, <3>2 DEF OwnersDeclared, t
    <3>4. UboCodes(d.ubo) = {}
      BY <3>3, DeclaredIsSilent
    <3> QED
      BY <2>2, <3>4
  <2> QED
    BY <2>1, <2>2
<1> QED
  BY <1>1, <1>2, <1>3, <1>4

LEMMA CompoundCodes ==
  ASSUME NEW d, NEW codes, IsCompound(d, codes), codes \subseteq Spoilt,
         DifferentPeople(d.ubo.holders)
  PROVE  AllCodes(d) = codes
<1>1. /\ DOMAIN d = Documents /\ d.registry.tax = "t1" /\ d.circular.tax = "t1"
      /\ d.ubo.declarant = "yildiz"
  BY DEF IsCompound
<1>2. /\ IdentityCodes(d) = codes \cap {"A1", "A2"}
      /\ OwnershipCodes(d.registry, d.ubo) = codes \cap {"B2a"}
      /\ AuthorityCodes(d.circular, d.ubo) = codes \cap {"C2"}
      /\ UboCodes(d.ubo) = codes \cap {"D1b"}
  BY CompoundIdentity, CompoundOwnership, CompoundAuthority
<1>3. Filled(d)
  <2>1. /\ d.registry.legal # Blank /\ d.ubo.tax # Blank
        /\ d.circular.signatories # << >> /\ d.registry.holders # << >>
    BY CompoundIdentity, CompoundOwnership, CompoundAuthority
  <2> QED
    BY <1>1, <2>1 DEF Filled, Blank
<1>4. AllCodes(d) = IdentityCodes(d) \cup OwnershipCodes(d.registry, d.ubo)
                      \cup AuthorityCodes(d.circular, d.ubo) \cup UboCodes(d.ubo)
  BY <1>1, <1>3, CodesOfFilled
<1> QED
  BY <1>2, <1>4 DEF Spoilt

-----------------------------------------------------------------------------
(* What a label must be for the screening to come out as filed.            *)
Grave == {"A2", "B1b", "B2b", "C1b", "D1b", "X2"}

Benign == {"NONE", "A1"}

DecisionDeserved(codes) ==
  IF codes \cap Grave # {} THEN "escalate"
  ELSE IF codes \ Benign # {} THEN "request_more_info" ELSE "approve"

CodesFit(codes, decision) ==
  /\ codes # {} /\ codes \subseteq Codes \cup {"X1", "X2"}
  /\ "NONE" \in codes => codes = {"NONE"}
  /\ decision = DecisionDeserved(codes)

RunsOn(d) == {check \in DocumentChecks : CanRun(check, DOMAIN d)}

FlowFits(truth, d) ==
  truth.runs \subseteq RunsOn(d) /\ truth.skips \subseteq DocumentChecks \ RunsOn(d)

(* The pass of a compound case: nothing fails, the concerns raised are the *)
(* label's, and the proposal is overridden when it is not what is deserved.*)
ProposalDeserved(codes, pass) ==
  IF pass.proposer = "policy_mirror" THEN DecisionDeserved(codes \ NotOfChecks)
  ELSE pass.proposer

PassFits(codes, decision, pass, overridden) ==
  /\ pass.rule = "silent" /\ pass.failing = {}
  /\ {TriageCode(a) : a \in pass.advised} = codes \cap {"X1", "X2"}
  /\ overridden <=> ProposalDeserved(codes, pass) # decision

Filed(d, case) ==
  /\ case.corpus \in {"generated", "compound", "seed"}
  /\ DOMAIN d \subseteq Documents
  /\ AsLabelled(d, case.truth.codes)
  /\ CodesFit(case.truth.codes, case.truth.decision)
  /\ FlowFits(case.truth, d)
  /\ case.corpus # "compound" => case.truth.codes \cap {"X1", "X2"} = {}
  /\ case.corpus = "compound" =>
       PassFits(case.truth.codes, case.truth.decision, case.pass, case.overridden)

LEMMA TwoPresent ==
  ASSUME NEW present, present \subseteq Documents
  PROVE  Cardinality(present) >= 2 <=> \E m, n \in present : m # n
<1>1. IsFiniteSet(Documents)
  <2>1. Documents = {"registry", "circular"} \cup {"ubo"}
    BY DEF Documents
  <2>2. IsFiniteSet({"registry"} \cup {"circular"})
    BY FS_Singleton, FS_Union
  <2>3. {"registry", "circular"} = {"registry"} \cup {"circular"}
    OBVIOUS
  <2> QED
    BY <2>1, <2>2, <2>3, FS_Singleton, FS_Union
<1>2. IsFiniteSet(present) /\ Cardinality(present) \in Nat
  BY <1>1, FS_Subset, FS_CardinalityType
<1>3. ASSUME NEW m \in present, NEW n \in present, m # n
      PROVE  Cardinality(present) >= 2
  <2> DEFINE rest == present \ {m}
  <2>1. IsFiniteSet(rest) /\ Cardinality(rest) = Cardinality(present) - 1
    BY <1>2, FS_RemoveElement
  <2>2. n \in rest /\ Cardinality(rest) \in Nat
    BY <1>3, <2>1, FS_CardinalityType
  <2>3. Cardinality(rest) # 0
    BY <2>1, <2>2, FS_EmptySet
  <2> QED
    BY <1>2, <2>1, <2>2, <2>3
<1>4. ASSUME ~\E m, n \in present : m # n
      PROVE  Cardinality(present) < 2
  <2>1. CASE present = {}
    BY <2>1, FS_EmptySet
  <2>2. CASE present # {}
    <3>1. PICK m \in present : present = {m}
      BY <1>4, <2>2
    <3>2. Cardinality(present) = 1
      BY <3>1, FS_Singleton
    <3> QED
      BY <3>2
  <2> QED
    BY <2>1, <2>2
<1> QED
  BY <1>2, <1>3, <1>4

LEMMA RunsAreExpected ==
  ASSUME NEW d, DOMAIN d \subseteq Documents
  PROVE  RunsOn(d) = ExpectedRuns(DOMAIN d)
<1> DEFINE present == DOMAIN d
<1>1. Cardinality(present) >= 2 <=> \E m, n \in present : m # n
  BY TwoPresent
<1> DEFINE two == Cardinality(present) >= 2
<1> HIDE DEF two
<1>2. \A check \in DocumentChecks : CanRun(check, present) <=>
        CASE check = "check_identity_consistency"  -> two
          [] check = "check_ownership_consistency" -> {"registry", "ubo"} \subseteq present
          [] check = "check_authority_chain"       -> {"circular", "ubo"} \subseteq present
          [] check = "check_ubo_derivation"        -> "ubo" \in present
          [] OTHER                                 -> TRUE
  BY <1>1 DEF CanRun, two
<1>3. ExpectedRuns(present) =
        {"check_completeness"}
        \cup {c \in {"check_identity_consistency"} : two}
        \cup {c \in {"check_ownership_consistency"} : {"registry", "ubo"} \subseteq present}
        \cup {c \in {"check_authority_chain"} : {"circular", "ubo"} \subseteq present}
        \cup {c \in {"check_ubo_derivation"} : "ubo" \in present}
  BY DEF ExpectedRuns, two
<1> HIDE DEF present
<1> QED
  BY <1>2, <1>3 DEF RunsOn, DocumentChecks, present

(* A truth whose flow is the one expected of its documents.                *)
LEMMA FlowOfTruth ==
  ASSUME NEW d, DOMAIN d \subseteq Documents, NEW codes, NEW decision
  PROVE  /\ FlowFits(Truth(codes, decision, DOMAIN d), d)
         /\ Truth(codes, decision, DOMAIN d).codes = codes
         /\ Truth(codes, decision, DOMAIN d).decision = decision
BY RunsAreExpected DEF Truth, FlowFits

(* The generated corpus.                                                   *)
LEMMA ChangesKeepDocuments ==
  ASSUME NEW b, DOMAIN b = Documents
  PROVE  /\ \A lead, name, small : DOMAIN LeadAlone(b, lead, name, small) = Documents
         /\ \A until : DOMAIN Transferred(b, until) = Documents
         /\ \A age, older, name : DOMAIN StaleCircular(b, age, older, name) = Documents
         /\ \A until : DOMAIN ValidUntil(b, until) = Documents
         /\ \A days, name : DOMAIN NewCircular(b, days, name) = Documents
         /\ \A days : DOMAIN Expired(b, days) = Documents
<1>1. \A lead, name, small : DOMAIN LeadAlone(b, lead, name, small) = Documents
  BY DEF LeadAlone
<1>2. \A until : DOMAIN Transferred(b, until) = Documents
  BY DEF Transferred
<1>3. \A age, older, name : DOMAIN StaleCircular(b, age, older, name) = Documents
  BY DEF StaleCircular
<1>4. \A until : DOMAIN ValidUntil(b, until) = Documents
  BY DEF ValidUntil
<1>5. \A days, name : DOMAIN NewCircular(b, days, name) = Documents
  BY DEF NewCircular, ValidUntil
<1>6. \A days : DOMAIN Expired(b, days) = Documents
  BY DEF Expired
<1> QED
  BY <1>1, <1>2, <1>3, <1>4, <1>5, <1>6

LEMMA VariantsHaveDocuments ==
  ASSUME NEW code \in Codes, NEW b, IsClean(b), NEW d \in Variants(code, b)
  PROVE  DOMAIN d \subseteq Documents
<1>1. DOMAIN b = Documents
  BY DEF IsClean, CleanFields
<1>2. CASE code = "NONE"
  <2>1. d = b \/ d \in BoundaryNONE(b)
    BY <1>2 DEF Variants
  <2>2. d = b \/ \E name \in Strangers : d = LeadAlone(b, 75100, name, 24900)
    BY <2>1 DEF BoundaryNONE
  <2> QED
    BY <1>1, <2>2, ChangesKeepDocuments
<1>3. CASE code = "A1"
  <2>1. d \in InjectA1(b)
    BY <1>3 DEF Variants
  <2> QED
    BY <1>1, <2>1 DEF InjectA1
<1>4. CASE code = "A2"
  <2>1. d \in InjectA2(b)
    BY <1>4 DEF Variants
  <2> QED
    BY <1>1, <2>1 DEF InjectA2
<1>5. CASE code = "B1a"
  <2>1. d \in InjectB1a(b)
    BY <1>5 DEF Variants
  <2>2. d = Transferred(b, b.ubo.date + 900)
    BY <2>1 DEF InjectB1a
  <2> QED
    BY <1>1, <2>2, ChangesKeepDocuments
<1>6. CASE code = "B1b"
  <2>1. d \in InjectB1b(b)
    BY <1>6 DEF Variants
  <2>2. \E e, day : /\ e = Transferred(b, b.registry.date + 1200)
                    /\ d = [e EXCEPT !.ubo.date = day]
    BY <2>1 DEF InjectB1b
  <2> QED
    BY <1>1, <2>2, ChangesKeepDocuments
<1>7. CASE code = "B2a"
  <2> DEFINE s == b.ubo.holders
  <2>1. d \in InjectB2a(b)
    BY <1>7 DEF Variants
  <2>2. PICK drop \in {3000, 5000, 8000} :
          d = [b EXCEPT !.registry.holders = [s EXCEPT ![1].pct = @ - drop],
                        !.ubo.holders = [s EXCEPT ![1].pct = @ - drop],
                        !.ubo.declared = Declared([s EXCEPT ![1].pct = @ - drop])]
    BY <2>1 DEF InjectB2a
  <2> QED
    BY <1>1, <2>2
<1>8. CASE code = "B2b"
  <2> DEFINE s == b.ubo.holders
  <2>1. d \in InjectB2b(b)
    BY <1>8 DEF Variants
  <2>2. PICK add \in {5000, 10000, 15000} :
          d = [b EXCEPT !.registry.holders = [s EXCEPT ![1].pct = @ + add],
                        !.ubo.holders = [s EXCEPT ![1].pct = @ + add],
                        !.ubo.declared = Declared(s)]
    BY <2>1 DEF InjectB2b
  <2> QED
    BY <1>1, <2>2
<1>9. CASE code = "C1a"
  <2>1. d \in InjectC1a(b) \/ d \in BoundaryC1a(b)
    BY <1>9 DEF Variants
  <2>2. \E age, older, name : d = StaleCircular(b, age, older, name)
    BY <2>1 DEF InjectC1a, BoundaryC1a
  <2> QED
    BY <1>1, <2>2, ChangesKeepDocuments
<1>10. CASE code = "C1b"
  <2>1. d \in InjectC1b(b) \/ d \in BoundaryC1b(b)
    BY <1>10 DEF Variants
  <2>2. \/ \E days, name : d = NewCircular(b, days, name)
        \/ \E e, day, name : /\ e = StaleCircular(b, StalenessDays, 10, name)
                              /\ d = ValidUntil(e, day)
    BY <2>1 DEF InjectC1b, BoundaryC1b
  <2> QED
    BY <1>1, <2>2, ChangesKeepDocuments
<1>11. CASE code = "C2"
  <2>1. d \in InjectC2(b) \/ d \in BoundaryC2(b)
    BY <1>11 DEF Variants
  <2>2. \E days : d = Expired(b, days)
    BY <2>1 DEF InjectC2, BoundaryC2
  <2> QED
    BY <1>1, <2>2, ChangesKeepDocuments
<1>12. CASE code = "D1a"
  <2>1. d \in InjectD1a(b) \/ d \in BoundaryD1a(b)
    BY <1>12 DEF Variants
  <2>2. \/ d = [b EXCEPT !.ubo.declared = Front(Declared(b.ubo.holders))]
         \/ \E name \in Strangers : d = LeadAlone(b, 75000, name, 25000)
    BY <2>1 DEF InjectD1a, BoundaryD1a
  <2> QED
    BY <1>1, <2>2, ChangesKeepDocuments
<1>13. CASE code = "D1b"
  <2>1. d \in InjectD1b(b)
    BY <1>13 DEF Variants
  <2> QED
    BY <1>1, <2>1 DEF InjectD1b
<1>14. CASE code = "E1"
  <2>1. d \in InjectE1(b)
    BY <1>14 DEF Variants
  <2> QED
    BY <1>1, <2>1 DEF InjectE1
<1>15. CASE code = "E2"
  <2>1. d \in InjectE2(b)
    BY <1>15 DEF Variants
  <2> QED
    BY <1>1, <2>1 DEF InjectE2
<1> QED
  BY <1>2, <1>3, <1>4, <1>5, <1>6, <1>7, <1>8, <1>9, <1>10,
     <1>11, <1>12, <1>13, <1>14, <1>15 DEF Codes

LEMMA GeneratedAreFiled ==
  ASSUME NEW code \in Codes, NEW b \in CleanBases, NEW d \in Variants(code, b)
  PROVE  Filed(d, GeneratedCase(GeneratedTruth(code, d)))
<1> DEFINE case == GeneratedCase(GeneratedTruth(code, d))
<1>1. DOMAIN d \subseteq Documents
  BY BasesAreClean, VariantsHaveDocuments
<1>2. /\ case.corpus = "generated"
      /\ case.truth = Truth({code}, DecisionForCode(code), DOMAIN d)
  BY DEF GeneratedCase, GeneratedTruth, Case
<1>3. /\ FlowFits(case.truth, d) /\ case.truth.codes = {code}
      /\ case.truth.decision = DecisionForCode(code)
  BY <1>1, <1>2, FlowOfTruth
<1>4. AsLabelled(d, {code})
  <2>1. Apart(d, {code}) => AllCodes(d) = {code} \ {"NONE"}
    BY VariantsAreAsLabelled
  <2>2. {code} \ {"NONE"} = {code} \ NotOfChecks
    BY DEF Codes, NotOfChecks
  <2> QED
    BY <2>1, <2>2 DEF AsLabelled
<1>5. CodesFit({code}, DecisionForCode(code))
  <2>1. DecisionForCode(code) = DecisionDeserved({code})
    BY DEF DecisionForCode, DecisionDeserved, Codes, Grave, Benign
  <2> QED
    BY <2>1 DEF CodesFit
<1>6. {code} \cap {"X1", "X2"} = {}
  BY DEF Codes
<1> HIDE DEF case
<1> QED
  BY <1>1, <1>2, <1>3, <1>4, <1>5, <1>6 DEF Filed, case

(* The seeds.                                                              *)
SeedTruth(c, present, code, decision) ==
  /\ c.case.corpus = "seed" /\ DOMAIN c.dossier = present
  /\ c.case.truth.codes = {code} /\ c.case.truth.decision = decision
  /\ c.case.truth.runs \subseteq ExpectedRuns(present)
  /\ c.case.truth.skips \subseteq DocumentChecks \ ExpectedRuns(present)

LEMMA SeedIsFiled ==
  ASSUME NEW c, NEW present, NEW code, NEW decision, SeedTruth(c, present, code, decision),
         present \subseteq Documents, AsLabelled(c.dossier, c.case.truth.codes),
         code \in Codes, decision = DecisionDeserved({code})
  PROVE  Filed(c.dossier, c.case)
<1> DEFINE d == c.dossier
           truth == c.case.truth
<1>1. /\ c.case.corpus = "seed" /\ truth.codes = {code} /\ truth.decision = decision
      /\ DOMAIN d = present
      /\ truth.runs \subseteq ExpectedRuns(present)
      /\ truth.skips \subseteq DocumentChecks \ ExpectedRuns(present)
  BY DEF SeedTruth
<1> HIDE DEF d, truth
<1>2. FlowFits(truth, d)
  BY <1>1, RunsAreExpected DEF FlowFits
<1>3. CodesFit({code}, decision) /\ {code} \cap {"X1", "X2"} = {}
  BY DEF CodesFit, Codes
<1> QED
  BY <1>1, <1>2, <1>3 DEF Filed, d, truth

LEMMA SeedsAreFiled ==
  \A c \in Seeds : Filed(c.dossier, c.case)
<1> SUFFICES ASSUME NEW c \in Seeds PROVE Filed(c.dossier, c.case)
  OBVIOUS
<1>1. AsLabelled(c.dossier, c.case.truth.codes)
  BY SeedsAreAsLabelled
<1>2. ASSUME c = Seed01 \/ c = Seed02
      PROVE  SeedTruth(c, Documents, "NONE", "approve")
  BY <1>2 DEF Seed01, Seed02, Seed, Filing, Documents, Case, Truth, SeedTruth
<1>3. ASSUME c = Seed03
      PROVE  SeedTruth(c, Documents, "A1", "approve")
  BY <1>3 DEF Seed03, Seed, Filing, Documents, Case, Truth, SeedTruth
<1>4. ASSUME c = Seed04
      PROVE  SeedTruth(c, Documents, "B1a", "request_more_info")
  BY <1>4 DEF Seed04, Seed, Filing, Documents, Case, Truth, SeedTruth
<1>5. ASSUME c = Seed05
      PROVE  SeedTruth(c, Documents, "B1b", "escalate")
  BY <1>5 DEF Seed05, Seed, Filing, Documents, Case, Truth, SeedTruth
<1>6. ASSUME c = Seed06
      PROVE  SeedTruth(c, Documents, "C1a", "request_more_info")
  BY <1>6 DEF Seed06, Seed, Filing, Documents, Case, Truth, SeedTruth
<1>7. ASSUME c = Seed07
      PROVE  SeedTruth(c, Documents, "C1b", "escalate")
  BY <1>7 DEF Seed07, Seed, Filing, Documents, Case, Truth, SeedTruth
<1>8. ASSUME c = Seed08
      PROVE  SeedTruth(c, {"registry", "circular"}, "E1", "request_more_info")
  BY <1>8 DEF Seed08, Seed, Filing, Documents, Case, Truth, SeedTruth
<1>9. /\ {"NONE", "A1", "B1a", "B1b", "C1a", "C1b", "E1"} \subseteq Codes
      /\ DecisionDeserved({"NONE"}) = "approve" /\ DecisionDeserved({"A1"}) = "approve"
      /\ DecisionDeserved({"B1a"}) = "request_more_info"
      /\ DecisionDeserved({"C1a"}) = "request_more_info"
      /\ DecisionDeserved({"E1"}) = "request_more_info"
      /\ DecisionDeserved({"B1b"}) = "escalate" /\ DecisionDeserved({"C1b"}) = "escalate"
  BY DEF DecisionDeserved, Grave, Benign, Codes
<1>10. {"registry", "circular"} \subseteq Documents
  BY DEF Documents
<1>11. \/ c = Seed01 \/ c = Seed02 \/ c = Seed03 \/ c = Seed04
       \/ c = Seed05 \/ c = Seed06 \/ c = Seed07 \/ c = Seed08
  BY DEF Seeds
<1> QED
  BY <1>1, <1>2, <1>3, <1>4, <1>5, <1>6, <1>7, <1>8, <1>9, <1>10, <1>11, SeedIsFiled

(* The compound matrix.                                                    *)
CompoundFor(codes) ==
  CompoundDossier(OwnersFor(codes), DeclaredFor(codes), UntilFor(codes), TaxFor(codes),
                  LegalFor(codes))

IsCompoundCase(c, spoilt, codes, decision, pass, overridden) ==
  \E d : /\ c = Compound(d, codes, decision, pass, overridden)
         /\ IsCompound(d, spoilt) /\ spoilt = codes \ NotOfChecks

LEMMA CompoundIsMade ==
  ASSUME NEW codes
  PROVE  IsCompound(CompoundFor(codes), codes)
<1> DEFINE owners == OwnersFor(codes)
           declared == DeclaredFor(codes)
           until == UntilFor(codes)
           tax == TaxFor(codes)
           legal == LegalFor(codes)
           d == CompoundFor(codes)
<1>1. d = CompoundDossier(owners, declared, until, tax, legal)
  BY DEF CompoundFor
<1> HIDE DEF owners, declared, until, tax, legal, d
<1>2. /\ DOMAIN d = Documents /\ d.ubo.date = 229
      /\ d.registry.tax = "t1" /\ d.circular.tax = "t1" /\ d.ubo.tax = tax
      /\ d.registry.legal = legal[1] /\ d.circular.legal = legal[2] /\ d.ubo.legal = legal[3]
      /\ d.registry.holders = owners /\ d.ubo.holders = owners
      /\ d.ubo.declared = declared /\ d.ubo.declarant = "yildiz"
      /\ d.circular.signatories = <<Sig("yildiz", until)>>
  BY <1>1 DEF CompoundDossier, Filing, Documents
<1> QED
  BY <1>2 DEF IsCompound, owners, declared, until, tax, legal, d

LEMMA CompoundIsFiled ==
  ASSUME NEW c, NEW spoilt, NEW codes, NEW decision, NEW pass, NEW overridden,
         IsCompoundCase(c, spoilt, codes, decision, pass, overridden),
         codes \subseteq Spoilt \cup {"X1", "X2"}, codes # {},
         decision = DecisionDeserved(codes), PassFits(codes, decision, pass, overridden)
  PROVE  Filed(c.dossier, c.case)
<1> DEFINE d == c.dossier
           truth == c.case.truth
<1>1. /\ IsCompound(d, spoilt) /\ c.case.corpus = "compound"
      /\ truth = Truth(codes, decision, Documents)
      /\ c.case.pass = pass /\ c.case.overridden = overridden
      /\ spoilt = codes \ NotOfChecks
  BY DEF IsCompoundCase, Compound, Case
<1> HIDE DEF d, truth
<1>2. DOMAIN d = Documents
  BY <1>1 DEF IsCompound
<1>3. FlowFits(truth, d) /\ truth.codes = codes /\ truth.decision = decision
  BY <1>1, <1>2, FlowOfTruth
<1>4. AsLabelled(d, codes)
  <2> SUFFICES ASSUME Apart(d, codes) PROVE AllCodes(d) = codes \ NotOfChecks
    BY DEF AsLabelled
  <2>1. DifferentPeople(d.ubo.holders)
    BY <1>2 DEF Apart, Documents
  <2>2. spoilt \subseteq Spoilt
    BY <1>1 DEF NotOfChecks
  <2> QED
    BY <1>1, <2>1, <2>2, CompoundCodes
<1>5. CodesFit(codes, decision)
  BY DEF CodesFit, Spoilt, Codes
<1> QED
  BY <1>1, <1>2, <1>3, <1>4, <1>5 DEF Filed, d, truth

(* The dossiers the matrix is made of: without a discrepancy, and with a   *)
(* gap in the holdings.                                                    *)
Unspoilt(legal) ==
  CompoundDossier(CleanOwners, Declared(CleanOwners), ValidFar, "t1", legal)

Gapped(until, tax, legal) ==
  CompoundDossier(B2aOwners, Declared(B2aOwners), until, tax, legal)

OtherTax(d) == [d EXCEPT !.ubo.tax = "t2"]

OthersDeclared(d) == [d EXCEPT !.ubo.declared = D1bDeclared]

LEMMA CompoundDossiersAre ==
  /\ IsCompound(Gapped(ValidExpired, "t1", OneLegalName), {"B2a", "C2"})
  /\ IsCompound(Gapped(ValidFar, "t2", OneLegalName), {"A2", "B2a"})
  /\ IsCompound(Gapped(ValidExpired, "t1", Surfaces), {"A1", "B2a", "C2"})
  /\ IsCompound(Gapped(ValidFar, "t2", Surfaces), {"A1", "A2", "B2a"})
  /\ IsCompound(Gapped(ValidFar, "t1", OneLegalName), {"B2a"})
  /\ IsCompound(Unspoilt(OneLegalName), {})
  /\ IsCompound(Unspoilt(Surfaces), {"A1"})
  /\ IsCompound(OtherTax(Unspoilt(OneLegalName)), {"A2"})
  /\ IsCompound(OthersDeclared(OtherTax(Unspoilt(OneLegalName))), {"A2", "D1b"})
<1> DEFINE clean  == Unspoilt(OneLegalName)
           other  == OtherTax(clean)
           spoilt == OthersDeclared(other)
<1>1. IsCompound(Gapped(ValidExpired, "t1", OneLegalName), {"B2a", "C2"})
  <2>1. Gapped(ValidExpired, "t1", OneLegalName) = CompoundFor({"B2a", "C2"})
    BY DEF Gapped, CompoundFor, OwnersFor, DeclaredFor, UntilFor, TaxFor, LegalFor
  <2> QED
    BY <2>1, CompoundIsMade
<1>2. IsCompound(Gapped(ValidFar, "t2", OneLegalName), {"A2", "B2a"})
  <2>1. Gapped(ValidFar, "t2", OneLegalName) = CompoundFor({"A2", "B2a"})
    BY DEF Gapped, CompoundFor, OwnersFor, DeclaredFor, UntilFor, TaxFor, LegalFor
  <2> QED
    BY <2>1, CompoundIsMade
<1>3. IsCompound(Gapped(ValidExpired, "t1", Surfaces), {"A1", "B2a", "C2"})
  <2>1. Gapped(ValidExpired, "t1", Surfaces) = CompoundFor({"A1", "B2a", "C2"})
    BY DEF Gapped, CompoundFor, OwnersFor, DeclaredFor, UntilFor, TaxFor, LegalFor
  <2> QED
    BY <2>1, CompoundIsMade
<1>4. IsCompound(Gapped(ValidFar, "t2", Surfaces), {"A1", "A2", "B2a"})
  <2>1. Gapped(ValidFar, "t2", Surfaces) = CompoundFor({"A1", "A2", "B2a"})
    BY DEF Gapped, CompoundFor, OwnersFor, DeclaredFor, UntilFor, TaxFor, LegalFor
  <2> QED
    BY <2>1, CompoundIsMade
<1>5. IsCompound(Gapped(ValidFar, "t1", OneLegalName), {"B2a"})
  <2>1. Gapped(ValidFar, "t1", OneLegalName) = CompoundFor({"B2a"})
    BY DEF Gapped, CompoundFor, OwnersFor, DeclaredFor, UntilFor, TaxFor, LegalFor
  <2> QED
    BY <2>1, CompoundIsMade
<1>6. IsCompound(Unspoilt(OneLegalName), {})
  <2>1. Unspoilt(OneLegalName) = CompoundFor({})
    BY DEF Unspoilt, CompoundFor, OwnersFor, DeclaredFor, UntilFor, TaxFor, LegalFor
  <2> QED
    BY <2>1, CompoundIsMade
<1>7. IsCompound(Unspoilt(Surfaces), {"A1"})
  <2>1. Unspoilt(Surfaces) = CompoundFor({"A1"})
    BY DEF Unspoilt, CompoundFor, OwnersFor, DeclaredFor, UntilFor, TaxFor, LegalFor
  <2> QED
    BY <2>1, CompoundIsMade
<1>8. /\ DOMAIN clean = Documents /\ DOMAIN clean.ubo = UboFields /\ clean.ubo.date = 229
      /\ clean.registry.tax = "t1" /\ clean.circular.tax = "t1" /\ clean.ubo.tax = "t1"
      /\ clean.registry.legal = OneLegalName[1] /\ clean.circular.legal = OneLegalName[2]
      /\ clean.ubo.legal = OneLegalName[3]
      /\ clean.registry.holders = CleanOwners /\ clean.ubo.holders = CleanOwners
      /\ clean.ubo.declared = Declared(CleanOwners) /\ clean.ubo.declarant = "yildiz"
      /\ clean.circular.signatories = <<Sig("yildiz", ValidFar)>>
  BY DEF Unspoilt, CompoundDossier, Filing, Documents, UboFields
<1> HIDE DEF clean
<1>9. /\ DOMAIN other = Documents /\ DOMAIN other.ubo = UboFields /\ other.ubo.date = 229
      /\ other.registry.tax = "t1" /\ other.circular.tax = "t1" /\ other.ubo.tax = "t2"
      /\ other.registry.legal = OneLegalName[1] /\ other.circular.legal = OneLegalName[2]
      /\ other.ubo.legal = OneLegalName[3]
      /\ other.registry.holders = CleanOwners /\ other.ubo.holders = CleanOwners
      /\ other.ubo.declared = Declared(CleanOwners) /\ other.ubo.declarant = "yildiz"
      /\ other.circular.signatories = <<Sig("yildiz", ValidFar)>>
  BY <1>8 DEF OtherTax, Documents, UboFields
<1> HIDE DEF other
<1>10. /\ DOMAIN spoilt = Documents /\ DOMAIN spoilt.ubo = UboFields /\ spoilt.ubo.date = 229
       /\ spoilt.registry.tax = "t1" /\ spoilt.circular.tax = "t1" /\ spoilt.ubo.tax = "t2"
       /\ spoilt.registry.legal = OneLegalName[1] /\ spoilt.circular.legal = OneLegalName[2]
       /\ spoilt.ubo.legal = OneLegalName[3]
       /\ spoilt.registry.holders = CleanOwners /\ spoilt.ubo.holders = CleanOwners
       /\ spoilt.ubo.declared = D1bDeclared /\ spoilt.ubo.declarant = "yildiz"
       /\ spoilt.circular.signatories = <<Sig("yildiz", ValidFar)>>
  BY <1>9 DEF OthersDeclared, Documents, UboFields
<1> HIDE DEF spoilt
<1>11. IsCompound(other, {"A2"})
  BY <1>9 DEF IsCompound, OwnersFor, DeclaredFor, UntilFor, TaxFor, LegalFor
<1>12. IsCompound(spoilt, {"A2", "D1b"})
  BY <1>10 DEF IsCompound, OwnersFor, DeclaredFor, UntilFor, TaxFor, LegalFor
<1> QED
  BY <1>1, <1>2, <1>3, <1>4, <1>5, <1>6, <1>7, <1>11, <1>12 DEF clean, other, spoilt

(* The labels of the matrix and the passes they are filed for.             *)
LabelFits(codes, decision, pass, overridden) ==
  /\ codes \subseteq Spoilt \cup {"X1", "X2"} /\ codes # {}
  /\ decision = DecisionDeserved(codes) /\ PassFits(codes, decision, pass, overridden)

LEMMA CompoundLabelsFit ==
  /\ LabelFits({"B2a", "C2"}, "request_more_info", Mirror, FALSE)
  /\ LabelFits({"A2", "B2a"}, "escalate", Mirror, FALSE)
  /\ LabelFits({"A2", "D1b"}, "escalate", Mirror, FALSE)
  /\ LabelFits({"A1", "B2a", "C2"}, "request_more_info", Mirror, FALSE)
  /\ LabelFits({"A1", "A2", "B2a"}, "escalate", Mirror, FALSE)
  /\ LabelFits({"B2a", "X1"}, "request_more_info", ScriptedTriage("explainable"), FALSE)
  /\ LabelFits({"X1"}, "request_more_info", ScriptedTriage("explainable"), TRUE)
  /\ LabelFits({"X2"}, "escalate", ScriptedTriage("unexplainable"), TRUE)
  /\ LabelFits({"A2"}, "escalate", Adversarial, TRUE)
  /\ LabelFits({"B2a"}, "request_more_info", Overcautious, TRUE)
  /\ LabelFits({"A1"}, "approve", Mirror, FALSE)
<1> DEFINE doubtful == ScriptedTriage("explainable")
           damning  == ScriptedTriage("unexplainable")
<1>1. ASSUME NEW pass \in {Mirror, Adversarial, Overcautious}
      PROVE  /\ pass.rule = "silent" /\ pass.failing = {}
             /\ {TriageCode(a) : a \in pass.advised} = {}
  BY DEF Mirror, Adversarial, Overcautious, Fixed, Pass
<1>2. /\ Mirror.proposer = "policy_mirror" /\ doubtful.proposer = "policy_mirror"
      /\ damning.proposer = "policy_mirror"
      /\ Adversarial.proposer = "approve" /\ Overcautious.proposer = "escalate"
  BY DEF Mirror, Adversarial, Overcautious, Fixed, Pass, ScriptedTriage
<1>3. /\ doubtful.rule = "silent" /\ doubtful.failing = {}
      /\ {TriageCode(a) : a \in doubtful.advised} = {"X1"}
  BY DEF Pass, ScriptedTriage, TriageCode
<1>4. /\ damning.rule = "silent" /\ damning.failing = {}
      /\ {TriageCode(a) : a \in damning.advised} = {"X2"}
  BY DEF Pass, ScriptedTriage, TriageCode
<1> HIDE
     DEF doubtful, damning
<1>5. LabelFits({"B2a", "C2"}, "request_more_info", Mirror, FALSE)
  BY <1>1, <1>2 DEF LabelFits, PassFits, ProposalDeserved, DecisionDeserved, Spoilt, Grave,
                    Benign, NotOfChecks
<1>6. LabelFits({"A2", "B2a"}, "escalate", Mirror, FALSE)
  BY <1>1, <1>2 DEF LabelFits, PassFits, ProposalDeserved, DecisionDeserved, Spoilt, Grave,
                    Benign, NotOfChecks
<1>7. LabelFits({"A2", "D1b"}, "escalate", Mirror, FALSE)
  BY <1>1, <1>2 DEF LabelFits, PassFits, ProposalDeserved, DecisionDeserved, Spoilt, Grave,
                    Benign, NotOfChecks
<1>8. LabelFits({"A1", "B2a", "C2"}, "request_more_info", Mirror, FALSE)
  BY <1>1, <1>2 DEF LabelFits, PassFits, ProposalDeserved, DecisionDeserved, Spoilt, Grave,
                    Benign, NotOfChecks
<1>9. LabelFits({"A1", "A2", "B2a"}, "escalate", Mirror, FALSE)
  BY <1>1, <1>2 DEF LabelFits, PassFits, ProposalDeserved, DecisionDeserved, Spoilt, Grave,
                    Benign, NotOfChecks
<1>10. LabelFits({"B2a", "X1"}, "request_more_info", doubtful, FALSE)
  BY <1>3, <1>2 DEF LabelFits, PassFits, ProposalDeserved, DecisionDeserved, Spoilt, Grave,
                    Benign, NotOfChecks
<1>11. LabelFits({"X1"}, "request_more_info", doubtful, TRUE)
  BY <1>3, <1>2 DEF LabelFits, PassFits, ProposalDeserved, DecisionDeserved, Spoilt, Grave,
                    Benign, NotOfChecks
<1>12. LabelFits({"X2"}, "escalate", damning, TRUE)
  BY <1>4, <1>2 DEF LabelFits, PassFits, ProposalDeserved, DecisionDeserved, Spoilt, Grave,
                    Benign, NotOfChecks
<1>13. LabelFits({"A2"}, "escalate", Adversarial, TRUE)
  BY <1>1, <1>2 DEF LabelFits, PassFits, ProposalDeserved, DecisionDeserved, Spoilt, Grave,
                    Benign, NotOfChecks
<1>14. LabelFits({"B2a"}, "request_more_info", Overcautious, TRUE)
  BY <1>1, <1>2 DEF LabelFits, PassFits, ProposalDeserved, DecisionDeserved, Spoilt, Grave,
                    Benign, NotOfChecks
<1>15. LabelFits({"A1"}, "approve", Mirror, FALSE)
  BY <1>1, <1>2 DEF LabelFits, PassFits, ProposalDeserved, DecisionDeserved, Spoilt, Grave,
                    Benign, NotOfChecks
<1> QED
  BY <1>5, <1>6, <1>7, <1>8, <1>9, <1>10, <1>11, <1>12, <1>13, <1>14, <1>15
     DEF doubtful, damning

LEMMA CompoundsAreFiled ==
  \A c \in CompoundCases : Filed(c.dossier, c.case)
<1> DEFINE doubtful == ScriptedTriage("explainable")
           damning  == ScriptedTriage("unexplainable")
<1>0. ASSUME NEW c, NEW d, NEW spoilt, NEW codes, NEW decision, NEW pass, NEW overridden,
             c = Compound(d, codes, decision, pass, overridden), IsCompound(d, spoilt),
             spoilt = codes \ NotOfChecks, LabelFits(codes, decision, pass, overridden)
      PROVE  Filed(c.dossier, c.case)
  <2>1. IsCompoundCase(c, spoilt, codes, decision, pass, overridden)
    BY <1>0 DEF IsCompoundCase
  <2> QED
    BY <1>0, <2>1, CompoundIsFiled DEF LabelFits
<1>1. ASSUME NEW c,
             c = Compound(Gapped(ValidExpired, "t1", OneLegalName), {"B2a", "C2"},
                          "request_more_info", Mirror, FALSE)
      PROVE  Filed(c.dossier, c.case)
  <2> DEFINE d == Gapped(ValidExpired, "t1", OneLegalName)
             codes == {"B2a", "C2"}
             spoilt == {"B2a", "C2"}
  <2>1. IsCompound(d, spoilt) /\ LabelFits(codes, "request_more_info", Mirror, FALSE)
    BY CompoundDossiersAre, CompoundLabelsFit
  <2>2. spoilt = codes \ NotOfChecks
    BY DEF NotOfChecks
  <2>3. c = Compound(d, codes, "request_more_info", Mirror, FALSE)
    BY <1>1
  <2> HIDE DEF d, codes, spoilt
  <2> QED
    BY <1>0, <2>1, <2>2, <2>3
<1>2. ASSUME NEW c,
             c = Compound(Gapped(ValidFar, "t2", OneLegalName), {"A2", "B2a"},
                          "escalate", Mirror, FALSE)
      PROVE  Filed(c.dossier, c.case)
  <2> DEFINE d == Gapped(ValidFar, "t2", OneLegalName)
             codes == {"A2", "B2a"}
             spoilt == {"A2", "B2a"}
  <2>1. IsCompound(d, spoilt) /\ LabelFits(codes, "escalate", Mirror, FALSE)
    BY CompoundDossiersAre, CompoundLabelsFit
  <2>2. spoilt = codes \ NotOfChecks
    BY DEF NotOfChecks
  <2>3. c = Compound(d, codes, "escalate", Mirror, FALSE)
    BY <1>2
  <2> HIDE DEF d, codes, spoilt
  <2> QED
    BY <1>0, <2>1, <2>2, <2>3
<1>3. ASSUME NEW c,
             c = Compound(OthersDeclared(OtherTax(Unspoilt(OneLegalName))), {"A2", "D1b"},
                          "escalate", Mirror, FALSE)
      PROVE  Filed(c.dossier, c.case)
  <2> DEFINE d == OthersDeclared(OtherTax(Unspoilt(OneLegalName)))
             codes == {"A2", "D1b"}
             spoilt == {"A2", "D1b"}
  <2>1. IsCompound(d, spoilt) /\ LabelFits(codes, "escalate", Mirror, FALSE)
    BY CompoundDossiersAre, CompoundLabelsFit
  <2>2. spoilt = codes \ NotOfChecks
    BY DEF NotOfChecks
  <2>3. c = Compound(d, codes, "escalate", Mirror, FALSE)
    BY <1>3
  <2> HIDE DEF d, codes, spoilt
  <2> QED
    BY <1>0, <2>1, <2>2, <2>3
<1>4. ASSUME NEW c,
             c = Compound(Gapped(ValidExpired, "t1", Surfaces), {"A1", "B2a", "C2"},
                          "request_more_info", Mirror, FALSE)
      PROVE  Filed(c.dossier, c.case)
  <2> DEFINE d == Gapped(ValidExpired, "t1", Surfaces)
             codes == {"A1", "B2a", "C2"}
             spoilt == {"A1", "B2a", "C2"}
  <2>1. IsCompound(d, spoilt) /\ LabelFits(codes, "request_more_info", Mirror, FALSE)
    BY CompoundDossiersAre, CompoundLabelsFit
  <2>2. spoilt = codes \ NotOfChecks
    BY DEF NotOfChecks
  <2>3. c = Compound(d, codes, "request_more_info", Mirror, FALSE)
    BY <1>4
  <2> HIDE DEF d, codes, spoilt
  <2> QED
    BY <1>0, <2>1, <2>2, <2>3
<1>5. ASSUME NEW c,
             c = Compound(Gapped(ValidFar, "t2", Surfaces), {"A1", "A2", "B2a"},
                          "escalate", Mirror, FALSE)
      PROVE  Filed(c.dossier, c.case)
  <2> DEFINE d == Gapped(ValidFar, "t2", Surfaces)
             codes == {"A1", "A2", "B2a"}
             spoilt == {"A1", "A2", "B2a"}
  <2>1. IsCompound(d, spoilt) /\ LabelFits(codes, "escalate", Mirror, FALSE)
    BY CompoundDossiersAre, CompoundLabelsFit
  <2>2. spoilt = codes \ NotOfChecks
    BY DEF NotOfChecks
  <2>3. c = Compound(d, codes, "escalate", Mirror, FALSE)
    BY <1>5
  <2> HIDE DEF d, codes, spoilt
  <2> QED
    BY <1>0, <2>1, <2>2, <2>3
<1>6. ASSUME NEW c,
             c = Compound(Gapped(ValidFar, "t1", OneLegalName), {"B2a", "X1"},
                          "request_more_info", doubtful, FALSE)
      PROVE  Filed(c.dossier, c.case)
  <2> DEFINE d == Gapped(ValidFar, "t1", OneLegalName)
             codes == {"B2a", "X1"}
             spoilt == {"B2a"}
  <2>1. IsCompound(d, spoilt) /\ LabelFits(codes, "request_more_info", doubtful, FALSE)
    BY CompoundDossiersAre, CompoundLabelsFit
  <2>2. spoilt = codes \ NotOfChecks
    BY DEF NotOfChecks
  <2>3. c = Compound(d, codes, "request_more_info", doubtful, FALSE)
    BY <1>6
  <2> HIDE DEF d, codes, spoilt
  <2> QED
    BY <1>0, <2>1, <2>2, <2>3
<1>7. ASSUME NEW c,
             c = Compound(Unspoilt(OneLegalName), {"X1"},
                          "request_more_info", doubtful, TRUE)
      PROVE  Filed(c.dossier, c.case)
  <2> DEFINE d == Unspoilt(OneLegalName)
             codes == {"X1"}
             spoilt == {}
  <2>1. IsCompound(d, spoilt) /\ LabelFits(codes, "request_more_info", doubtful, TRUE)
    BY CompoundDossiersAre, CompoundLabelsFit
  <2>2. spoilt = codes \ NotOfChecks
    BY DEF NotOfChecks
  <2>3. c = Compound(d, codes, "request_more_info", doubtful, TRUE)
    BY <1>7
  <2> HIDE DEF d, codes, spoilt
  <2> QED
    BY <1>0, <2>1, <2>2, <2>3
<1>8. ASSUME NEW c,
             c = Compound(Unspoilt(OneLegalName), {"X2"},
                          "escalate", damning, TRUE)
      PROVE  Filed(c.dossier, c.case)
  <2> DEFINE d == Unspoilt(OneLegalName)
             codes == {"X2"}
             spoilt == {}
  <2>1. IsCompound(d, spoilt) /\ LabelFits(codes, "escalate", damning, TRUE)
    BY CompoundDossiersAre, CompoundLabelsFit
  <2>2. spoilt = codes \ NotOfChecks
    BY DEF NotOfChecks
  <2>3. c = Compound(d, codes, "escalate", damning, TRUE)
    BY <1>8
  <2> HIDE DEF d, codes, spoilt
  <2> QED
    BY <1>0, <2>1, <2>2, <2>3
<1>9. ASSUME NEW c,
             c = Compound(OtherTax(Unspoilt(OneLegalName)), {"A2"},
                          "escalate", Adversarial, TRUE)
      PROVE  Filed(c.dossier, c.case)
  <2> DEFINE d == OtherTax(Unspoilt(OneLegalName))
             codes == {"A2"}
             spoilt == {"A2"}
  <2>1. IsCompound(d, spoilt) /\ LabelFits(codes, "escalate", Adversarial, TRUE)
    BY CompoundDossiersAre, CompoundLabelsFit
  <2>2. spoilt = codes \ NotOfChecks
    BY DEF NotOfChecks
  <2>3. c = Compound(d, codes, "escalate", Adversarial, TRUE)
    BY <1>9
  <2> HIDE DEF d, codes, spoilt
  <2> QED
    BY <1>0, <2>1, <2>2, <2>3
<1>10. ASSUME NEW c,
             c = Compound(Gapped(ValidFar, "t1", OneLegalName), {"B2a"},
                          "request_more_info", Overcautious, TRUE)
      PROVE  Filed(c.dossier, c.case)
  <2> DEFINE d == Gapped(ValidFar, "t1", OneLegalName)
             codes == {"B2a"}
             spoilt == {"B2a"}
  <2>1. IsCompound(d, spoilt) /\ LabelFits(codes, "request_more_info", Overcautious, TRUE)
    BY CompoundDossiersAre, CompoundLabelsFit
  <2>2. spoilt = codes \ NotOfChecks
    BY DEF NotOfChecks
  <2>3. c = Compound(d, codes, "request_more_info", Overcautious, TRUE)
    BY <1>10
  <2> HIDE DEF d, codes, spoilt
  <2> QED
    BY <1>0, <2>1, <2>2, <2>3
<1>11. ASSUME NEW c,
             c = Compound(Unspoilt(Surfaces), {"A1"},
                          "approve", Mirror, FALSE)
      PROVE  Filed(c.dossier, c.case)
  <2> DEFINE d == Unspoilt(Surfaces)
             codes == {"A1"}
             spoilt == {"A1"}
  <2>1. IsCompound(d, spoilt) /\ LabelFits(codes, "approve", Mirror, FALSE)
    BY CompoundDossiersAre, CompoundLabelsFit
  <2>2. spoilt = codes \ NotOfChecks
    BY DEF NotOfChecks
  <2>3. c = Compound(d, codes, "approve", Mirror, FALSE)
    BY <1>11
  <2> HIDE DEF d, codes, spoilt
  <2> QED
    BY <1>0, <2>1, <2>2, <2>3
<1> QED
  BY <1>1, <1>2, <1>3, <1>4, <1>5, <1>6, <1>7, <1>8, <1>9, <1>10, <1>11
     DEF CompoundCases, Unspoilt, Gapped, OtherTax, OthersDeclared

-----------------------------------------------------------------------------
(* What the checks found, once they are done.                              *)
Finished ==
  /\ pc = "done" /\ DOMAIN dossier \subseteq Documents
  /\ results = {ResultOf(check, dossier) : check \in DocumentChecks}

Weigh(findings, severity) == \E f \in findings : f.severity = severity

LEMMA ChecksAre ==
  ASSUME Finished
  PROVE  /\ {f.code : f \in CheckFindings} = AllCodes(dossier)
         /\ \A f \in CheckFindings : /\ f.origin = "deterministic"
                                     /\ f.severity = CodeSeverity(f.code)
<1>1. \A check \in DocumentChecks :
        /\ ResultOf(check, dossier).check = check
        /\ ResultOf(check, dossier).codes = CodesReported(check, dossier)
  BY DEF ResultOf
<1>2. \A f : f \in CheckFindings <=>
        \E check \in DocumentChecks : \E code \in CodesReported(check, dossier) :
          f = CheckFinding(check, code, None)
  <2> DEFINE pairs == UNION {{r.check} \X r.codes : r \in results}
  <2>1. \A e : e \in pairs <=>
          \E check \in DocumentChecks : \E code \in CodesReported(check, dossier) :
            e = <<check, code>>
    BY <1>1 DEF Finished
  <2>2. \A f : f \in CheckFindings <=> \E e \in pairs : f = CheckFinding(e[1], e[2], None)
    BY DEF CheckFindings
  <2> HIDE DEF pairs
  <2>3. ASSUME NEW f \in CheckFindings
        PROVE  \E check \in DocumentChecks : \E code \in CodesReported(check, dossier) :
                 f = CheckFinding(check, code, None)
    <3>1. PICK e \in pairs : f = CheckFinding(e[1], e[2], None)
      BY <2>2
    <3>2. PICK check \in DocumentChecks : \E code \in CodesReported(check, dossier) :
            e = <<check, code>>
      BY <2>1, <3>1
    <3>5. PICK code \in CodesReported(check, dossier) : e = <<check, code>>
      BY <3>2
    <3>3. e[1] = check /\ e[2] = code
      BY <3>5
    <3>4. f = CheckFinding(check, code, None)
      BY <3>1, <3>3
    <3> QED
      BY <3>2, <3>4
  <2>4. ASSUME NEW check \in DocumentChecks, NEW code \in CodesReported(check, dossier)
        PROVE  CheckFinding(check, code, None) \in CheckFindings
    <3> DEFINE e == <<check, code>>
    <3>1. e \in pairs
      BY <2>1
    <3>2. e[1] = check /\ e[2] = code
      OBVIOUS
    <3> HIDE DEF e
    <3>3. CheckFinding(e[1], e[2], None) \in CheckFindings
      BY <2>2, <3>1
    <3> QED
      BY <3>2, <3>3
  <2> QED
    BY <2>3, <2>4
<1>3. \A check, code : /\ CheckFinding(check, code, None).code = code
                       /\ CheckFinding(check, code, None).origin = "deterministic"
                       /\ CheckFinding(check, code, None).severity = CodeSeverity(code)
  BY DEF CheckFinding
<1>4. \A code : code \in AllCodes(dossier) <=>
        \E check \in DocumentChecks : code \in CodesReported(check, dossier)
  BY DEF AllCodes
<1>5. ASSUME NEW code
      PROVE  code \in {f.code : f \in CheckFindings} <=> code \in AllCodes(dossier)
  BY <1>2, <1>3, <1>4
<1> QED
  BY <1>2, <1>3, <1>5

LEMMA CodesWeigh ==
  ASSUME Finished
  PROVE  /\ Weigh(CheckFindings, "unexplainable") <=> AllCodes(dossier) \cap Grave # {}
         /\ Weigh(CheckFindings, "explainable") <=>
              AllCodes(dossier) \ (Grave \cup Benign) # {}
<1>1. AllCodes(dossier) \subseteq TaxonomyCodes
  BY AllCodesAreCodes DEF Finished
<1>2. \A c \in TaxonomyCodes :
        /\ CodeSeverity(c) = "unexplainable" <=> c \in Grave
        /\ CodeSeverity(c) = "explainable" <=> c \notin Grave \cup Benign
  BY DEF CodeSeverity, TaxonomyCodes, Grave, Benign
<1>3. \A severity : Weigh(CheckFindings, severity) <=>
        \E c \in AllCodes(dossier) : CodeSeverity(c) = severity
  BY ChecksAre DEF Weigh
<1> QED
  BY <1>1, <1>2, <1>3

LEMMA DecisionWeighs ==
  ASSUME NEW findings
  PROVE  DecisionForSeverities(SeveritiesOf(findings)) =
           IF Weigh(findings, "unexplainable") THEN "escalate"
           ELSE IF Weigh(findings, "explainable") THEN "request_more_info" ELSE "approve"
<1>1. \A severity : severity \in SeveritiesOf(findings) <=> Weigh(findings, severity)
  BY DEF SeveritiesOf, Weigh
<1> QED
  BY <1>1 DEF DecisionForSeverities

(* What else a pass adds.                                                  *)
Failures(p) ==
  {f \in RuleFinding("raised") : p.rule = "raised"}
  \cup {f \in {SystemFinding("ai_triage", "timeout")} : "ai_triage" \in p.failing}
  \cup {f \in {SystemFinding("synthesize", "timeout")} : "synthesize" \in p.failing}

Concerns(p) ==
  {f \in {CheckFinding("check_learned_rules", "F1", None)} : p.rule = "fired"}
  \cup {f \in {TriageFinding(a) : a \in p.advised} : "ai_triage" \notin p.failing}

LEMMA FindingsAre ==
  ASSUME NEW p
  PROVE  FindingsUnder(p) = CheckFindings \cup Concerns(p) \cup Failures(p)
<1>1. RuleFinding(p.rule) =
        {f \in RuleFinding("raised") : p.rule = "raised"}
        \cup {f \in {CheckFinding("check_learned_rules", "F1", None)} : p.rule = "fired"}
  <2>1. CASE p.rule = "fired"
    BY <2>1 DEF RuleFinding
  <2>2. CASE p.rule = "raised"
    BY <2>2 DEF RuleFinding
  <2>3. CASE p.rule \notin {"fired", "raised"}
    BY <2>3 DEF RuleFinding
  <2> QED
    BY <2>1, <2>2, <2>3
<1>2. TriageFindings(p) =
        {f \in {TriageFinding(a) : a \in p.advised} : "ai_triage" \notin p.failing}
        \cup {f \in {SystemFinding("ai_triage", "timeout")} : "ai_triage" \in p.failing}
  <2>1. CASE "ai_triage" \in p.failing
    BY <2>1 DEF TriageFindings
  <2>2. CASE "ai_triage" \notin p.failing
    BY <2>2 DEF TriageFindings
  <2> QED
    BY <2>1, <2>2
<1> QED
  BY <1>1, <1>2 DEF FindingsUnder, Concerns, Failures

LEMMA FailuresAre ==
  ASSUME NEW p, NEW f \in Failures(p)
  PROVE  f.origin = "system" /\ f.severity = "unexplainable"
BY DEF Failures, RuleFinding, SystemFinding

LEMMA ConcernsAre ==
  ASSUME NEW p, NEW f \in Concerns(p)
  PROVE  /\ f.origin # "system" /\ f.severity \in {"explainable", "unexplainable"}
         /\ p.rule # "fired" =>
              /\ f.code \in {TriageCode(a) : a \in p.advised}
              /\ f.severity = IF f.code = "X2" THEN "unexplainable" ELSE "explainable"
BY DEF Concerns, CheckFinding, CodeSeverity, TriageFinding, TriageSeverity, TriageCode


(* A failure escalates; a concern makes no decision milder.                *)
LEMMA PassWeighs ==
  ASSUME NEW p
  PROVE  LET all == FindingsUnder(p)
             others == {f \in all : f.origin # "system"}
             failed == {f \in all : f.origin = "system"}
         IN  Finished =>
               /\ others = CheckFindings \cup Concerns(p) /\ failed = Failures(p)
               /\ Failures(p) # {} => Weigh(all, "unexplainable")
<1> SUFFICES ASSUME Finished
             PROVE  LET all == FindingsUnder(p)
                        others == {f \in all : f.origin # "system"}
                        failed == {f \in all : f.origin = "system"}
                    IN  /\ others = CheckFindings \cup Concerns(p) /\ failed = Failures(p)
                        /\ Failures(p) # {} => Weigh(all, "unexplainable")
  OBVIOUS
<1>1. FindingsUnder(p) = CheckFindings \cup Concerns(p) \cup Failures(p)
  BY FindingsAre
<1>2. \A f \in CheckFindings : f.origin # "system"
  BY ChecksAre
<1>3. \A f \in Concerns(p) : f.origin # "system"
  BY ConcernsAre
<1>4. \A f \in Failures(p) : f.origin = "system" /\ f.severity = "unexplainable"
  BY FailuresAre
<1> QED
  BY <1>1, <1>2, <1>3, <1>4 DEF Weigh

(* The checks that ran are those whose documents were there.               *)
LEMMA TrajectoryHolds ==
  ASSUME NEW truth, Finished, FlowFits(truth, dossier)
  PROVE  TrajectoryMatch(truth)
<1> DEFINE ran == {r.check : r \in {s \in results : s.ran}}
           skipped == {r.check : r \in {s \in results : ~s.ran}}
<1>1. \A check \in DocumentChecks :
        /\ ResultOf(check, dossier).check = check
        /\ ResultOf(check, dossier).ran <=> CanRun(check, DOMAIN dossier)
  BY DEF ResultOf
<1>2. \A check \in DocumentChecks :
        CanRun(check, DOMAIN dossier) <=> check \in RunsOn(dossier)
  BY DEF RunsOn
<1>3. RunsOn(dossier) \subseteq DocumentChecks
  BY DEF RunsOn
<1>4. \A r : r \in results <=> \E check \in DocumentChecks : r = ResultOf(check, dossier)
  BY DEF Finished
<1>5. ran = RunsOn(dossier)
  <2>1. \A r \in results : r.ran => r.check \in RunsOn(dossier)
    BY <1>1, <1>2, <1>4
  <2>2. \A check \in RunsOn(dossier) : \E r \in results : r.ran /\ r.check = check
    BY <1>1, <1>2, <1>3, <1>4
  <2> QED
    BY <2>1, <2>2
<1>6. skipped = DocumentChecks \ RunsOn(dossier)
  <2>1. \A r \in results : ~r.ran => r.check \in DocumentChecks \ RunsOn(dossier)
    BY <1>1, <1>2, <1>4
  <2>2. \A check \in DocumentChecks \ RunsOn(dossier) :
          \E r \in results : ~r.ran /\ r.check = check
    BY <1>1, <1>2, <1>4
  <2> QED
    BY <2>1, <2>2
<1>7. TrajectoryMatch(truth) <=>
        truth.runs \subseteq ran /\ truth.skips \subseteq skipped /\ ran \cap skipped = {}
  BY DEF TrajectoryMatch
<1> HIDE DEF ran, skipped
<1> QED
  BY <1>5, <1>6, <1>7 DEF FlowFits

LEMMA DeservedIs ==
  ASSUME NEW codes
  PROVE  DecisionDeserved(codes) =
           IF codes \cap Grave # {} THEN "escalate"
           ELSE IF codes \ (Grave \cup Benign) # {} THEN "request_more_info" ELSE "approve"
BY DEF DecisionDeserved

(* What a set of findings decides, when each weighs what its code does.    *)
Weighted(findings, codes) ==
  /\ Weigh(findings, "unexplainable") <=> codes \cap Grave # {}
  /\ Weigh(findings, "explainable") <=> codes \ (Grave \cup Benign) # {}

LEMMA WeightedDecides ==
  ASSUME NEW findings, NEW codes, Weighted(findings, codes)
  PROVE  DecisionForSeverities(SeveritiesOf(findings)) = DecisionDeserved(codes)
BY DecisionWeighs, DeservedIs DEF Weighted

(* A pass with nothing but the concerns of the label.                      *)
Calm(p, codes) ==
  /\ p.rule # "fired" /\ "ai_triage" \notin p.failing
  /\ {TriageCode(a) : a \in p.advised} = codes \cap {"X1", "X2"}

LabelledBy(codes) ==
  /\ codes # {} /\ codes \subseteq Codes \cup {"X1", "X2"}
  /\ "NONE" \in codes => codes = {"NONE"}
  /\ AllCodes(dossier) = codes \ NotOfChecks

LEMMA CalmConcerns ==
  ASSUME NEW p, NEW codes, Calm(p, codes)
  PROVE  /\ {f.code : f \in Concerns(p)} = codes \cap {"X1", "X2"}
         /\ \A f \in Concerns(p) :
              f.severity = IF f.code = "X2" THEN "unexplainable" ELSE "explainable"
<1>1. Concerns(p) = {TriageFinding(a) : a \in p.advised}
  BY DEF Concerns, Calm
<1>2. \A a : TriageFinding(a).code = TriageCode(a)
  BY DEF TriageFinding
<1>3. {f.code : f \in Concerns(p)} = {TriageCode(a) : a \in p.advised}
  BY <1>1, <1>2
<1>4. \A f \in Concerns(p) :
        f.severity = IF f.code = "X2" THEN "unexplainable" ELSE "explainable"
  BY ConcernsAre DEF Calm
<1> QED
  BY <1>3, <1>4 DEF Calm

LEMMA ChecksWeigh ==
  ASSUME NEW codes, Finished, LabelledBy(codes)
  PROVE  Weighted(CheckFindings, codes \ NotOfChecks)
BY CodesWeigh DEF Weighted, LabelledBy

LEMMA CalmWeighs ==
  ASSUME NEW p, NEW codes, Finished, LabelledBy(codes), Calm(p, codes)
  PROVE  LET findings == CheckFindings \cup Concerns(p)
         IN  {f.code : f \in findings} = codes \ {"NONE"} /\ Weighted(findings, codes)
<1> DEFINE findings == CheckFindings \cup Concerns(p)
           found == codes \ NotOfChecks
           raised == codes \cap {"X1", "X2"}
<1>1. {f.code : f \in CheckFindings} = found /\ Weighted(CheckFindings, found)
  BY ChecksAre, ChecksWeigh DEF LabelledBy
<1>2. /\ {f.code : f \in Concerns(p)} = raised
      /\ \A f \in Concerns(p) :
           f.severity = IF f.code = "X2" THEN "unexplainable" ELSE "explainable"
  BY CalmConcerns
<1>3. codes \ {"NONE"} = found \cup raised
  BY DEF NotOfChecks, LabelledBy
<1>4. {f.code : f \in findings} = codes \ {"NONE"}
  BY <1>1, <1>2, <1>3
<1>5. /\ Weigh(Concerns(p), "unexplainable") <=> "X2" \in raised
      /\ Weigh(Concerns(p), "explainable") <=> "X1" \in raised
  <2>1. \A c : c \in raised <=> \E f \in Concerns(p) : f.code = c
    BY <1>2
  <2>2. \A f \in Concerns(p) : f.code \in {"X1", "X2"}
    BY <2>1
  <2> HIDE DEF raised
  <2> QED
    BY <1>2, <2>1, <2>2 DEF Weigh
<1>6. \A severity : Weigh(findings, severity) <=>
        Weigh(CheckFindings, severity) \/ Weigh(Concerns(p), severity)
  BY DEF Weigh
<1>7. /\ codes \cap Grave # {} <=> found \cap Grave # {} \/ "X2" \in raised
      /\ codes \ (Grave \cup Benign) # {} <=>
           found \ (Grave \cup Benign) # {} \/ "X1" \in raised
  <2>1. \A c : c \in codes <=> c \in found \/ c \in raised \/ (c = "NONE" /\ "NONE" \in codes)
    BY <1>3
  <2>2. \A c \in raised : c \in {"X1", "X2"}
    OBVIOUS
  <2> HIDE DEF found, raised
  <2> QED
    BY <2>1, <2>2 DEF Grave, Benign
<1> HIDE DEF findings, found, raised
<1>8. Weighted(findings, codes)
  BY <1>1, <1>5, <1>6, <1>7 DEF Weighted
<1> QED
  BY <1>4, <1>8 DEF findings

(* A screening, scored.                                                    *)
IsScore(s, p, truth) == s = EvaluateCase(p, truth)

LEMMA ScoreIs ==
  ASSUME NEW s, NEW p, NEW truth, IsScore(s, p, truth)
  PROVE  LET all    == FindingsUnder(p)
             final  == DecisionForSeverities(SeveritiesOf(all))
             system == {f \in all : f.origin = "system"}
         IN  /\ s.pass = p /\ s.decision = final
             /\ s.overridden <=> /\ ProposalOf(p).status = "available"
                                 /\ ProposalOf(p).proposed # final
             /\ s.decisionOk <=> final = truth.decision
             /\ s.findingOk <=> AgentFindingCodes(all) = truth.codes
             /\ s.trajectoryOk <=> TrajectoryMatch(truth)
             /\ s.failures # {} <=> system # {}
             /\ s.induced <=> /\ system # {}
                              /\ DecisionRank(WithoutSystem(all)) < DecisionRank(final)
<1> DEFINE all      == FindingsUnder(p)
           proposal == ProposalOf(p)
           final    == DecisionForSeverities(SeveritiesOf(all))
           system   == {f \in all : f.origin = "system"}
           kinds    == {f.kind : f \in system}
           lower    == DecisionRank(WithoutSystem(all)) < DecisionRank(final)
           told     == AgentFindingCodes(all)
           match    == TrajectoryMatch(truth)
<1>1. /\ ApplyGuardrail(all, proposal).final = final
      /\ ApplyGuardrail(all, proposal).overridden =
           (proposal.status = "available" /\ proposal.proposed # final)
  BY DEF ApplyGuardrail
<1>2. kinds # {} <=> system # {}
  OBVIOUS
<1> DEFINE guardrail == ApplyGuardrail(all, proposal)
<1>3. s = [ pass |-> p, decision |-> guardrail.final, overridden |-> guardrail.overridden,
            decisionOk |-> guardrail.final = truth.decision,
            findingOk |-> told = truth.codes, trajectoryOk |-> match, failures |-> kinds,
            induced |-> /\ kinds # {}
                        /\ DecisionRank(WithoutSystem(all)) < DecisionRank(guardrail.final) ]
  BY DEF IsScore, EvaluateCase
<1>4. s = [ pass |-> p, decision |-> final,
            overridden |-> (proposal.status = "available" /\ proposal.proposed # final),
            decisionOk |-> final = truth.decision,
            findingOk |-> told = truth.codes, trajectoryOk |-> match, failures |-> kinds,
            induced |-> kinds # {} /\ lower ]
  BY <1>1, <1>3
<1> HIDE DEF all, proposal, final, system, kinds, lower, told, match
<1>5. /\ s.pass = p /\ s.decision = final
      /\ s.overridden <=> proposal.status = "available" /\ proposal.proposed # final
      /\ s.decisionOk <=> final = truth.decision
      /\ s.findingOk <=> told = truth.codes
      /\ s.trajectoryOk <=> match
      /\ s.failures = kinds
      /\ s.induced <=> kinds # {} /\ lower
  BY <1>4
<1>6. /\ s.failures # {} <=> system # {}
      /\ s.induced <=> system # {} /\ lower
  BY <1>2, <1>5
<1> QED
  BY <1>5, <1>6 DEF all, proposal, final, system, lower, told, match

(* A pass in which nothing fails.                                          *)
Quiet(p, codes) == p.rule = "silent" /\ p.failing = {} /\ Calm(p, codes)

LEMMA QuietIsCalm ==
  ASSUME NEW p, NEW codes, Quiet(p, codes)
  PROVE  Failures(p) = {} /\ FindingsUnder(p) = CheckFindings \cup Concerns(p)
<1>1. Failures(p) = {}
  BY DEF Failures, Quiet
<1> QED
  BY <1>1, FindingsAre

LEMMA CalmIsTold ==
  ASSUME NEW p, NEW codes, Finished, LabelledBy(codes), Calm(p, codes)
  PROVE  AgentFindingCodes(FindingsUnder(p)) = codes
<1> DEFINE all == FindingsUnder(p)
           others == {f \in all : f.origin # "system"}
           told == {f.code : f \in others}
<1>1. others = CheckFindings \cup Concerns(p)
  BY PassWeighs
<1>2. told = codes \ {"NONE"}
  BY <1>1, CalmWeighs
<1>3. AgentFindingCodes(all) = IF told = {} THEN {"NONE"} ELSE told
  BY DEF AgentFindingCodes
<1> HIDE DEF told
<1> QED
  BY <1>2, <1>3 DEF LabelledBy

LEMMA QuietProposes ==
  ASSUME NEW p, NEW codes, Finished, LabelledBy(codes), Quiet(p, codes)
  PROVE  ProposalOf(p) = Available(ProposalDeserved(codes, p))
<1>1. RuleFinding(p.rule) = {}
  BY DEF RuleFinding, Quiet
<1>2. DecisionForSeverities(SeveritiesOf(CheckFindings)) = DecisionDeserved(codes \ NotOfChecks)
  BY ChecksWeigh, WeightedDecides
<1>3. CheckFindings \cup RuleFinding(p.rule) = CheckFindings
  BY <1>1
<1>4. "synthesize" \notin p.failing
  BY DEF Quiet
<1> QED
  BY <1>2, <1>3, <1>4 DEF ProposalOf, ProposalDeserved

LEMMA LabelledPassesAreQuiet ==
  ASSUME NEW d, NEW case, Filed(d, case), NEW p \in LabelledPasses(case)
  PROVE  /\ Quiet(p, case.truth.codes)
         /\ ToBeOverridden(case, p) <=>
              ProposalDeserved(case.truth.codes, p) # case.truth.decision
<1> DEFINE codes == case.truth.codes
           decision == case.truth.decision
<1>1. CASE case.corpus = "compound"
  <2>1. p = case.pass /\ PassFits(codes, decision, p, case.overridden)
    BY <1>1 DEF LabelledPasses, Filed
  <2>2. ToBeOverridden(case, p) <=> case.overridden
    BY <1>1 DEF ToBeOverridden
  <2> QED
    BY <2>1, <2>2 DEF PassFits, Quiet, Calm
<1>2. CASE case.corpus # "compound"
  <2>1. p \in {Mirror, Adversarial, Overcautious} /\ codes \cap {"X1", "X2"} = {}
    BY <1>2 DEF LabelledPasses, Filed
  <2>2. p.rule = "silent" /\ p.failing = {} /\ p.advised = {}
    BY <2>1 DEF Mirror, Adversarial, Overcautious, Fixed, Pass
  <2>3. Quiet(p, codes)
    BY <2>1, <2>2 DEF Quiet, Calm
  <2>4. DecisionDeserved(codes \ NotOfChecks) = decision
    <3>1. decision = DecisionDeserved(codes)
      BY DEF Filed, CodesFit
    <3> QED
      BY <2>1, <3>1 DEF DecisionDeserved, NotOfChecks, Grave, Benign
  <2>5. ToBeOverridden(case, p) <=> p.proposer # "policy_mirror" /\ p.proposer # decision
    BY <1>2 DEF ToBeOverridden
  <2> QED
    BY <2>3, <2>4, <2>5 DEF ProposalDeserved
<1> QED
  BY <1>1, <1>2

LEMMA LabelsAreFound ==
  ASSUME NEW case, Filed(dossier, case), Apart(dossier, case.truth.codes)
  PROVE  /\ LabelledBy(case.truth.codes)
         /\ case.truth.decision = DecisionDeserved(case.truth.codes)
BY DEF Filed, CodesFit, AsLabelled, LabelledBy

LEMMA QuietScore ==
  ASSUME NEW case, Finished, Filed(dossier, case), Apart(dossier, case.truth.codes),
         NEW p \in LabelledPasses(case), NEW s, IsScore(s, p, case.truth)
  PROVE  /\ s.findingOk /\ s.decisionOk /\ s.trajectoryOk
         /\ s.overridden <=> ToBeOverridden(case, p)
<1> DEFINE codes == case.truth.codes
           decision == case.truth.decision
           all == FindingsUnder(p)
           final == DecisionForSeverities(SeveritiesOf(all))
           proposed == ProposalDeserved(codes, p)
<1>1. LabelledBy(codes) /\ decision = DecisionDeserved(codes)
  BY LabelsAreFound
<1>2. Quiet(p, codes) /\ Calm(p, codes) /\ (ToBeOverridden(case, p) <=> proposed # decision)
  BY LabelledPassesAreQuiet DEF Quiet
<1>3. final = decision
  <2>1. Weighted(all, codes)
    BY <1>1, <1>2, QuietIsCalm, CalmWeighs
  <2> QED
    BY <1>1, <2>1, WeightedDecides
<1>4. AgentFindingCodes(all) = codes
  BY <1>1, <1>2, CalmIsTold
<1>5. TrajectoryMatch(case.truth)
  BY TrajectoryHolds DEF Filed
<1>6. ProposalOf(p).status = "available" /\ ProposalOf(p).proposed = proposed
  BY <1>1, <1>2, QuietProposes DEF Available
<1>7. /\ s.overridden <=> ProposalOf(p).status = "available" /\ ProposalOf(p).proposed # final
      /\ s.decisionOk <=> final = decision
      /\ s.findingOk <=> AgentFindingCodes(all) = codes
      /\ s.trajectoryOk <=> TrajectoryMatch(case.truth)
  BY ScoreIs
<1> HIDE DEF final, proposed
<1> QED
  BY <1>2, <1>3, <1>4, <1>5, <1>6, <1>7

(* Nothing beyond the documents speaks.                                    *)
DocumentsSpeak(p) ==
  p.rule # "fired" /\ TriageFindings(p) \subseteq {SystemFinding("ai_triage", "timeout")}

LEMMA NoConcerns ==
  ASSUME NEW p, DocumentsSpeak(p)
  PROVE  Concerns(p) = {}
<1>1. ASSUME "ai_triage" \notin p.failing
      PROVE  p.advised = {}
  <2>1. TriageFindings(p) = {TriageFinding(a) : a \in p.advised}
    BY <1>1 DEF TriageFindings
  <2>2. \A a : TriageFinding(a) # SystemFinding("ai_triage", "timeout")
    <3>1. \A a : TriageFinding(a).origin = "ai_triage"
      BY DEF TriageFinding
    <3>2. SystemFinding("ai_triage", "timeout").origin = "system"
      BY DEF SystemFinding
    <3> QED
      BY <3>1, <3>2
  <2> QED
    BY <2>1, <2>2 DEF DocumentsSpeak
<1> QED
  BY <1>1 DEF Concerns, DocumentsSpeak

(* A label with a concern in it is of a case whose pass is its own.        *)
LEMMA ConcernedPass ==
  ASSUME NEW d, NEW case, Filed(d, case), case.truth.codes \cap {"X1", "X2"} # {},
         NEW p \in Passes(case)
  PROVE  Quiet(p, case.truth.codes) /\ Concerns(p) # {}
<1> DEFINE codes == case.truth.codes
<1>1. case.corpus = "compound" /\ p = case.pass
  BY DEF Filed, Passes
<1>2. /\ p.rule = "silent" /\ p.failing = {}
      /\ {TriageCode(a) : a \in p.advised} = codes \cap {"X1", "X2"}
  BY <1>1 DEF Filed, PassFits
<1>3. Quiet(p, codes)
  BY <1>2 DEF Quiet, Calm
<1>4. {f.code : f \in Concerns(p)} = codes \cap {"X1", "X2"}
  BY <1>3, CalmConcerns DEF Quiet
<1> QED
  BY <1>3, <1>4

(* Of a label without one, the checks say all there is to say.             *)
LEMMA ChecksSayAll ==
  ASSUME NEW codes, Finished, LabelledBy(codes), codes \cap {"X1", "X2"} = {}
  PROVE  /\ {f.code : f \in CheckFindings} = codes \ {"NONE"}
         /\ Weighted(CheckFindings, codes)
<1>1. codes \ NotOfChecks = codes \ {"NONE"}
  BY DEF NotOfChecks
<1>2. /\ codes \cap Grave = (codes \ {"NONE"}) \cap Grave
      /\ codes \ (Grave \cup Benign) = (codes \ {"NONE"}) \ (Grave \cup Benign)
  BY DEF Grave, Benign
<1>3. Weighted(CheckFindings, codes \ {"NONE"})
  BY <1>1, ChecksWeigh
<1>4. {f.code : f \in CheckFindings} = codes \ {"NONE"}
  BY <1>1, ChecksAre DEF LabelledBy
<1> QED
  BY <1>2, <1>3, <1>4 DEF Weighted

LEMMA DecisionsRank ==
  ASSUME NEW codes
  PROVE  LET decision == DecisionDeserved(codes)
         IN  /\ DecisionRank(decision) < DecisionRank("escalate") <=> decision # "escalate"
             /\ DecisionRank(decision) \in 0..2
BY DEF DecisionDeserved, DecisionRank

LEMMA WeightRanks ==
  ASSUME NEW some, NEW all, some \subseteq all
  PROVE  DecisionRank(DecisionForSeverities(SeveritiesOf(all))) >=
           DecisionRank(DecisionForSeverities(SeveritiesOf(some)))
<1> DEFINE lesser == DecisionForSeverities(SeveritiesOf(some))
           more   == DecisionForSeverities(SeveritiesOf(all))
<1>1. \A severity : Weigh(some, severity) => Weigh(all, severity)
  BY DEF Weigh
<1>2. lesser = IF Weigh(some, "unexplainable") THEN "escalate"
               ELSE IF Weigh(some, "explainable") THEN "request_more_info" ELSE "approve"
  BY DecisionWeighs
<1>3. more = IF Weigh(all, "unexplainable") THEN "escalate"
             ELSE IF Weigh(all, "explainable") THEN "request_more_info" ELSE "approve"
  BY DecisionWeighs
<1> HIDE DEF lesser, more
<1>4. \/ more = "escalate" \/ lesser = "approve"
      \/ more = "request_more_info" /\ lesser = "request_more_info"
  BY <1>1, <1>2, <1>3
<1>5. lesser \in {"escalate", "request_more_info", "approve"}
      /\ more \in {"escalate", "request_more_info", "approve"}
  BY <1>2, <1>3
<1>6. DecisionRank(more) >= DecisionRank(lesser)
  BY <1>4, <1>5 DEF DecisionRank
<1> QED
  BY <1>6 DEF lesser, more

(* What the documents say alone: failures add to it and take nothing away. *)
LEMMA SpokenScore ==
  ASSUME NEW case, Finished, Filed(dossier, case), Apart(dossier, case.truth.codes),
         NEW p \in Passes(case), NEW s, IsScore(s, p, case.truth), DocumentsSpeak(p)
  PROVE  /\ s.findingOk
         /\ s.failures # {} => s.decision = "escalate"
         /\ s.induced <=> s.failures # {} /\ case.truth.decision # "escalate"
         /\ s.failures = {} => s.decisionOk
<1> DEFINE codes == case.truth.codes
           decision == case.truth.decision
           all == FindingsUnder(p)
           final == DecisionForSeverities(SeveritiesOf(all))
           others == {f \in all : f.origin # "system"}
           system == {f \in all : f.origin = "system"}
           told == {f.code : f \in others}
           lower == DecisionRank(WithoutSystem(all)) < DecisionRank(final)
<1>1. LabelledBy(codes) /\ decision = DecisionDeserved(codes)
  BY LabelsAreFound
<1>2. codes \cap {"X1", "X2"} = {}
  BY NoConcerns, ConcernedPass
<1>3. others = CheckFindings /\ system = Failures(p)
  BY NoConcerns, PassWeighs
<1>4. told = codes \ {"NONE"} /\ Weighted(others, codes)
  BY <1>1, <1>2, <1>3, ChecksSayAll
<1>5. AgentFindingCodes(all) = codes
  <2>1. AgentFindingCodes(all) = IF told = {} THEN {"NONE"} ELSE told
    BY DEF AgentFindingCodes
  <2> HIDE DEF told
  <2> QED
    BY <1>1, <1>4, <2>1 DEF LabelledBy
<1>6. WithoutSystem(all) = decision
  BY <1>1, <1>4, WeightedDecides DEF WithoutSystem
<1>7. system # {} => final = "escalate"
  BY <1>3, PassWeighs, DecisionWeighs
<1>8. system = {} => final = decision
  <2>1. ASSUME system = {} PROVE all = others
    BY <2>1
  <2> QED
    BY <1>1, <1>4, <2>1, WeightedDecides
<1>9. system # {} => (lower <=> decision # "escalate")
  <2> SUFFICES ASSUME system # {} PROVE lower <=> decision # "escalate"
    OBVIOUS
  <2>1. lower <=> DecisionRank(decision) < DecisionRank("escalate")
    BY <1>6, <1>7
  <2> HIDE DEF lower
  <2>2. DecisionRank(decision) < DecisionRank("escalate") <=> decision # "escalate"
    BY <1>1, DecisionsRank
  <2> QED
    BY <2>1, <2>2
<1>10. /\ s.decision = final
       /\ s.decisionOk <=> final = decision
       /\ s.findingOk <=> AgentFindingCodes(all) = codes
       /\ s.failures # {} <=> system # {}
       /\ s.induced <=> system # {} /\ lower
  BY ScoreIs
<1> HIDE DEF all, final, others, system, told, lower, decision
<1>11. /\ s.findingOk
       /\ s.failures # {} => s.decision = "escalate"
       /\ s.induced <=> s.failures # {} /\ decision # "escalate"
       /\ s.failures = {} => s.decisionOk
  BY <1>5, <1>7, <1>8, <1>9, <1>10
<1> QED
  BY <1>11 DEF decision

(* Whatever is proposed, raised or fails.                                  *)
LEMMA CautiousScore ==
  ASSUME NEW case, Finished, Filed(dossier, case), Apart(dossier, case.truth.codes),
         NEW p \in Passes(case), NEW s, IsScore(s, p, case.truth)
  PROVE  DecisionRank(s.decision) >= DecisionRank(case.truth.decision)
<1> DEFINE codes == case.truth.codes
           decision == case.truth.decision
           all == FindingsUnder(p)
           final == DecisionForSeverities(SeveritiesOf(all))
<1>1. LabelledBy(codes) /\ decision = DecisionDeserved(codes)
  BY LabelsAreFound
<1>2. s.decision = final
  BY ScoreIs
<1>3. CASE codes \cap {"X1", "X2"} # {}
  <2>1. Quiet(p, codes)
    BY <1>3, ConcernedPass
  <2>2. Weighted(all, codes)
    BY <1>1, <2>1, QuietIsCalm, CalmWeighs DEF Quiet
  <2>3. final = decision
    BY <1>1, <2>2, WeightedDecides
  <2>4. DecisionRank(decision) \in 0..2
    BY <1>1, DecisionsRank
  <2> HIDE DEF final, decision
  <2>5. DecisionRank(s.decision) >= DecisionRank(decision)
    BY <1>2, <2>3, <2>4
  <2> QED
    BY <2>5 DEF decision
<1>4. CASE codes \cap {"X1", "X2"} = {}
  <2>1. Weighted(CheckFindings, codes)
    BY <1>1, <1>4, ChecksSayAll
  <2>2. decision = DecisionForSeverities(SeveritiesOf(CheckFindings))
    BY <1>1, <2>1, WeightedDecides
  <2>3. CheckFindings \subseteq all
    BY FindingsAre
  <2> QED
    BY <1>2, <2>2, <2>3, WeightRanks
<1> QED
  BY <1>3, <1>4

-----------------------------------------------------------------------------
(* How a screening of a labelled dossier came out.                         *)
WellScored(s, d, case) ==
  /\ s.pass \in LabelledPasses(case) =>
       /\ s.findingOk /\ s.decisionOk /\ s.trajectoryOk
       /\ s.overridden <=> ToBeOverridden(case, s.pass)
  /\ DocumentsSpeak(s.pass) =>
       /\ s.findingOk
       /\ s.failures # {} => s.decision = "escalate"
       /\ s.induced <=> s.failures # {} /\ case.truth.decision # "escalate"
       /\ s.failures = {} => s.decisionOk
  /\ DecisionRank(s.decision) >= DecisionRank(case.truth.decision)

LabelInv ==
  /\ DOMAIN dossier \subseteq Documents
  /\ pc \in DocumentChecks \cup {"done"}
  /\ results = {ResultOf(check, dossier) : check \in DoneBefore[pc]}
  /\ expected.corpus = "none" \/ Filed(dossier, expected)
  /\ Scored /\ Apart(dossier, expected.truth.codes) => WellScored(score, dossier, expected)
  /\ Scored => pc = "done"

LEMMA LabelledStart ==
  LabelledInit => LabelInv
<1>1. ASSUME Init, expected = Unlabelled, score = NotScored
      PROVE  LabelInv
  <2>1. /\ DOMAIN dossier \subseteq Documents
        /\ pc = "check_identity_consistency" /\ results = {}
    BY <1>1 DEF Init
  <2>2. expected.corpus = "none"
    BY <1>1 DEF Unlabelled, Case
  <2> QED
    BY <1>1, <2>1, <2>2 DEF LabelInv, Scored, DocumentChecks, DoneBefore
<1>2. ASSUME NEW d, NEW case, Begin(d, case), Filed(d, case)
      PROVE  LabelInv
  <2>1. /\ dossier = d /\ expected = case /\ score = NotScored
        /\ pc = "check_identity_consistency" /\ results = {}
    BY <1>2 DEF Begin
  <2>2. DOMAIN dossier \subseteq Documents /\ Filed(dossier, expected)
    BY <1>2, <2>1 DEF Filed
  <2> QED
    BY <2>1, <2>2 DEF LabelInv, Scored, DocumentChecks, DoneBefore
<1> SUFFICES ASSUME LabelledInit PROVE LabelInv
  OBVIOUS
<1>3. CASE Init /\ expected = Unlabelled /\ score = NotScored
  BY <1>1, <1>3
<1>4. CASE \E base \in CleanBases, code \in Codes : \E d \in Variants(code, base) :
             Begin(d, GeneratedCase(GeneratedTruth(code, d)))
  BY <1>2, <1>4, GeneratedAreFiled
<1>5. CASE \E c \in CompoundCases \cup Seeds : Begin(c.dossier, c.case)
  BY <1>2, <1>5, CompoundsAreFiled, SeedsAreFiled
<1> QED
  BY <1>3, <1>4, <1>5 DEF LabelledInit

LEMMA LabelledScore ==
  ASSUME LabelInv, Score
  PROVE  LabelInv'
<1>1. /\ pc = "done" /\ expected.corpus # "none"
      /\ dossier' = dossier /\ pc' = pc /\ results' = results /\ expected' = expected
  BY DEF Score, vars
<1>2. PICK p \in Passes(expected) : score' = EvaluateCase(p, expected.truth)
  BY DEF Score
<1>3. IsScore(score', p, expected.truth) /\ score'.pass = p
  <2>1. IsScore(score', p, expected.truth)
    BY <1>2 DEF IsScore
  <2> QED
    BY <2>1, ScoreIs
<1>4. Finished /\ Filed(dossier, expected)
  BY <1>1 DEF LabelInv, Finished, DoneBefore
<1>5. ASSUME Apart(dossier, expected.truth.codes)
      PROVE  WellScored(score', dossier, expected)
  <2>1. ASSUME p \in LabelledPasses(expected)
        PROVE  /\ score'.findingOk /\ score'.decisionOk /\ score'.trajectoryOk
               /\ score'.overridden <=> ToBeOverridden(expected, p)
    BY <1>3, <1>4, <1>5, <2>1, QuietScore
  <2>2. ASSUME DocumentsSpeak(p)
        PROVE  /\ score'.findingOk
               /\ score'.failures # {} => score'.decision = "escalate"
               /\ score'.induced <=>
                    score'.failures # {} /\ expected.truth.decision # "escalate"
               /\ score'.failures = {} => score'.decisionOk
    BY <1>3, <1>4, <1>5, <2>2, SpokenScore
  <2>3. DecisionRank(score'.decision) >= DecisionRank(expected.truth.decision)
    BY <1>3, <1>4, <1>5, CautiousScore
  <2> QED
    BY <1>3, <2>1, <2>2, <2>3 DEF WellScored
<1>6. /\ Apart(dossier', expected'.truth.codes) <=> Apart(dossier, expected.truth.codes)
      /\ WellScored(score', dossier', expected') <=> WellScored(score', dossier, expected)
      /\ Filed(dossier', expected') <=> Filed(dossier, expected)
      /\ {ResultOf(check, dossier') : check \in DoneBefore[pc']} =
           {ResultOf(check, dossier) : check \in DoneBefore[pc]}
  BY <1>1
<1> QED
  BY <1>1, <1>4, <1>5, <1>6 DEF LabelInv

LEMMA LabelledCheck ==
  ASSUME LabelInv, Next, UNCHANGED <<expected, score>>
  PROVE  LabelInv'
<1>1. /\ pc \in DocumentChecks /\ pc' = NextCheck[pc] /\ dossier' = dossier
      /\ results' = results \cup {ResultOf(pc, dossier)}
  BY NextReports
<1>2. /\ pc' \in DocumentChecks \cup {"done"}
      /\ DoneBefore[pc'] = DoneBefore[pc] \cup {pc}
  BY <1>1, StepsFollow
<1>3. results' = {ResultOf(check, dossier) : check \in DoneBefore[pc']}
  BY <1>1, <1>2 DEF LabelInv
<1>4. ~Scored'
  BY <1>1 DEF LabelInv, Scored, DocumentChecks
<1>5. /\ Filed(dossier', expected') <=> Filed(dossier, expected)
      /\ {ResultOf(check, dossier') : check \in DoneBefore[pc']} =
           {ResultOf(check, dossier) : check \in DoneBefore[pc']}
  BY <1>1
<1> QED
  BY <1>1, <1>2, <1>3, <1>4, <1>5 DEF LabelInv

(* Along every screening of a labelled dossier, the results are exactly    *)
(* those of the checks of build_graph behind the program counter, the      *)
(* dossier and its label are those the generator, compound.py or the seeds *)
(* filed together, and a score is the one evaluate_case gives such a pair. *)
THEOREM LabelsAreKept == LabelledSpec => []LabelInv
<1>1. LabelInv /\ [LabelledNext]_evalVars => LabelInv'
  <2>1. ASSUME LabelInv, UNCHANGED evalVars
        PROVE  LabelInv'
    <3>1. /\ dossier' = dossier /\ pc' = pc /\ results' = results /\ expected' = expected
          /\ score' = score
      BY <2>1 DEF evalVars, vars
    <3>2. /\ Apart(dossier', expected'.truth.codes) <=> Apart(dossier, expected.truth.codes)
          /\ WellScored(score', dossier', expected') <=> WellScored(score, dossier, expected)
          /\ Filed(dossier', expected') <=> Filed(dossier, expected)
          /\ {ResultOf(check, dossier') : check \in DoneBefore[pc']} =
               {ResultOf(check, dossier) : check \in DoneBefore[pc]}
      BY <3>1
    <3> QED
      BY <2>1, <3>1, <3>2 DEF LabelInv, Scored
  <2> QED
    BY <2>1, LabelledScore, LabelledCheck DEF LabelledNext
<1> QED
  BY <1>1, LabelledStart, PTL DEF LabelledSpec

LEMMA ApartIsToldApart ==
  ToldApart => Apart(dossier, expected.truth.codes)
BY DEF ToldApart, Apart

(* Labels are right: for every draw of generate/synthetic.py, every        *)
(* compound case and every seed, whatever the relation between names, the  *)
(* five checks of agent/checks.py report exactly the codes of the label,   *)
(* run and skip what it expects, the decision is the label's, and the      *)
(* guardrail overrides the proposal just when it was to.                   *)
THEOREM LabelsAreRight == LabelledSpec => []LabelsHold
<1>1. LabelInv => LabelsHold
  BY ApartIsToldApart DEF LabelInv, LabelsHold, WellScored
<1> QED
  BY <1>1, LabelsAreKept, PTL

(* A failure is no evidence: on those dossiers, calls that fail and rules  *)
(* that raise leave the finding score of evaluate_case at right, always    *)
(* escalate, and are held the cause of the escalation just when the label  *)
(* asked for less.                                                         *)
THEOREM FailureIsNoEvidence == LabelledSpec => []FailuresAreNotEvidence
<1>1. LabelInv => FailuresAreNotEvidence
  BY ApartIsToldApart
     DEF LabelInv, FailuresAreNotEvidence, WellScored, OnlyDocuments, DocumentsSpeak
<1> QED
  BY <1>1, LabelsAreKept, PTL

(* No false approval: on those dossiers, whatever is proposed, raised or   *)
(* fails, what apply_guardrail decides is never less cautious than the     *)
(* label, and it is the label's when only the documents spoke and nothing  *)
(* failed.                                                                 *)
THEOREM NothingFalselyApproved == LabelledSpec => []NoFalseApproval
<1>1. LabelInv => NoFalseApproval
  BY ApartIsToldApart
     DEF LabelInv, NoFalseApproval, WellScored, OnlyDocuments, DocumentsSpeak
<1> QED
  BY <1>1, LabelsAreKept, PTL

=============================================================================
