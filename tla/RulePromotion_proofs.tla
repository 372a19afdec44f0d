------------------------ MODULE RulePromotion_proofs ------------------------
(***************************************************************************)
(* For any number of operators, rules, limits, seeds and corpora, and any  *)
(* crashes: a rule that is in force passed a gate, and an id stands for    *)
(* one rule, although nothing protects the file from two writers. And as   *)
(* long as no two promotions overlap, a promotion is permanent.            *)
(***************************************************************************)
EXTENDS PromotionHistory, TLAPS

(* Adding a rule to a list keeps it a list of rules.                       *)
LEMMA AppendIsTyped ==
  ASSUME NEW s \in Seq(Rules), NEW r \in Rules
  PROVE  Append(s, r) \in Seq(Rules)
  OBVIOUS

(* Adding a gated rule keeps every rule of a list gated.                   *)
LEMMA AppendIsGated ==
  ASSUME NEW s \in Seq(Rules), NEW r \in Rules, AllGated(s), Gated(r)
  PROVE  AllGated(Append(s, r))
<1>1. SUFFICES ASSUME NEW i \in DOMAIN Append(s, r)
               PROVE  Gated(Append(s, r)[i])
  BY DEF AllGated
<1>2. CASE i = Len(s) + 1
  <2>1. Append(s, r)[i] = r
    BY <1>2
  <2>2. QED
    BY <2>1
<1>3. CASE i # Len(s) + 1
  <2>1. i \in DOMAIN s /\ Append(s, r)[i] = s[i]
    BY <1>3
  <2>2. QED
    BY <2>1 DEF AllGated
<1>4. QED
  BY <1>2, <1>3

(* Adding a rule whose id is not taken keeps the ids of a list unique.     *)
LEMMA AppendIsUnique ==
  ASSUME NEW s \in Seq(Rules), NEW r \in Rules, UniqueIds(s),
         \A i \in DOMAIN s : s[i].id # r.id
  PROVE  UniqueIds(Append(s, r))
<1> DEFINE t == Append(s, r)
<1>1. SUFFICES ASSUME NEW i \in DOMAIN t, NEW j \in DOMAIN t, t[i].id = t[j].id
               PROVE  i = j
  BY DEF UniqueIds
<1>2. \A k \in DOMAIN t :
        \/ k = Len(s) + 1 /\ t[k] = r
        \/ k \in DOMAIN s /\ t[k] = s[k]
  OBVIOUS
<1>3. CASE i \in DOMAIN s /\ j \in DOMAIN s /\ t[i] = s[i] /\ t[j] = s[j]
  BY <1>1, <1>3 DEF UniqueIds
<1>4. CASE i = Len(s) + 1 /\ t[i] = r /\ j \in DOMAIN s /\ t[j] = s[j]
  BY <1>1, <1>4
<1>5. CASE j = Len(s) + 1 /\ t[j] = r /\ i \in DOMAIN s /\ t[i] = s[i]
  BY <1>1, <1>5
<1>6. CASE i = Len(s) + 1 /\ j = Len(s) + 1
  BY <1>6
<1>7. QED
  BY <1>2, <1>3, <1>4, <1>5, <1>6

(* The empty list is gated and has unique ids.                             *)
LEMMA EmptyList == << >> \in Seq(Rules) /\ AllGated(<< >>) /\ UniqueIds(<< >>)
  BY DEF AllGated, UniqueIds

(* What the gate says of a candidate it does not raise on: a report of the *)
(* candidate's id and template, which passed only when it is gated.        *)
LEMMA GateIsSound ==
  ASSUME NEW r \in Rules, NEW corpus \in Corpora,
         ~(r.template \in Registered /\ ValidationRaises(r.params))
  PROVE  /\ RunValidationGate(r, Seeds \cup corpus) \in Reports
         /\ RunValidationGate(r, Seeds \cup corpus).passed => Gated(r)
<1> DEFINE g == RunValidationGate(r, Seeds \cup corpus)
<1>1. r.id \in Ids /\ r.template \in Templates
  BY DEF Rules
<1>2. g.passed \in BOOLEAN
  BY Zenon DEF RunValidationGate
<1>3. g \in Reports
  BY <1>1, <1>2 DEF RunValidationGate, Reports
<1>4. g.passed => Gated(r)
  BY DEF RunValidationGate, Gated, EvaluationRaises
<1>5. QED
  BY <1>3, <1>4

LEMMA InitEstablishes == Init => IInv
<1>1. SUFFICES ASSUME Init PROVE IInv
  OBVIOUS
<1>2. TypeOK
  BY <1>1, EmptyList DEF Init, TypeOK
<1>3. ReportIsOfCandidate
  BY <1>1 DEF Init, ReportIsOfCandidate, NoReport
<1>4. WhatIsWrittenIsGated
  BY <1>1, EmptyList DEF Init, WhatIsWrittenIsGated
<1>5. WhatIsWrittenIsUnique
  BY <1>1, EmptyList DEF Init, WhatIsWrittenIsUnique, IdsAreUnique
<1>6. QED
  BY <1>2, <1>3, <1>4, <1>5 DEF IInv

(* What an operator does next keeps the invariant, if it keeps the file    *)
(* and gives up all it held.                                               *)
LEMMA FinishPreserves ==
  ASSUME IInv, NEW o \in Operators, Finish(o),
         whole' \in BOOLEAN, stored' \in Seq(Rules),
         AllGated(stored'), UniqueIds(stored'),
         promoted' \in SUBSET Rules, inForce' = inForce
  PROVE  IInv'
<1> USE DEF IInv
<1>1. TypeOK'
  BY EmptyList DEF TypeOK, Finish, Goto
<1>2. ReportIsOfCandidate'
  BY DEF TypeOK, ReportIsOfCandidate, Finish, Goto, NoReport
<1>3. WhatIsWrittenIsGated'
  BY EmptyList DEF TypeOK, WhatIsWrittenIsGated, Finish, AllGated
<1>4. WhatIsWrittenIsUnique'
  BY EmptyList DEF TypeOK, WhatIsWrittenIsUnique, IdsAreUnique, UniqueIds, Finish, Goto
<1>5. QED
  BY <1>1, <1>2, <1>3, <1>4

(* A candidate is taken up, whichever way it came.                         *)
LEMMA CandidatePreserves ==
  ASSUME IInv, NEW o \in Operators, pc[o] = "idle", NEW r \in Rules,
         rule' = [rule EXCEPT ![o] = r], Goto(o, "gate"),
         UNCHANGED <<whole, stored, report, existing, promoted, inForce>>
  PROVE  IInv'
<1> USE DEF IInv
<1>1. TypeOK'
  BY DEF TypeOK, Goto
<1>2. ReportIsOfCandidate'
  BY DEF TypeOK, ReportIsOfCandidate, Goto
<1>3. WhatIsWrittenIsGated'
  BY DEF WhatIsWrittenIsGated, AllGated
<1>4. WhatIsWrittenIsUnique'
  BY DEF TypeOK, WhatIsWrittenIsUnique, IdsAreUnique, UniqueIds, Goto
<1>5. QED
  BY <1>1, <1>2, <1>3, <1>4

LEMMA GatePreserves ==
  ASSUME IInv, NEW o \in Operators, Gate(o)
  PROVE  IInv'
<1> USE DEF IInv
<1>1. rule[o] \in Rules
  BY DEF Gate, ReportIsOfCandidate
<1>a. PICK corpus \in Corpora :
        report' = [report EXCEPT ![o] = RunValidationGate(rule[o], Seeds \cup corpus)]
  BY DEF Gate
<1> DEFINE g == RunValidationGate(rule[o], Seeds \cup corpus)
<1>2. g \in Reports /\ (g.passed => Gated(rule[o]))
  BY <1>1, GateIsSound DEF Gate
<1>3. report' = [report EXCEPT ![o] = g]
  BY <1>a
<1> HIDE DEF g
<1>4. TypeOK'
  BY <1>2, <1>3 DEF TypeOK, Gate, Goto
<1>5. ReportIsOfCandidate'
  BY <1>1, <1>2, <1>3 DEF TypeOK, ReportIsOfCandidate, Gate, Goto
<1>6. WhatIsWrittenIsGated'
  BY DEF Gate, WhatIsWrittenIsGated, AllGated
<1>7. WhatIsWrittenIsUnique'
  BY DEF TypeOK, Gate, WhatIsWrittenIsUnique, IdsAreUnique, UniqueIds, Goto
<1>8. QED
  BY <1>4, <1>5, <1>6, <1>7

LEMMA LoadPreserves ==
  ASSUME IInv, NEW o \in Operators, Load(o)
  PROVE  IInv'
<1> USE DEF IInv
<1>1. TypeOK'
  BY DEF TypeOK, Load, Goto
<1>2. ReportIsOfCandidate'
  BY DEF TypeOK, ReportIsOfCandidate, Load, Goto
<1>3. WhatIsWrittenIsGated'
  BY DEF TypeOK, WhatIsWrittenIsGated, Load, AllGated
<1>4. WhatIsWrittenIsUnique'
  BY DEF TypeOK, WhatIsWrittenIsUnique, IdsAreUnique, UniqueIds, Load, Goto
<1>5. QED
  BY <1>1, <1>2, <1>3, <1>4

LEMMA TruncatePreserves ==
  ASSUME IInv, NEW o \in Operators, Truncate(o)
  PROVE  IInv'
<1> USE DEF IInv
<1>1. TypeOK'
  BY EmptyList DEF TypeOK, Truncate, Goto
<1>2. ReportIsOfCandidate'
  BY DEF TypeOK, ReportIsOfCandidate, Truncate, Goto
<1>3. WhatIsWrittenIsGated'
  BY EmptyList DEF WhatIsWrittenIsGated, Truncate, AllGated
<1>4. WhatIsWrittenIsUnique'
  BY EmptyList DEF TypeOK, WhatIsWrittenIsUnique, IdsAreUnique, UniqueIds, Truncate, Goto
<1>5. QED
  BY <1>1, <1>2, <1>3, <1>4

LEMMA WritePreserves ==
  ASSUME IInv, NEW o \in Operators, Write(o)
  PROVE  IInv'
<1> DEFINE after == Append(existing[o], rule[o])
<1>1. rule[o] \in Rules /\ Gated(rule[o])
  BY DEF IInv, ReportIsOfCandidate, Write
<1>2. /\ existing[o] \in Seq(Rules)
      /\ AllGated(existing[o])
      /\ UniqueIds(existing[o])
      /\ \A i \in DOMAIN existing[o] : existing[o][i].id # rule[o].id
  BY DEF IInv, TypeOK, WhatIsWrittenIsGated, WhatIsWrittenIsUnique, Write
<1>3. after \in Seq(Rules) /\ AllGated(after) /\ UniqueIds(after)
  BY <1>1, <1>2, AppendIsTyped, AppendIsGated, AppendIsUnique
<1>4. stored' = after /\ whole' \in BOOLEAN /\ inForce' = inForce
  BY DEF Write
<1>5. promoted' \in SUBSET Rules
  BY <1>1 DEF Write, IInv, TypeOK
<1>6. AllGated(stored') /\ UniqueIds(stored') /\ stored' \in Seq(Rules)
  BY <1>3, <1>4
<1>7. Finish(o)
  BY DEF Write
<1>8. QED
  BY <1>4, <1>5, <1>6, <1>7, FinishPreserves

LEMMA ScreeningPreserves ==
  ASSUME IInv, ScreeningLoads
  PROVE  IInv'
<1> USE DEF IInv, ScreeningLoads
<1>1. TypeOK'
  BY DEF TypeOK
<1>2. ReportIsOfCandidate'
  BY DEF ReportIsOfCandidate
<1>3. WhatIsWrittenIsGated'
  BY DEF WhatIsWrittenIsGated, AllGated
<1>4. WhatIsWrittenIsUnique'
  BY DEF WhatIsWrittenIsUnique, IdsAreUnique, UniqueIds
<1>5. QED
  BY <1>1, <1>2, <1>3, <1>4

LEMMA StutterPreserves ==
  ASSUME IInv, UNCHANGED vars
  PROVE  IInv'
<1> USE DEF IInv, vars
<1>1. TypeOK'
  BY DEF TypeOK
<1>2. ReportIsOfCandidate'
  BY DEF ReportIsOfCandidate
<1>3. WhatIsWrittenIsGated'
  BY DEF WhatIsWrittenIsGated, AllGated
<1>4. WhatIsWrittenIsUnique'
  BY DEF WhatIsWrittenIsUnique, IdsAreUnique, UniqueIds
<1>5. QED
  BY <1>1, <1>2, <1>3, <1>4

(* Every step of a command line or of a screening run keeps the invariant. *)
LEMMA NextPreserves ==
  ASSUME IInv, [Next]_vars
  PROVE  IInv'
<1>1. ASSUME NEW o \in Operators, Submit(o)
      PROVE  IInv'
  BY <1>1, CandidatePreserves DEF Submit
<1>2. ASSUME NEW o \in Operators, ModelProposes(o)
      PROVE  IInv'
  BY <1>2, CandidatePreserves DEF ModelProposes
<1>3. ASSUME NEW o \in Operators, GateRaises(o) \/ Decline(o) \/ Refuse(o) \/ CrashWriting(o)
      PROVE  IInv'
  <2>1. Finish(o) /\ UNCHANGED <<whole, stored, promoted, inForce>>
    BY <1>3 DEF GateRaises, Decline, Refuse, CrashWriting
  <2>2. /\ whole' \in BOOLEAN /\ stored' \in Seq(Rules)
        /\ AllGated(stored') /\ UniqueIds(stored')
        /\ promoted' \in SUBSET Rules /\ inForce' = inForce
    BY <2>1 DEF IInv, TypeOK, WhatIsWrittenIsGated, WhatIsWrittenIsUnique, IdsAreUnique
  <2>3. QED
    BY <2>1, <2>2, <1>3, FinishPreserves
<1>4. CASE \E o \in Operators : Step(o)
  BY <1>1, <1>2, <1>3, <1>4, GatePreserves, LoadPreserves, TruncatePreserves, WritePreserves
     DEF Step
<1>5. CASE ScreeningLoads
  BY <1>5, ScreeningPreserves
<1>6. CASE UNCHANGED vars
  BY <1>6, StutterPreserves
<1>7. QED
  BY <1>4, <1>5, <1>6 DEF Next

(* The inductive invariant holds of every behaviour of the promotion loop. *)
THEOREM Inductive == Spec => []IInv
<1>1. Init => IInv
  BY InitEstablishes
<1>2. IInv /\ [Next]_vars => IInv'
  BY NextPreserves
<1>3. QED
  BY <1>1, <1>2, PTL DEF Spec

(* Whatever writers and crashes do to the file, no screening run is made   *)
(* with a rule that did not pass a gate of some operator's choosing, which *)
(* always has the seeds (rules/gate.py, rules/store.py).                   *)
THEOREM OnlyGatedRulesDecide == Spec => []RulesInForceAreGated
<1>1. IInv => RulesInForceAreGated
  BY DEF IInv, WhatIsWrittenIsGated, AllGated, RulesInForceAreGated
<1>2. QED
  BY <1>1, Inductive, PTL

(* A rule id stands for one rule in the file and in every run, with any    *)
(* number of operators promoting at once (promote_rule).                   *)
THEOREM IdsStandForOneRule == Spec => []IdsAreUnique
<1>1. IInv => IdsAreUnique
  BY DEF IInv, WhatIsWrittenIsUnique
<1>2. QED
  BY <1>1, Inductive, PTL

(* Every variable keeps its type.                                          *)
THEOREM TypeCorrect == Spec => []TypeOK
<1>1. IInv => TypeOK
  BY DEF IInv
<1>2. QED
  BY <1>1, Inductive, PTL

-----------------------------------------------------------------------------
(* Promotions that do not overlap.                                         *)
LEMMA PrefixIs ==
  ASSUME NEW s \in Seq(Rules), NEW t \in Seq(Rules)
  PROVE  IsPrefix(s, t) <=> Len(s) <= Len(t) /\ \A i \in 1..Len(s) : s[i] = t[i]
<1>1. Len(s) \in Nat /\ Len(t) \in Nat
  OBVIOUS
<1>2. ASSUME Len(s) <= Len(t)
      PROVE  SubSeq(s, 1, Len(s)) = SubSeq(t, 1, Len(s)) <=> \A i \in 1..Len(s) : s[i] = t[i]
  BY <1>1, <1>2
<1>3. QED
  BY <1>2 DEF IsPrefix

LEMMA AppendHoldsAll ==
  ASSUME NEW s \in Seq(Rules), NEW r \in Rules, inForce \in Seq(Rules), HoldsAll(s)
  PROVE  /\ promoted \cup {r} \subseteq ToSet(Append(s, r))
         /\ IsPrefix(inForce, Append(s, r))
<1> DEFINE t == Append(s, r)
<1>1. /\ t \in Seq(Rules) /\ Len(t) = Len(s) + 1 /\ Len(s) \in Nat
      /\ t[Len(t)] = r /\ Len(t) \in DOMAIN t
      /\ DOMAIN s = 1..Len(s) /\ DOMAIN t = 1..Len(t)
      /\ \A i \in 1..Len(s) : t[i] = s[i]
  OBVIOUS
<1> HIDE DEF t
<1>2. ToSet(s) \subseteq ToSet(t) /\ r \in ToSet(t)
  BY <1>1 DEF ToSet
<1>3. Len(inForce) <= Len(s) /\ \A i \in 1..Len(inForce) : inForce[i] = s[i]
  BY PrefixIs DEF HoldsAll
<1>4. Len(inForce) \in Nat
  OBVIOUS
<1>5. Len(inForce) <= Len(t) /\ \A i \in 1..Len(inForce) : inForce[i] = t[i]
  BY <1>1, <1>3, <1>4
<1>6. IsPrefix(inForce, t)
  BY <1>1, <1>5, PrefixIs
<1>7. QED
  BY <1>2, <1>6 DEF HoldsAll, t

LEMMA PrefixOfItself ==
  ASSUME NEW s \in Seq(Rules)
  PROVE  IsPrefix(s, s)
BY PrefixIs

(* An operator that does not begin or end a promotion of its own, and      *)
(* leaves the file, what is known of it and the other operators alone.     *)
LEMMA AsidePreserves ==
  ASSUME OneAtATime, NEW o \in Operators,
         UNCHANGED <<whole, stored, promoted, inForce>>,
         pc'[o] \notin {"truncate", "write"},
         \A q \in Operators : q # o => pc'[q] = pc[q] /\ existing'[q] = existing[q]
  PROVE  OneAtATime'
<1>1. Writing' \subseteq Writing /\ \A q \in Writing' : q # o
  BY DEF Writing
<1>2. \A s : HoldsAll(s)' <=> promoted \subseteq ToSet(s)' /\ IsPrefix(inForce, s)'
  BY DEF HoldsAll
<1>3. HoldsAll(stored)' <=> HoldsAll(stored)
  BY DEF HoldsAll
<1>4. \A q \in Operators : q # o => (HoldsAll(existing[q])' <=> HoldsAll(existing[q]))
  BY DEF HoldsAll
<1>5. QED
  BY <1>1, <1>3, <1>4 DEF OneAtATime

LEMMA LoadIsAlone ==
  ASSUME IInv, OneAtATime, NEW o \in Operators, Load(o), \A x, y \in Writing' : x = y
  PROVE  OneAtATime'
<1>1. /\ pc'[o] = "truncate" /\ existing'[o] = stored
      /\ \A q \in Operators : q # o => pc'[q] = pc[q] /\ existing'[q] = existing[q]
      /\ whole /\ UNCHANGED <<whole, stored, promoted, inForce>>
  BY DEF Load, Goto, IInv, TypeOK
<1>2. \A q \in Operators : q # o => pc'[q] \notin {"truncate", "write"}
  BY <1>1 DEF Writing
<1>3. HoldsAll(stored)' <=> HoldsAll(stored)
  BY <1>1 DEF HoldsAll
<1>4. QED
  BY <1>1, <1>2, <1>3 DEF OneAtATime

LEMMA TruncateIsAlone ==
  ASSUME IInv, OneAtATime, NEW o \in Operators, Truncate(o)
  PROVE  OneAtATime'
<1>1. /\ pc[o] = "truncate" /\ pc'[o] = "write" /\ ~whole' /\ stored' = << >>
      /\ \A q \in Operators : q # o => pc'[q] = pc[q]
      /\ UNCHANGED <<existing, promoted, inForce>>
  BY DEF Truncate, Goto, IInv, TypeOK
<1>2. \A q \in Operators : q # o => pc[q] \notin {"truncate", "write"}
  BY <1>1 DEF OneAtATime, Writing
<1>3. HoldsAll(existing[o])
  BY <1>1 DEF OneAtATime
<1>4. HoldsAll(existing[o])'
  BY <1>1, <1>3 DEF HoldsAll
<1>5. QED
  BY <1>1, <1>2, <1>4 DEF OneAtATime, Writing

LEMMA WriteIsAlone ==
  ASSUME IInv, OneAtATime, NEW o \in Operators, Write(o)
  PROVE  OneAtATime'
<1>1. /\ pc[o] = "write" /\ pc'[o] = "idle"
      /\ \A q \in Operators : q # o => pc'[q] = pc[q]
      /\ stored' = Append(existing[o], rule[o])
      /\ promoted' = promoted \cup {rule[o]} /\ inForce' = inForce
  BY DEF Write, Finish, Goto, IInv, TypeOK
<1>2. \A q \in Operators : q # o => pc[q] \notin {"truncate", "write"}
  BY <1>1 DEF OneAtATime, Writing
<1>3. existing[o] \in Seq(Rules) /\ rule[o] \in Rules /\ inForce \in Seq(Rules)
  BY <1>1 DEF IInv, TypeOK, ReportIsOfCandidate
<1>4. HoldsAll(existing[o])
  BY <1>1 DEF OneAtATime
<1>5. HoldsAll(stored)'
  BY <1>1, <1>3, <1>4, AppendHoldsAll DEF HoldsAll
<1>6. \A q \in Operators : pc'[q] \notin {"truncate", "write"}
  BY <1>1, <1>2
<1>7. QED
  BY <1>1, <1>5, <1>6 DEF OneAtATime, Writing

LEMMA ScreeningIsOfTheFile ==
  ASSUME IInv, OneAtATime, ScreeningLoads
  PROVE  OneAtATime'
<1>1. /\ whole /\ inForce' = stored
      /\ UNCHANGED <<whole, stored, pc, rule, report, existing, promoted>>
  BY DEF ScreeningLoads
<1>2. stored \in Seq(Rules)
  BY DEF IInv, TypeOK
<1>3. HoldsAll(stored)'
  BY <1>1, <1>2, PrefixOfItself DEF OneAtATime, HoldsAll
<1>4. \A o \in Operators : pc[o] # "write"
  BY <1>1 DEF OneAtATime
<1>5. QED
  BY <1>1, <1>3, <1>4 DEF OneAtATime, Writing

LEMMA HistoryPreserves ==
  ASSUME HistoryInv, [HistoryNext]_<<vars, overlapped>>
  PROVE  HistoryInv'
<1>1. IInv'
  BY NextPreserves DEF HistoryInv, HistoryNext
<1>2. SUFFICES ASSUME ~overlapped' PROVE OneAtATime'
  BY <1>1 DEF HistoryInv
<1>3. CASE HistoryNext
  <2>1. ~overlapped /\ \A x, y \in Writing' : x = y
    BY <1>2, <1>3 DEF HistoryNext
  <2>2. IInv /\ OneAtATime
    BY <2>1 DEF HistoryInv
  <2>3. ASSUME NEW o \in Operators, Step(o) PROVE OneAtATime'
    <3>1. CASE Submit(o) \/ ModelProposes(o) \/ Gate(o)
      <4>1. /\ UNCHANGED <<whole, stored, existing, promoted, inForce>>
            /\ pc'[o] \in {"gate", "review"}
            /\ \A q \in Operators : q # o => pc'[q] = pc[q]
        BY <2>2, <3>1 DEF Submit, ModelProposes, Gate, Goto, IInv, TypeOK
      <4>2. QED
        BY <2>2, <4>1, AsidePreserves
    <3>2. CASE GateRaises(o) \/ Decline(o) \/ Refuse(o) \/ CrashWriting(o)
      <4>1. Finish(o) /\ UNCHANGED <<whole, stored, promoted, inForce>>
        BY <3>2 DEF GateRaises, Decline, Refuse, CrashWriting
      <4>2. /\ pc'[o] = "idle"
            /\ \A q \in Operators : q # o => pc'[q] = pc[q] /\ existing'[q] = existing[q]
        BY <2>2, <4>1 DEF Finish, Goto, IInv, TypeOK
      <4>3. QED
        BY <2>2, <4>1, <4>2, AsidePreserves
    <3>3. QED
      BY <2>1, <2>2, <2>3, <3>1, <3>2, LoadIsAlone, TruncateIsAlone, WriteIsAlone DEF Step
  <2>4. QED
    BY <1>3, <2>2, <2>3, ScreeningIsOfTheFile DEF HistoryNext, Next
<1>4. CASE UNCHANGED <<vars, overlapped>>
  <2>1. OneAtATime
    BY <1>2, <1>4 DEF HistoryInv
  <2>2. UNCHANGED <<whole, stored, pc, existing, promoted, inForce>>
    BY <1>4 DEF vars
  <2>3. QED
    BY <2>1, <2>2 DEF OneAtATime, Writing, HoldsAll
<1>5. QED
  BY <1>3, <1>4

THEOREM HistoryInductive == HistorySpec => []HistoryInv
<1>1. HistoryInit => HistoryInv
  <2>1. SUFFICES ASSUME HistoryInit PROVE IInv /\ OneAtATime
    BY DEF HistoryInv
  <2>2. /\ whole = TRUE /\ stored = << >> /\ promoted = {} /\ inForce = << >>
        /\ \A o \in Operators : pc[o] = "idle"
    BY <2>1 DEF HistoryInit, Init
  <2>3. HoldsAll(stored)
    BY <2>2, EmptyList, PrefixOfItself DEF HoldsAll
  <2>4. QED
    BY <2>1, <2>2, <2>3, InitEstablishes DEF HistoryInit, OneAtATime, Writing
<1>2. HistoryInv /\ [HistoryNext]_<<vars, overlapped>> => HistoryInv'
  BY HistoryPreserves
<1>3. QED
  BY <1>1, <1>2, PTL DEF HistorySpec

(* A promotion that returned is in the file whenever the file can be read, *)
(* however many processes stop halfway, unless two promotions overlapped.  *)
THEOREM PromotionLasts == HistorySpec => []PermanentUnlessOverlapped
<1>1. HistoryInv => PermanentUnlessOverlapped
  BY DEF HistoryInv, OneAtATime, HoldsAll, PermanentUnlessOverlapped, PromotionIsPermanent
<1>2. QED
  BY <1>1, HistoryInductive, PTL

(* Under the same condition a run loads all the rules of the run before.   *)
THEOREM RulesOnlyGrow == HistorySpec => GrowsUnlessOverlapped
<1>1. HistoryInv /\ [HistoryNext]_<<vars, overlapped>>
        => [~overlapped' => IsPrefix(inForce, inForce')]_<<vars, overlapped>>
  <2>1. SUFFICES ASSUME HistoryInv, HistoryNext, ~overlapped'
                 PROVE  IsPrefix(inForce, inForce')
    OBVIOUS
  <2>2. IInv /\ OneAtATime
    BY <2>1 DEF HistoryInv, HistoryNext
  <2>3. inForce \in Seq(Rules)
    BY <2>2 DEF IInv, TypeOK
  <2>4. CASE ScreeningLoads
    BY <2>2, <2>4 DEF ScreeningLoads, OneAtATime, HoldsAll
  <2>5. CASE \E o \in Operators : Step(o)
    <3>1. inForce' = inForce
      BY <2>5 DEF Step, Submit, ModelProposes, Gate, GateRaises, Decline, Load, Refuse,
                  Truncate, Write, CrashWriting
    <3>2. QED
      BY <2>3, <3>1, PrefixOfItself
  <2>6. QED
    BY <2>1, <2>4, <2>5 DEF HistoryNext, Next
<1>2. QED
  BY <1>1, HistoryInductive, PTL DEF HistorySpec, GrowsUnlessOverlapped

=============================================================================
