---------------------------- MODULE DossierChecks ----------------------------
(***************************************************************************)
(* The deterministic checks on the contents of a dossier (agent/checks.py),*)
(* run in the order of the graph on one dossier.                           *)
(*                                                                         *)
(* A dossier is a record with a field per document it contains. Names, tax *)
(* numbers and legal names are opaque; whether two spellings denote one    *)
(* person or one entity is a relation, which the fuzzy matching of         *)
(* normalize/turkish.py does not make transitive. Percentages are counted  *)
(* in thousandths of a point, so that what the checks tolerate, less than a*)
(* hundredth, can happen; one may be NaN, which the contract of a dossier  *)
(* admits. Where a difference or a sum lies exactly on the bound, floating *)
(* point decides, by the values and for a sum by their order (50.01 - 50 is*)
(* less than 0.01, 25.01 - 25 is not): Rounding says how. Dates are days.  *)
(***************************************************************************)
EXTENDS CheckOutcomes, Integers, SequencesExt

CONSTANTS
  Dossiers,       \* the complete dossiers the checks are tried on
  AlikePersons,   \* the pairs of different names taken for one person
  AlikeEntities,  \* the pairs of different legal names taken for one entity
  NaN,            \* the percentage that is not a number
  Rounding        \* of the comparisons that lie on their bound, those that hold

ASSUME NaNAssumption == NaN \notin Int

(* The documents as the contract of a dossier admits them (contracts/      *)
(* documents.py); a signatory whose authority does not expire has no day.  *)
Shares == [name : STRING, pct : Int \cup {NaN}]

Signatories == [name : STRING, until : SUBSET Int]

CompleteDossiers ==
  [ registry : [date : Int, legal : STRING, tax : STRING, holders : Seq(Shares)],
    circular : [date : Int, legal : STRING, tax : STRING,
                signatories : Seq(Signatories)],
    ubo      : [date : Int, legal : STRING, tax : STRING, holders : Seq(Shares),
                declared : Seq(Shares), declarant : STRING] ]

ASSUME DossiersAssumption == Dossiers \subseteq CompleteDossiers

(* Two shares that are near, lists of shares whose sum is over or under 100*)
(* percent, and pairs of lists between which what was lost was gained.     *)
ASSUME RoundingAssumption ==
  Rounding \in [ near : SUBSET SUBSET Int, over : SUBSET Seq(Int), under : SUBSET Seq(Int),
                 transfer : SUBSET (Seq(Shares) \X Seq(Shares)) ]

Blank == "blank"       \* a text that is empty once stripped

Whole == 100000        \* 100 percent

Eps == 10              \* _EPS

UboThreshold == 25000  \* UBO_THRESHOLD_PCT

StalenessDays == 365   \* AUTHORITY_STALENESS_DAYS

(* person_names_match and legal_names_match.                               *)
SamePerson(a, b) == a = b \/ <<a, b>> \in AlikePersons

SameEntity(a, b) == a = b \/ <<a, b>> \in AlikeEntities

-----------------------------------------------------------------------------
(* Arithmetic on percentages: every comparison with NaN is false.          *)

Above(x, y) == x # NaN /\ x > y

Below(x, y) == x # NaN /\ x < y

Within(x, y) == x # NaN /\ y # NaN /\ x - y < Eps /\ y - x < Eps

(* The two are a hundredth of a point apart.                               *)
AtBound(x, y) == x # NaN /\ y # NaN /\ x - y \in {Eps, -Eps}

Near(x, y) == Within(x, y) \/ (AtBound(x, y) /\ {x, y} \in Rounding.near)

(* The sum of the percentages of some entries of a list.                   *)
TotalOf(list, entries) ==
  IF \E i \in entries : list[i].pct = NaN THEN NaN
  ELSE MapThenSumSet(LAMBDA i : list[i].pct, entries)

Total(list) == TotalOf(list, DOMAIN list)

Percentages(list) == [i \in DOMAIN list |-> list[i].pct]

Exceeds(list) ==
  \/ Above(Total(list), Whole + Eps)
  \/ Total(list) = Whole + Eps /\ Percentages(list) \in Rounding.over

FallsShort(list) ==
  \/ Below(Total(list), Whole - Eps)
  \/ Total(list) = Whole - Eps /\ Percentages(list) \in Rounding.under

-----------------------------------------------------------------------------
(* check_identity_consistency. The first document present, in this order,  *)
(* is the one the other legal names are held against.                      *)
FirstPresent(d) ==
  IF "registry" \in DOMAIN d THEN "registry"
  ELSE IF "circular" \in DOMAIN d THEN "circular" ELSE "ubo"

IdentityCodes(d) ==
  LET base == d[FirstPresent(d)].legal
  IN  (IF \E m, n \in DOMAIN d : d[m].tax # d[n].tax THEN {"A2"} ELSE {})
      \cup (IF /\ \E m, n \in DOMAIN d : d[m].legal # d[n].legal
               /\ \A n \in DOMAIN d : SameEntity(base, d[n].legal)
              THEN {"A1"} ELSE {})

(* Wrong: a holder is compared with the one in the same place only.        *)
BugMatchByPlace(s1, s3) ==
  [i \in DOMAIN s1 |->
     IF i \in DOMAIN s3 /\ SamePerson(s1[i].name, s3[i].name) THEN i ELSE 0]

(* _match_shareholders: for each holder of the first list, the first       *)
(* holder of the second that is the same person and not yet matched, or 0. *)
MatchShareholders(s1, s3) ==
  LET free(taken, a) == {j \in DOMAIN s3 : /\ j \notin ToSet(taken)
                                           /\ SamePerson(a.name, s3[j].name)}
      next(taken, a) ==
        IF free(taken, a) = {} THEN 0 ELSE Min(free(taken, a))
  IN  FoldLeft(LAMBDA taken, a : Append(taken, next(taken, a)), << >>, s1)

(* Wrong: what the exited holders held is not compared with the gains.     *)
BugAnyOverlapReconciles(s1, s3, newer) ==
  \E i \in DOMAIN s1 : MatchShareholders(s1, s3)[i] # 0 /\ newer

(* The holders of the first list that have a match.                        *)
Continuing(s1, s3) == {i \in DOMAIN s1 : MatchShareholders(s1, s3)[i] # 0}

(* What those without one held, and what the others and the new ones have  *)
(* more than before.                                                       *)
ExitedTotal(s1, s3) == TotalOf(s1, DOMAIN s1 \ Continuing(s1, s3))

Gained(s1, s3) ==
  LET matched == MatchShareholders(s1, s3)
      new     == DOMAIN s3 \ ToSet(matched)
      gain(i) == LET before == s1[i].pct
                     after  == s3[matched[i]].pct
                 IN  IF NaN \in {before, after} THEN 0
                     ELSE Max({0, after - before})
  IN  IF TotalOf(s3, new) = NaN THEN NaN
      ELSE TotalOf(s3, new) + MapThenSumSet(gain, Continuing(s1, s3))

(* The three conditions under which a difference between the two lists is  *)
(* an explainable transfer.                                                *)
ReconcilesAsTransfer(s1, s3, newer) ==
  /\ newer
  /\ Continuing(s1, s3) # {}
  /\ \/ Within(ExitedTotal(s1, s3), Gained(s1, s3))
     \/ AtBound(ExitedTotal(s1, s3), Gained(s1, s3)) /\ <<s1, s3>> \in Rounding.transfer

SameStructure(s1, s3) ==
  LET matched == MatchShareholders(s1, s3)
  IN  /\ DOMAIN s3 \subseteq ToSet(matched)
      /\ \A i \in DOMAIN s1 :
           matched[i] # 0 /\ Near(s1[i].pct, s3[matched[i]].pct)

(* check_ownership_consistency: sums first, then the structure.            *)
OwnershipCodes(registry, ubo) ==
  LET s1 == registry.holders
      s3 == ubo.holders
  IN  IF Exceeds(s1) \/ Exceeds(s3) THEN {"B2b"}
      ELSE IF FallsShort(s1) \/ FallsShort(s3) THEN {"B2a"}
      ELSE IF SameStructure(s1, s3) THEN {}
      ELSE IF ReconcilesAsTransfer(s1, s3, ubo.date > registry.date)
        THEN {"B1a"}
      ELSE {"B1b"}

(* Wrong: the declarant may be on the list under an expired authority.     *)
BugExpiryIgnored(circular, ubo) ==
  IF \E i \in DOMAIN circular.signatories :
       SamePerson(ubo.declarant, circular.signatories[i].name)
    THEN {}
  ELSE IF ubo.date - circular.date > StalenessDays THEN {"C1a"}
  ELSE {"C1b"}

(* check_authority_chain: the first signatory who is the declarant counts. *)
AuthorityCodes(circular, ubo) ==
  LET list   == circular.signatories
      listed == {i \in DOMAIN list : SamePerson(ubo.declarant, list[i].name)}
  IN  IF listed # {}
        THEN IF \E day \in list[Min(listed)].until : day < ubo.date
               THEN {"C2"} ELSE {}
      ELSE IF ubo.date - circular.date > StalenessDays THEN {"C1a"}
      ELSE {"C1b"}

(* Wrong: only the holder listed first is looked for among the declared.   *)
BugFirstHolderOnly(ubo) ==
  LET first == ubo.holders[1]
  IN  IF Exceeds(ubo.declared) THEN {"D1b"}
      ELSE IF /\ ubo.holders # << >>
              /\ first.pct # NaN /\ first.pct + Eps >= UboThreshold
              /\ \A j \in DOMAIN ubo.declared :
                   ~SamePerson(first.name, ubo.declared[j].name)
        THEN {"D1a"} ELSE {}

(* check_ubo_derivation.                                                   *)
UboCodes(ubo) ==
  LET declared   == ubo.declared
      impossible == \/ Exceeds(declared)
                    \/ \E i \in DOMAIN declared :
                         \/ Below(declared[i].pct, -Eps)
                         \/ Above(declared[i].pct, Whole + Eps)
      owes(sh)   == sh.pct = NaN \/ sh.pct + Eps >= UboThreshold
      undeclared == {i \in DOMAIN ubo.holders :
                       /\ owes(ubo.holders[i])
                       /\ \A j \in DOMAIN declared :
                            ~SamePerson(ubo.holders[i].name, declared[j].name)}
  IN  IF impossible THEN {"D1b"}
      ELSE IF undeclared # {} THEN {"D1a"} ELSE {}

(* The mandatory fields check_completeness finds empty in a document.      *)
LacksField(label, doc) ==
  \/ doc.tax = Blank
  \/ label = "registry" /\ (doc.legal = Blank \/ doc.holders = << >>)
  \/ label = "circular" /\ doc.signatories = << >>
  \/ label = "ubo" /\ doc.declarant = Blank

CompletenessCodes(d) ==
  (IF DOMAIN d = Documents THEN {} ELSE {"E1"})
  \cup (IF \E label \in DOMAIN d : LacksField(label, d[label])
          THEN {"E2"} ELSE {})

CodesOf(check, d) ==
  CASE check = "check_identity_consistency"  -> IdentityCodes(d)
    [] check = "check_ownership_consistency" -> OwnershipCodes(d.registry, d.ubo)
    [] check = "check_authority_chain"       -> AuthorityCodes(d.circular, d.ubo)
    [] check = "check_ubo_derivation"        -> UboCodes(d.ubo)
    [] OTHER                                 -> CompletenessCodes(d)

-----------------------------------------------------------------------------
VARIABLES
  dossier,  \* the dossier under screening
  pc,       \* the check that is due
  results   \* the check results: what was found, or that it could not run

vars == <<dossier, pc, results>>

(* The edges of build_graph between the checks.                            *)
NextCheck ==
  [ check_identity_consistency |-> "check_ownership_consistency",
    check_ownership_consistency |-> "check_authority_chain",
    check_authority_chain |-> "check_ubo_derivation",
    check_ubo_derivation |-> "check_completeness",
    check_completeness |-> "done" ]

(* Any document of a dossier may be missing.                               *)
Init ==
  /\ \E whole \in Dossiers, present \in SUBSET Documents :
       dossier = [label \in present |-> whole[label]]
  /\ pc = "check_identity_consistency"
  /\ results = {}

RunCheck ==
  /\ pc \in DocumentChecks
  /\ CanRun(pc, DOMAIN dossier)
  /\ results' = results \cup
       {[check |-> pc, ran |-> TRUE, codes |-> CodesOf(pc, dossier)]}
  /\ pc' = NextCheck[pc]
  /\ UNCHANGED dossier

(* Wrong: a check without its documents finds nothing.                     *)
BugSkipIsClean ==
  /\ pc \in DocumentChecks
  /\ ~CanRun(pc, DOMAIN dossier)
  /\ results' = results \cup {[check |-> pc, ran |-> TRUE, codes |-> {}]}
  /\ pc' = NextCheck[pc]
  /\ UNCHANGED dossier

SkipCheck ==
  /\ pc \in DocumentChecks
  /\ ~CanRun(pc, DOMAIN dossier)
  /\ results' = results \cup {[check |-> pc, ran |-> FALSE, codes |-> {}]}
  /\ pc' = NextCheck[pc]
  /\ UNCHANGED dossier

Next == RunCheck \/ SkipCheck

Spec == Init /\ [][Next]_vars

-----------------------------------------------------------------------------
CheckResults ==
  [ check : DocumentChecks,
    ran   : BOOLEAN,
    codes : SUBSET {"A1", "A2", "B1a", "B1b", "B2a", "B2b", "C1a", "C1b",
                    "C2", "D1a", "D1b", "E1", "E2"} ]

(* The type of every variable that changes: each result is for a check of  *)
(* the chain and names codes of the taxonomy (contracts/findings.py).      *)
TypeOK ==
  /\ DOMAIN dossier \subseteq Documents
  /\ pc \in DocumentChecks \cup {"done"}
  /\ results \subseteq CheckResults

(* What the screening graph is modelled with is what the checks do: on     *)
(* every dossier, a check that ran reports one of its Outcomes, and one    *)
(* that did not run, reporting nothing, had a document missing.            *)
OutcomesCovered ==
  \A r \in results :
    IF r.ran
      THEN CanRun(r.check, DOMAIN dossier)
           /\ r.codes \in Outcomes(r.check, DOMAIN dossier)
      ELSE ~CanRun(r.check, DOMAIN dossier) /\ r.codes = {}

Found == UNION {r.codes : r \in results}

(* What the guardrail makes of the checks alone.                           *)
Verdict == DecisionForSeverities({CodeSeverity(c) : c \in Found})

(* Every percentage of the dossier is a number.                            *)
IsNumeric(d) ==
  /\ "registry" \in DOMAIN d =>
       \A i \in DOMAIN d.registry.holders : d.registry.holders[i].pct # NaN
  /\ "ubo" \in DOMAIN d =>
       /\ \A i \in DOMAIN d.ubo.holders : d.ubo.holders[i].pct # NaN
       /\ \A i \in DOMAIN d.ubo.declared : d.ubo.declared[i].pct # NaN

(* No spelling of one list fits two of the list it is compared with, so    *)
(* that the order in which matches are tried cannot matter.                *)
AtMostOne(name, list) ==
  \A i, j \in DOMAIN list :
    SamePerson(name, list[i].name) /\ SamePerson(name, list[j].name) => i = j

Unambiguous(d) ==
  /\ {"registry", "ubo"} \subseteq DOMAIN d =>
       /\ \A i \in DOMAIN d.registry.holders :
            AtMostOne(d.registry.holders[i].name, d.ubo.holders)
       /\ \A j \in DOMAIN d.ubo.holders :
            \A i, k \in DOMAIN d.registry.holders :
              /\ SamePerson(d.registry.holders[i].name, d.ubo.holders[j].name)
              /\ SamePerson(d.registry.holders[k].name, d.ubo.holders[j].name)
              => i = k
  /\ {"circular", "ubo"} \subseteq DOMAIN d =>
       AtMostOne(d.ubo.declarant, d.circular.signatories)

(* A list adds up to within so many thousandths of a point.                *)
AddsUp(list, slack) == Total(list) \in Whole - slack .. Whole + slack

(* The same people hold the same shares in both lists, whatever the order, *)
(* but for a difference of so many thousandths of a point.                 *)
SameHolders(s1, s3, slack) ==
  /\ Len(s1) = Len(s3)
  /\ \E f \in [DOMAIN s1 -> DOMAIN s3] :
       /\ \A i, j \in DOMAIN s1 : f[i] = f[j] => i = j
       /\ \A i \in DOMAIN s1 : /\ SamePerson(s1[i].name, s3[f[i]].name)
                              /\ s1[i].pct - s3[f[i]].pct \in -slack .. slack

(* A dossier whose documents agree, as the taxonomy understands it, with so*)
(* much left for rounded shares and sums. Legal names that differ are not  *)
(* part of it (DECISIONS.md, "A2 vs. benign legal-name variance").         *)
Consistent(d, slack) ==
  /\ DOMAIN d = Documents
  /\ d.registry.tax # Blank /\ d.registry.legal # Blank
  /\ \A m \in Documents : d[m].tax = d.registry.tax
  /\ AddsUp(d.registry.holders, slack) /\ AddsUp(d.ubo.holders, slack)
  /\ SameHolders(d.registry.holders, d.ubo.holders, slack)
  /\ d.ubo.declarant # Blank
  /\ \E i \in DOMAIN d.circular.signatories :
       /\ SamePerson(d.ubo.declarant, d.circular.signatories[i].name)
       /\ \A day \in d.circular.signatories[i].until : day >= d.ubo.date
  /\ Total(d.ubo.declared) <= Whole + slack
  /\ \A j \in DOMAIN d.ubo.declared : d.ubo.declared[j].pct \in -Eps .. Whole + Eps
  /\ \A i \in DOMAIN d.ubo.holders :
       d.ubo.holders[i].pct + Eps >= UboThreshold =>
         \E j \in DOMAIN d.ubo.declared :
           SamePerson(d.ubo.holders[i].name, d.ubo.declared[j].name)

(* No false negative: five checks, each of two documents at most, approve  *)
(* only a dossier whose three documents agree on holders, signer and       *)
(* owners at once, shares and sums to within a hundredth of a point,       *)
(* however ambiguous the names in it are.                                  *)
ApprovedIsConsistent ==
  pc = "done" /\ IsNumeric(dossier) /\ Verdict = "approve"
    => Consistent(dossier, Eps)

(* No false positive: a dossier whose documents agree to within less than  *)
(* a hundredth of a point is approved, when its names are told apart ("the *)
(* false-positive trap", agent/checks.py).                                 *)
ConsistentIsApproved ==
  pc = "done" /\ IsNumeric(dossier) /\ Unambiguous(dossier) /\ Consistent(dossier, Eps - 1)
    => Verdict = "approve"

(* Somebody of the first list is in the second.                            *)
Overlap(s1, s3) == \E i \in DOMAIN s1, j \in DOMAIN s3 : SamePerson(s1[i].name, s3[j].name)

(* How much less than in the first list those hold in the second who are in*)
(* both, without regard to those who hold more.                            *)
LostByStaying(s1, s3) ==
  LET lost(i) == Max({0} \cup {s1[i].pct - s3[j].pct :
                       j \in {k \in DOMAIN s3 : SamePerson(s1[i].name, s3[k].name)}})
  IN  MapThenSumSet(lost, DOMAIN s1)

(* What the arithmetic of a transfer comes to: a difference between two    *)
(* lists of one total is explainable just when the declaration is newer,   *)
(* somebody stays, and what those who stay have lost, all of them together,*)
(* is less than a hundredth of a point. A sale of more than that of a stake*)
(* is therefore never explainable, and exactly that much may be.           *)
TransferIsByExitOnly ==
  LET s1    == dossier.registry.holders
      s3    == dossier.ubo.holders
      newer == dossier.ubo.date > dossier.registry.date
  IN  /\ pc = "done" /\ {"registry", "ubo"} \subseteq DOMAIN dossier
      /\ IsNumeric(dossier) /\ Unambiguous(dossier)
      /\ Total(s1) = Total(s3)
      => /\ "B1a" \in Found => newer /\ Overlap(s1, s3) /\ LostByStaying(s1, s3) <= Eps
         /\ /\ newer /\ Overlap(s1, s3) /\ LostByStaying(s1, s3) < Eps
            /\ AddsUp(s1, Eps - 1) /\ ~SameHolders(s1, s3, Eps)
            => "B1a" \in Found

(* The dossier with every list of its documents the other way round.       *)
Relisted(d) ==
  [label \in DOMAIN d |->
     CASE label = "registry" -> [d.registry EXCEPT !.holders = Reverse(@)]
       [] label = "circular" -> [d.circular EXCEPT !.signatories = Reverse(@)]
       [] OTHER -> [d.ubo EXCEPT !.holders = Reverse(@), !.declared = Reverse(@)]]

(* A sum is exactly on its bound, where the order of its terms may decide. *)
SumOnBound(d) ==
  \/ "registry" \in DOMAIN d /\ AtBound(Total(d.registry.holders), Whole)
  \/ /\ "ubo" \in DOMAIN d
     /\ \E list \in {d.ubo.holders, d.ubo.declared} : AtBound(Total(list), Whole)
  \/ /\ {"registry", "ubo"} \subseteq DOMAIN d
     /\ AtBound(ExitedTotal(d.registry.holders, d.ubo.holders),
                Gained(d.registry.holders, d.ubo.holders))

(* The order in which a document lists people changes nothing, when names  *)
(* are told apart and no sum is on its bound: matching is greedy, but it   *)
(* finds the same pairs.                                                   *)
OrderIsImmaterial ==
  pc = "done" /\ Unambiguous(dossier) /\ ~SumOnBound(dossier) =>
    \A r \in results : r.ran => r.codes = CodesOf(r.check, Relisted(dossier))

=============================================================================
