--------------------------- MODULE SyntheticCases ---------------------------
(***************************************************************************)
(* The generator of labelled dossiers (generate/synthetic.py): a clean     *)
(* base whose documents agree, changed in one respect by the injector of   *)
(* one code, and the decision and checks that code is expected to lead to. *)
(*                                                                         *)
(* A draw of the random generator is a member of a set. What is drawn of a *)
(* range of days is said by Sample; the owners of a base come from Rolls.  *)
(* A base is drawn with its registry on day 0.                             *)
(***************************************************************************)
EXTENDS DossierChecks

CONSTANTS
  Rolls,       \* the lists of people drawn for the owners of a base
  Strangers,   \* the people that may be drawn afterwards
  Ascii,       \* a name -> its spelling without diacritics
  LegalForms,  \* one legal name in full, in capitals and without diacritics
  Sample(_, _) \* of the days from one to another, those that are drawn

(* The spelling without diacritics has the matching key of the original.   *)
ASSUME AsciiAssumption ==
  \A m, n \in DOMAIN Ascii :
    /\ SamePerson(m, Ascii[n]) <=> SamePerson(m, n)
    /\ SamePerson(Ascii[m], n) <=> SamePerson(m, n)
    /\ SamePerson(Ascii[m], Ascii[n]) <=> SamePerson(m, n)

ASSUME LegalFormsAssumption ==
  /\ {LegalForms.full, LegalForms.caps, LegalForms.ascii} \subseteq STRING \ {Blank}
  /\ LegalForms.full # LegalForms.caps /\ LegalForms.full # LegalForms.ascii
  /\ SameEntity(LegalForms.full, LegalForms.caps)
  /\ SameEntity(LegalForms.full, LegalForms.ascii)

(* People have names, and those of an owner can be spelt without diacritics*)
ASSUME NamesAssumption ==
  /\ Strangers \subseteq STRING \ {Blank}
  /\ Rolls \subseteq Seq(DOMAIN Ascii)
  /\ \A n \in DOMAIN Ascii : {n, Ascii[n]} \subseteq STRING \ {Blank}

Codes == {"NONE", "A1", "A2", "B1a", "B1b", "B2a", "B2b", "C1a", "C1b", "C2",
          "D1a", "D1b", "E1", "E2"}

(* DECISION_FOR_CODE.                                                      *)
DecisionForCode(code) ==
  CASE code \in {"NONE", "A1"}                     -> "approve"
    [] code \in {"A2", "B1b", "B2b", "C1b", "D1b"} -> "escalate"
    [] OTHER                                       -> "request_more_info"

Draw(low, high) == Sample(low, high) \cap low .. high

(* expected_flow: what the graph will run and what it will skip.           *)
ExpectedRuns(present) ==
  {"check_completeness"}
  \cup {c \in {"check_identity_consistency"} : Cardinality(present) >= 2}
  \cup {c \in {"check_ownership_consistency"} : {"registry", "ubo"} \subseteq present}
  \cup {c \in {"check_authority_chain"} : {"circular", "ubo"} \subseteq present}
  \cup {c \in {"check_ubo_derivation"} : "ubo" \in present}

-----------------------------------------------------------------------------
(* Clean bases.                                                            *)

Party(name, pct) == [name |-> name, pct |-> pct]

Sig(name, until) == [name |-> name, until |-> {until}]

(* _ownership.                                                             *)
Splits ==
  {<<50000, 50000>>, <<55000, 45000>>, <<60000, 40000>>, <<65000, 35000>>, <<70000, 30000>>,
   <<45000, 35000, 20000>>, <<50000, 30000, 20000>>, <<40000, 35000, 25000>>,
   <<34000, 33000, 33000>>, <<50000, 25000, 25000>>, <<45000, 30000, 25000>>}

OwnersOf(split) ==
  {[i \in DOMAIN split |-> Party(people[i], split[i])] :
     people \in {roll \in Rolls : Len(roll) = Len(split)}}

(* _declared: the owners who must be declared, in their order. What the    *)
(* generator tolerates is a thousandth of a point.                         *)
Declared(owners) ==
  FoldLeft(LAMBDA due, o : IF o.pct + 1 >= UboThreshold THEN Append(due, o) ELSE due,
           << >>, owners)

(* Every split has two of them, which the injectors of D1 count on: their  *)
(* branch for fewer is never taken.                                        *)
ASSUME TwoToDeclare ==
  \A split \in Splits :
    \E i, j \in DOMAIN split : i # j /\ {split[i], split[j]} \subseteq UboThreshold..Whole

OneLegalName == <<LegalForms.full, LegalForms.full, LegalForms.full>>

(* The three documents of a dossier with one tax number, in this order.    *)
Filing(days, legal, owners, signatories, holders, declared, declarant) ==
  [ registry |-> [date |-> days[1], legal |-> legal[1], tax |-> "t1", holders |-> owners],
    circular |-> [date |-> days[2], legal |-> legal[2], tax |-> "t1",
                  signatories |-> signatories],
    ubo      |-> [date |-> days[3], legal |-> legal[3], tax |-> "t1", holders |-> holders,
                  declared |-> declared, declarant |-> declarant] ]

(* clean_base, with the first n owners as signatories.                     *)
CleanBase(owners, n, circ, ubo, until) ==
  Filing(<<0, circ, ubo>>, OneLegalName, owners,
         [i \in 1..n |-> Sig(owners[i].name, until)], owners, Declared(owners),
         owners[1].name)

(* Of two owners one signs, of three one or two.                           *)
CleanBases ==
  UNION { { CleanBase(owners, n, circ, circ + gap, circ + gap + validity) :
              n \in {1, Len(owners) - 1}, circ \in Draw(20, 120), gap \in Draw(30, 200),
              validity \in Draw(700, 1400) } :
          owners \in UNION {OwnersOf(split) : split \in Splits} }

-----------------------------------------------------------------------------
(* The injectors: each is given a base and yields what it may become.      *)

(* One entity and its people in three spellings.                           *)
InjectA1(d) ==
  LET degraded(list) == [i \in DOMAIN list |-> Party(Ascii[list[i].name], list[i].pct)]
  IN  {[d EXCEPT !.circular.legal = LegalForms.caps, !.ubo.legal = LegalForms.ascii,
                 !.ubo.holders = degraded(@), !.ubo.declared = degraded(@),
                 !.ubo.declarant = Ascii[@]]}

InjectA2(d) == {[d EXCEPT !.ubo.tax = "t2"]}

(* _transfer: the last owner's share goes to the first, in the declaration *)
(* only; the first owner is sole signatory and declarant.                  *)
Transferred(d, until) ==
  LET owners == d.registry.holders
      left   == [Front(owners) EXCEPT ![1].pct = @ + Last(owners).pct]
  IN  [d EXCEPT !.ubo.holders = left, !.ubo.declared = Declared(left),
                !.ubo.declarant = left[1].name,
                !.circular.signatories = <<Sig(left[1].name, until)>>]

InjectB1a(d) == {Transferred(d, d.ubo.date + 900)}

InjectB1b(d) ==
  {[Transferred(d, d.registry.date + 1200) EXCEPT !.ubo.date = d.registry.date - days] :
     days \in Draw(200, 900)}

InjectB2a(d) ==
  { LET lesser == [d.ubo.holders EXCEPT ![1].pct = @ - drop]
    IN  [d EXCEPT !.registry.holders = lesser, !.ubo.holders = lesser,
                  !.ubo.declared = Declared(lesser)] : drop \in {3000, 5000, 8000} }

(* Wrong: the owners are declared with the shares they were given.         *)
BugDeclaresInflated(d) ==
  { LET more == [d.ubo.holders EXCEPT ![1].pct = @ + add]
    IN  [d EXCEPT !.registry.holders = more, !.ubo.holders = more,
                  !.ubo.declared = Declared(more)] : add \in {5000, 10000, 15000} }

InjectB2b(d) ==
  { LET more == [d.ubo.holders EXCEPT ![1].pct = @ + add]
    IN  [d EXCEPT !.registry.holders = more, !.ubo.holders = more,
                  !.ubo.declared = Declared(d.ubo.holders)] :
    add \in {5000, 10000, 15000} }

(* _new_person_not_in: names are compared letter by letter.                *)
NewPeople(d) ==
  Strangers \ {d.circular.signatories[i].name : i \in DOMAIN d.circular.signatories}

(* The declarant is a stranger to a circular this many days older than the *)
(* declaration, the registry being older still.                            *)
StaleCircular(d, age, older, name) ==
  [d EXCEPT !.circular.date = d.ubo.date - age,
            !.registry.date = d.ubo.date - age - older,
            !.ubo.declarant = name]

ValidUntil(d, until) ==
  LET signatories == d.circular.signatories
  IN  [d EXCEPT !.circular.signatories =
         [i \in DOMAIN signatories |-> Sig(signatories[i].name, until)]]

InjectC1a(d) ==
  {StaleCircular(d, StalenessDays + age, older, name) :
     age \in Draw(30, 500), older \in Draw(10, 60), name \in NewPeople(d)}

(* The declarant is a stranger to a circular younger than the declaration. *)
NewCircular(d, days, name) ==
  [ValidUntil(d, d.ubo.date + days + 900) EXCEPT !.circular.date = d.ubo.date + days,
                                                 !.ubo.declarant = name]

InjectC1b(d) ==
  {NewCircular(d, days, name) : days \in Draw(10, 200), name \in NewPeople(d)}

Expired(d, days) ==
  [d EXCEPT !.circular.signatories[1] = Sig(d.ubo.declarant, d.ubo.date - days)]

InjectC2(d) == {Expired(d, days) : days \in Draw(10, 400)}

InjectD1a(d) == {[d EXCEPT !.ubo.declared = Front(Declared(d.ubo.holders))]}

InjectD1b(d) ==
  LET due == Declared(d.ubo.holders)
  IN  {[d EXCEPT !.ubo.declared = <<Party(due[1].name, 70000), Party(due[2].name, 60000)>>]}

InjectE1(d) ==
  {[label \in Documents \ {which} |-> d[label]] : which \in Documents}

(* One field is blank in every document.                                   *)
InjectE2(d) ==
  { [label \in Documents |-> [d[label] EXCEPT !.tax = Blank]],
    [label \in Documents |-> [d[label] EXCEPT !.legal = Blank]] }

(* The boundary variants. Two owners, of whom the first alone is declared, *)
(* signs and declares.                                                     *)
LeadAlone(d, lead, name, small) ==
  LET first  == Party(d.ubo.holders[1].name, lead)
      owners == <<first, Party(name, small)>>
  IN  [d EXCEPT !.registry.holders = owners, !.ubo.holders = owners,
                !.ubo.declared = <<first>>, !.ubo.declarant = first.name,
                !.circular.signatories = <<Sig(first.name, d.ubo.date + 900)>>]

BoundaryNONE(d) == {LeadAlone(d, 75100, name, 24900) : name \in Strangers}

BoundaryD1a(d) == {LeadAlone(d, 75000, name, 25000) : name \in Strangers}

BoundaryC1a(d) ==
  {StaleCircular(d, StalenessDays + 1, 10, name) : name \in NewPeople(d)}

BoundaryC1b(d) ==
  {ValidUntil(StaleCircular(d, StalenessDays, 10, name), d.ubo.date + 900) :
     name \in NewPeople(d)}

BoundaryC2(d) == {Expired(d, 1)}

(* INJECTORS and BOUNDARY.                                                 *)
Variants(code, d) ==
  CASE code = "NONE" -> {d} \cup BoundaryNONE(d)
    [] code = "A1"   -> InjectA1(d)
    [] code = "A2"   -> InjectA2(d)
    [] code = "B1a"  -> InjectB1a(d)
    [] code = "B1b"  -> InjectB1b(d)
    [] code = "B2a"  -> InjectB2a(d)
    [] code = "B2b"  -> InjectB2b(d)
    [] code = "C1a"  -> InjectC1a(d) \cup BoundaryC1a(d)
    [] code = "C1b"  -> InjectC1b(d) \cup BoundaryC1b(d)
    [] code = "C2"   -> InjectC2(d) \cup BoundaryC2(d)
    [] code = "D1a"  -> InjectD1a(d) \cup BoundaryD1a(d)
    [] code = "D1b"  -> InjectD1b(d)
    [] code = "E1"   -> InjectE1(d)
    [] OTHER         -> InjectE2(d)

(* _build_case: a dossier with the truth that is filed for it.             *)
Truth(codes, decision, present) ==
  [ codes    |-> codes,
    decision |-> decision,
    runs     |-> ExpectedRuns(present),
    skips    |-> DocumentChecks \ ExpectedRuns(present) ]

GeneratedTruth(code, d) == Truth({code}, DecisionForCode(code), DOMAIN d)

=============================================================================
