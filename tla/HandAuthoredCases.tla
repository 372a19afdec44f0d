-------------------------- MODULE HandAuthoredCases --------------------------
(***************************************************************************)
(* The labelled dossiers written by hand: the eight seeds (data/seed) and  *)
(* the eleven cases of the compound matrix (eval/compound.py), and how     *)
(* each corpus is screened.                                                *)
(*                                                                         *)
(* A pass is what surrounds the checks in one screening: what a promoted   *)
(* rule does on the dossier, the severities of the concerns the model      *)
(* raises, the calls of it that fail, and what it proposes.                *)
(***************************************************************************)
EXTENDS SyntheticCases

Pass(rule, advised, failing, proposer) ==
  [rule |-> rule, advised |-> advised, failing |-> failing, proposer |-> proposer]

(* The stand-ins of llm/stub.py: PolicyMirrorStub, FixedDecisionStub with  *)
(* AdversarialStub and OvercautiousStub, and ScriptedTriageStub.           *)
Mirror == Pass("silent", {}, {}, "policy_mirror")

Fixed(decision) == Pass("silent", {}, {}, decision)

Adversarial == Fixed("approve")

Overcautious == Fixed("escalate")

ScriptedTriage(severity) == Pass("silent", {severity}, {}, "policy_mirror")

(* What the configured provider may answer, or fail to, while a promoted   *)
(* rule of the store is silent, fires or raises.                           *)
LivePasses ==
  {Pass(rule, advised, failing, decision) :
     rule \in {"silent", "fired", "raised"},
     advised \in SUBSET {"info", "unexplainable"},
     failing \in SUBSET {"ai_triage", "synthesize"}, decision \in Decisions}

(* A labelled dossier. A case of the compound matrix names the pass it is  *)
(* to be screened in, and whether the proposal is to be overridden.        *)
Case(corpus, truth, pass, overridden) ==
  [corpus |-> corpus, truth |-> truth, pass |-> pass, overridden |-> overridden]

(* The passes the truth of a case is filed for. The generated corpus is    *)
(* screened with three stand-ins (generate/run.py).                        *)
LabelledPasses(case) ==
  CASE case.corpus = "generated" -> {Mirror, Adversarial, Overcautious}
    [] case.corpus = "compound"  -> {case.pass}
    [] case.corpus = "seed"      -> {Mirror}

(* All the passes of a case: run_agent loads the promoted rules where it   *)
(* is given none, and eval/run.py may screen the seeds with the provider.  *)
Passes(case) ==
  LET under(proposers) ==
        {Pass(rule, {}, {}, p) : rule \in {"silent", "fired", "raised"}, p \in proposers}
  IN  CASE case.corpus = "generated" -> under({"policy_mirror", "approve", "escalate"})
        [] case.corpus = "compound"  -> {case.pass}
        [] case.corpus = "seed"      -> under({"policy_mirror"}) \cup LivePasses

(* Whether the truth of a case says that the guardrail overrides.          *)
ToBeOverridden(case, p) ==
  IF case.corpus = "compound" THEN case.overridden
  ELSE p.proposer # "policy_mirror" /\ p.proposer # case.truth.decision

GeneratedCase(truth) == Case("generated", truth, Mirror, FALSE)

-----------------------------------------------------------------------------
(* The compound matrix, on day 0 of its registry.                          *)

CleanOwners == <<Party("yildiz", 60000), Party("demir", 40000)>>

B2aOwners == <<Party("yildiz", 55000), Party("demir", 40000)>>

D1bDeclared == <<Party("yildiz", 70000), Party("demir", 60000)>>

ValidFar == 1082

ValidExpired == 137

(* _legal_surfaces.                                                        *)
Surfaces == <<LegalForms.full, LegalForms.caps, LegalForms.ascii>>

CompoundDossier(owners, declared, until, taxUbo, legal) ==
  [Filing(<<0, 45, 229>>, legal, owners, <<Sig("yildiz", until)>>, owners, declared,
          "yildiz") EXCEPT !.ubo.tax = taxUbo]

Compound(documents, codes, decision, pass, overridden) ==
  [ dossier |-> documents,
    case |-> Case("compound", Truth(codes, decision, Documents), pass, overridden) ]

(* build_compound_cases, CMP-01 to CMP-11.                                 *)
CompoundCases ==
  LET clean == CompoundDossier(CleanOwners, Declared(CleanOwners), ValidFar, "t1", OneLegalName)
      gap(until, tax, legal) ==
        CompoundDossier(B2aOwners, Declared(B2aOwners), until, tax, legal)
      otherTax(d) == [d EXCEPT !.ubo.tax = "t2"]
  IN { Compound(gap(ValidExpired, "t1", OneLegalName), {"B2a", "C2"},
                "request_more_info", Mirror, FALSE),
       Compound(gap(ValidFar, "t2", OneLegalName), {"A2", "B2a"}, "escalate", Mirror, FALSE),
       Compound([otherTax(clean) EXCEPT !.ubo.declared = D1bDeclared], {"A2", "D1b"},
                "escalate", Mirror, FALSE),
       Compound(gap(ValidExpired, "t1", Surfaces), {"A1", "B2a", "C2"},
                "request_more_info", Mirror, FALSE),
       Compound(gap(ValidFar, "t2", Surfaces), {"A1", "A2", "B2a"}, "escalate", Mirror, FALSE),
       Compound(gap(ValidFar, "t1", OneLegalName), {"B2a", "X1"},
                "request_more_info", ScriptedTriage("explainable"), FALSE),
       Compound(clean, {"X1"}, "request_more_info", ScriptedTriage("explainable"), TRUE),
       Compound(clean, {"X2"}, "escalate", ScriptedTriage("unexplainable"), TRUE),
       Compound(otherTax(clean), {"A2"}, "escalate", Adversarial, TRUE),
       Compound(gap(ValidFar, "t1", OneLegalName), {"B2a"}, "request_more_info",
                Overcautious, TRUE),
       Compound(CompoundDossier(CleanOwners, Declared(CleanOwners), ValidFar, "t1", Surfaces),
                {"A1"}, "approve", Mirror, FALSE) }

-----------------------------------------------------------------------------
(* The seeds. Days count from the date of the registry. The expectations   *)
(* of a seed do not mention check_ubo_derivation, which is younger.        *)

Seed(legal, owners, circular, signatories, ubo, holders, declarant, code, decision) ==
  LET truth == Truth({code}, decision, Documents)
  IN  [ dossier |-> Filing(<<0, circular, ubo>>, legal, owners, signatories, holders,
                           Declared(holders), declarant),
        case    |-> Case("seed", [truth EXCEPT !.runs = @ \ {"check_ubo_derivation"}],
                         Mirror, FALSE) ]

(* The names below are texts; the spelling without diacritics of the signer*)
(* of the third seed is taken for the one in capitals.                     *)
ASSUME AuthoredNamesAssumption ==
  /\ {"yildiz", "demir", "hasan", "emine", "cemil", "nurten", "oguz", "ilker", "sila",
      "ahmet", "zeynep", "murat", "ali", "ayse", "kemal", "pelin", "deniz", "serkan",
      "hulya", "derya", "tolga", "ferhat"} \subseteq STRING
  /\ {"ilker", "sila"} \subseteq DOMAIN Ascii
  /\ SamePerson(Ascii["ilker"], "ILKER")

Seed01 ==
  LET owners == <<Party("hasan", 60000), Party("emine", 40000)>>
  IN  Seed(OneLegalName, owners, 19, <<Sig("hasan", 1114)>>,
           222, owners, "hasan", "NONE", "approve")

Seed02 ==
  LET owners == <<Party("cemil", 45000), Party("nurten", 35000), Party("oguz", 20000)>>
  IN  Seed(OneLegalName, owners, 15, <<Sig("cemil", 1111), Sig("nurten", 1111)>>,
           193, owners, "nurten", "NONE", "approve")

Seed03 ==
  Seed(Surfaces, <<Party("ilker", 70000), Party("sila", 30000)>>, 25, <<Sig("ILKER", 1120)>>,
       191, <<Party(Ascii["ilker"], 70000), Party(Ascii["sila"], 30000)>>, Ascii["ilker"],
       "A1", "approve")

Seed04 ==
  Seed(OneLegalName, <<Party("ahmet", 50000), Party("zeynep", 30000), Party("murat", 20000)>>,
       13, <<Sig("ahmet", 1108)>>,
       622, <<Party("ahmet", 50000), Party("zeynep", 50000)>>, "ahmet",
       "B1a", "request_more_info")

Seed05 ==
  Seed(OneLegalName, <<Party("ali", 60000), Party("ayse", 40000)>>, 17, <<Sig("ali", 1113)>>,
       -835, <<Party("ali", 40000), Party("ayse", 30000), Party("kemal", 30000)>>, "ali",
       "B1b", "escalate")

Seed06 ==
  LET owners == <<Party("pelin", 55000), Party("deniz", 45000)>>
  IN  Seed(OneLegalName, owners, -626, <<Sig("mehmet", 470)>>,
           128, owners, "elif", "C1a", "request_more_info")

Seed07 ==
  LET owners == <<Party("serkan", 65000), Party("hulya", 35000)>>
  IN  Seed(OneLegalName, owners, 223, <<Sig("serkan", 1319), Sig("hulya", 1319)>>,
           54, owners, "burak", "C1b", "escalate")

(* There is no declaration; its date and people are not used.              *)
Seed08 ==
  LET owners == <<Party("derya", 51000), Party("tolga", 29000), Party("ferhat", 20000)>>
      whole  == Seed(OneLegalName, owners, 14, <<Sig("derya", 1110)>>,
                     0, owners, "derya", "E1", "request_more_info")
      truth  == Truth({"E1"}, "request_more_info", {"registry", "circular"})
  IN  [whole EXCEPT !.dossier = [label \in {"registry", "circular"} |-> @[label]],
                    !.case.truth = [truth EXCEPT !.skips = @ \ {"check_ubo_derivation"}]]

(* list_seed_ids and load_case.                                            *)
Seeds == {Seed01, Seed02, Seed03, Seed04, Seed05, Seed06, Seed07, Seed08}

=============================================================================
