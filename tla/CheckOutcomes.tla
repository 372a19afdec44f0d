---------------------------- MODULE CheckOutcomes ----------------------------
(***************************************************************************)
(* What the five deterministic checks of the screening graph may do with a *)
(* dossier, as far as the documents present decide it: whether a check can *)
(* run, and the sets of finding codes its function can return. Module      *)
(* DossierChecks models the functions themselves.                          *)
(***************************************************************************)
EXTENDS GuardrailPolicy

Documents == {"registry", "circular", "ubo"}

DocumentChecks == {"check_identity_consistency", "check_ownership_consistency",
                   "check_authority_chain", "check_ubo_derivation",
                   "check_completeness"}

(* The guard at the head of a check's node: the documents it compares.     *)
CanRun(check, present) ==
  CASE check = "check_identity_consistency"  ->
         \E d, e \in present : d # e
    [] check = "check_ownership_consistency" -> {"registry", "ubo"} \subseteq present
    [] check = "check_authority_chain"       -> {"circular", "ubo"} \subseteq present
    [] check = "check_ubo_derivation"        -> "ubo" \in present
    [] OTHER                                 -> TRUE

(* Wrong: the completeness check misses an absent registry.                *)
BugRegistryNotRequired(check, present) ==
  CASE check = "check_completeness" ->
         IF {"circular", "ubo"} \subseteq present THEN {{}, {"E2"}} ELSE {{"E1"}}
    [] check = "check_identity_consistency"  -> SUBSET {"A1", "A2"}
    [] check = "check_ownership_consistency" -> {{}, {"B2b"}, {"B1a"}}
    [] check = "check_authority_chain"       -> {{}, {"C2"}, {"C1b"}}
    [] OTHER                                 -> {{}, {"D1b"}}

(* The sets of codes a check's function can return.                        *)
Outcomes(check, present) ==
  CASE check = "check_identity_consistency"  -> SUBSET {"A1", "A2"}
    [] check = "check_ownership_consistency" ->
         {{}, {"B2b"}, {"B2a"}, {"B1a"}, {"B1b"}}
    [] check = "check_authority_chain"       -> {{}, {"C2"}, {"C1a"}, {"C1b"}}
    [] check = "check_ubo_derivation"        -> {{}, {"D1b"}, {"D1a"}}
    [] OTHER ->
         LET missing == IF present = Documents THEN {} ELSE {"E1"}
         IN  {missing} \cup (IF present = {} THEN {} ELSE {missing \cup {"E2"}})

CodeSeverity(code) ==
  CASE code = "A1" -> "info"
    [] code \in {"A2", "B1b", "B2b", "C1b", "D1b"} -> "unexplainable"
    [] OTHER -> "explainable"

CheckFinding(check, code, about) ==
  [ check |-> check, code |-> code, severity |-> CodeSeverity(code),
    origin |-> "deterministic", kind |-> None, about |-> about ]

=============================================================================
