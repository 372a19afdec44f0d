------------------------- MODULE FailClosedScreening -------------------------
(***************************************************************************)
(* What the screening of one dossier promises, whatever the checks, the    *)
(* learned rules and the model say on the way: caution is gathered and     *)
(* never given back, one decision is taken and it is the one the caution   *)
(* demands, only a decision that was taken becomes an effect in the case   *)
(* store, and only one that is an effect is returned. A run may also end   *)
(* without an effect at any point, or with one and without returning it.   *)
(*                                                                         *)
(* The promise is the one agent/guardrail.py and agent/triage.py state in  *)
(* their module docstrings; ScreeningGraph is shown to implement it.       *)
(***************************************************************************)
EXTENDS Naturals

VARIABLES
  caution,   \* how severe the worst thing seen so far is: 0, 1 or 2
  decision,  \* "none", or the decision that was taken
  effect,    \* "none", or the decision the case store carries
  returned   \* whether the run has returned its decision to its caller

vars == <<caution, decision, effect, returned>>

Levels == 0..2

Undecided == "none"

Demanded(level) == CASE level = 2 -> "escalate"
                     [] level = 1 -> "request_more_info"
                     [] level = 0 -> "approve"

Init ==
  /\ caution = 0
  /\ decision = Undecided
  /\ effect = Undecided
  /\ returned = FALSE

(* A check, a rule or the model adds to what is known about the dossier.   *)
Learn ==
  /\ decision = Undecided
  /\ caution' \in {level \in Levels : level >= caution}
  /\ UNCHANGED <<decision, effect, returned>>

(* The decision is the one the level of caution demands, nothing else.     *)
Decide ==
  /\ decision = Undecided
  /\ decision' = Demanded(caution)
  /\ UNCHANGED <<caution, effect, returned>>

(* The decision becomes an effect, once, and is then returned, unless the  *)
(* store raises after all.                                                 *)
Act ==
  /\ decision # Undecided
  /\ effect = Undecided
  /\ effect' = decision
  /\ returned' \in BOOLEAN
  /\ UNCHANGED <<caution, decision>>

Next == Learn \/ Decide \/ Act

Spec == Init /\ [][Next]_vars

=============================================================================
