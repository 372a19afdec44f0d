------------------------------ MODULE CallBudget ------------------------------
(***************************************************************************)
(* What "reservation, not detection" promises (the module docstring of     *)
(* eval/redteam_live.py, "Cost control"): work is started only when all it *)
(* may cost still fits under the ceiling, and every request made is paid   *)
(* out of what was set aside for it, so the ceiling is never exceeded and  *)
(* never has to be noticed half way.                                       *)
(***************************************************************************)
EXTENDS Naturals

CONSTANTS Ceiling, WorstCase

VARIABLES
  spent,  \* the outbound requests made
  held    \* what the work under way may still cost

vars == <<spent, held>>

Init == spent = 0 /\ held = 0

Reserve ==
  /\ held = 0
  /\ spent + WorstCase <= Ceiling
  /\ held' = WorstCase
  /\ UNCHANGED spent

(* One request, and perhaps the certainty that others are not needed.      *)
Pay ==
  /\ held > 0
  /\ spent' = spent + 1
  /\ held' \in 0..(held - 1)

Release ==
  /\ held' \in 0..held
  /\ UNCHANGED spent

Next == Reserve \/ Pay \/ Release

Spec == Init /\ [][Next]_vars

=============================================================================
