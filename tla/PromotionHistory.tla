--------------------------- MODULE PromotionHistory ---------------------------
(***************************************************************************)
(* RulePromotion with a history variable: what the store promises as long  *)
(* as no two promotions overlap. Nothing in rules/store.py sees to that:   *)
(* promote_rule loads, truncates and writes without a lock.                *)
(***************************************************************************)
EXTENDS RulePromotion

(* Two processes have been between the load and the end of their write at  *)
(* the same time.                                                          *)
VARIABLE overlapped

Writing == {o \in Operators : pc[o] \in {"truncate", "write"}}

HistoryInit == Init /\ overlapped = FALSE

HistoryNext ==
  Next /\ overlapped' = (overlapped \/ \E o, q \in Writing' : o # q)

HistorySpec == HistoryInit /\ [][HistoryNext]_<<vars, overlapped>>

(* A promotion is permanent, also when processes stop halfway through a    *)
(* write, as long as no two promotions overlap (rules/store.py).           *)
PermanentUnlessOverlapped == ~overlapped => PromotionIsPermanent

(* The rules in force only grow from run to run, under the same condition. *)
GrowsUnlessOverlapped ==
  [][~overlapped' => IsPrefix(inForce, inForce')]_<<vars, overlapped>>

(***************************************************************************)
(* The inductive invariant behind both: the one writer there may be loaded *)
(* the file as it still is, or holds, now that it is truncated, all that   *)
(* was in it. A writer that stops there leaves a file nobody can load.     *)
(***************************************************************************)
HoldsAll(s) == promoted \subseteq ToSet(s) /\ IsPrefix(inForce, s)

OneAtATime ==
  /\ \A o, q \in Writing : o = q
  /\ whole => HoldsAll(stored)
  /\ \A o \in Operators : pc[o] = "truncate" => whole /\ existing[o] = stored
  /\ \A o \in Operators : pc[o] = "write" =>
       ~whole /\ stored = << >> /\ HoldsAll(existing[o])

HistoryInv == IInv /\ (~overlapped => OneAtATime)

=============================================================================
