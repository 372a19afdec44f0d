--------------------------- MODULE AppendOnlyShelf ---------------------------
(***************************************************************************)
(* What the publication of artifacts promises, in the words of the module  *)
(* docstring of eval/redteam_record.py: a record lands under a name of its *)
(* own and is never overwritten, reused or removed; whatever publishers do *)
(* at the same time, and however they fail, the shelf of complete records  *)
(* only grows, by a record under a name that had none.                     *)
(***************************************************************************)
CONSTANTS
  Names,     \* the run ids
  Authors    \* the invocations that publish

VARIABLE shelf   \* the complete records, pairs of name and author

Init == shelf = {}

Add(name, author) ==
  /\ \A entry \in shelf : entry[1] # name
  /\ shelf' = shelf \cup {<<name, author>>}

Next == \E name \in Names, author \in Authors : Add(name, author)

Spec == Init /\ [][Next]_shelf

=============================================================================
