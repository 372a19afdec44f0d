--------------------------- MODULE MCCorpusFreeze ---------------------------
(***************************************************************************)
(* CorpusFreeze on a small corpus, with two history variables: whether two *)
(* invocations ever ran at once, and whether an input was edited between   *)
(* the two reads one freeze makes of it.                                   *)
(***************************************************************************)
EXTENDS CorpusFreeze, TLC

VARIABLES overlapped, editedBetweenReads

MCvars == <<vars, overlapped, editedBetweenReads>>

\* Version v1 of a fixture is caught under rules r2 only, v2 under neither.
MCAdmissible == {<<"v1", "r1">>, <<"v2", "r1">>, <<"v2", "r2">>}

\* Bound: once two invocations have run at once, no edits are explored (what the
\* properties say of edits they say of invocations one after the other).
EditsBound == overlapped => edits = 0

AnyFreezer == Permutations(Freezers)

\* p has hashed fixture i and has still to screen it.
BetweenReadsOfCase(p, i) ==
    /\ pc[p] \in {"hashing", "observing"}
    /\ Len(draft[p].hashed) >= i /\ Len(draft[p].seen) < i

\* p has screened under the rules and has still to pin them.
BetweenReadsOfRules(p) == pc[p] = "observing"

MCInit == Init /\ overlapped = FALSE /\ editedBetweenReads = FALSE

MCNext ==
    /\ Next
    /\ overlapped' = (overlapped \/ \E p, q \in Freezers : p # q /\ Running(p)' /\ Running(q)')
    /\ editedBetweenReads' =
         (\/ editedBetweenReads
          \/ \E p \in Freezers, i \in Cases :
                BetweenReadsOfCase(p, i) /\ corpus'[i] # corpus[i]
          \/ \E p \in Freezers : BetweenReadsOfRules(p) /\ rules' # rules)

MCSpec == MCInit /\ [][MCNext]_MCvars

-----------------------------------------------------------------------------

\* A frozen manifest is never replaced or changed, whatever is invoked, killed and
\* invoked again (safeguard 2 of both tools): unless two invocations ran at once, which
\* the check for the marker at the start of main does not see.
FrozenOnce ==
    [][~overlapped' /\ final["manifest"] # NoFile
         => final'["manifest"] = final["manifest"]]_MCvars

\* The manifest is the completion marker: where it exists it is whole, everything it
\* records passed the gate, and the pin written before it is there and whole; a crash
\* anywhere leaves either no marker or a finished freeze.  Unless two invocations ran
\* at once: they share the name of the temporary file.
MarkerMeansComplete ==
    ~overlapped /\ final["manifest"] # NoFile =>
        /\ final["manifest"].whole
        /\ Admitted(final["manifest"])
        /\ tool = "freeze_holdout" => final["seed_pin"] # NoFile /\ final["seed_pin"].whole

\* What validate_frozen_contract compares is enough for what the manifest is used to
\* claim: when the live corpus and the live rules agree with a red-team manifest, every
\* case as it is on disk NOW passes the gate under the rules as they are NOW, whatever was
\* edited before, during or after the freeze; unless an input was edited between the
\* two reads the freeze makes of it, or two invocations mixed their texts.
ValidatedIsBlind ==
    (/\ ~overlapped /\ ~editedBetweenReads
     /\ tool = "freeze_redteam"
     /\ FrozenContractHolds(final["manifest"]))
    => \A i \in Cases : <<corpus[i], rules>> \in Admissible
=============================================================================
