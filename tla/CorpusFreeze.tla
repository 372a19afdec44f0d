---------------------------- MODULE CorpusFreeze ----------------------------
(***************************************************************************)
(* Freezing an evaluation corpus: harness/data/freeze_redteam.py and       *)
(* harness/data/freeze_holdout.py.                                         *)
(*                                                                         *)
(* A freeze reads every fixture once for its hash and once more to screen  *)
(* it, refuses unless every case passes the gate, and installs its pin     *)
(* files with write-a-temporary-then-os.replace, the manifest last as the  *)
(* completion marker.  Several invocations (Freezers) and people who edit  *)
(* fixtures or promote rules while a freeze runs are the actors; the disk  *)
(* is modelled with its open file handles, because the temporary file has  *)
(* one fixed name that two invocations share.                              *)
(*                                                                         *)
(* A fixture and a rule store are abstracted to a version; a hash of one   *)
(* is that version.  Admissible holds the (fixture, rules) pairs that pass *)
(* the gate when the offline agent screens the fixture under the rules.    *)
(***************************************************************************)
EXTENDS Naturals, Sequences

CONSTANTS Freezers,      \* invocations of the tool that may run at once
          NCases,        \* fixtures of the corpus
          CaseVersions,  \* what a fixture may say
          RuleVersions,  \* what the promoted-rule store may hold
          Admissible,    \* the pairs the gate admits
          NoFile,        \* there is no file of this name
          MaxRuns,       \* bound on invocations
          MaxEdits       \* bound on edits of fixtures and rules

\* What a freeze has gathered: the hashes of build_manifest, the rules the
\* observation loaded, the fixtures it screened, and the rules of _pinned_config.
Drafts == [hashed : Seq(CaseVersions), seen : Seq(CaseVersions),
           screenedUnder : SUBSET RuleVersions, pinned : SUBSET RuleVersions,
           whole : BOOLEAN]

ASSUME FreezeConstants ==
    /\ NCases \in Nat \ {0}
    /\ Admissible \subseteq CaseVersions \X RuleVersions
    /\ NoFile \notin Drafts
    /\ {MaxRuns, MaxEdits} \subseteq Nat

VARIABLES tool,      \* which of the two tools this repository is frozen with
          corpus,    \* case -> the version of its fixture on disk
          rules,     \* the version of the promoted-rule store on disk
          pc,        \* freezer -> where main stands
          draft,     \* freezer -> what it has read so far, the text it will write
          at,        \* freezer -> how many pin files it has installed
          handle,    \* freezer -> where the inode it is writing to is now
          tmp,       \* pin -> the file <pin>.tmp
          final,     \* pin -> the file <pin>
          runs,      \* invocations so far
          edits      \* edits so far

disk == <<tmp, final, handle>>
inputs == <<corpus, rules, edits>>
vars == <<tool, corpus, rules, pc, draft, at, disk, runs, edits>>

Cases == 1..NCases
PinFiles == {"seed_pin", "manifest"}

\* Wrong: the completion marker is written first.
BugManifestFirst(t) == IF t = "freeze_holdout" THEN <<"manifest", "seed_pin">>
                                               ELSE <<"manifest">>

\* freeze_holdout writes the seed pin first and the manifest LAST; the red-team
\* tool writes the manifest alone.
Pins(t) == IF t = "freeze_holdout" THEN <<"seed_pin", "manifest">> ELSE <<"manifest">>

\* Where build_manifest starts; the holdout manifest pins no rules.
EmptyDraft == [hashed |-> <<>>, screenedUnder |-> {}, seen |-> <<>>, pinned |-> {},
               whole |-> TRUE]

\* A file that was truncated and not written to its end: not JSON.
Torn == [EmptyDraft EXCEPT !.whole = FALSE]

Running(p) == pc[p] # "idle"
Pin(p) == Pins(tool)[at[p] + 1]

Init ==
    /\ tool \in {"freeze_redteam", "freeze_holdout"}
    /\ corpus \in [Cases -> CaseVersions]
    /\ rules \in RuleVersions
    /\ pc = [p \in Freezers |-> "idle"]
    /\ draft = [p \in Freezers |-> EmptyDraft]
    /\ at = [p \in Freezers |-> 0]
    /\ handle = [p \in Freezers |-> "closed"]
    /\ tmp = [f \in PinFiles |-> NoFile]
    /\ final = [f \in PinFiles |-> NoFile]
    /\ runs = 0
    /\ edits = 0

-----------------------------------------------------------------------------
(* main: the marker, the reads, the gate *)

\* Wrong: the marker is not looked for.
BugNoMarkerCheck == TRUE

\* Safeguard 2: any existing manifest refuses the freeze.
Unfrozen == final["manifest"] = NoFile

Invoke(p) ==
    /\ pc[p] = "idle" /\ runs < MaxRuns
    /\ runs' = runs + 1

Start(p) ==
    /\ Invoke(p)
    /\ Unfrozen
    /\ pc' = [pc EXCEPT ![p] = "hashing"]
    /\ draft' = [draft EXCEPT ![p] = EmptyDraft]
    /\ at' = [at EXCEPT ![p] = 0]
    /\ UNCHANGED <<tool, inputs, disk>>

RefuseFrozen(p) ==
    /\ Invoke(p)
    /\ ~Unfrozen
    /\ UNCHANGED <<tool, inputs, disk, pc, draft, at>>

\* redteam_payloads / holdout_payloads: one fixture after another.
HashCase(p) ==
    LET i == Len(draft[p].hashed) + 1 IN
    /\ pc[p] = "hashing" /\ i \in Cases
    /\ draft' = [draft EXCEPT ![p].hashed = Append(@, corpus[i])]
    /\ UNCHANGED <<tool, inputs, disk, pc, at, runs>>

\* _observe_*: load_promoted_rules, then screen the fixtures, each read again.
LoadRules(p) ==
    /\ pc[p] = "hashing" /\ Len(draft[p].hashed) = NCases
    /\ draft' = [draft EXCEPT ![p].screenedUnder = {rules}]
    /\ pc' = [pc EXCEPT ![p] = "observing"]
    /\ UNCHANGED <<tool, inputs, disk, at, runs>>

ObserveCase(p) ==
    LET i == Len(draft[p].seen) + 1 IN
    /\ pc[p] = "observing" /\ i \in Cases
    /\ draft' = [draft EXCEPT ![p].seen = Append(@, corpus[i])]
    /\ UNCHANGED <<tool, inputs, disk, pc, at, runs>>

\* The red-team manifest reads the rule store a second time (_pinned_config).
FinishManifest(p) ==
    /\ pc[p] = "observing" /\ Len(draft[p].seen) = NCases
    /\ draft' = [draft EXCEPT ![p].pinned = IF tool = "freeze_redteam" THEN {rules} ELSE {}]
    /\ pc' = [pc EXCEPT ![p] = "gating"]
    /\ UNCHANGED <<tool, inputs, disk, at, runs>>

\* Wrong: the counts are compared with zero, not with the number of cases.
BugSomeAdmitted(d) == \E i \in Cases : \A r \in d.screenedUnder : <<d.seen[i], r>> \in Admissible

\* validate_admission / validate_observation on what was observed: all or nothing.
Admitted(d) == \A i \in Cases : \A r \in d.screenedUnder : <<d.seen[i], r>> \in Admissible

PassGate(p) ==
    /\ pc[p] = "gating" /\ Admitted(draft[p])
    /\ pc' = [pc EXCEPT ![p] = "writing"]
    /\ UNCHANGED <<tool, inputs, disk, draft, at, runs>>

RefuseGate(p) ==
    /\ pc[p] = "gating" /\ ~Admitted(draft[p])
    /\ pc' = [pc EXCEPT ![p] = "idle"]
    /\ UNCHANGED <<tool, inputs, disk, draft, at, runs>>

-----------------------------------------------------------------------------
(* _atomic_write, once for each pin file *)

\* write_text opens <pin>.tmp: a file of that name is truncated, whoever made it.
OpenTmp(p) ==
    /\ pc[p] = "writing"
    /\ tmp' = [tmp EXCEPT ![Pin(p)] = Torn]
    /\ handle' = [handle EXCEPT ![p] = "tmp"]
    /\ pc' = [pc EXCEPT ![p] = "opened"]
    /\ UNCHANGED <<tool, inputs, final, draft, at, runs>>

\* Another invocation still writes to the same inode.
Sharers(p) == {q \in Freezers \ {p} : /\ pc[q] = "opened" /\ Pin(q) = Pin(p)
                                      /\ handle[q] = handle[p]}

\* The texts whose blocks may end up in a file that says old when p writes to it.
Texts(p, old) == {draft[p]} \cup {draft[q] : q \in Sharers(p)}
                           \cup {d \in {old} : d.whole}

Mixed(a, b) == [a EXCEPT !.hashed = b.hashed, !.pinned = b.pinned]

\* What p's write leaves: alone in an empty file its own text; otherwise something
\* that does not parse, or any mixture of the parts of the texts.
Written(p, old) ==
    IF Texts(p, old) = {draft[p]} THEN {draft[p]}
    ELSE {Torn} \cup {Mixed(a, b) : a \in Texts(p, old), b \in Texts(p, old)}

WriteTmp(p) ==
    /\ pc[p] = "opened"
    /\ \/ /\ handle[p] = "tmp"
          /\ \E text \in Written(p, tmp[Pin(p)]) : tmp' = [tmp EXCEPT ![Pin(p)] = text]
          /\ UNCHANGED final
       \/ /\ handle[p] = "final"
          /\ \E text \in Written(p, final[Pin(p)]) : final' = [final EXCEPT ![Pin(p)] = text]
          /\ UNCHANGED tmp
       \/ /\ handle[p] = "gone"
          /\ UNCHANGED <<tmp, final>>
    /\ handle' = [handle EXCEPT ![p] = "closed"]
    /\ pc' = [pc EXCEPT ![p] = "written"]
    /\ UNCHANGED <<tool, inputs, draft, at, runs>>

\* os.replace moves the inode: a handle still open on it now writes to the installed
\* file, one open on the file it replaced writes to nothing.
Replace(p) ==
    LET f == Pin(p)
        onPin(q) == pc[q] = "opened" /\ Pin(q) = f
    IN
    /\ pc[p] = "written" /\ tmp[f] # NoFile
    /\ final' = [final EXCEPT ![f] = tmp[f]]
    /\ tmp' = [tmp EXCEPT ![f] = NoFile]
    /\ handle' = [q \in Freezers |->
                    IF ~onPin(q) THEN handle[q]
                    ELSE IF handle[q] = "tmp" THEN "final" ELSE "gone"]
    /\ at' = [at EXCEPT ![p] = @ + 1]
    /\ pc' = [pc EXCEPT ![p] = IF at[p] + 1 = Len(Pins(tool)) THEN "idle" ELSE "writing"]
    /\ UNCHANGED <<tool, inputs, draft, runs>>

\* The temporary file was moved away by the other invocation: FileNotFoundError.
ReplaceFails(p) ==
    /\ pc[p] = "written" /\ tmp[Pin(p)] = NoFile
    /\ pc' = [pc EXCEPT ![p] = "idle"]
    /\ UNCHANGED <<tool, inputs, disk, draft, at, runs>>

\* A fixture that does not load, an OSError, or the process killed, anywhere: nothing
\* cleans up, and what is on disk stays.
Fail(p) ==
    /\ Running(p)
    /\ pc' = [pc EXCEPT ![p] = "idle"]
    /\ handle' = [handle EXCEPT ![p] = "closed"]
    /\ UNCHANGED <<tool, inputs, tmp, final, draft, at, runs>>

-----------------------------------------------------------------------------
(* The people around the tool *)

EditCase(i, v) ==
    /\ edits < MaxEdits /\ corpus[i] # v
    /\ corpus' = [corpus EXCEPT ![i] = v]
    /\ edits' = edits + 1
    /\ UNCHANGED <<tool, rules, disk, pc, draft, at, runs>>

ChangeRules(r) ==
    /\ edits < MaxEdits /\ rules # r
    /\ rules' = r
    /\ edits' = edits + 1
    /\ UNCHANGED <<tool, corpus, disk, pc, draft, at, runs>>

Freeze(p) ==
    \/ Start(p) \/ RefuseFrozen(p)
    \/ HashCase(p) \/ LoadRules(p) \/ ObserveCase(p) \/ FinishManifest(p)
    \/ PassGate(p) \/ RefuseGate(p)
    \/ OpenTmp(p) \/ WriteTmp(p) \/ Replace(p) \/ ReplaceFails(p)
    \/ Fail(p)

Next ==
    \/ \E p \in Freezers : Freeze(p)
    \/ \E i \in Cases, v \in CaseVersions : EditCase(i, v)
    \/ \E r \in RuleVersions : ChangeRules(r)

Spec == Init /\ [][Next]_vars

-----------------------------------------------------------------------------
(* validate_frozen_contract (redteam_record.py): the manifest against the disk *)

\* Wrong: the rules are compared by nothing.
BugRulesHashUnchecked(m) ==
    /\ m # NoFile /\ m.whole
    /\ m.hashed = [i \in Cases |-> corpus[i]]
    /\ Admitted(m)

FrozenContractHolds(m) ==
    /\ m # NoFile /\ m.whole
    /\ m.hashed = [i \in Cases |-> corpus[i]]  \* 4, 5: corpus hash, case hashes
    /\ Admitted(m)                             \* 7: every observation is an approval
    /\ m.pinned = {rules}                      \* 10, 11: rule ids, rules hash

TypeOK ==
    /\ tool \in {"freeze_redteam", "freeze_holdout"}
    /\ corpus \in [Cases -> CaseVersions]
    /\ rules \in RuleVersions
    /\ pc \in [Freezers -> {"idle", "hashing", "observing", "gating",
                            "writing", "opened", "written"}]
    /\ draft \in [Freezers -> Drafts]
    /\ at \in [Freezers -> 0..2]
    /\ \A p \in Freezers : Running(p) => at[p] < Len(Pins(tool))
    /\ handle \in [Freezers -> {"closed", "tmp", "final", "gone"}]
    /\ tmp \in [PinFiles -> Drafts \cup {NoFile}]
    /\ final \in [PinFiles -> Drafts \cup {NoFile}]
    /\ runs \in 0..MaxRuns
    /\ edits \in 0..MaxEdits
=============================================================================
