---------------------------- MODULE PublicSummary ----------------------------
(***************************************************************************)
(* The public summary of a live session (eval/redteam_public_summary.py):  *)
(* the integrity checks build_public_summary makes of the artifact of a    *)
(* session before a derivative of it may be published, on what run_session *)
(* records there. The digests the artifact is pinned by, the shape of the  *)
(* document, the provenance and the fields that are projected away are not *)
(* modelled, nor the numbers that restate others (the point estimate, the  *)
(* rates k/n, the repeat structure of the one set of ids).                 *)
(***************************************************************************)
EXTENDS LiveSession

(* TARGET_VALID_ATTEMPTS is 3. Of an even number of attempts the median    *)
(* the session records may be none of the two the summary accepts.         *)
ASSUME OddTarget == TargetValid % 2 = 1

-----------------------------------------------------------------------------
(* What run_session records besides the attempts and the counter.          *)

RecordedPreflight ==
  [ frozen_contract_verified |-> TRUE, cases_verified |-> Len(pre.cases) ]

(* The m-th smallest of the numbers of a sequence.                         *)
Ranked(ks, m) ==
  CHOOSE k \in Range(ks) :
    /\ Cardinality({i \in DOMAIN ks : ks[i] < k}) < m
    /\ m <= Cardinality({i \in DOMAIN ks : ks[i] <= k})

(* statistics.median: the mean of these two, which are one position of an  *)
(* odd number.                                                             *)
Median(ks) ==
  <<Ranked(ks, (Len(ks) + 1) \div 2), Ranked(ks, Len(ks) \div 2 + 1)>>

KsOf(as) == [i \in DOMAIN as |-> as[i].rate.k]

(* run_session's list valid.                                               *)
ValidOf(as) ==
  FoldLeft(LAMBDA valid, a : IF a.type = "valid" THEN Append(valid, a) ELSE valid,
           << >>, as)

Distribution(valid) ==
  LET ks == KsOf(valid)
  IN  [ ordered_k |-> ks, n |-> valid[1].rate.n, median_k |-> Median(ks),
        min_k |-> Min(Range(ks)), max_k |-> Max(Range(ks)) ]

-----------------------------------------------------------------------------
AllowedClasses == {"intervention", "non_intervention"}

CaseIdsOf(a) == {a.rows[j].case : j \in DOMAIN a.rows}

(* _public_case: a frozen case, classified and decided in the vocabulary,  *)
(* with a proposal.                                                        *)
PublicCase(row) ==
  /\ row.case \in FrozenIds
  /\ row.class \in AllowedClasses
  /\ row.decision \in Decisions
  /\ row.proposed

(* _public_attempt: only a valid attempt, no case twice, and its k and n   *)
(* recounted from its rows.                                                *)
PublicAttempt(a) ==
  /\ a.type = "valid"
  /\ \A j \in DOMAIN a.rows : PublicCase(a.rows[j])
  /\ \A i, j \in DOMAIN a.rows : a.rows[i].case = a.rows[j].case => i = j
  /\ a.rate.n = Len(a.rows)
  /\ a.rate.k = Cardinality({j \in DOMAIN a.rows : a.rows[j].class = "intervention"})

(* The distribution against the k of the attempts published. A median that *)
(* is a number of the sequence is a mean of twice that number.             *)
DistributionAgrees(distribution, ks) ==
  /\ distribution.ordered_k = ks
  /\ distribution.n = NCases
  /\ distribution.min_k = Min(Range(ks)) /\ distribution.max_k = Max(Range(ks))
  /\ \E m \in {(Len(ks) + 1) \div 2, Len(ks) \div 2 + 1} :
       distribution.median_k = <<Ranked(ks, m), Ranked(ks, m)>>

(* build_public_summary: a completed session, every attempt publishable    *)
(* and over the one expected set of cases; the preflight verified as many; *)
(* the requests of the rows sum to the counter's and their retries to the  *)
(* counter's stage by stage; the distribution is that of the attempts.     *)
BuildPublicSummary ==
  /\ terminal = "completed"
  /\ attempts # << >>
  /\ \A i \in DOMAIN attempts : PublicAttempt(attempts[i])
  /\ Cardinality(ValidAttempts(attempts)) = Len(attempts)
  /\ \A i \in DOMAIN attempts : CaseIdsOf(attempts[i]) = CaseIdsOf(attempts[1])
  /\ Cardinality(CaseIdsOf(attempts[1])) = NCases
  /\ RecordedPreflight.frozen_contract_verified
  /\ RecordedPreflight.cases_verified = NCases
  /\ CallsOf(RowsOf(attempts)) = Total
  /\ \A s \in Stages : RetriesOf(RowsOf(attempts), s) = retries[s]
  /\ DistributionAgrees(Distribution(ValidOf(attempts)), KsOf(attempts))

(* The two programs agree: what run_session records of a session that is   *)
(* over passes these checks just when it was completed without a           *)
(* replacement, over exactly the frozen cases. A session that needed a     *)
(* replacement cannot be published, although the policy admits it: the     *)
(* attempts replaced are in the artifact, and what they cost in its        *)
(* counter. A corpus that lost or gained a file between the validation and *)
(* the listing of preflight is found here, and nowhere before.             *)
CompletedIsPublishable ==
  phase = "done" =>
    (BuildPublicSummary <=> /\ terminal = "completed"
                            /\ replacements = 0
                            /\ Range(pre.cases) = FrozenIds)

=============================================================================
