-------------------------- MODULE MCHoldoutReport --------------------------
(***************************************************************************)
(* HoldoutReport on the small corpus of MCCorpusFreeze, with its history.  *)
(***************************************************************************)
EXTENDS MCCorpusFreeze, HoldoutReport

\* v1 is a clean dossier, v2 one that only a learned rule has something to say about;
\* r1 is right about both, r2 raises on v1.
MCFacts == [v \in {"v1", "v2"} |->
              [ expected |-> IF v = "v1" THEN "approve" ELSE "request_more_info",
                injected |-> IF v = "v1" THEN {} ELSE {"F1"},
                found    |-> {} ]]

MCEffect == [p \in {"v1", "v2"} \X {"r1", "r2"} |->
               IF p[1] = "v2" THEN "fires" ELSE IF p[2] = "r1" THEN "silent" ELSE "raises"]

\* Bound: the reporter is explored where no two freezes ever ran at once.
ReportBound == EditsBound /\ (overlapped => reports = 0)

MCReportInit == MCInit /\ ReportInit

MCReportNext ==
    \/ MCNext /\ Notice
    \/ Report /\ UNCHANGED MCvars

MCReportSpec == MCReportInit /\ [][MCReportNext]_<<MCvars, reportVars>>
=============================================================================
