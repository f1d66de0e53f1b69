---------------------------- MODULE MCAlertTriage ----------------------------
(***************************************************************************)
(* Instances of AlertTriage for TLC.                                       *)
(***************************************************************************)
EXTENDS AlertTriage, TLC

CONSTANTS t0, t1, b1, s1, s2, m1, m2

\* The installed run t0, the staged run t1 and the backfill b1.
Workflows == [r \in TriageRun |->
  IF r = t0 THEN "installed" ELSE IF r = b1 THEN "backfill" ELSE "staged"]

\* Backfills are of the first stream.
Target1 == [r \in TriageRun |-> s1]

Symmetry == Permutations({m1, m2})

Backup(stream, states, text) ==
  [stream |-> stream, parses |-> TRUE, source |-> "backup", type |-> "job",
   envelope |-> TRUE, job |-> TRUE, states |-> states, text |-> text]

\* A failed job, a completed one, one whose state and status disagree, and an
\* alert of another source.
Events ==
  {Backup(s1, {"FAILED"}, "none"), Backup(s1, {"COMPLETED"}, "none"),
   Backup(s1, {"FAILED", "COMPLETED"}, "none"),
   [Backup(s2, {}, "none") EXCEPT !.source = "other"]}
=============================================================================
