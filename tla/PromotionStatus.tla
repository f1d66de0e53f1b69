--------------------------- MODULE PromotionStatus ---------------------------
(***************************************************************************)
(* What the publication of a promotion promises, without requests, locks   *)
(* or readbacks: a run records each account at most once, and the head is  *)
(* announced as promoted by a run only after the run recorded both.        *)
(***************************************************************************)
CONSTANTS
  Publisher,  \* runs that publish a promotion of the head
  PR,         \* pull requests with this head
  NoRun       \* the run of a status that promotes nothing

VARIABLES
  recorded,   \* accounts each run has recorded a successful deployment of
  verdict     \* the promotion status of the head: pull request and run

vars == <<recorded, verdict>>

Account == {"test", "prod"}
NoVerdict == <<NoRun, NoRun>>

Init ==
  /\ recorded = [q \in Publisher |-> {}]
  /\ verdict = NoVerdict

Record(q, a) ==
  /\ a \notin recorded[q]
  /\ recorded' = [recorded EXCEPT ![q] = @ \cup {a}]
  /\ UNCHANGED verdict

Announce(p, q) ==
  /\ recorded[q] = Account
  /\ verdict' = <<p, q>>
  /\ UNCHANGED recorded

Suspend(p) ==
  /\ verdict' = <<p, NoRun>>
  /\ UNCHANGED recorded

Next ==
  \/ \E q \in Publisher, a \in Account : Record(q, a)
  \/ \E p \in PR, q \in Publisher : Announce(p, q)
  \/ \E p \in PR : Suspend(p)

Spec == Init /\ [][Next]_vars
=============================================================================
