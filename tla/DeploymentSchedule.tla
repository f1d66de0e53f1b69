------------------------- MODULE DeploymentSchedule -------------------------
(***************************************************************************)
(* What the command runner promises, without jobs, locks or rechecks: a    *)
(* comment is consumed by one run; the run performs its schedule one step  *)
(* at a time, in the order of the schedule; and it is promoted only when   *)
(* the whole schedule of a PROD "up" with a nonempty selection is done.    *)
(* A run may stop at any point: nothing obliges it to continue.            *)
(***************************************************************************)
EXTENDS DeploymentContract

VARIABLES
  contract,   \* the admitted contract of each run
  done,       \* the steps of its schedule each run has completed
  promoted    \* runs whose aggregate promotion has been published

vars == <<contract, done, promoted>>

Init ==
  /\ contract = [r \in Run |-> NoContract]
  /\ done = [r \in Run |-> {}]
  /\ promoted = {}

\* A comment that admitted one run for a head never admits another for it.
Admit(r) ==
  /\ contract[r] = NoContract
  /\ \A q \in Run : contract[q] # NoContract => ClaimOf(q) # ClaimOf(r)
  /\ \E c \in Contract : contract' = [contract EXCEPT ![r] = c]
  /\ UNCHANGED <<done, promoted>>

Perform(r, x) ==
  /\ contract[r] # NoContract
  /\ x \in Schedule(contract[r]) \ done[r]
  /\ \A y \in Schedule(contract[r]) : StepBefore(y, x) => y \in done[r]
  /\ done' = [done EXCEPT ![r] = @ \cup {x}]
  /\ UNCHANGED <<contract, promoted>>

Promote(r) ==
  /\ contract[r] # NoContract
  /\ contract[r].target = "prod"
  /\ CompletionKind(contract[r]) = "apply-drift"
  /\ Schedule(contract[r]) \subseteq done[r]
  /\ promoted' = promoted \cup {r}
  /\ UNCHANGED <<contract, done>>

Next ==
  \E r \in Run :
    \/ Admit(r)
    \/ \E x \in Step : Perform(r, x)
    \/ Promote(r)

Spec == Init /\ [][Next]_vars
=============================================================================
