------------------------- MODULE DeploymentContract -------------------------
(***************************************************************************)
(* The admitted contract of one "/pulumi <account> <command>" comment and  *)
(* the credential-stage schedule derived from it (deployment_schedule.py,  *)
(* deployment_controller.py).  Pure definitions: no state.                 *)
(*                                                                         *)
(* A scope stands for its position in STACK_ORDER, so that the dependency  *)
(* order of the stacks is the order of the numbers.  Scope may be a part   *)
(* of STACK_ORDER only, for small instances.                               *)
(***************************************************************************)
EXTENDS Naturals

CONSTANTS
  Run,         \* workflow runs of the root command runner (GITHUB_RUN_ID)
  Comment,     \* pull request comments that carry a command
  CommentOf,   \* the comment each run was dispatched for
  Head,        \* head commits of pull requests
  HeadOf,      \* the head that the intake of each run's comment recorded
  Scope,       \* the Pulumi programs the changes can select
  NoContract   \* the contract of a run that has not been admitted

Operator   == 1
Governance == 2
Platform   == 3

ASSUME ScopeAssumption   == Scope \subseteq {Operator, Governance, Platform}
ASSUME CommentAssumption ==
  CommentOf \in [Run -> Comment] /\ HeadOf \in [Run -> Head]

\* A claim is a status of the head that names the comment.
ClaimOf(r) == <<HeadOf[r], CommentOf[r]>>

Account   == {"test", "prod"}
Command   == {"plan", "up"}
Operation == {"plan", "apply", "drift"}

\* One reusable worker of the root graph: a stack in an account.
Node == Account \X Scope

Contract == [command : Command, target : Account, scopes : SUBSET Scope]

ASSUME NoContractAssumption == NoContract \notin Contract

\* The accounts and operations a request spans, and its workers.
Environments(c) == IF c.target = "prod" THEN Account ELSE {"test"}
Operations(c)   == IF c.command = "up" THEN Operation ELSE {"plan"}
Workers(c)      == Environments(c) \X c.scopes

\* A schedule step is an operation of a worker; the schedule is the set of
\* them, ordered by StepBefore.
Step        == Node \X Operation
Schedule(c) == Workers(c) \X Operations(c)

\* TEST before PROD, then STACK_ORDER, then plan before apply before drift:
\* the nesting of the three loops that build the predecessor chain.
AccountBefore(a, b) == a = "test" /\ b = "prod"

NodeBefore(m, n) ==
  \/ AccountBefore(m[1], n[1])
  \/ m[1] = n[1] /\ m[2] < n[2]

OperationBefore(o, p) ==
  \/ o = "plan" /\ p \in {"apply", "drift"}
  \/ o = "apply" /\ p = "drift"

StepBefore(x, y) ==
  \/ NodeBefore(x[1], y[1])
  \/ x[1] = y[1] /\ OperationBefore(x[2], y[2])

\* The completion kind of a contract: an empty selection and a plan are
\* never reported as an apply.
CompletionKind(c) ==
  IF c.scopes = {} THEN "no-deployment"
  ELSE IF c.command = "up" THEN "apply-drift" ELSE "plan"
=============================================================================
