------------------------- MODULE MCDeploymentGraph -------------------------
(***************************************************************************)
(* Instances of DeploymentGraph for TLC.                                   *)
(***************************************************************************)
EXTENDS DeploymentGraph, TLC

CONSTANTS r1, r2, p1, p2, c1, c2, h1, h2

\* Any contract; a deployment of all stacks to both accounts, or to TEST.
FullUp   == [command |-> "up", target |-> "prod", scopes |-> Scope]
Anything == [r \in Run |-> Contract]
FullUps  == [r \in Run |-> {FullUp}]
TestUps  == [r \in Run |-> {[FullUp EXCEPT !.target = "test"]}]

\* All runs were dispatched for one comment and head, of one pull request.
OneComment    == [r \in Run |-> c1]
OneHead       == [r \in Run |-> h1]
OnePull       == [r \in Run |-> p1]
PullOfComment == [c \in Comment |-> IF c = c2 THEN p2 ELSE p1]

\* Each run has a comment and a pull request of its own.
OwnComment == [r \in Run |-> IF r = r2 THEN c2 ELSE c1]
OwnHead    == [r \in Run |-> IF r = r2 THEN h2 ELSE h1]
OwnPull    == [r \in Run |-> IF r = r2 THEN p2 ELSE p1]
=============================================================================
