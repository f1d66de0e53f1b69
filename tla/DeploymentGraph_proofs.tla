------------------------ MODULE DeploymentGraph_proofs ------------------------
(***************************************************************************)
(* Proofs about the command runner, for every set of runs, comments and    *)
(* pull requests and every selection of stacks.                            *)
(***************************************************************************)
EXTENDS DeploymentGraph, FiniteSetTheorems, TLAPS

-----------------------------------------------------------------------------
(* Type correctness. *)

USE DEF environment, control, admission, stages, history

LEMMA InitType == Init => TypeOK
<1> SUFFICES ASSUME Init PROVE TypeOK
  OBVIOUS
<1>1. contract \in [Run -> Contract \cup {NoContract}]
  BY DEF Init
<1>2. job \in [Run -> [RootJob -> JobState]]
  BY DEF Init, JobState
<1>3. worker \in [Run -> [Node -> WorkerState]]
  BY DEF Init, WorkerState
<1>4. QED
  BY <1>1, <1>2, <1>3 DEF Init, TypeOK, Phase, Fact

\* A step of the group of a pull request keeps the types.
LEMMA GroupType ==
  ASSUME TypeOK, NEW r \in Run,
         \/ Dispatch(r) \/ StartRun(r) \/ CancelRun(r) \/ FinishRun(r)
         \/ \E all \in BOOLEAN : Rerun(r, all)
  PROVE  TypeOK'
<1>1. CASE Dispatch(r)
  BY <1>1 DEF TypeOK, Dispatch, JoinGroup, Phase
<1>2. CASE StartRun(r)
  BY <1>2 DEF TypeOK, StartRun, Phase
<1>3. CASE CancelRun(r)
  BY <1>3 DEF TypeOK, CancelRun, Phase
<1>4. CASE FinishRun(r)
  BY <1>4 DEF TypeOK, FinishRun, Phase
<1>5. ASSUME NEW all \in BOOLEAN, Rerun(r, all) PROVE TypeOK'
  <2>1. phase' \in [Run -> Phase] /\ attempt' \in [Run -> Nat \ {0}]
    BY <1>5 DEF TypeOK, Rerun, JoinGroup, Phase
  <2>2. job' \in [Run -> [RootJob -> JobState]]
    BY <1>5 DEF TypeOK, Rerun, JobState, Terminal
  <2>3. worker' \in [Run -> [Node -> WorkerState]]
    BY <1>5 DEF TypeOK, Rerun, WorkerState, Terminal
  <2>4. passed' \in [Run -> [Node -> SUBSET Stage]]
    BY <1>5 DEF TypeOK, Rerun
  <2>5. failed' \in [Run -> [Node -> SUBSET Stage]]
    BY <1>5 DEF TypeOK, Rerun
  <2>6. QED
    BY <1>5, <2>1, <2>2, <2>3, <2>4, <2>5 DEF TypeOK, Rerun
<1>6. QED
  BY <1>1, <1>2, <1>3, <1>4, <1>5

\* Setting the state of a root job keeps its type.
LEMMA SetJobType ==
  ASSUME TypeOK, NEW r \in Run, NEW j \in RootJob, NEW s \in JobState,
         SetJob(r, j, s)
  PROVE  job' \in [Run -> [RootJob -> JobState]]
BY DEF TypeOK, SetJob

LEMMA PreflightType ==
  ASSUME TypeOK, NEW r \in Run,
         \/ CheckRequest(r) \/ ListClaims(r) \/ PostClaim(r)
         \/ PersistContract(r) \/ FailPreflight(r)
  PROVE  TypeOK'
<1>1. "preflight" \in RootJob
  BY DEF RootJob
<1>2. {"checked", "unclaimed", "claimed", "success", "failure"} \subseteq JobState
  BY DEF JobState, Terminal
<1>3. CASE CheckRequest(r)
  BY <1>1, <1>2, <1>3, SetJobType DEF TypeOK, CheckRequest
<1>4. CASE ListClaims(r)
  BY <1>1, <1>2, <1>4, SetJobType DEF TypeOK, ListClaims
<1>5. CASE PostClaim(r)
  BY <1>1, <1>2, <1>5, SetJobType, CommentAssumption DEF TypeOK, PostClaim
<1>6. CASE PersistContract(r)
  <2>1. PICK c \in Requested[r] : contract' = [contract EXCEPT ![r] = c]
    BY <1>6 DEF PersistContract
  <2>2. c \in Contract
    BY RequestedAssumption
  <2>3. QED
    BY <1>1, <1>2, <1>6, <2>1, <2>2, SetJobType DEF TypeOK, PersistContract
<1>7. CASE FailPreflight(r)
  BY <1>1, <1>2, <1>7, SetJobType DEF TypeOK, FailPreflight
<1>8. QED
  BY <1>3, <1>4, <1>5, <1>6, <1>7

LEMMA JobType ==
  ASSUME TypeOK, NEW r \in Run,
         \/ \E j \in RootJob : SkipJob(r, j) \/ FailJob(r, j)
         \/ ValidateInputs(r)
         \/ \E a \in Account : Barrier(r, a)
         \/ PreparePromotion(r) \/ PublishPromotion(r)
  PROVE  TypeOK'
<1>1. {"skipped", "success", "failure"} \subseteq JobState
  BY DEF JobState, Terminal
<1>2. ASSUME NEW j \in RootJob, SkipJob(r, j) \/ FailJob(r, j) PROVE TypeOK'
  BY <1>1, <1>2, SetJobType DEF TypeOK, SkipJob, FailJob
<1>3. CASE ValidateInputs(r)
  BY <1>1, <1>3, SetJobType DEF TypeOK, ValidateInputs, RootJob
<1>4. ASSUME NEW a \in Account, Barrier(r, a) PROVE TypeOK'
  BY <1>1, <1>4, SetJobType DEF TypeOK, Barrier, RootJob
<1>5. CASE PreparePromotion(r)
  BY <1>1, <1>5, SetJobType DEF TypeOK, PreparePromotion, RootJob
<1>6. CASE PublishPromotion(r)
  BY <1>1, <1>6, SetJobType DEF TypeOK, PublishPromotion, RootJob
<1>7. QED
  BY <1>2, <1>3, <1>4, <1>5, <1>6

\* Setting the state of a worker keeps its type.
LEMMA SetWorkerType ==
  ASSUME TypeOK, NEW r \in Run, NEW n \in Node, NEW s \in WorkerState,
         SetWorker(r, n, s)
  PROVE  worker' \in [Run -> [Node -> WorkerState]]
BY DEF TypeOK, SetWorker

\* Passing or failing a stage keeps the types of the results.
LEMMA StageType ==
  ASSUME TypeOK, NEW r \in Run, NEW n \in Node, NEW g \in Stage
  PROVE  /\ Pass(r, n, g) => /\ passed' \in [Run -> [Node -> SUBSET Stage]]
                             /\ completed' \in [Run -> SUBSET Step]
         /\ Fail(r, n, g) => failed' \in [Run -> [Node -> SUBSET Stage]]
<1>1. g \in Operation => <<n, g>> \in Step
  BY DEF Step
<1>2. Pass(r, n, g) => passed' \in [Run -> [Node -> SUBSET Stage]]
  BY DEF TypeOK, Pass
<1>3. Pass(r, n, g) => completed' \in [Run -> SUBSET Step]
  <2>1. completed \in [Run -> SUBSET Step]
    BY DEF TypeOK
  <2>2. (IF g \in Operation THEN completed[r] \cup {<<n, g>>} ELSE completed[r])
          \in SUBSET Step
    BY <1>1, <2>1
  <2>3. QED
    BY <2>1, <2>2 DEF Pass
<1>4. Fail(r, n, g) => failed' \in [Run -> [Node -> SUBSET Stage]]
  BY DEF TypeOK, Fail
<1>5. QED
  BY <1>2, <1>3, <1>4

LEMMA WorkerType ==
  ASSUME TypeOK, NEW r \in Run, NEW n \in Node,
         \/ StartWorker(r, n) \/ SkipWorker(r, n)
         \/ AcquireStack(r, n) \/ CancelQueued(r, n)
         \/ \E g \in Stage : RunStage(r, n, g) \/ FailStage(r, n, g)
         \/ CheckApply(r, n) \/ RevalidatePull(r, n)
         \/ ApplyPlan(r, n) \/ AbortApply(r, n)
         \/ IssueReceipt(r, n) \/ WithholdReceipt(r, n)
  PROVE  TypeOK'
<1>1. {"queued", "running", "rechecked", "applying", "success", "failure",
       "cancelled", "skipped"} \subseteq WorkerState
  BY DEF WorkerState, Holding, Terminal
<1>2. "apply" \in Stage
  BY DEF Stage
<1>3. CASE StartWorker(r, n)
  <2>1. worker' \in [Run -> [Node -> WorkerState]]
    BY <1>1, <1>3 DEF TypeOK, StartWorker
  <2>2. QED
    BY <1>3, <2>1 DEF TypeOK, StartWorker
<1>4. CASE SkipWorker(r, n)
  BY <1>1, <1>4, SetWorkerType DEF TypeOK, SkipWorker
<1>5. CASE AcquireStack(r, n)
  BY <1>1, <1>5, SetWorkerType DEF TypeOK, AcquireStack
<1>6. CASE CancelQueued(r, n)
  BY <1>1, <1>6, SetWorkerType DEF TypeOK, CancelQueued
<1>7. ASSUME NEW g \in Stage, RunStage(r, n, g) PROVE TypeOK'
  <2>1. seen' \in [Run -> [Node -> Run \cup {Outside}]]
    BY <1>7 DEF TypeOK, RunStage
  <2>2. QED
    BY <1>7, <2>1, StageType DEF TypeOK, RunStage
<1>8. ASSUME NEW g \in Stage, FailStage(r, n, g) PROVE TypeOK'
  BY <1>8, StageType DEF TypeOK, FailStage
<1>9. CASE CheckApply(r, n)
  BY <1>1, <1>9, SetWorkerType DEF TypeOK, CheckApply
<1>10. CASE RevalidatePull(r, n)
  BY <1>1, <1>10, SetWorkerType DEF TypeOK, RevalidatePull
<1>11. CASE ApplyPlan(r, n)
  <2>1. worker' \in [Run -> [Node -> WorkerState]]
    BY <1>1, <1>11, SetWorkerType DEF ApplyPlan
  <2>2. writer' \in [Node -> Run \cup {Outside}]
    BY <1>11 DEF TypeOK, ApplyPlan
  <2>3. applies' \in [Run -> [Node -> Nat]] /\ late' \in [Run -> SUBSET Node]
    BY <1>11 DEF TypeOK, ApplyPlan
  <2>4. /\ passed' \in [Run -> [Node -> SUBSET Stage]]
        /\ failed' \in [Run -> [Node -> SUBSET Stage]]
        /\ completed' \in [Run -> SUBSET Step]
    <3>1. CASE Pass(r, n, "apply") /\ UNCHANGED failed
      BY <1>2, <3>1, StageType DEF TypeOK
    <3>2. CASE Fail(r, n, "apply") /\ UNCHANGED <<passed, completed>>
      BY <1>2, <3>2, StageType DEF TypeOK
    <3>3. QED
      BY <1>11, <3>1, <3>2 DEF ApplyPlan
  <2>5. QED
    BY <1>11, <2>1, <2>2, <2>3, <2>4 DEF TypeOK, ApplyPlan
<1>12. CASE AbortApply(r, n)
  BY <1>1, <1>2, <1>12, SetWorkerType, StageType DEF TypeOK, AbortApply
<1>13. CASE IssueReceipt(r, n)
  BY <1>1, <1>13, SetWorkerType DEF TypeOK, IssueReceipt
<1>14. CASE WithholdReceipt(r, n)
  BY <1>1, <1>14, SetWorkerType DEF TypeOK, WithholdReceipt
<1>15. QED
  BY <1>3, <1>4, <1>5, <1>6, <1>7, <1>8, <1>9, <1>10, <1>11, <1>12, <1>13, <1>14

LEMMA SurroundingsType ==
  ASSUME TypeOK,
         \/ AdvanceMain
         \/ \E r \in Run, f \in Fickle : ChangeFact(r, f)
         \/ \E n \in Node : OutsideQueues(n) \/ OutsideDeploys(n)
  PROVE  TypeOK'
<1>1. CASE AdvanceMain
  BY <1>1 DEF TypeOK, AdvanceMain
<1>2. ASSUME NEW r \in Run, NEW f \in Fickle, ChangeFact(r, f) PROVE TypeOK'
  <2>1. f \in Fact
    BY FickleAssumption
  <2>2. holds' \in [Run -> SUBSET Fact]
    BY <1>2, <2>1 DEF TypeOK, ChangeFact
  <2>3. QED
    BY <1>2, <2>2 DEF TypeOK, ChangeFact
<1>3. ASSUME NEW n \in Node, OutsideQueues(n) PROVE TypeOK'
  <2>1. worker' \in [Run -> [Node -> WorkerState]]
    BY <1>3 DEF TypeOK, OutsideQueues, WorkerState, Terminal
  <2>2. QED
    BY <1>3, <2>1 DEF TypeOK, OutsideQueues
<1>4. ASSUME NEW n \in Node, OutsideDeploys(n) PROVE TypeOK'
  BY <1>4 DEF TypeOK, OutsideDeploys
<1>5. QED
  BY <1>1, <1>2, <1>3, <1>4

LEMMA NextType == TypeOK /\ [Next]_vars => TypeOK'
<1> SUFFICES ASSUME TypeOK, [Next]_vars PROVE TypeOK'
  OBVIOUS
<1>1. CASE UNCHANGED vars
  BY <1>1 DEF TypeOK, vars
<1>2. ASSUME NEW r \in Run, Progress(r) PROVE TypeOK'
  BY <1>2, GroupType, PreflightType, JobType, WorkerType DEF Progress
<1>3. ASSUME NEW r \in Run, Disturb(r) PROVE TypeOK'
  BY <1>3, GroupType, SurroundingsType DEF Disturb
<1>4. CASE AdvanceMain \/ \E n \in Node : OutsideQueues(n) \/ OutsideDeploys(n)
  BY <1>4, SurroundingsType
<1>5. QED
  BY <1>1, <1>2, <1>3, <1>4 DEF Next

\* Every variable always has its type.
THEOREM TypeCorrect == Spec => []TypeOK
<1>1. QED
  BY InitType, NextType, PTL DEF Spec

-----------------------------------------------------------------------------
(***************************************************************************)
(* A claim admits at most one run.  The claim itself is a list followed    *)
(* by a post and gives no exclusion; the group of the pull request does,   *)
(* provided that every run that reaches the claim is in the group of the   *)
(* pull request its comment was written on.                                *)
(***************************************************************************)
Admitting == {"checked", "unclaimed", "claimed"}

AdmissionInv ==
  \A r \in Run :
    /\ job[r]["preflight"] = "success" => contract[r] # NoContract
    /\ job[r]["preflight"] \in Admitting =>
         attempt[r] = 1 /\ phase[r] = "active" /\ CommentPR[CommentOf[r]] = PROf[r]
    /\ attempt[r] = 1 /\ job[r]["preflight"] # "success" => contract[r] = NoContract

GroupInv ==
  \A q, r \in Run :
    phase[q] = "active" /\ phase[r] = "active" /\ PROf[q] = PROf[r] => q = r

ClaimInv ==
  \A r \in Run :
    /\ job[r]["preflight"] = "unclaimed" => ClaimOf(r) \notin claimed
    /\ contract[r] # NoContract => ClaimOf(r) \in claimed
    /\ job[r]["preflight"] = "claimed" =>
         /\ ClaimOf(r) \in claimed
         /\ \A q \in Run : ClaimOf(q) = ClaimOf(r) => contract[q] = NoContract

\* What no step but those of the group and of preflight can disturb.
AdmissionFrame ==
  /\ UNCHANGED <<phase, attempt, contract, claimed>>
  /\ \A q \in Run : job'[q]["preflight"] = job[q]["preflight"]

LEMMA OtherJob ==
  ASSUME TypeOK, NEW r \in Run, NEW j \in RootJob, NEW s, SetJob(r, j, s),
         j # "preflight"
  PROVE  \A q \in Run : job'[q]["preflight"] = job[q]["preflight"]
BY DEF TypeOK, SetJob, RootJob

LEMMA PreflightSet ==
  ASSUME TypeOK, NEW r \in Run, NEW s, SetJob(r, "preflight", s)
  PROVE  \A q \in Run : job'[q]["preflight"] = IF q = r THEN s ELSE job[q]["preflight"]
BY DEF TypeOK, SetJob, RootJob

LEMMA FramedSteps ==
  ASSUME TypeOK, [Next]_vars
  PROVE  \/ AdmissionFrame
         \/ \E r \in Run :
              \/ Dispatch(r) \/ StartRun(r) \/ CancelRun(r) \/ FinishRun(r)
              \/ \E all \in BOOLEAN : Rerun(r, all)
              \/ CheckRequest(r) \/ ListClaims(r) \/ PostClaim(r)
              \/ PersistContract(r) \/ FailPreflight(r)
<1>1. UNCHANGED <<control, admission, job>> => AdmissionFrame
  BY DEF AdmissionFrame
<1>2. CASE UNCHANGED vars
  BY <1>1, <1>2 DEF vars
<1>3. ASSUME NEW r \in Run,
             \/ \E j \in RootJob : SkipJob(r, j) \/ FailJob(r, j)
             \/ ValidateInputs(r)
             \/ \E a \in Account : Barrier(r, a)
             \/ PreparePromotion(r) \/ PublishPromotion(r)
      PROVE  AdmissionFrame
  <2>1. PICK j \in RootJob, s \in JobState :
          j # "preflight" /\ SetJob(r, j, s) /\ UNCHANGED <<control, admission>>
    BY <1>3 DEF SkipJob, FailJob, ValidateInputs, Barrier, PreparePromotion,
                PublishPromotion, JobAllowed, RootJob, JobState, Terminal
  <2>2. QED
    BY <2>1, OtherJob DEF AdmissionFrame
<1>4. ASSUME NEW r \in Run, NEW n \in Node,
             \/ StartWorker(r, n) \/ SkipWorker(r, n)
             \/ AcquireStack(r, n) \/ CancelQueued(r, n)
             \/ \E g \in Stage : RunStage(r, n, g) \/ FailStage(r, n, g)
             \/ CheckApply(r, n) \/ RevalidatePull(r, n)
             \/ ApplyPlan(r, n) \/ AbortApply(r, n)
             \/ IssueReceipt(r, n) \/ WithholdReceipt(r, n)
      PROVE  AdmissionFrame
  BY <1>1, <1>4 DEF StartWorker, SkipWorker, AcquireStack, CancelQueued,
       RunStage, FailStage, CheckApply, RevalidatePull, ApplyPlan, AbortApply,
       IssueReceipt, WithholdReceipt
<1>5. CASE AdvanceMain \/ \E n \in Node : OutsideQueues(n) \/ OutsideDeploys(n)
  BY <1>1, <1>5 DEF AdvanceMain, OutsideQueues, OutsideDeploys
<1>6. ASSUME NEW r \in Run, NEW f \in Fickle, ChangeFact(r, f)
      PROVE  AdmissionFrame
  BY <1>1, <1>6 DEF ChangeFact
<1>7. QED
  BY <1>2, <1>3, <1>4, <1>5, <1>6 DEF Next, Progress, Disturb

LEMMA ClaimStep ==
  ASSUME TypeOK, AdmissionInv, GroupInv, ClaimInv, ClaimedOnce, [Next]_vars
  PROVE  AdmissionInv' /\ GroupInv' /\ ClaimInv' /\ ClaimedOnce'
<1> USE DEF Admitting
<1>1. CASE AdmissionFrame
  BY <1>1 DEF AdmissionFrame, AdmissionInv, GroupInv, ClaimInv, ClaimedOnce
<1>2. ASSUME NEW r \in Run, Dispatch(r)
      PROVE  AdmissionInv' /\ GroupInv' /\ ClaimInv' /\ ClaimedOnce'
  <2>1. /\ UNCHANGED <<attempt, contract, claimed>>
        /\ \A q \in Run : job'[q]["preflight"] = job[q]["preflight"]
    BY <1>2 DEF Dispatch
  <2>2. \A q \in Run : phase'[q] = "active" <=> phase[q] = "active"
    BY <1>2 DEF Dispatch, JoinGroup, TypeOK
  <2>3. QED
    BY <2>1, <2>2 DEF AdmissionInv, GroupInv, ClaimInv, ClaimedOnce
<1>3. ASSUME NEW r \in Run, StartRun(r)
      PROVE  AdmissionInv' /\ GroupInv' /\ ClaimInv' /\ ClaimedOnce'
  <2>1. /\ UNCHANGED <<attempt, contract, claimed>>
        /\ \A q \in Run : job'[q]["preflight"] = job[q]["preflight"]
    BY <1>3 DEF StartRun
  <2>2. \A q \in Run : phase'[q] = IF q = r THEN "active" ELSE phase[q]
    BY <1>3 DEF StartRun, TypeOK
  <2>3. GroupInv'
    BY <1>3, <2>2 DEF GroupInv, StartRun
  <2>4. QED
    BY <2>1, <2>2, <2>3 DEF AdmissionInv, ClaimInv, ClaimedOnce
<1>4. ASSUME NEW r \in Run, CancelRun(r)
      PROVE  AdmissionInv' /\ GroupInv' /\ ClaimInv' /\ ClaimedOnce'
  <2>1. /\ UNCHANGED <<attempt, contract, claimed>>
        /\ \A q \in Run : job'[q]["preflight"] = job[q]["preflight"]
    BY <1>4 DEF CancelRun
  <2>2. \A q \in Run : phase'[q] = "active" <=> phase[q] = "active"
    BY <1>4 DEF CancelRun, TypeOK
  <2>3. QED
    BY <2>1, <2>2 DEF AdmissionInv, GroupInv, ClaimInv, ClaimedOnce
<1>5. ASSUME NEW r \in Run, FinishRun(r)
      PROVE  AdmissionInv' /\ GroupInv' /\ ClaimInv' /\ ClaimedOnce'
  <2>1. /\ UNCHANGED <<attempt, contract, claimed>>
        /\ \A q \in Run : job'[q]["preflight"] = job[q]["preflight"]
    BY <1>5 DEF FinishRun
  <2>2. \A q \in Run : phase'[q] = IF q = r THEN "done" ELSE phase[q]
    BY <1>5 DEF FinishRun, TypeOK
  <2>3. job[r]["preflight"] \notin Admitting
    BY <1>5 DEF FinishRun, RootJob, Terminal
  <2>4. QED
    BY <2>1, <2>2, <2>3 DEF AdmissionInv, GroupInv, ClaimInv, ClaimedOnce
<1>6. ASSUME NEW r \in Run, NEW all \in BOOLEAN, Rerun(r, all)
      PROVE  AdmissionInv' /\ GroupInv' /\ ClaimInv' /\ ClaimedOnce'
  <2>1. /\ UNCHANGED <<contract, claimed>>
        /\ attempt'[r] # 1
        /\ \A q \in Run : q # r => attempt'[q] = attempt[q]
    <3>1. attempt[r] \in Nat \ {0} /\ attempt'[r] = attempt[r] + 1
      BY <1>6 DEF Rerun, TypeOK
    <3>2. attempt'[r] # 1
      BY <3>1
    <3>3. QED
      BY <1>6, <3>2 DEF Rerun, TypeOK
  <2>2. \A q \in Run : q # r => job'[q]["preflight"] = job[q]["preflight"]
    BY <1>6 DEF Rerun, TypeOK
  <2>3. \/ job'[r]["preflight"] = "waiting"
        \/ job'[r]["preflight"] = "success" /\ job[r]["preflight"] = "success"
    BY <1>6 DEF Rerun, TypeOK, RootJob
  <2>4. /\ phase'[r] = "pending"
        /\ \A q \in Run : q # r =>
             (phase'[q] = "active" <=> phase[q] = "active")
    BY <1>6 DEF Rerun, JoinGroup, TypeOK
  <2>5. AdmissionInv'
    BY <2>1, <2>2, <2>3, <2>4 DEF AdmissionInv
  <2>6. GroupInv'
    BY <2>4 DEF GroupInv
  <2>7. ClaimInv' /\ ClaimedOnce'
    BY <2>1, <2>2, <2>3 DEF ClaimInv, ClaimedOnce
  <2>8. QED
    BY <2>5, <2>6, <2>7
<1>7. ASSUME NEW r \in Run, CheckRequest(r)
      PROVE  AdmissionInv' /\ GroupInv' /\ ClaimInv' /\ ClaimedOnce'
  <2>1. UNCHANGED <<phase, attempt, contract, claimed>>
    BY <1>7 DEF CheckRequest
  <2>2. \A q \in Run : job'[q]["preflight"] = IF q = r THEN "checked" ELSE job[q]["preflight"]
    BY <1>7, PreflightSet DEF CheckRequest
  <2>3. /\ attempt[r] = 1 /\ phase[r] = "active" /\ job[r]["preflight"] = "waiting"
        /\ CommentPR[CommentOf[r]] = PROf[r]
    BY <1>7 DEF CheckRequest, JobReady, FirstAttempt
  <2>4. QED
    BY <2>1, <2>2, <2>3 DEF AdmissionInv, GroupInv, ClaimInv, ClaimedOnce
<1>8. ASSUME NEW r \in Run, ListClaims(r)
      PROVE  AdmissionInv' /\ GroupInv' /\ ClaimInv' /\ ClaimedOnce'
  <2>1. UNCHANGED <<phase, attempt, contract, claimed>>
    BY <1>8 DEF ListClaims
  <2>2. \A q \in Run : job'[q]["preflight"] = IF q = r THEN "unclaimed" ELSE job[q]["preflight"]
    BY <1>8, PreflightSet DEF ListClaims
  <2>3. job[r]["preflight"] = "checked" /\ ClaimOf(r) \notin claimed
    BY <1>8 DEF ListClaims
  <2>4. QED
    BY <2>1, <2>2, <2>3 DEF AdmissionInv, GroupInv, ClaimInv, ClaimedOnce
<1>9. ASSUME NEW r \in Run, PostClaim(r)
      PROVE  AdmissionInv' /\ GroupInv' /\ ClaimInv' /\ ClaimedOnce'
  <2>1. /\ UNCHANGED <<phase, attempt, contract>>
        /\ claimed' = claimed \cup {ClaimOf(r)}
    BY <1>9 DEF PostClaim
  <2>2. PICK s \in {"claimed", "failure"} :
          \A q \in Run : job'[q]["preflight"] = IF q = r THEN s ELSE job[q]["preflight"]
    BY <1>9, PreflightSet DEF PostClaim
  <2>3. job[r]["preflight"] = "unclaimed"
    BY <1>9 DEF PostClaim
  <2>4. AdmissionInv' /\ GroupInv' /\ ClaimedOnce'
    BY <2>1, <2>2, <2>3 DEF AdmissionInv, GroupInv, ClaimedOnce
  <2>5. \A q \in Run : ClaimOf(q) = ClaimOf(r) => contract[q] = NoContract
    BY <2>3 DEF ClaimInv
  \* A run with the same claim that is listing too is in the same group.
  <2>6. \A q \in Run : q # r /\ job[q]["preflight"] \in Admitting =>
          ClaimOf(q) # ClaimOf(r)
    BY <2>3 DEF AdmissionInv, GroupInv, ClaimOf
  <2>7. ClaimInv'
    BY <2>1, <2>2, <2>3, <2>5, <2>6 DEF ClaimInv
  <2>8. QED
    BY <2>4, <2>7
<1>10. ASSUME NEW r \in Run, PersistContract(r)
       PROVE  AdmissionInv' /\ GroupInv' /\ ClaimInv' /\ ClaimedOnce'
  <2>1. UNCHANGED <<phase, attempt, claimed>>
    BY <1>10 DEF PersistContract
  <2>2. PICK c \in Contract : contract' = [contract EXCEPT ![r] = c]
    BY <1>10, RequestedAssumption DEF PersistContract
  <2>3. /\ contract'[r] # NoContract
        /\ \A q \in Run : q # r => contract'[q] = contract[q]
    BY <2>2, NoContractAssumption DEF TypeOK
  <2>4. \A q \in Run : job'[q]["preflight"] = IF q = r THEN "success" ELSE job[q]["preflight"]
    BY <1>10, PreflightSet DEF PersistContract
  <2>5. job[r]["preflight"] = "claimed"
    BY <1>10 DEF PersistContract
  <2>6. AdmissionInv' /\ GroupInv'
    BY <2>1, <2>3, <2>4 DEF AdmissionInv, GroupInv
  <2>7. \A q \in Run : ClaimOf(q) = ClaimOf(r) => contract[q] = NoContract
    BY <2>5 DEF ClaimInv
  <2>8. ClaimedOnce'
    BY <2>3, <2>7 DEF ClaimedOnce
  <2>9. \A q \in Run : q # r /\ job[q]["preflight"] \in Admitting =>
          ClaimOf(q) # ClaimOf(r)
    BY <2>5 DEF AdmissionInv, GroupInv, ClaimOf
  <2>10. ClaimInv'
    BY <2>1, <2>3, <2>4, <2>5, <2>9 DEF ClaimInv
  <2>11. QED
    BY <2>6, <2>8, <2>10
<1>11. ASSUME NEW r \in Run, FailPreflight(r)
       PROVE  AdmissionInv' /\ GroupInv' /\ ClaimInv' /\ ClaimedOnce'
  <2>1. UNCHANGED <<phase, attempt, contract, claimed>>
    BY <1>11 DEF FailPreflight
  <2>2. \A q \in Run : job'[q]["preflight"] = IF q = r THEN "failure" ELSE job[q]["preflight"]
    BY <1>11, PreflightSet DEF FailPreflight
  <2>3. job[r]["preflight"] # "success"
    BY <1>11 DEF FailPreflight, JobReady
  <2>4. QED
    BY <2>1, <2>2, <2>3 DEF AdmissionInv, GroupInv, ClaimInv, ClaimedOnce
<1>12. QED
  BY <1>1, <1>2, <1>3, <1>4, <1>5, <1>6, <1>7, <1>8, <1>9, <1>10, <1>11,
     FramedSteps

AdmissionIInv == AdmissionInv /\ GroupInv /\ ClaimInv /\ ClaimedOnce

LEMMA AdmissionInvariant == Spec => []AdmissionIInv
<1>1. Init => AdmissionIInv
  BY DEF Init, AdmissionIInv, AdmissionInv, GroupInv, ClaimInv, ClaimedOnce,
         RootJob, Admitting
<1>2. TypeOK /\ AdmissionIInv /\ [Next]_vars => AdmissionIInv'
  BY ClaimStep DEF AdmissionIInv
<1>3. QED
  BY <1>1, <1>2, TypeCorrect, PTL DEF Spec

\* No comment admits two runs for one head, however often it is dispatched.
THEOREM CommentClaimedOnce == Spec => []ClaimedOnce
<1>1. AdmissionIInv => ClaimedOnce
  BY DEF AdmissionIInv
<1>2. QED
  BY <1>1, AdmissionInvariant, PTL

-----------------------------------------------------------------------------
(***************************************************************************)
(* Stacks are touched in the order of the schedule.                        *)
(*                                                                         *)
(* The property is not inductive by itself: that a worker may start is     *)
(* known from the results of other workers and of the TEST barrier, so the *)
(* invariant adds what these results mean for the steps completed.         *)
(***************************************************************************)
Busy == {"queued"} \cup Holding

Prior(r, n) ==
  \A x \in Schedule(contract[r]) : NodeBefore(x[1], n) => x \in completed[r]

NodeDone(r, n) == \A o \in Operations(contract[r]) : <<n, o>> \in completed[r]

ResultInv ==
  /\ \A r \in Run, n \in Node :
       /\ worker[r][n] = "success" => Selected(r, n) /\ NodeDone(r, n)
       /\ \A o \in Operation : o \in passed[r][n] => <<n, o>> \in completed[r]
  /\ \A r \in Run : job[r]["whole_test"] = "success" =>
       /\ contract[r] # NoContract
       /\ \A s \in contract[r].scopes : NodeDone(r, <<"test", s>>)

\* Steps that start no worker and complete nothing.
OrderFrame ==
  /\ UNCHANGED <<contract, completed, applies>>
  /\ \A q \in Run :
       job'[q]["whole_test"] = "success" => job[q]["whole_test"] = "success"
  /\ \A q \in Run, m \in Node :
       /\ passed'[q][m] \subseteq passed[q][m]
       /\ worker'[q][m] \in Busy => worker[q][m] \in Busy
       /\ worker'[q][m] = "success" => worker[q][m] = "success"

LEMMA FrameKeepsOrder ==
  ASSUME ResultInv, StacksInOrder, OrderFrame
  PROVE  ResultInv' /\ StacksInOrder'
<1>1. ResultInv'
  BY DEF ResultInv, OrderFrame, Selected, NodeDone
<1>2. StacksInOrder'
  <2>1. ASSUME NEW r \in Run, NEW n \in Node, Touches(r, n)'
        PROVE  Touches(r, n)
    BY <2>1 DEF Touches, OrderFrame, Busy
  <2>2. QED
    BY <2>1 DEF StacksInOrder, OrderFrame, Selected
<1>3. QED
  BY <1>1, <1>2

LEMMA SetWorkerEffect ==
  ASSUME TypeOK, NEW r \in Run, NEW n \in Node, NEW s, SetWorker(r, n, s)
  PROVE  \A q \in Run, m \in Node :
           worker'[q][m] = IF q = r /\ m = n THEN s ELSE worker[q][m]
BY DEF TypeOK, SetWorker

LEMMA SetJobEffect ==
  ASSUME TypeOK, NEW r \in Run, NEW j \in RootJob, NEW s, SetJob(r, j, s)
  PROVE  \A q \in Run, i \in RootJob :
           job'[q][i] = IF q = r /\ i = j THEN s ELSE job[q][i]
BY DEF TypeOK, SetJob

LEMMA OrderSteps ==
  ASSUME TypeOK, [Next]_vars
  PROVE  \/ OrderFrame
         \/ \E r \in Run :
              \/ PersistContract(r) \/ Barrier(r, "test")
              \/ \E n \in Node :
                   \/ StartWorker(r, n) \/ ApplyPlan(r, n) \/ IssueReceipt(r, n)
                   \/ \E g \in Stage : RunStage(r, n, g)
<1> DEFINE Quiet ==
      UNCHANGED <<contract, completed, applies, job, passed, worker>>
<1>1. Quiet => OrderFrame
  BY DEF OrderFrame
<1>2. CASE UNCHANGED vars
  BY <1>1, <1>2 DEF vars
<1>3. ASSUME NEW r \in Run,
             Dispatch(r) \/ StartRun(r) \/ CancelRun(r) \/ FinishRun(r)
      PROVE  OrderFrame
  BY <1>1, <1>3 DEF Dispatch, StartRun, CancelRun, FinishRun
<1>4. ASSUME NEW r \in Run, NEW all \in BOOLEAN, Rerun(r, all)
      PROVE  OrderFrame
  <2>1. UNCHANGED <<contract, completed, applies>>
    BY <1>4 DEF Rerun
  <2>2. \A q \in Run : job'[q]["whole_test"] = "success" =>
          job[q]["whole_test"] = "success"
    BY <1>4 DEF Rerun, TypeOK, RootJob
  <2>3. \A q \in Run, m \in Node : passed'[q][m] \subseteq passed[q][m]
    BY <1>4 DEF Rerun, TypeOK
  <2>4. \A q \in Run, m \in Node :
          /\ worker'[q][m] \in Busy => worker[q][m] \in Busy
          /\ worker'[q][m] = "success" => worker[q][m] = "success"
    BY <1>4 DEF Rerun, TypeOK, Busy, Holding
  <2>5. QED
    BY <2>1, <2>2, <2>3, <2>4 DEF OrderFrame
<1>5. ASSUME NEW r \in Run,
             \/ CheckRequest(r) \/ ListClaims(r) \/ PostClaim(r)
             \/ FailPreflight(r)
             \/ \E j \in RootJob : SkipJob(r, j) \/ FailJob(r, j)
             \/ ValidateInputs(r) \/ Barrier(r, "prod")
             \/ PreparePromotion(r) \/ PublishPromotion(r)
      PROVE  OrderFrame
  <2>1. /\ UNCHANGED <<contract, completed, applies, passed, worker>>
        /\ \E j \in RootJob, s \in JobState :
             /\ SetJob(r, j, s)
             /\ j = "whole_test" => s # "success"
    BY <1>5 DEF CheckRequest, ListClaims, PostClaim, FailPreflight, SkipJob,
         FailJob, ValidateInputs, Barrier, PreparePromotion, PublishPromotion,
         RootJob, JobState, Terminal
  <2>2. PICK j \in RootJob, s \in JobState :
          SetJob(r, j, s) /\ (j = "whole_test" => s # "success")
    BY <2>1
  <2>3. \A q \in Run, i \in RootJob :
          job'[q][i] = IF q = r /\ i = j THEN s ELSE job[q][i]
    BY <2>2, SetJobEffect
  <2>4. QED
    BY <2>1, <2>2, <2>3 DEF OrderFrame, RootJob
<1>6. ASSUME NEW r \in Run, NEW n \in Node, NEW g \in Stage, FailStage(r, n, g)
      PROVE  OrderFrame
  BY <1>1, <1>6 DEF FailStage
<1>7. ASSUME NEW r \in Run, NEW n \in Node,
             \/ SkipWorker(r, n) \/ AcquireStack(r, n) \/ CancelQueued(r, n)
             \/ CheckApply(r, n) \/ RevalidatePull(r, n) \/ AbortApply(r, n)
             \/ WithholdReceipt(r, n)
      PROVE  OrderFrame
  <2>1. /\ UNCHANGED <<contract, completed, applies, passed, job>>
        /\ \E s \in WorkerState :
             /\ SetWorker(r, n, s)
             /\ s # "success"
             /\ s \in Busy => worker[r][n] \in Busy
    BY <1>7 DEF SkipWorker, AcquireStack, CancelQueued, CheckApply, CanRun,
         RevalidatePull, AbortApply, WithholdReceipt, Settled, WorkerState,
         Terminal, Busy, Holding
  <2>2. PICK s \in WorkerState :
          SetWorker(r, n, s) /\ s # "success" /\ (s \in Busy => worker[r][n] \in Busy)
    BY <2>1
  <2>3. \A q \in Run, m \in Node :
          worker'[q][m] = IF q = r /\ m = n THEN s ELSE worker[q][m]
    BY <2>2, SetWorkerEffect
  <2>4. QED
    BY <2>1, <2>2, <2>3 DEF OrderFrame
<1>8. CASE AdvanceMain \/ \E r \in Run, f \in Fickle : ChangeFact(r, f)
  BY <1>1, <1>8 DEF AdvanceMain, ChangeFact
<1>9. ASSUME NEW n \in Node, OutsideQueues(n) \/ OutsideDeploys(n)
      PROVE  OrderFrame
  <2>1. CASE OutsideDeploys(n)
    BY <1>1, <2>1 DEF OutsideDeploys
  <2>2. CASE OutsideQueues(n)
    <3>1. \A q \in Run, m \in Node :
            worker'[q][m] = worker[q][m] \/ worker'[q][m] = "cancelled"
      BY <2>2 DEF OutsideQueues, TypeOK
    <3>2. QED
      BY <2>2, <3>1 DEF OutsideQueues, OrderFrame, Busy, Holding
  <2>3. QED
    BY <1>9, <2>1, <2>2
<1>10. QED
  BY <1>2, <1>3, <1>4, <1>5, <1>6, <1>7, <1>8, <1>9
     DEF Next, Progress, Disturb, Account

-----------------------------------------------------------------------------
(* The steps that start a worker or complete a step of the schedule. *)

LEMMA PersistKeepsOrder ==
  ASSUME TypeOK, AdmissionInv, ResultInv, StacksInOrder,
         NEW r \in Run, PersistContract(r)
  PROVE  ResultInv' /\ StacksInOrder'
<1>1. /\ UNCHANGED <<worker, passed, completed, applies>>
      /\ \A q \in Run : job'[q]["whole_test"] = job[q]["whole_test"]
  BY DEF PersistContract, SetJob, TypeOK, RootJob
<1>2. /\ \A q \in Run : q # r => contract'[q] = contract[q]
      /\ contract[r] = NoContract
  BY DEF PersistContract, AdmissionInv, Admitting, TypeOK
\* The run has touched nothing yet and none of its jobs has succeeded.
<1>3. /\ \A n \in Node : ~ Touches(r, n) /\ worker[r][n] # "success"
      /\ job[r]["whole_test"] # "success"
  BY <1>2 DEF StacksInOrder, ResultInv, Selected
<1>4. ResultInv'
  BY <1>1, <1>2, <1>3 DEF ResultInv, Selected, NodeDone
<1>5. StacksInOrder'
  <2>1. ASSUME NEW q \in Run, NEW n \in Node, Touches(q, n)'
        PROVE  q # r /\ Touches(q, n)
    BY <1>1, <1>3, <2>1 DEF Touches
  <2>2. QED
    BY <1>1, <1>2, <2>1 DEF StacksInOrder, Selected
<1>6. QED
  BY <1>4, <1>5

LEMMA BarrierKeepsOrder ==
  ASSUME TypeOK, AdmissionInv, ResultInv, StacksInOrder,
         NEW r \in Run, Barrier(r, "test")
  PROVE  ResultInv' /\ StacksInOrder'
<1>1. /\ UNCHANGED <<contract, worker, passed, completed, applies>>
      /\ \A q \in Run :
           q # r => job'[q]["whole_test"] = job[q]["whole_test"]
  BY DEF Barrier, SetJob, TypeOK, RootJob
<1>2. contract[r] # NoContract
  BY DEF Barrier, JobAllowed, Admitted, AdmissionInv
<1>3. contract[r] \in Contract
  BY <1>2 DEF TypeOK
<1>4. \A s \in contract[r].scopes : worker[r][<<"test", s>>] = "success"
  BY <1>3 DEF Barrier, AccountSucceeded, WorkerSucceeded, Contract
<1>5. \A s \in contract[r].scopes : NodeDone(r, <<"test", s>>)
  BY <1>3, <1>4 DEF ResultInv, Contract, Node, Account
<1>6. ResultInv'
  BY <1>1, <1>2, <1>5 DEF ResultInv, Selected, NodeDone
<1>7. StacksInOrder'
  BY <1>1 DEF StacksInOrder, Touches, Selected
<1>8. QED
  BY <1>6, <1>7

\* The condition of a worker establishes that everything before it is done.
LEMMA AllowedInOrder ==
  ASSUME TypeOK, AdmissionInv, ResultInv, NEW r \in Run, NEW n \in Node,
         WorkerAllowed(r, n)
  PROVE  Selected(r, n) /\ Prior(r, n)
<1>1. contract[r] # NoContract /\ contract[r] \in Contract
  BY DEF WorkerAllowed, Admitted, AdmissionInv, TypeOK
<1>2. n \in Account \X Scope /\ n = <<n[1], n[2]>>
  BY DEF Node
<1>3. Selected(r, n)
  BY <1>1, <1>2 DEF WorkerAllowed, Selected, Workers, Environments, Account
<1>4. ASSUME NEW x \in Schedule(contract[r]), NodeBefore(x[1], n)
      PROVE  x \in completed[r]
  <2>1. PICK a \in Environments(contract[r]), s \in contract[r].scopes,
             o \in Operations(contract[r]) : x = <<<<a, s>>, o>>
    BY DEF Schedule, Workers
  <2>2. a \in Account /\ s \in Scope
    BY <1>1, <2>1 DEF Environments, Account, Contract
  <2>3. CASE a = "test" /\ n[1] = "prod"
    <3>1. job[r]["whole_test"] = "success"
      BY <2>3 DEF WorkerAllowed
    <3>2. NodeDone(r, <<"test", s>>)
      BY <3>1 DEF ResultInv
    <3>3. QED
      BY <2>1, <2>3, <3>2 DEF NodeDone
  <2>4. CASE a = n[1] /\ s < n[2]
    <3>1. worker[r][<<a, s>>] = "success"
      BY <2>2, <2>4 DEF WorkerAllowed
    <3>2. NodeDone(r, <<a, s>>)
      BY <2>2, <3>1 DEF ResultInv, Node
    <3>3. QED
      BY <2>1, <3>2 DEF NodeDone
  <2>5. QED
    BY <1>4, <2>1, <2>3, <2>4 DEF NodeBefore, AccountBefore
<1>5. QED
  BY <1>3, <1>4 DEF Prior

LEMMA StartKeepsOrder ==
  ASSUME TypeOK, AdmissionInv, ResultInv, StacksInOrder,
         NEW r \in Run, NEW n \in Node, StartWorker(r, n)
  PROVE  ResultInv' /\ StacksInOrder'
<1>1. UNCHANGED <<contract, passed, completed, applies, job>>
  BY DEF StartWorker
<1>2. \A q \in Run, m \in Node :
        \/ worker'[q][m] = worker[q][m]
        \/ worker'[q][m] = "cancelled"
        \/ q = r /\ m = n /\ worker'[q][m] = "queued"
  BY DEF StartWorker, TypeOK
<1>3. Selected(r, n) /\ Prior(r, n)
  BY AllowedInOrder DEF StartWorker
<1>4. ResultInv'
  BY <1>1, <1>2 DEF ResultInv, Selected, NodeDone
<1>5. StacksInOrder'
  <2>1. ASSUME NEW q \in Run, NEW m \in Node, Touches(q, m)'
        PROVE  Touches(q, m) \/ (q = r /\ m = n)
    BY <1>1, <1>2, <2>1 DEF Touches, Holding
  <2>2. QED
    BY <1>1, <1>3, <2>1 DEF StacksInOrder, Selected, Prior
<1>6. QED
  BY <1>4, <1>5

\* Completing a step of a stack the worker holds.
LEMMA PassKeepsOrder ==
  ASSUME TypeOK, ResultInv, StacksInOrder,
         NEW r \in Run, NEW n \in Node, NEW g \in Stage,
         worker[r][n] \in Holding, Pass(r, n, g),
         UNCHANGED <<contract, job>>,
         \A q \in Run, m \in Node :
           /\ worker'[q][m] \in Busy => worker[q][m] \in Busy
           /\ worker'[q][m] = "success" => worker[q][m] = "success"
           /\ applies'[q][m] > 0 => applies[q][m] > 0 \/ (q = r /\ m = n)
  PROVE  ResultInv' /\ StacksInOrder'
<1>1. \A q \in Run : completed[q] \subseteq completed'[q]
  BY DEF Pass, TypeOK
<1>2. \A q \in Run : \A x \in completed'[q] :
        x \in completed[q] \/ (q = r /\ g \in Operation /\ x = <<n, g>>)
  BY DEF Pass, TypeOK
<1>3. \A q \in Run, m \in Node : \A o \in passed'[q][m] :
        o \in passed[q][m] \/ (q = r /\ m = n /\ o = g)
  BY DEF Pass, TypeOK
<1>4. g \in Operation => <<n, g>> \in completed'[r]
  BY DEF Pass, TypeOK
<1>5. Touches(r, n)
  BY DEF Touches
<1>6. ResultInv'
  <2>1. \A q \in Run, m \in Node :
          worker'[q][m] = "success" => (Selected(q, m) /\ NodeDone(q, m))'
    BY <1>1 DEF ResultInv, Selected, NodeDone
  <2>2. \A q \in Run, m \in Node : \A o \in Operation :
          o \in passed'[q][m] => <<m, o>> \in completed'[q]
    BY <1>1, <1>3, <1>4 DEF ResultInv
  <2>3. \A q \in Run : job'[q]["whole_test"] = "success" =>
          /\ contract'[q] # NoContract
          /\ \A s \in contract'[q].scopes : NodeDone(q, <<"test", s>>)'
    BY <1>1 DEF ResultInv, NodeDone
  <2>4. QED
    BY <2>1, <2>2, <2>3 DEF ResultInv
<1>7. StacksInOrder'
  <2>1. ASSUME NEW q \in Run, NEW m \in Node, Touches(q, m)'
        PROVE  Touches(q, m)
    BY <1>2, <1>5, <2>1 DEF Touches, Busy
  <2>2. QED
    BY <1>1, <2>1 DEF StacksInOrder, Selected
<1>8. QED
  BY <1>6, <1>7

LEMMA RunStageKeepsOrder ==
  ASSUME TypeOK, ResultInv, StacksInOrder,
         NEW r \in Run, NEW n \in Node, NEW g \in Stage, RunStage(r, n, g)
  PROVE  ResultInv' /\ StacksInOrder'
<1>1. worker[r][n] \in Holding
  BY DEF RunStage, CanRun, Holding
<1>2. Pass(r, n, g) /\ UNCHANGED <<contract, job, worker, applies>>
  BY DEF RunStage
<1>3. QED
  BY <1>1, <1>2, PassKeepsOrder

LEMMA ApplyKeepsOrder ==
  ASSUME TypeOK, ResultInv, StacksInOrder,
         NEW r \in Run, NEW n \in Node, ApplyPlan(r, n)
  PROVE  ResultInv' /\ StacksInOrder'
<1>1. worker[r][n] \in Holding /\ "apply" \in Stage
  BY DEF ApplyPlan, Holding, Stage
<1>2. UNCHANGED <<contract, job>>
  BY DEF ApplyPlan
<1>3. \A q \in Run, m \in Node :
        worker'[q][m] = IF q = r /\ m = n THEN "running" ELSE worker[q][m]
  BY SetWorkerEffect DEF ApplyPlan
<1>4. \A q \in Run, m \in Node :
        /\ worker'[q][m] \in Busy => worker[q][m] \in Busy
        /\ worker'[q][m] = "success" => worker[q][m] = "success"
  BY <1>1, <1>3 DEF Busy
<1>5. \A q \in Run, m \in Node :
        applies'[q][m] > 0 => applies[q][m] > 0 \/ (q = r /\ m = n)
  BY DEF ApplyPlan, TypeOK
<1>6. CASE Pass(r, n, "apply")
  BY <1>1, <1>2, <1>4, <1>5, <1>6, PassKeepsOrder
<1>7. CASE UNCHANGED <<passed, completed>>
  <2>1. ResultInv'
    BY <1>2, <1>4, <1>7 DEF ResultInv, Selected, NodeDone
  <2>2. ASSUME NEW q \in Run, NEW m \in Node, Touches(q, m)'
        PROVE  Touches(q, m)
    BY <1>1, <1>4, <1>5, <1>7, <2>2 DEF Touches, Busy
  <2>3. QED
    BY <1>2, <1>7, <2>1, <2>2 DEF StacksInOrder, Selected
<1>8. QED
  BY <1>6, <1>7 DEF ApplyPlan

\* A receipt is issued for a worker whose whole schedule is completed.
LEMMA ReceiptKeepsOrder ==
  ASSUME TypeOK, ResultInv, StacksInOrder,
         NEW r \in Run, NEW n \in Node, IssueReceipt(r, n)
  PROVE  ResultInv' /\ StacksInOrder'
<1>1. UNCHANGED <<contract, job, passed, completed, applies>>
  BY DEF IssueReceipt
<1>2. \A q \in Run, m \in Node :
        worker'[q][m] = IF q = r /\ m = n THEN "success" ELSE worker[q][m]
  BY SetWorkerEffect DEF IssueReceipt
<1>3. Touches(r, n)
  BY DEF IssueReceipt, Settled, Touches, Holding
<1>4. Selected(r, n)
  BY <1>3 DEF StacksInOrder
<1>5. Operations(contract[r]) \subseteq Required(r) \cap Operation
  BY DEF Operations, Required, Operation, Stage
<1>6. NodeDone(r, n)
  BY <1>5 DEF IssueReceipt, ResultInv, NodeDone
<1>7. ResultInv'
  BY <1>1, <1>2, <1>4, <1>6 DEF ResultInv, Selected, NodeDone
<1>8. StacksInOrder'
  <2>1. ASSUME NEW q \in Run, NEW m \in Node, Touches(q, m)'
        PROVE  Touches(q, m)
    BY <1>1, <1>2, <2>1 DEF Touches, Holding
  <2>2. QED
    BY <1>1, <2>1 DEF StacksInOrder, Selected
<1>9. QED
  BY <1>7, <1>8

OrderInv == ResultInv /\ StacksInOrder

LEMMA OrderStep ==
  TypeOK /\ AdmissionIInv /\ OrderInv /\ [Next]_vars => OrderInv'
<1> SUFFICES ASSUME TypeOK, AdmissionIInv, OrderInv, [Next]_vars
             PROVE  OrderInv'
  OBVIOUS
<1>1. AdmissionInv /\ ResultInv /\ StacksInOrder
  BY DEF AdmissionIInv, OrderInv
<1>2. CASE OrderFrame
  BY <1>1, <1>2, FrameKeepsOrder DEF OrderInv
<1>3. ASSUME NEW r \in Run, PersistContract(r) \/ Barrier(r, "test")
      PROVE  OrderInv'
  BY <1>1, <1>3, PersistKeepsOrder, BarrierKeepsOrder DEF OrderInv
<1>4. ASSUME NEW r \in Run, NEW n \in Node,
             \/ StartWorker(r, n) \/ ApplyPlan(r, n) \/ IssueReceipt(r, n)
             \/ \E g \in Stage : RunStage(r, n, g)
      PROVE  OrderInv'
  BY <1>1, <1>4, StartKeepsOrder, ApplyKeepsOrder, ReceiptKeepsOrder,
     RunStageKeepsOrder DEF OrderInv
<1>5. QED
  BY <1>2, <1>3, <1>4, OrderSteps

LEMMA InitOrder == Init => OrderInv
<1> SUFFICES ASSUME Init PROVE OrderInv
  OBVIOUS
<1>1. ResultInv
  BY DEF Init, ResultInv, RootJob
<1>2. StacksInOrder
  BY DEF Init, StacksInOrder, Touches, Holding
<1>3. QED
  BY <1>1, <1>2 DEF OrderInv

LEMMA OrderInvariant == Spec => []OrderInv
<1>1. QED
  BY InitOrder, OrderStep, TypeCorrect, AdmissionInvariant, PTL DEF Spec

\* No failure, cancellation or re-run lets a run touch a stack before its
\* schedule is complete on every stack before it: in particular nothing of
\* PROD before all of TEST.
THEOREM StacksTouchedInOrder == Spec => []StacksInOrder
<1>1. OrderInv => StacksInOrder
  BY DEF OrderInv
<1>2. QED
  BY <1>1, OrderInvariant, PTL

-----------------------------------------------------------------------------
(***************************************************************************)
(* The stages of the workers, in two parts.                                *)
(*                                                                         *)
(* The first: a run begins to change a stack at most once, and a re-run    *)
(* attempt changes nothing at all.  The two support each other: within the *)
(* first attempt the result of the apply job, success or failure, keeps it *)
(* from starting again; a later attempt forgets the failure, and is        *)
(* refused by the recheck.  Once main has moved, a run changes at most one *)
(* more stack: every recheck compares the revision of the run with main,   *)
(* so the only apply that can come late is one whose last recheck has      *)
(* already passed.  There is one of these at a time, because in the first  *)
(* attempt a worker only starts when every worker before it has ended.     *)
(*                                                                         *)
(* The second: the graph of jobs implements the schedule.  Admission is    *)
(* Admit, a stage that completes a step of the schedule is Perform, the    *)
(* publication is Promote, and every other step is a stutter.              *)
(***************************************************************************)
Applying == {"rechecked", "applying"}

Tried(r, n) == "apply" \in passed[r][n] \cup failed[r][n]

ApplyInv ==
  \A r \in Run, n \in Node :
    /\ worker[r][n] \in Applying =>
         attempt[r] = 1 /\ applies[r][n] = 0 /\ ~ Tried(r, n)
    /\ attempt[r] = 1 /\ applies[r][n] > 0 => Tried(r, n)
    /\ applies[r][n] <= 1

\* Steps that neither enter an apply job nor give it a result.
ApplyFrame ==
  /\ UNCHANGED <<attempt, applies>>
  /\ \A q \in Run, m \in Node :
       /\ worker'[q][m] \in Applying => worker[q][m] \in Applying
       /\ ("apply" \in passed'[q][m] \cup failed'[q][m])
            <=> ("apply" \in passed[q][m] \cup failed[q][m])

LEMMA FrameKeepsApply ==
  ASSUME ApplyInv, ApplyFrame
  PROVE  ApplyInv'
BY DEF ApplyInv, ApplyFrame, Tried

LEMMA WorkerEffect ==
  ASSUME TypeOK, NEW r \in Run, NEW n \in Node, NEW s, SetWorker(r, n, s)
  PROVE  \A q \in Run, m \in Node :
           worker'[q][m] = IF q = r /\ m = n THEN s ELSE worker[q][m]
BY DEF TypeOK, SetWorker

LEMMA PassEffect ==
  ASSUME TypeOK, NEW r \in Run, NEW n \in Node, NEW g \in Stage, Pass(r, n, g)
  PROVE  \A q \in Run, m \in Node :
           passed'[q][m] = IF q = r /\ m = n THEN passed[q][m] \cup {g}
                           ELSE passed[q][m]
BY DEF TypeOK, Pass

LEMMA FailEffect ==
  ASSUME TypeOK, NEW r \in Run, NEW n \in Node, NEW g \in Stage, Fail(r, n, g)
  PROVE  \A q \in Run, m \in Node :
           failed'[q][m] = IF q = r /\ m = n THEN failed[q][m] \cup {g}
                           ELSE failed[q][m]
BY DEF TypeOK, Fail

LEMMA ApplySteps ==
  ASSUME TypeOK, [Next]_vars
  PROVE  \/ ApplyFrame
         \/ \E r \in Run :
              \/ \E all \in BOOLEAN : Rerun(r, all)
              \/ \E n \in Node :
                   \/ FailStage(r, n, "apply")
                   \/ CheckApply(r, n) \/ ApplyPlan(r, n) \/ AbortApply(r, n)
<1> DEFINE Quiet == UNCHANGED <<attempt, applies, passed, failed, worker>>
<1>1. Quiet => ApplyFrame
  BY DEF ApplyFrame
<1>2. CASE UNCHANGED vars
  BY <1>1, <1>2 DEF vars
<1>3. ASSUME NEW r \in Run,
             Dispatch(r) \/ StartRun(r) \/ CancelRun(r) \/ FinishRun(r)
      PROVE  ApplyFrame
  BY <1>1, <1>3 DEF Dispatch, StartRun, CancelRun, FinishRun
<1>4. ASSUME NEW r \in Run,
             \/ CheckRequest(r) \/ ListClaims(r) \/ PostClaim(r)
             \/ PersistContract(r) \/ FailPreflight(r)
             \/ \E j \in RootJob : SkipJob(r, j) \/ FailJob(r, j)
             \/ ValidateInputs(r) \/ \E a \in Account : Barrier(r, a)
             \/ PreparePromotion(r) \/ PublishPromotion(r)
      PROVE  ApplyFrame
  BY <1>1, <1>4 DEF CheckRequest, ListClaims, PostClaim, PersistContract,
       FailPreflight, SkipJob, FailJob, ValidateInputs, Barrier,
       PreparePromotion, PublishPromotion
<1>5. ASSUME NEW r \in Run, NEW n \in Node, NEW g \in Stage,
             g # "apply", RunStage(r, n, g) \/ FailStage(r, n, g)
      PROVE  ApplyFrame
  <2>1. UNCHANGED <<attempt, applies, worker>>
    BY <1>5 DEF RunStage, FailStage
  <2>2. CASE RunStage(r, n, g)
    <3>1. UNCHANGED failed
      BY <2>2 DEF RunStage
    <3>2. Pass(r, n, g)
      BY <2>2 DEF RunStage
    <3>3. \A q \in Run, m \in Node :
            passed'[q][m] = IF q = r /\ m = n THEN passed[q][m] \cup {g}
                            ELSE passed[q][m]
      BY <3>2, PassEffect
    <3>4. \A q \in Run, m \in Node :
            "apply" \in passed'[q][m] <=> "apply" \in passed[q][m]
      BY <1>5, <3>3
    <3>5. QED
      BY <2>1, <3>1, <3>4 DEF ApplyFrame
  <2>3. CASE FailStage(r, n, g)
    <3>1. UNCHANGED passed
      BY <2>3 DEF FailStage
    <3>2. Fail(r, n, g)
      BY <2>3 DEF FailStage
    <3>3. \A q \in Run, m \in Node :
            failed'[q][m] = IF q = r /\ m = n THEN failed[q][m] \cup {g}
                            ELSE failed[q][m]
      BY <3>2, FailEffect
    <3>4. \A q \in Run, m \in Node :
            "apply" \in failed'[q][m] <=> "apply" \in failed[q][m]
      BY <1>5, <3>3
    <3>5. QED
      BY <2>1, <3>1, <3>4 DEF ApplyFrame
  <2>4. QED
    BY <1>5, <2>2, <2>3
<1>6. ASSUME NEW r \in Run, NEW n \in Node,
             \/ SkipWorker(r, n) \/ AcquireStack(r, n) \/ CancelQueued(r, n)
             \/ RevalidatePull(r, n) \/ IssueReceipt(r, n)
             \/ WithholdReceipt(r, n)
      PROVE  ApplyFrame
  <2>1. /\ UNCHANGED <<attempt, applies, passed, failed>>
        /\ \E s \in WorkerState :
             SetWorker(r, n, s) /\ (s \in Applying => worker[r][n] \in Applying)
    BY <1>6 DEF SkipWorker, AcquireStack, CancelQueued, RevalidatePull,
         IssueReceipt, WithholdReceipt, WorkerState, Terminal, Holding, Applying
  <2>2. \A q \in Run, m \in Node :
          worker'[q][m] \in Applying => worker[q][m] \in Applying
    BY <2>1, WorkerEffect
  <2>3. QED
    BY <2>1, <2>2 DEF ApplyFrame
<1>7. ASSUME NEW n \in Node,
             OutsideQueues(n) \/ \E r \in Run : StartWorker(r, n)
      PROVE  ApplyFrame
  <2>1. UNCHANGED <<attempt, applies, passed, failed>>
    BY <1>7 DEF OutsideQueues, StartWorker
  <2>2. \A q \in Run, m \in Node :
          \/ worker'[q][m] = worker[q][m]
          \/ worker'[q][m] \in {"cancelled", "queued"}
    <3>1. CASE OutsideQueues(n)
      BY <3>1 DEF OutsideQueues, TypeOK
    <3>2. ASSUME NEW r \in Run, StartWorker(r, n)
          PROVE  \A q \in Run, m \in Node :
                   \/ worker'[q][m] = worker[q][m]
                   \/ worker'[q][m] \in {"cancelled", "queued"}
      BY <3>2 DEF StartWorker, TypeOK
    <3>3. QED
      BY <1>7, <3>1, <3>2
  <2>3. QED
    BY <2>1, <2>2 DEF ApplyFrame, Applying
<1>8. CASE \/ AdvanceMain \/ \E n \in Node : OutsideDeploys(n)
           \/ \E r \in Run, f \in Fickle : ChangeFact(r, f)
  BY <1>1, <1>8 DEF AdvanceMain, OutsideDeploys, ChangeFact
<1>9. ASSUME NEW r \in Run, NEW n \in Node, RunStage(r, n, "apply")
      PROVE  FALSE
  BY <1>9 DEF RunStage
<1>10. QED
  BY <1>2, <1>3, <1>4, <1>5, <1>6, <1>7, <1>8, <1>9 DEF Next, Progress, Disturb

LEMMA ApplyStep ==
  ASSUME TypeOK, ApplyInv, [Next]_vars
  PROVE  ApplyInv'
<1>1. CASE ApplyFrame
  BY <1>1, FrameKeepsApply
<1>2. ASSUME NEW r \in Run, NEW all \in BOOLEAN, Rerun(r, all)
      PROVE  ApplyInv'
  <2>1. attempt'[r] # 1
    <3>1. attempt[r] \in Nat \ {0} /\ attempt'[r] = attempt[r] + 1
      BY <1>2 DEF Rerun, TypeOK
    <3>2. QED
      BY <3>1
  <2>2. /\ applies' = applies
        /\ \A n \in Node : worker'[r][n] \notin Applying
    BY <1>2 DEF Rerun, TypeOK, Applying
  <2>3. \A q \in Run : q # r =>
          /\ attempt'[q] = attempt[q]
          /\ worker'[q] = worker[q]
          /\ passed'[q] = passed[q]
          /\ failed'[q] = failed[q]
    BY <1>2 DEF Rerun, TypeOK
  <2>4. QED
    BY <2>1, <2>2, <2>3 DEF ApplyInv, Tried
<1>3. ASSUME NEW r \in Run, NEW n \in Node,
             FailStage(r, n, "apply") \/ AbortApply(r, n)
      PROVE  ApplyInv'
  <2>1. UNCHANGED <<attempt, applies, passed>>
    BY <1>3 DEF FailStage, AbortApply
  <2>2. \A q \in Run, m \in Node :
          failed'[q][m] = IF q = r /\ m = n THEN failed[q][m] \cup {"apply"}
                          ELSE failed[q][m]
    <3>1. Fail(r, n, "apply") /\ "apply" \in Stage
      BY <1>3 DEF FailStage, AbortApply, Stage
    <3>2. QED
      BY <3>1, FailEffect
  <2>3. /\ worker'[r][n] = "running"
        /\ \A q \in Run, m \in Node :
             q # r \/ m # n => worker'[q][m] = worker[q][m]
    <3>1. CASE FailStage(r, n, "apply")
      BY <3>1 DEF FailStage, CanRun
    <3>2. CASE AbortApply(r, n)
      BY <3>2, WorkerEffect DEF AbortApply
    <3>3. QED
      BY <1>3, <3>1, <3>2
  <2>4. \A q \in Run, m \in Node :
          /\ worker'[q][m] \in Applying =>
               worker[q][m] \in Applying /\ failed'[q][m] = failed[q][m]
          /\ failed[q][m] \subseteq failed'[q][m]
    BY <2>2, <2>3 DEF Applying
  <2>5. QED
    BY <2>1, <2>4 DEF ApplyInv, Tried
<1>4. ASSUME NEW r \in Run, NEW n \in Node, CheckApply(r, n)
      PROVE  ApplyInv'
  <2>1. UNCHANGED <<attempt, applies, passed, failed>>
    BY <1>4 DEF CheckApply
  <2>2. \A q \in Run, m \in Node :
          worker'[q][m] = IF q = r /\ m = n THEN "rechecked" ELSE worker[q][m]
    BY <1>4, WorkerEffect DEF CheckApply
  <2>3. attempt[r] = 1 /\ ~ Tried(r, n)
    BY <1>4 DEF CheckApply, CanRun, RecheckOK, FirstAttempt, Tried
  <2>4. applies[r][n] = 0
    <3>1. applies[r][n] \in Nat
      BY DEF TypeOK
    <3>2. QED
      BY <2>3, <3>1 DEF ApplyInv
  <2>5. QED
    BY <2>1, <2>2, <2>3, <2>4 DEF ApplyInv, Tried
<1>5. ASSUME NEW r \in Run, NEW n \in Node, ApplyPlan(r, n)
      PROVE  ApplyInv'
  <2>1. UNCHANGED attempt
    BY <1>5 DEF ApplyPlan
  <2>2. \A q \in Run, m \in Node :
          worker'[q][m] = IF q = r /\ m = n THEN "running" ELSE worker[q][m]
    BY <1>5, WorkerEffect DEF ApplyPlan
  <2>3. applies'[r][n] = 1
    <3>1. applies'[r][n] = applies[r][n] + 1
      BY <1>5 DEF ApplyPlan, TypeOK
    <3>2. applies[r][n] = 0
      BY <1>5 DEF ApplyPlan, ApplyInv, Applying
    <3>3. QED
      BY <3>1, <3>2
  <2>4. "apply" \in passed'[r][n] \cup failed'[r][n]
    BY <1>5 DEF ApplyPlan, Pass, Fail, TypeOK
  <2>5. \A q \in Run, m \in Node : q # r \/ m # n =>
          /\ applies'[q][m] = applies[q][m]
          /\ passed'[q][m] = passed[q][m]
          /\ failed'[q][m] = failed[q][m]
    BY <1>5 DEF ApplyPlan, Pass, Fail, TypeOK
  <2>6. QED
    BY <2>1, <2>2, <2>3, <2>4, <2>5 DEF ApplyInv, Tried, Applying
<1>6. QED
  BY <1>1, <1>2, <1>3, <1>4, <1>5, ApplySteps

LEMMA ApplyInvariant == Spec => []ApplyInv
<1>1. Init => ApplyInv
  BY DEF Init, ApplyInv, Tried, Applying
<1>2. TypeOK /\ ApplyInv /\ [Next]_vars => ApplyInv'
  BY ApplyStep
<1>3. QED
  BY <1>1, <1>2, TypeCorrect, PTL DEF Spec

\* However its apply job ends and however often the run is re-run, a run
\* begins to change a stack at most once.
THEOREM StackAppliedAtMostOnce == Spec => []AtMostOneApply
<1>1. ApplyInv => AtMostOneApply
  BY DEF ApplyInv, AtMostOneApply
<1>2. QED
  BY <1>1, ApplyInvariant, PTL

LEMMA RerunStep ==
  ASSUME TypeOK, ApplyInv, [Next]_vars, NEW r \in Run, attempt[r] > 1
  PROVE  /\ completed'[r] = completed[r]
         /\ applies'[r] = applies[r]
         /\ r \in promoted' => r \in promoted
<1>0. attempt[r] # 1
  <2>1. attempt[r] \in Nat
    BY DEF TypeOK
  <2>2. QED
    BY <2>1
<1>1. CASE UNCHANGED <<completed, applies, promoted>>
  BY <1>1
<1>2. ASSUME NEW q \in Run, NEW n \in Node, NEW g \in Stage, RunStage(q, n, g)
      PROVE  completed'[r] = completed[r] /\ UNCHANGED <<applies, promoted>>
  <2>1. CASE q = r
    <3>1. g \notin Operation
      BY <1>0, <1>2, <2>1 DEF RunStage, Rechecks, RecheckOK, FirstAttempt, Operation
    <3>2. QED
      BY <1>2, <2>1, <3>1 DEF RunStage, Pass, TypeOK
  <2>2. CASE q # r
    BY <1>2, <2>2 DEF RunStage, Pass, TypeOK
  <2>3. QED
    BY <2>1, <2>2
<1>3. ASSUME NEW q \in Run, NEW n \in Node, ApplyPlan(q, n)
      PROVE  /\ completed'[r] = completed[r] /\ applies'[r] = applies[r]
             /\ UNCHANGED promoted
  <2>1. q # r
    BY <1>0, <1>3 DEF ApplyPlan, ApplyInv, Applying
  <2>2. QED
    BY <1>3, <2>1 DEF ApplyPlan, Pass, TypeOK
<1>4. ASSUME NEW q \in Run, PublishPromotion(q)
      PROVE  UNCHANGED <<completed, applies>> /\ (r \in promoted' => r \in promoted)
  <2>1. q # r
    BY <1>0, <1>4 DEF PublishPromotion, ProofHolds, RecheckOK, FirstAttempt
  <2>2. QED
    BY <1>4, <2>1 DEF PublishPromotion
<1>5. \/ UNCHANGED <<completed, applies, promoted>>
      \/ \E q \in Run :
           \/ PublishPromotion(q)
           \/ \E n \in Node :
                ApplyPlan(q, n) \/ \E g \in Stage : RunStage(q, n, g)
  BY DEF Next, Progress, Disturb, vars, Dispatch, StartRun, CancelRun,
     FinishRun, Rerun, ChangeFact, CheckRequest, ListClaims, PostClaim,
     PersistContract, FailPreflight, SkipJob, FailJob, ValidateInputs, Barrier,
     PreparePromotion, StartWorker, SkipWorker, AcquireStack, CancelQueued,
     FailStage, CheckApply, RevalidatePull, AbortApply, IssueReceipt,
     WithholdReceipt, AdvanceMain, OutsideQueues, OutsideDeploys
<1>6. QED
  BY <1>1, <1>2, <1>3, <1>4, <1>5

\* A re-run attempt never completes a step, changes a stack or publishes.
THEOREM RerunsDeployNothing == Spec => RerunsNeverDeploy
<1>1. TypeOK /\ ApplyInv /\ [Next]_vars =>
        [\A r \in Run : attempt[r] > 1 =>
           /\ completed'[r] = completed[r]
           /\ applies'[r] = applies[r]
           /\ r \in promoted' => r \in promoted]_vars
  BY RerunStep
<1>2. QED
  BY <1>1, TypeCorrect, ApplyInvariant, PTL DEF Spec, RerunsNeverDeploy

-----------------------------------------------------------------------------
(* At most one late apply. *)

Occupied == {"queued"} \cup Holding

ChainInv ==
  \A r \in Run : attempt[r] = 1 =>
    /\ \A m, n \in Node :
         worker[r][n] \in Occupied /\ NodeBefore(m, n) => worker[r][m] \in Terminal
    /\ job[r]["whole_test"] \in Terminal => AccountSettled(r, "test")

ChainFrame ==
  /\ UNCHANGED attempt
  /\ \A q \in Run, m \in Node :
       /\ worker[q][m] \in Terminal => worker'[q][m] \in Terminal
       /\ worker'[q][m] \in Occupied => worker[q][m] \in Occupied
  /\ \A q \in Run :
       job'[q]["whole_test"] \in Terminal => job[q]["whole_test"] \in Terminal

LEMMA FrameKeepsChain ==
  ASSUME ChainInv, ChainFrame
  PROVE  ChainInv'
<1>1. ASSUME NEW r \in Run, attempt'[r] = 1
      PROVE  \A m, n \in Node :
               worker'[r][n] \in Occupied /\ NodeBefore(m, n) =>
                 worker'[r][m] \in Terminal
  BY <1>1 DEF ChainInv, ChainFrame
<1>2. ASSUME NEW r \in Run, attempt'[r] = 1, job'[r]["whole_test"] \in Terminal
      PROVE  AccountSettled(r, "test")'
  <2>1. AccountSettled(r, "test")
    BY <1>2 DEF ChainInv, ChainFrame
  <2>2. \A s \in Scope : <<"test", s>> \in Node
    BY DEF Node, Account
  <2>3. QED
    BY <2>1, <2>2 DEF AccountSettled, ChainFrame
<1>3. QED
  BY <1>1, <1>2 DEF ChainInv

LEMMA JobEffect ==
  ASSUME TypeOK, NEW r \in Run, NEW j \in RootJob, NEW s, SetJob(r, j, s)
  PROVE  \A q \in Run, i \in RootJob :
           job'[q][i] = IF q = r /\ i = j THEN s ELSE job[q][i]
BY DEF TypeOK, SetJob

LEMMA ChainSteps ==
  ASSUME TypeOK, [Next]_vars
  PROVE  \/ ChainFrame
         \/ \E r \in Run :
              \/ \E all \in BOOLEAN : Rerun(r, all)
              \/ SkipJob(r, "whole_test") \/ FailJob(r, "whole_test")
              \/ Barrier(r, "test")
              \/ \E n \in Node : StartWorker(r, n)
<1> DEFINE Quiet == UNCHANGED <<attempt, worker, job>>
<1>1. Quiet => ChainFrame
  BY DEF ChainFrame
<1>2. CASE UNCHANGED vars
  BY <1>1, <1>2 DEF vars
<1>3. ASSUME NEW r \in Run,
             Dispatch(r) \/ StartRun(r) \/ CancelRun(r) \/ FinishRun(r)
      PROVE  ChainFrame
  BY <1>1, <1>3 DEF Dispatch, StartRun, CancelRun, FinishRun
<1>4. ASSUME NEW r \in Run,
             \/ CheckRequest(r) \/ ListClaims(r) \/ PostClaim(r)
             \/ PersistContract(r) \/ FailPreflight(r)
             \/ \E j \in RootJob \ {"whole_test"} : SkipJob(r, j) \/ FailJob(r, j)
             \/ ValidateInputs(r) \/ Barrier(r, "prod")
             \/ PreparePromotion(r) \/ PublishPromotion(r)
      PROVE  ChainFrame
  <2>1. /\ UNCHANGED <<attempt, worker>>
        /\ \E j \in RootJob \ {"whole_test"}, s \in JobState : SetJob(r, j, s)
    BY <1>4 DEF CheckRequest, ListClaims, PostClaim, PersistContract,
         FailPreflight, SkipJob, FailJob, ValidateInputs, Barrier,
         PreparePromotion, PublishPromotion, RootJob, JobState, Terminal
  <2>2. PICK j \in RootJob \ {"whole_test"}, s \in JobState : SetJob(r, j, s)
    BY <2>1
  <2>3. \A q \in Run, i \in RootJob :
          job'[q][i] = IF q = r /\ i = j THEN s ELSE job[q][i]
    BY <2>2, JobEffect
  <2>4. QED
    BY <2>1, <2>3 DEF ChainFrame, RootJob
<1>5. ASSUME NEW r \in Run, NEW n \in Node, NEW g \in Stage,
             RunStage(r, n, g) \/ FailStage(r, n, g)
      PROVE  ChainFrame
  BY <1>1, <1>5 DEF RunStage, FailStage
<1>6. ASSUME NEW r \in Run, NEW n \in Node,
             \/ SkipWorker(r, n) \/ AcquireStack(r, n) \/ CancelQueued(r, n)
             \/ CheckApply(r, n) \/ RevalidatePull(r, n)
             \/ ApplyPlan(r, n) \/ AbortApply(r, n)
             \/ IssueReceipt(r, n) \/ WithholdReceipt(r, n)
      PROVE  ChainFrame
  <2>1. /\ UNCHANGED <<attempt, job>>
        /\ worker[r][n] \notin Terminal
        /\ \E s \in WorkerState :
             SetWorker(r, n, s) /\ (s \in Occupied => worker[r][n] \in Occupied)
    BY <1>6 DEF SkipWorker, WorkerReady, AcquireStack, CancelQueued,
         CheckApply, CanRun, RevalidatePull, ApplyPlan, AbortApply,
         IssueReceipt, WithholdReceipt, Settled, WorkerState, Terminal,
         Holding, Occupied
  <2>2. PICK s \in WorkerState :
          SetWorker(r, n, s) /\ (s \in Occupied => worker[r][n] \in Occupied)
    BY <2>1
  <2>3. \A q \in Run, m \in Node :
          worker'[q][m] = IF q = r /\ m = n THEN s ELSE worker[q][m]
    BY <2>2, WorkerEffect
  <2>4. QED
    BY <2>1, <2>2, <2>3 DEF ChainFrame
<1>7. ASSUME NEW n \in Node, OutsideQueues(n)
      PROVE  ChainFrame
  <2>1. \A q \in Run, m \in Node :
          worker'[q][m] = worker[q][m] \/ worker'[q][m] = "cancelled"
    BY <1>7 DEF OutsideQueues, TypeOK
  <2>2. QED
    BY <1>7, <2>1 DEF OutsideQueues, ChainFrame, Holding, Occupied, Terminal
<1>8. CASE \/ AdvanceMain \/ \E n \in Node : OutsideDeploys(n)
           \/ \E r \in Run, f \in Fickle : ChangeFact(r, f)
  BY <1>1, <1>8 DEF AdvanceMain, OutsideDeploys, ChangeFact
<1>9. QED
  BY <1>2, <1>3, <1>4, <1>5, <1>6, <1>7, <1>8 DEF Next, Progress, Disturb, Account

LEMMA ChainStep ==
  ASSUME TypeOK, ChainInv, [Next]_vars
  PROVE  ChainInv'
<1>1. CASE ChainFrame
  BY <1>1, FrameKeepsChain
<1>2. ASSUME NEW r \in Run, NEW all \in BOOLEAN, Rerun(r, all)
      PROVE  ChainInv'
  <2>1. attempt'[r] # 1
    <3>1. attempt[r] \in Nat \ {0} /\ attempt'[r] = attempt[r] + 1
      BY <1>2 DEF Rerun, TypeOK
    <3>2. QED
      BY <3>1
  <2>2. \A q \in Run : q # r =>
          /\ attempt'[q] = attempt[q]
          /\ worker'[q] = worker[q]
          /\ job'[q] = job[q]
    BY <1>2 DEF Rerun, TypeOK
  <2>3. QED
    BY <2>1, <2>2 DEF ChainInv, AccountSettled
<1>3. ASSUME NEW r \in Run,
             SkipJob(r, "whole_test") \/ FailJob(r, "whole_test") \/ Barrier(r, "test")
      PROVE  ChainInv'
  <2>1. UNCHANGED <<attempt, worker>>
    BY <1>3 DEF SkipJob, FailJob, Barrier
  <2>2. AccountSettled(r, "test")
    BY <1>3 DEF SkipJob, FailJob, Barrier, JobReady
  <2>3. \A q \in Run : q # r => job'[q] = job[q]
    BY <1>3 DEF SkipJob, FailJob, Barrier, SetJob, TypeOK
  <2>4. QED
    BY <2>1, <2>2, <2>3 DEF ChainInv, AccountSettled
<1>4. ASSUME NEW r \in Run, NEW n \in Node, StartWorker(r, n)
      PROVE  ChainInv'
  <2>1. UNCHANGED <<attempt, job>>
    BY <1>4 DEF StartWorker
  <2>2. worker[r][n] = "waiting"
    BY <1>4 DEF StartWorker, WorkerReady
  <2>3. \A q \in Run, m \in Node :
          \/ worker'[q][m] = worker[q][m]
          \/ worker'[q][m] = "cancelled"
          \/ q = r /\ m = n /\ worker'[q][m] = "queued"
    BY <1>4 DEF StartWorker, TypeOK
  \* What was terminal stays so, and only n becomes occupied.
  <2>4. \A q \in Run, m \in Node :
          /\ worker[q][m] \in Terminal => worker'[q][m] \in Terminal
          /\ worker'[q][m] \in Occupied =>
               worker[q][m] \in Occupied \/ (q = r /\ m = n)
    BY <2>2, <2>3 DEF Terminal, Occupied, Holding
  <2>5. ASSUME attempt[r] = 1, NEW m \in Node, NodeBefore(m, n)
        PROVE  worker[r][m] \in Terminal
    <3>1. PICK a \in Account, s \in Scope : m = <<a, s>>
      BY DEF Node
    <3>2. CASE a = "test" /\ n[1] = "prod"
      BY <1>4, <2>5, <3>1, <3>2
         DEF StartWorker, WorkerReady, ChainInv, AccountSettled
    <3>3. CASE a = n[1] /\ s < n[2]
      BY <1>4, <3>1, <3>3 DEF StartWorker, WorkerReady
    <3>4. QED
      BY <2>5, <3>1, <3>2, <3>3 DEF NodeBefore, AccountBefore
  <2>6. ASSUME NEW q \in Run, attempt'[q] = 1, NEW m \in Node, NEW k \in Node,
               worker'[q][k] \in Occupied, NodeBefore(m, k)
        PROVE  worker'[q][m] \in Terminal
    <3>1. CASE worker[q][k] \in Occupied
      BY <2>1, <2>4, <2>6, <3>1 DEF ChainInv
    <3>2. CASE q = r /\ k = n
      BY <2>1, <2>4, <2>5, <2>6, <3>2
    <3>3. QED
      BY <2>4, <2>6, <3>1, <3>2
  <2>7. ASSUME NEW q \in Run, attempt'[q] = 1, job'[q]["whole_test"] \in Terminal
        PROVE  AccountSettled(q, "test")'
    <3>1. AccountSettled(q, "test")
      BY <2>1, <2>7 DEF ChainInv
    <3>2. \A s \in Scope : <<"test", s>> \in Node
      BY DEF Node, Account
    <3>3. QED
      BY <2>4, <3>1, <3>2 DEF AccountSettled
  <2>8. QED
    BY <2>6, <2>7 DEF ChainInv
<1>5. QED
  BY <1>1, <1>2, <1>3, <1>4, ChainSteps

LEMMA ChainInvariant == Spec => []ChainInv
<1>1. Init => ChainInv
  BY DEF Init, ChainInv, Occupied, Holding, RootJob, Terminal
<1>2. TypeOK /\ ChainInv /\ [Next]_vars => ChainInv'
  BY ChainStep
<1>3. QED
  BY <1>1, <1>2, TypeCorrect, PTL DEF Spec

\* Two stacks of the scopes of a run are ordered.
LEMMA NodesOrdered ==
  ASSUME NEW m \in Node, NEW n \in Node, m # n
  PROVE  NodeBefore(m, n) \/ NodeBefore(n, m)
<1>1. PICK a \in Account, s \in Scope : m = <<a, s>>
  BY DEF Node
<1>2. PICK b \in Account, t \in Scope : n = <<b, t>>
  BY DEF Node
<1>3. s \in {1, 2, 3} /\ t \in {1, 2, 3}
  BY ScopeAssumption DEF Operator, Governance, Platform
<1>4. a = b \/ AccountBefore(a, b) \/ AccountBefore(b, a)
  BY DEF Account, AccountBefore
<1>5. a = b => s < t \/ t < s
  BY <1>1, <1>2, <1>3
<1>6. QED
  BY <1>1, <1>2, <1>4, <1>5 DEF NodeBefore

\* In the first attempt a run occupies one stack at a time.
LEMMA OneStackAtATime ==
  ASSUME ChainInv, NEW r \in Run, attempt[r] = 1,
         NEW m \in Node, NEW n \in Node,
         worker[r][m] \in Occupied, worker[r][n] \in Occupied
  PROVE  m = n
BY NodesOrdered DEF ChainInv, Occupied, Holding, Terminal

-----------------------------------------------------------------------------
(* Late applies. *)

LateInv ==
  \A r \in Run :
    /\ revision[r] <= main
    /\ late[r] # {} => main # revision[r]
    /\ phase[r] = "idle" =>
         late[r] = {} /\ \A n \in Node : worker[r][n] = "waiting"
    /\ \A n \in Node : worker[r][n] \in Applying => late[r] = {}
    /\ \A m, n \in late[r] : m = n

LateFrame ==
  /\ UNCHANGED <<main, revision, late>>
  /\ \A q \in Run :
       /\ phase'[q] = "idle" => phase[q] = "idle"
       /\ \A m \in Node :
            /\ worker'[q][m] \in Applying => worker[q][m] \in Applying
            /\ phase[q] = "idle" /\ worker[q][m] = "waiting" =>
                 worker'[q][m] = "waiting"

LEMMA LateSteps ==
  ASSUME TypeOK, [Next]_vars
  PROVE  \/ LateFrame
         \/ AdvanceMain
         \/ \E r \in Run :
              \/ Dispatch(r)
              \/ \E all \in BOOLEAN : Rerun(r, all)
              \/ \E n \in Node : CheckApply(r, n) \/ ApplyPlan(r, n)
<1> DEFINE Quiet == UNCHANGED <<main, revision, late, phase, worker>>
<1>1. Quiet => LateFrame
  BY DEF LateFrame
<1>2. CASE UNCHANGED vars
  BY <1>1, <1>2 DEF vars
<1>3. ASSUME NEW r \in Run, StartRun(r) \/ CancelRun(r) \/ FinishRun(r)
      PROVE  LateFrame
  <2>1. UNCHANGED <<main, revision, late, worker>>
    BY <1>3 DEF StartRun, CancelRun, FinishRun
  <2>2. \A q \in Run : phase'[q] = "idle" => phase[q] = "idle"
    BY <1>3 DEF StartRun, CancelRun, FinishRun, TypeOK
  <2>3. QED
    BY <2>1, <2>2 DEF LateFrame
<1>4. ASSUME NEW r \in Run,
             \/ CheckRequest(r) \/ ListClaims(r) \/ PostClaim(r)
             \/ PersistContract(r) \/ FailPreflight(r)
             \/ \E j \in RootJob : SkipJob(r, j) \/ FailJob(r, j)
             \/ ValidateInputs(r) \/ \E a \in Account : Barrier(r, a)
             \/ PreparePromotion(r) \/ PublishPromotion(r)
      PROVE  LateFrame
  BY <1>1, <1>4 DEF CheckRequest, ListClaims, PostClaim, PersistContract,
       FailPreflight, SkipJob, FailJob, ValidateInputs, Barrier,
       PreparePromotion, PublishPromotion
<1>5. ASSUME NEW r \in Run, NEW n \in Node, NEW g \in Stage,
             RunStage(r, n, g) \/ FailStage(r, n, g)
      PROVE  LateFrame
  BY <1>1, <1>5 DEF RunStage, FailStage
<1>6. ASSUME NEW r \in Run, NEW n \in Node,
             \/ SkipWorker(r, n) \/ AcquireStack(r, n) \/ CancelQueued(r, n)
             \/ RevalidatePull(r, n) \/ AbortApply(r, n)
             \/ IssueReceipt(r, n) \/ WithholdReceipt(r, n)
      PROVE  LateFrame
  <2>1. /\ UNCHANGED <<main, revision, late, phase>>
        /\ worker[r][n] = "waiting" => phase[r] # "idle"
        /\ \E s \in WorkerState :
             SetWorker(r, n, s) /\ (s \in Applying => worker[r][n] \in Applying)
    BY <1>6 DEF SkipWorker, WorkerReady, AcquireStack, CancelQueued,
         RevalidatePull, AbortApply, IssueReceipt, WithholdReceipt, Settled,
         WorkerState, Terminal, Holding, Applying
  <2>2. PICK s \in WorkerState :
          SetWorker(r, n, s) /\ (s \in Applying => worker[r][n] \in Applying)
    BY <2>1
  <2>3. \A q \in Run, m \in Node :
          worker'[q][m] = IF q = r /\ m = n THEN s ELSE worker[q][m]
    BY <2>2, WorkerEffect
  <2>4. QED
    BY <2>1, <2>2, <2>3 DEF LateFrame
<1>7. ASSUME NEW r \in Run, NEW n \in Node, StartWorker(r, n)
      PROVE  LateFrame
  <2>1. phase[r] = "active" /\ UNCHANGED <<main, revision, late, phase>>
    BY <1>7 DEF StartWorker, WorkerReady
  <2>2. \A q \in Run, m \in Node :
          \/ worker'[q][m] = worker[q][m]
          \/ worker[q][m] = "queued" /\ worker'[q][m] = "cancelled"
          \/ q = r /\ m = n /\ worker'[q][m] = "queued"
    BY <1>7 DEF StartWorker, TypeOK
  <2>3. QED
    BY <2>1, <2>2 DEF LateFrame, Applying
<1>8. ASSUME NEW n \in Node, OutsideQueues(n)
      PROVE  LateFrame
  <2>1. \A q \in Run, m \in Node :
          \/ worker'[q][m] = worker[q][m]
          \/ worker[q][m] = "queued" /\ worker'[q][m] = "cancelled"
    BY <1>8 DEF OutsideQueues, TypeOK
  <2>2. QED
    BY <1>8, <2>1 DEF OutsideQueues, LateFrame, Applying
<1>9. CASE \/ \E n \in Node : OutsideDeploys(n)
           \/ \E r \in Run, f \in Fickle : ChangeFact(r, f)
  BY <1>1, <1>9 DEF OutsideDeploys, ChangeFact
<1>10. QED
  BY <1>2, <1>3, <1>4, <1>5, <1>6, <1>7, <1>8, <1>9 DEF Next, Progress, Disturb

LEMMA LateStep ==
  ASSUME TypeOK, ApplyInv, ChainInv, LateInv, [Next]_vars
  PROVE  LateInv'
<1>1. CASE LateFrame
  BY <1>1 DEF LateFrame, LateInv
<1>2. CASE AdvanceMain
  <2>1. main \in Nat /\ main' = main + 1 /\ \A r \in Run : revision[r] \in Nat
    BY <1>2 DEF AdvanceMain, TypeOK
  <2>2. \A r \in Run : revision[r] <= main' /\ main' # revision[r]
    BY <2>1 DEF LateInv
  <2>3. UNCHANGED <<revision, late, phase, worker>>
    BY <1>2 DEF AdvanceMain
  <2>4. QED
    BY <2>2, <2>3 DEF LateInv
<1>3. ASSUME NEW r \in Run, Dispatch(r)
      PROVE  LateInv'
  <2>1. phase[r] = "idle" /\ UNCHANGED <<main, late, worker>>
    BY <1>3 DEF Dispatch
  <2>2. \A q \in Run : revision'[q] = IF q = r THEN main ELSE revision[q]
    BY <1>3 DEF Dispatch, TypeOK
  <2>3. \A q \in Run : phase'[q] = "idle" => phase[q] = "idle"
    BY <1>3 DEF Dispatch, JoinGroup, TypeOK
  <2>4. main <= main /\ late[r] = {}
    BY <2>1 DEF LateInv, TypeOK
  <2>5. QED
    BY <2>1, <2>2, <2>3, <2>4 DEF LateInv
<1>4. ASSUME NEW r \in Run, NEW all \in BOOLEAN, Rerun(r, all)
      PROVE  LateInv'
  <2>1. UNCHANGED <<main, revision, late>>
    BY <1>4 DEF Rerun
  <2>2. /\ phase'[r] # "idle"
        /\ \A q \in Run : phase'[q] = "idle" => phase[q] = "idle"
    BY <1>4 DEF Rerun, JoinGroup, TypeOK
  <2>3. /\ \A n \in Node : worker'[r][n] \notin Applying
        /\ \A q \in Run : q # r => worker'[q] = worker[q]
    BY <1>4 DEF Rerun, TypeOK, Applying
  <2>4. QED
    BY <2>1, <2>2, <2>3 DEF LateInv
<1>5. ASSUME NEW r \in Run, NEW n \in Node, CheckApply(r, n)
      PROVE  LateInv'
  <2>1. UNCHANGED <<main, revision, late, phase>>
    BY <1>5 DEF CheckApply
  <2>2. \A q \in Run, m \in Node :
          worker'[q][m] = IF q = r /\ m = n THEN "rechecked" ELSE worker[q][m]
    BY <1>5, WorkerEffect DEF CheckApply
  <2>3. late[r] = {} /\ phase[r] # "idle"
    BY <1>5 DEF CheckApply, CanRun, RecheckOK, LateInv
  <2>4. QED
    BY <2>1, <2>2, <2>3 DEF LateInv
<1>6. ASSUME NEW r \in Run, NEW n \in Node, ApplyPlan(r, n)
      PROVE  LateInv'
  <2>1. UNCHANGED <<main, revision, phase>>
    BY <1>6 DEF ApplyPlan
  <2>2. \A q \in Run, m \in Node :
          worker'[q][m] = IF q = r /\ m = n THEN "running" ELSE worker[q][m]
    BY <1>6, WorkerEffect DEF ApplyPlan
  <2>3. /\ attempt[r] = 1 /\ worker[r][n] \in Applying
        /\ late[r] = {} /\ phase[r] # "idle"
    BY <1>6 DEF ApplyPlan, ApplyInv, LateInv, Applying
  \* No other apply of the run has passed its recheck.
  <2>4. \A m \in Node : worker'[r][m] \notin Applying
    <3>1. \A m \in Node : worker[r][m] \in Applying => m = n
      BY <2>3, OneStackAtATime DEF Applying, Occupied, Holding
    <3>2. QED
      BY <2>2, <3>1 DEF Applying
  <2>5. /\ late'[r] = IF main # revision[r] THEN {n} ELSE {}
        /\ \A q \in Run : q # r => late'[q] = late[q]
    BY <1>6, <2>3 DEF ApplyPlan, TypeOK
  <2>6. QED
    BY <2>1, <2>2, <2>3, <2>4, <2>5 DEF LateInv
<1>7. QED
  BY <1>1, <1>2, <1>3, <1>4, <1>5, <1>6, LateSteps

LEMMA LateInvariant == Spec => []LateInv
<1>1. Init => LateInv
  <2> SUFFICES ASSUME Init, NEW r \in Run
               PROVE  /\ revision[r] <= main
                      /\ late[r] = {}
                      /\ \A n \in Node : worker[r][n] = "waiting"
    BY DEF LateInv, Applying
  <2>1. main = 0 /\ revision[r] = 0
    BY DEF Init
  <2>2. QED
    BY <2>1 DEF Init
<1>2. TypeOK /\ ApplyInv /\ ChainInv /\ LateInv /\ [Next]_vars => LateInv'
  BY LateStep
<1>3. QED
  BY <1>1, <1>2, TypeCorrect, ApplyInvariant, ChainInvariant, PTL DEF Spec

\* When main moves under a run, at most the apply that has passed its last
\* recheck still changes a stack.
THEOREM OneLateApplyAtMost == Spec => []AtMostOneLateApply
<1>1. LateInv => AtMostOneLateApply
  <2> SUFFICES ASSUME LateInv, NEW r \in Run
               PROVE  Cardinality(late[r]) <= 1
    BY DEF AtMostOneLateApply
  <2>1. CASE late[r] = {}
    <3>1. Cardinality(late[r]) = 0
      BY <2>1, FS_EmptySet
    <3>2. QED
      BY <3>1
  <2>2. CASE late[r] # {}
    <3>1. PICK n \in late[r] : late[r] = {n}
      BY <2>2 DEF LateInv
    <3>2. Cardinality(late[r]) = 1
      BY <3>1, FS_Singleton
    <3>3. QED
      BY <3>2
  <2>3. QED
    BY <2>1, <2>2
<1>2. QED
  BY <1>1, LateInvariant, PTL

-----------------------------------------------------------------------------
(* The schedule.                                                           *)

\* Applying is only reached over a plan, and only in an "up".
StageInv ==
  \A r \in Run, n \in Node :
    /\ worker[r][n] \in Applying =>
         "plan" \in passed[r][n] /\ contract[r].command = "up"
    /\ "apply" \in passed[r][n] => "plan" \in passed[r][n]

StageFrame ==
  /\ UNCHANGED <<contract, passed>>
  /\ \A q \in Run, m \in Node :
       worker'[q][m] \in Applying => worker[q][m] \in Applying

LEMMA StageSteps ==
  ASSUME TypeOK, [Next]_vars
  PROVE  \/ StageFrame
         \/ \E r \in Run :
              \/ \E all \in BOOLEAN : Rerun(r, all)
              \/ PersistContract(r)
              \/ \E n \in Node :
                   \/ CheckApply(r, n) \/ ApplyPlan(r, n)
                   \/ \E g \in Stage : RunStage(r, n, g)
<1> DEFINE Quiet == UNCHANGED <<contract, passed, worker>>
<1>1. Quiet => StageFrame
  BY DEF StageFrame
<1>2. CASE UNCHANGED vars
  BY <1>1, <1>2 DEF vars
<1>3. ASSUME NEW r \in Run,
             Dispatch(r) \/ StartRun(r) \/ CancelRun(r) \/ FinishRun(r)
      PROVE  StageFrame
  BY <1>1, <1>3 DEF Dispatch, StartRun, CancelRun, FinishRun
<1>4. ASSUME NEW r \in Run,
             \/ CheckRequest(r) \/ ListClaims(r) \/ PostClaim(r)
             \/ FailPreflight(r)
             \/ \E j \in RootJob : SkipJob(r, j) \/ FailJob(r, j)
             \/ ValidateInputs(r) \/ \E a \in Account : Barrier(r, a)
             \/ PreparePromotion(r) \/ PublishPromotion(r)
      PROVE  StageFrame
  BY <1>1, <1>4 DEF CheckRequest, ListClaims, PostClaim,
       FailPreflight, SkipJob, FailJob, ValidateInputs, Barrier,
       PreparePromotion, PublishPromotion
<1>5. ASSUME NEW r \in Run, NEW n \in Node, NEW g \in Stage, FailStage(r, n, g)
      PROVE  StageFrame
  BY <1>1, <1>5 DEF FailStage
<1>6. ASSUME NEW r \in Run, NEW n \in Node,
             \/ SkipWorker(r, n) \/ AcquireStack(r, n) \/ CancelQueued(r, n)
             \/ RevalidatePull(r, n) \/ AbortApply(r, n)
             \/ IssueReceipt(r, n) \/ WithholdReceipt(r, n)
      PROVE  StageFrame
  <2>1. /\ UNCHANGED <<contract, passed>>
        /\ \E s \in WorkerState :
             SetWorker(r, n, s) /\ (s \in Applying => worker[r][n] \in Applying)
    BY <1>6 DEF SkipWorker, AcquireStack, CancelQueued, RevalidatePull,
         AbortApply, IssueReceipt, WithholdReceipt, WorkerState, Terminal,
         Holding, Applying
  <2>2. \A q \in Run, m \in Node :
          worker'[q][m] \in Applying => worker[q][m] \in Applying
    BY <2>1, WorkerEffect
  <2>3. QED
    BY <2>1, <2>2 DEF StageFrame
<1>7. ASSUME NEW r \in Run, NEW n \in Node, StartWorker(r, n)
      PROVE  StageFrame
  <2>1. \A q \in Run, m \in Node :
          worker'[q][m] = worker[q][m] \/ worker'[q][m] \in {"cancelled", "queued"}
    BY <1>7 DEF StartWorker, TypeOK
  <2>2. QED
    BY <1>7, <2>1 DEF StartWorker, StageFrame, Applying
<1>8. ASSUME NEW n \in Node, OutsideQueues(n)
      PROVE  StageFrame
  <2>1. \A q \in Run, m \in Node :
          worker'[q][m] = worker[q][m] \/ worker'[q][m] = "cancelled"
    BY <1>8 DEF OutsideQueues, TypeOK
  <2>2. QED
    BY <1>8, <2>1 DEF OutsideQueues, StageFrame, Applying
<1>9. CASE \/ AdvanceMain \/ \E n \in Node : OutsideDeploys(n)
           \/ \E r \in Run, f \in Fickle : ChangeFact(r, f)
  BY <1>1, <1>9 DEF AdvanceMain, OutsideDeploys, ChangeFact
<1>10. QED
  BY <1>2, <1>3, <1>4, <1>5, <1>6, <1>7, <1>8, <1>9 DEF Next, Progress, Disturb

LEMMA StageStep ==
  ASSUME TypeOK, AdmissionInv, StacksInOrder, StageInv, [Next]_vars
  PROVE  StageInv'
<1>1. CASE StageFrame
  BY <1>1 DEF StageFrame, StageInv
<1>2. ASSUME NEW r \in Run, NEW all \in BOOLEAN, Rerun(r, all)
      PROVE  StageInv'
  <2>1. /\ contract' = contract
        /\ \A n \in Node : worker'[r][n] \notin Applying
    BY <1>2 DEF Rerun, TypeOK, Applying
  <2>2. \A n \in Node : passed'[r][n] = {} \/ passed'[r][n] = passed[r][n]
    BY <1>2 DEF Rerun, TypeOK
  <2>3. \A q \in Run : q # r =>
          worker'[q] = worker[q] /\ passed'[q] = passed[q]
    BY <1>2 DEF Rerun, TypeOK
  <2>4. QED
    BY <2>1, <2>2, <2>3 DEF StageInv
<1>3. ASSUME NEW r \in Run, PersistContract(r)
      PROVE  StageInv'
  <2>1. UNCHANGED <<worker, passed>>
    BY <1>3 DEF PersistContract
  <2>2. /\ contract[r] = NoContract
        /\ \A q \in Run : q # r => contract'[q] = contract[q]
    BY <1>3 DEF PersistContract, AdmissionInv, Admitting, TypeOK
  <2>3. \A n \in Node : worker[r][n] \notin Applying
    BY <2>2 DEF StacksInOrder, Touches, Selected, Holding, Applying
  <2>4. QED
    BY <2>1, <2>2, <2>3 DEF StageInv
<1>4. ASSUME NEW r \in Run, NEW n \in Node, CheckApply(r, n)
      PROVE  StageInv'
  <2>1. UNCHANGED <<contract, passed>>
    BY <1>4 DEF CheckApply
  <2>2. \A q \in Run, m \in Node :
          worker'[q][m] = IF q = r /\ m = n THEN "rechecked" ELSE worker[q][m]
    BY <1>4, WorkerEffect DEF CheckApply
  <2>3. "plan" \in passed[r][n]
    BY <1>4 DEF CheckApply, CanRun, StageNeeds
  <2>4. contract[r].command = "up"
    BY <1>4 DEF CheckApply, CanRun, Required
  <2>5. QED
    BY <2>1, <2>2, <2>3, <2>4 DEF StageInv
<1>5. ASSUME NEW r \in Run, NEW n \in Node, NEW g \in Stage, RunStage(r, n, g)
      PROVE  StageInv'
  <2>1. UNCHANGED <<contract, worker>> /\ g # "apply"
    BY <1>5 DEF RunStage
  <2>2. Pass(r, n, g)
    BY <1>5 DEF RunStage
  <2>3. \A q \in Run, m \in Node :
          passed'[q][m] = IF q = r /\ m = n THEN passed[q][m] \cup {g}
                          ELSE passed[q][m]
    BY <2>2, PassEffect
  <2>4. \A q \in Run, m \in Node :
          /\ passed[q][m] \subseteq passed'[q][m]
          /\ "apply" \in passed'[q][m] => "apply" \in passed[q][m]
    BY <2>1, <2>3
  <2>5. QED
    BY <2>1, <2>4 DEF StageInv
<1>6. ASSUME NEW r \in Run, NEW n \in Node, ApplyPlan(r, n)
      PROVE  StageInv'
  <2>1. UNCHANGED contract
    BY <1>6 DEF ApplyPlan
  <2>2. \A q \in Run, m \in Node :
          worker'[q][m] = IF q = r /\ m = n THEN "running" ELSE worker[q][m]
    BY <1>6, WorkerEffect DEF ApplyPlan
  <2>3. "plan" \in passed[r][n]
    BY <1>6 DEF ApplyPlan, StageInv, Applying
  <2>4. \A q \in Run, m \in Node :
          \/ passed'[q][m] = passed[q][m]
          \/ q = r /\ m = n /\ passed'[q][m] = passed[q][m] \cup {"apply"}
    BY <1>6 DEF ApplyPlan, Pass, TypeOK
  <2>5. QED
    BY <2>1, <2>2, <2>3, <2>4 DEF StageInv, Applying
<1>7. QED
  BY <1>1, <1>2, <1>3, <1>4, <1>5, <1>6, StageSteps

LEMMA StageInvariant == Spec => []StageInv
<1>1. Init => StageInv
  BY DEF Init, StageInv, Applying
<1>2. TypeOK /\ AdmissionIInv /\ OrderInv /\ StageInv /\ [Next]_vars => StageInv'
  BY StageStep DEF AdmissionIInv, OrderInv
<1>3. QED
  BY <1>1, <1>2, TypeCorrect, AdmissionInvariant, OrderInvariant, PTL DEF Spec

-----------------------------------------------------------------------------
(* The steps of the schedule. *)

\* The abstract specification is an instance of its own of the contract.
LEMMA SameContract ==
  /\ Abstract!Contract = Contract
  /\ Abstract!Step = Step
  /\ \A c : Abstract!Schedule(c) = Schedule(c)
  /\ \A c : Abstract!CompletionKind(c) = CompletionKind(c)
  /\ \A x, y : Abstract!StepBefore(x, y) <=> StepBefore(x, y)
<1>1. /\ Abstract!Account = Account
      /\ Abstract!Command = Command
      /\ Abstract!Operation = Operation
  BY DEF Abstract!Account, Abstract!Command, Abstract!Operation, Account,
         Command, Operation
<1>2. Abstract!Contract = Contract
  BY <1>1 DEF Abstract!Contract, Contract
<1>3. Abstract!Step = Step
  BY <1>1 DEF Abstract!Step, Abstract!Node, Step, Node
<1>4. \A c : Abstract!Schedule(c) = Schedule(c)
  BY <1>1 DEF Abstract!Schedule, Abstract!Workers, Abstract!Environments,
     Abstract!Operations, Schedule, Workers, Environments, Operations
<1>5. \A c : Abstract!CompletionKind(c) = CompletionKind(c)
  BY DEF Abstract!CompletionKind, CompletionKind
<1>6. \A x, y : Abstract!StepBefore(x, y) <=> StepBefore(x, y)
  BY DEF Abstract!StepBefore, Abstract!NodeBefore, Abstract!AccountBefore,
     Abstract!OperationBefore, StepBefore, NodeBefore, AccountBefore,
     OperationBefore
<1>7. QED
  BY <1>2, <1>3, <1>4, <1>5, <1>6

LEMMA AdmitStep ==
  ASSUME TypeOK, AdmissionInv, ClaimInv, NEW r \in Run, PersistContract(r)
  PROVE  Abstract!Admit(r)
<1>1. UNCHANGED <<completed, promoted>>
  BY DEF PersistContract
<1>2. contract[r] = NoContract
  BY DEF PersistContract, AdmissionInv, Admitting
<1>3. \A q \in Run : contract[q] # NoContract => ClaimOf(q) # ClaimOf(r)
  BY DEF PersistContract, ClaimInv
<1>4. \E c \in Contract : contract' = [contract EXCEPT ![r] = c]
  BY RequestedAssumption DEF PersistContract
<1>5. \A q \in Run : contract[q] # NoContract => Abstract!ClaimOf(q) # Abstract!ClaimOf(r)
  BY <1>3 DEF ClaimOf, Abstract!ClaimOf
<1>6. QED
  BY <1>1, <1>2, <1>4, <1>5, SameContract DEF Abstract!Admit

\* A stage of a stack the worker holds completes a step whose predecessors
\* are complete, or one that is complete already.
LEMMA PerformStep ==
  ASSUME TypeOK, ResultInv, StacksInOrder, StageInv,
         NEW r \in Run, NEW n \in Node, NEW o \in Operation,
         worker[r][n] \in Holding, o \in Required(r),
         o = "apply" => "plan" \in passed[r][n],
         o = "drift" => {"plan", "apply"} \subseteq passed[r][n],
         completed' = [completed EXCEPT ![r] = @ \cup {<<n, o>>}],
         UNCHANGED <<contract, promoted>>
  PROVE  Abstract!Perform(r, <<n, o>>) \/ UNCHANGED <<contract, completed, promoted>>
<1>1. CASE <<n, o>> \in completed[r]
  <2>1. completed[r] \cup {<<n, o>>} = completed[r]
    BY <1>1
  <2>2. completed' = completed
    BY <2>1 DEF TypeOK
  <2>3. QED
    BY <2>2
<1>2. CASE <<n, o>> \notin completed[r]
  <2>1. Selected(r, n) /\ Prior(r, n)
    BY DEF StacksInOrder, Touches, Prior
  <2>2. o \in Operations(contract[r])
    BY DEF Required, Operations, Operation
  <2>3. <<n, o>> \in Schedule(contract[r])
    BY <2>1, <2>2 DEF Selected, Schedule
  <2>4. ASSUME NEW y \in Schedule(contract[r]), StepBefore(y, <<n, o>>)
        PROVE  y \in completed[r]
    <3>1. CASE NodeBefore(y[1], n)
      BY <2>1, <3>1 DEF Prior
    <3>2. CASE y[1] = n /\ OperationBefore(y[2], o)
      <4>1. y[2] \in Operation /\ y = <<n, y[2]>>
        BY <3>2 DEF Schedule, Operations, Operation
      <4>2. y[2] \in passed[r][n]
        BY <3>2 DEF OperationBefore
      <4>3. QED
        BY <4>1, <4>2 DEF ResultInv
    <3>3. QED
      BY <2>4, <3>1, <3>2 DEF StepBefore
  <2>5. QED
    BY <1>2, <2>1, <2>3, <2>4, SameContract DEF Abstract!Perform, Selected
<1>3. QED
  BY <1>1, <1>2

LEMMA PromoteStep ==
  ASSUME TypeOK, AdmissionInv, ResultInv, NEW r \in Run, PublishPromotion(r)
  PROVE  Abstract!Promote(r)
<1>1. promoted' = promoted \cup {r} /\ UNCHANGED <<contract, completed>>
  BY DEF PublishPromotion
<1>2. Promotable(r) /\ ProofHolds(r)
  BY DEF PublishPromotion, JobAllowed
<1>3. contract[r] # NoContract /\ contract[r] \in Contract
  BY <1>2 DEF Promotable, Admitted, AdmissionInv, TypeOK
<1>4. contract[r].target = "prod" /\ CompletionKind(contract[r]) = "apply-drift"
  BY <1>2 DEF Promotable
<1>5. \A a \in Account, s \in contract[r].scopes : NodeDone(r, <<a, s>>)
  <2>1. \A a \in Account, s \in contract[r].scopes : worker[r][<<a, s>>] = "success"
    BY <1>2, <1>3 DEF ProofHolds, AccountSucceeded, WorkerSucceeded, Contract, Account
  <2>2. QED
    BY <1>3, <2>1 DEF ResultInv, Node, Contract
<1>6. Schedule(contract[r]) \subseteq completed[r]
  BY <1>3, <1>5 DEF Schedule, Workers, Environments, Account, NodeDone
<1>7. QED
  BY <1>1, <1>3, <1>4, <1>6, SameContract DEF Abstract!Promote

LEMMA SimulationStep ==
  ASSUME TypeOK, AdmissionInv, ClaimInv, ResultInv, StacksInOrder, StageInv,
         [Next]_vars
  PROVE  [Abstract!Next]_(Abstract!vars)
<1>1. CASE UNCHANGED <<contract, completed, promoted>>
  BY <1>1 DEF Abstract!vars
<1>2. ASSUME NEW r \in Run, PersistContract(r)
      PROVE  Abstract!Next
  BY <1>2, AdmitStep DEF Abstract!Next
<1>3. ASSUME NEW r \in Run, PublishPromotion(r)
      PROVE  Abstract!Next
  BY <1>3, PromoteStep DEF Abstract!Next
<1>4. ASSUME NEW r \in Run, NEW n \in Node, NEW o \in Operation,
             Abstract!Perform(r, <<n, o>>)
      PROVE  Abstract!Next
  <2>1. <<n, o>> \in Step
    BY DEF Step
  <2>2. QED
    BY <1>4, <2>1, SameContract DEF Abstract!Next
<1>5. ASSUME NEW r \in Run, NEW n \in Node, NEW g \in Stage, RunStage(r, n, g)
      PROVE  \/ UNCHANGED <<contract, completed, promoted>>
             \/ g \in Operation /\ Abstract!Perform(r, <<n, g>>)
  <2>1. UNCHANGED <<contract, promoted>> /\ worker[r][n] \in Holding
    BY <1>5 DEF RunStage, CanRun, Holding
  <2>2. CASE g \in Operation
    <3>1. completed' = [completed EXCEPT ![r] = @ \cup {<<n, g>>}]
      BY <1>5, <2>2 DEF RunStage, Pass
    <3>2. g \in Required(r) /\ g # "apply"
      BY <1>5 DEF RunStage, CanRun
    <3>3. g = "drift" => "apply" \in passed[r][n]
      BY <1>5 DEF RunStage, CanRun, StageNeeds
    <3>4. g = "drift" => {"plan", "apply"} \subseteq passed[r][n]
      BY <3>3 DEF StageInv
    <3>5. QED
      BY <2>1, <2>2, <3>1, <3>2, <3>4, PerformStep
  <2>3. CASE g \notin Operation
    <3>1. completed' = [completed EXCEPT ![r] = completed[r]]
      BY <1>5, <2>3 DEF RunStage, Pass
    <3>2. completed' = completed
      BY <3>1 DEF TypeOK
    <3>3. QED
      BY <2>1, <3>2
  <2>4. QED
    BY <2>2, <2>3
<1>6. ASSUME NEW r \in Run, NEW n \in Node, ApplyPlan(r, n)
      PROVE  \/ UNCHANGED <<contract, completed, promoted>>
             \/ Abstract!Perform(r, <<n, "apply">>)
  <2>1. UNCHANGED <<contract, promoted>> /\ worker[r][n] \in Holding
    BY <1>6 DEF ApplyPlan, Holding
  <2>2. CASE UNCHANGED completed
    BY <2>1, <2>2
  <2>3. CASE Pass(r, n, "apply")
    <3>1. "apply" \in Operation
      BY DEF Operation
    <3>2. completed' = [completed EXCEPT ![r] = @ \cup {<<n, "apply">>}]
      BY <2>3, <3>1 DEF Pass
    <3>3. "plan" \in passed[r][n] /\ contract[r].command = "up"
      BY <1>6 DEF ApplyPlan, StageInv, Applying
    <3>4. "apply" \in Required(r)
      BY <3>3 DEF Required, Stage
    <3>5. QED
      BY <2>1, <3>1, <3>2, <3>3, <3>4, PerformStep
  <2>4. QED
    BY <1>6, <2>2, <2>3 DEF ApplyPlan
<1>7. \/ UNCHANGED <<contract, completed, promoted>>
      \/ \E r \in Run :
           \/ PersistContract(r) \/ PublishPromotion(r)
           \/ \E n \in Node :
                ApplyPlan(r, n) \/ \E g \in Stage : RunStage(r, n, g)
  BY DEF Next, Progress, Disturb, vars, Dispatch, StartRun, CancelRun,
     FinishRun, Rerun, ChangeFact, CheckRequest, ListClaims, PostClaim,
     FailPreflight, SkipJob, FailJob, ValidateInputs, Barrier,
     PreparePromotion, StartWorker, SkipWorker, AcquireStack, CancelQueued,
     FailStage, CheckApply, RevalidatePull, AbortApply, IssueReceipt,
     WithholdReceipt, AdvanceMain, OutsideQueues, OutsideDeploys
<1>8. "apply" \in Operation
  BY DEF Operation
<1>9. QED
  BY <1>1, <1>2, <1>3, <1>4, <1>5, <1>6, <1>7, <1>8

\* Every behaviour of the workflow graph, with its failures, cancellations,
\* re-runs and interleavings, is a behaviour of the schedule: one run per
\* comment, steps in order, promotion only of a complete PROD "up".
THEOREM GraphImplementsSchedule == Spec => ImplementsSchedule
<1>1. Init => Abstract!Init
  BY DEF Init, Abstract!Init
<1>2. TypeOK /\ AdmissionIInv /\ OrderInv /\ StageInv /\ [Next]_vars
        => [Abstract!Next]_(Abstract!vars)
  BY SimulationStep DEF AdmissionIInv, OrderInv
<1>3. QED
  BY <1>1, <1>2, TypeCorrect, AdmissionInvariant, OrderInvariant,
     StageInvariant, PTL DEF Spec, ImplementsSchedule, Abstract!Spec

-----------------------------------------------------------------------------
(***************************************************************************)
(* The plan about to be replayed describes the stack as it is.             *)
(*                                                                         *)
(* The workers of a stack exclude each other from the plan to the apply,   *)
(* so nobody writes the stack in between; and a first attempt that holds   *)
(* the stack has planned only since it took it.                            *)
(***************************************************************************)
Unstarted == {"waiting", "queued"}

StackInv ==
  /\ \A q, r \in Run, n \in Node :
       worker[q][n] \in Holding /\ worker[r][n] \in Holding => q = r
  /\ \A r \in Run, n \in Node : attempt[r] = 1 =>
       /\ worker[r][n] \in Unstarted => "plan" \notin passed[r][n]
       /\ worker[r][n] \in Holding /\ "plan" \in passed[r][n] /\ applies[r][n] = 0
            => writer[n] = seen[r][n]

StackFrame ==
  /\ UNCHANGED <<attempt, passed, applies, writer, seen>>
  /\ \A q \in Run, m \in Node :
       /\ worker'[q][m] \in Holding => worker[q][m] \in Holding
       /\ worker'[q][m] \in Unstarted => worker[q][m] \in Unstarted

LEMMA StackSteps ==
  ASSUME TypeOK, [Next]_vars
  PROVE  \/ StackFrame
         \/ \E r \in Run :
              \/ \E all \in BOOLEAN : Rerun(r, all)
              \/ \E n \in Node :
                   \/ AcquireStack(r, n) \/ ApplyPlan(r, n)
                   \/ \E g \in Stage : RunStage(r, n, g)
         \/ \E n \in Node : OutsideDeploys(n)
<1> DEFINE Quiet == UNCHANGED <<attempt, passed, applies, writer, seen, worker>>
<1>1. Quiet => StackFrame
  BY DEF StackFrame
<1>2. CASE UNCHANGED vars
  BY <1>1, <1>2 DEF vars
<1>3. ASSUME NEW r \in Run,
             Dispatch(r) \/ StartRun(r) \/ CancelRun(r) \/ FinishRun(r)
      PROVE  StackFrame
  BY <1>1, <1>3 DEF Dispatch, StartRun, CancelRun, FinishRun
<1>4. ASSUME NEW r \in Run,
             \/ CheckRequest(r) \/ ListClaims(r) \/ PostClaim(r)
             \/ PersistContract(r) \/ FailPreflight(r)
             \/ \E j \in RootJob : SkipJob(r, j) \/ FailJob(r, j)
             \/ ValidateInputs(r) \/ \E a \in Account : Barrier(r, a)
             \/ PreparePromotion(r) \/ PublishPromotion(r)
      PROVE  StackFrame
  BY <1>1, <1>4 DEF CheckRequest, ListClaims, PostClaim, PersistContract,
       FailPreflight, SkipJob, FailJob, ValidateInputs, Barrier,
       PreparePromotion, PublishPromotion
<1>5. ASSUME NEW r \in Run, NEW n \in Node, NEW g \in Stage, FailStage(r, n, g)
      PROVE  StackFrame
  BY <1>1, <1>5 DEF FailStage
<1>6. ASSUME NEW r \in Run, NEW n \in Node,
             \/ SkipWorker(r, n) \/ CancelQueued(r, n) \/ CheckApply(r, n)
             \/ RevalidatePull(r, n) \/ AbortApply(r, n)
             \/ IssueReceipt(r, n) \/ WithholdReceipt(r, n)
      PROVE  StackFrame
  <2>1. /\ UNCHANGED <<attempt, passed, applies, writer, seen>>
        /\ \E s \in WorkerState \ Unstarted :
             SetWorker(r, n, s) /\ (s \in Holding => worker[r][n] \in Holding)
    BY <1>6 DEF SkipWorker, CancelQueued, CheckApply, CanRun, RevalidatePull,
         AbortApply, IssueReceipt, WithholdReceipt, WorkerState, Terminal,
         Holding, Unstarted
  <2>2. PICK s \in WorkerState \ Unstarted :
          SetWorker(r, n, s) /\ (s \in Holding => worker[r][n] \in Holding)
    BY <2>1
  <2>3. \A q \in Run, m \in Node :
          worker'[q][m] = IF q = r /\ m = n THEN s ELSE worker[q][m]
    BY <2>2, WorkerEffect
  <2>4. QED
    BY <2>1, <2>2, <2>3 DEF StackFrame
<1>7. ASSUME NEW r \in Run, NEW n \in Node, StartWorker(r, n)
      PROVE  StackFrame
  <2>1. worker[r][n] = "waiting"
    BY <1>7 DEF StartWorker, WorkerReady
  <2>2. \A q \in Run, m \in Node :
          \/ worker'[q][m] = worker[q][m]
          \/ worker'[q][m] = "cancelled"
          \/ q = r /\ m = n /\ worker'[q][m] = "queued"
    BY <1>7 DEF StartWorker, TypeOK
  <2>3. QED
    BY <1>7, <2>1, <2>2 DEF StartWorker, StackFrame, Holding, Unstarted
<1>8. ASSUME NEW n \in Node, OutsideQueues(n)
      PROVE  StackFrame
  <2>1. \A q \in Run, m \in Node :
          worker'[q][m] = worker[q][m] \/ worker'[q][m] = "cancelled"
    BY <1>8 DEF OutsideQueues, TypeOK
  <2>2. QED
    BY <1>8, <2>1 DEF OutsideQueues, StackFrame, Holding, Unstarted
<1>9. CASE AdvanceMain \/ \E r \in Run, f \in Fickle : ChangeFact(r, f)
  BY <1>1, <1>9 DEF AdvanceMain, ChangeFact
<1>10. QED
  BY <1>2, <1>3, <1>4, <1>5, <1>6, <1>7, <1>8, <1>9 DEF Next, Progress, Disturb

LEMMA StackStep ==
  ASSUME TypeOK, StackInv, [Next]_vars
  PROVE  StackInv'
<1>1. CASE StackFrame
  BY <1>1 DEF StackFrame, StackInv
<1>2. ASSUME NEW r \in Run, NEW all \in BOOLEAN, Rerun(r, all)
      PROVE  StackInv'
  <2>1. attempt'[r] # 1
    <3>1. attempt[r] \in Nat \ {0} /\ attempt'[r] = attempt[r] + 1
      BY <1>2 DEF Rerun, TypeOK
    <3>2. QED
      BY <3>1
  <2>2. /\ UNCHANGED <<applies, writer, seen>>
        /\ \A n \in Node : worker'[r][n] \notin Holding
    BY <1>2 DEF Rerun, TypeOK, Holding
  <2>3. \A q \in Run : q # r =>
          /\ attempt'[q] = attempt[q]
          /\ worker'[q] = worker[q]
          /\ passed'[q] = passed[q]
    BY <1>2 DEF Rerun, TypeOK
  <2>4. QED
    BY <2>1, <2>2, <2>3 DEF StackInv
<1>3. ASSUME NEW r \in Run, NEW n \in Node, AcquireStack(r, n)
      PROVE  StackInv'
  <2>1. UNCHANGED <<attempt, passed, applies, writer, seen>>
    BY <1>3 DEF AcquireStack
  <2>2. \A q \in Run, m \in Node :
          worker'[q][m] = IF q = r /\ m = n THEN "running" ELSE worker[q][m]
    BY <1>3, WorkerEffect DEF AcquireStack
  <2>3. \A q \in Run : worker[q][n] \notin Holding
    BY <1>3 DEF AcquireStack, StackFree
  <2>4. attempt[r] = 1 => "plan" \notin passed[r][n]
    BY <1>3 DEF AcquireStack, StackInv, Unstarted
  <2>5. QED
    BY <2>1, <2>2, <2>3, <2>4 DEF StackInv, Unstarted
<1>4. ASSUME NEW r \in Run, NEW n \in Node, NEW g \in Stage, RunStage(r, n, g)
      PROVE  StackInv'
  <2>1. UNCHANGED <<attempt, applies, writer, worker>>
    BY <1>4 DEF RunStage
  <2>2. worker[r][n] = "running"
    BY <1>4 DEF RunStage, CanRun
  <2>3. Pass(r, n, g)
    BY <1>4 DEF RunStage
  <2>4. \A q \in Run, m \in Node :
          passed'[q][m] = IF q = r /\ m = n THEN passed[q][m] \cup {g}
                          ELSE passed[q][m]
    BY <2>3, PassEffect
  <2>5. CASE g = "plan"
    <3>1. \A q \in Run, m \in Node :
            seen'[q][m] = IF q = r /\ m = n THEN writer[n] ELSE seen[q][m]
      BY <1>4, <2>5 DEF RunStage, TypeOK
    <3>2. seen'[r][n] = writer[n]
      BY <3>1
    <3>3. \A q \in Run, m \in Node : q # r \/ m # n =>
            seen'[q][m] = seen[q][m] /\ passed'[q][m] = passed[q][m]
      BY <2>4, <3>1
    <3>4. worker[r][n] \notin Unstarted
      BY <2>2 DEF Unstarted
    <3>5. QED
      BY <2>1, <3>2, <3>3, <3>4 DEF StackInv
  <2>6. CASE g # "plan"
    <3>1. seen' = seen
      BY <1>4, <2>6 DEF RunStage
    <3>2. \A q \in Run, m \in Node :
            "plan" \in passed'[q][m] <=> "plan" \in passed[q][m]
      BY <2>4, <2>6
    <3>3. QED
      BY <2>1, <3>1, <3>2 DEF StackInv
  <2>7. QED
    BY <2>5, <2>6
<1>5. ASSUME NEW r \in Run, NEW n \in Node, ApplyPlan(r, n)
      PROVE  StackInv'
  <2>1. UNCHANGED <<attempt, seen>>
    BY <1>5 DEF ApplyPlan
  <2>2. worker[r][n] \in Holding
    BY <1>5 DEF ApplyPlan, Holding
  <2>3. \A q \in Run, m \in Node :
          worker'[q][m] = IF q = r /\ m = n THEN "running" ELSE worker[q][m]
    BY <1>5, WorkerEffect DEF ApplyPlan
  <2>4. applies'[r][n] # 0
    <3>1. applies[r][n] \in Nat /\ applies'[r][n] = applies[r][n] + 1
      BY <1>5 DEF ApplyPlan, TypeOK
    <3>2. QED
      BY <3>1
  <2>5. \A q \in Run, m \in Node : q # r \/ m # n =>
          /\ applies'[q][m] = applies[q][m]
          /\ passed'[q][m] = passed[q][m]
    BY <1>5 DEF ApplyPlan, Pass, TypeOK
  <2>6. \A m \in Node : m # n => writer'[m] = writer[m]
    BY <1>5 DEF ApplyPlan, TypeOK
  \* Nobody else holds the stack that was written.
  <2>7. \A q \in Run : q # r => worker[q][n] \notin Holding
    BY <2>2 DEF StackInv
  <2>8. QED
    BY <2>1, <2>2, <2>3, <2>4, <2>5, <2>6, <2>7 DEF StackInv, Unstarted
<1>6. ASSUME NEW n \in Node, OutsideDeploys(n)
      PROVE  StackInv'
  <2>1. UNCHANGED <<attempt, passed, applies, seen, worker>>
    BY <1>6 DEF OutsideDeploys
  <2>2. \A m \in Node : m # n => writer'[m] = writer[m]
    BY <1>6 DEF OutsideDeploys, TypeOK
  <2>3. \A q \in Run : worker[q][n] \notin Holding
    BY <1>6 DEF OutsideDeploys, StackFree
  <2>4. QED
    BY <2>1, <2>2, <2>3 DEF StackInv
<1>7. QED
  BY <1>1, <1>2, <1>3, <1>4, <1>5, <1>6, StackSteps

LEMMA StackInvariant == Spec => []StackInv
<1>1. Init => StackInv
  BY DEF Init, StackInv, Holding
<1>2. TypeOK /\ StackInv /\ [Next]_vars => StackInv'
  BY StackStep
<1>3. QED
  BY <1>1, <1>2, TypeCorrect, PTL DEF Spec

\* Whatever other runs and the scheduled deployments do to the stack, the plan
\* an apply job is about to replay was made from the state the stack is in.
THEOREM AppliedPlansAreCurrent == Spec => []AppliedPlanIsCurrent
<1>1. ApplyInv /\ StageInv /\ StackInv => AppliedPlanIsCurrent
  BY DEF ApplyInv, StageInv, StackInv, AppliedPlanIsCurrent, Applying, Holding
<1>2. QED
  BY <1>1, ApplyInvariant, StageInvariant, StackInvariant, PTL
=============================================================================
