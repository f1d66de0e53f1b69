--------------------------- MODULE DeploymentGraph ---------------------------
(***************************************************************************)
(* The command runner: the root workflow pulumi-pr-command-runner.yml, the *)
(* reusable account workers it calls and the scripts their jobs run.       *)
(*                                                                         *)
(* A run is dispatched for a comment, waits for the concurrency group of   *)
(* its pull request, admits the comment in preflight, and then executes a  *)
(* graph of root jobs and workers.  A worker holds the state group of its  *)
(* stack while it resolves, plans, passes the gates, applies the saved     *)
(* plan, checks drift and issues a receipt.  Runs of different pull        *)
(* requests interleave; main moves, the facts a recheck reads change, jobs *)
(* fail or are cancelled at any point, and a finished run can be re-run.   *)
(*                                                                         *)
(* A job that reads and changes nothing shared is one step.  The recheck   *)
(* (deployment_worker_recheck.py) is atomic here: its several reads are    *)
(* a matter of their own.                                                  *)
(***************************************************************************)
EXTENDS DeploymentContract, FiniteSets

CONSTANTS
  PR,           \* pull requests
  PROf,         \* the pull request each run's dispatch payload names
  CommentPR,    \* the pull request each comment was written on
  Requested,    \* the contracts the comment and changes of a run may yield
  Fickle,       \* the facts that may change in an instance
  Outside,      \* whoever deployed a stack other than a run (not in Run)
  MaxMain,      \* bound: how often main advances
  MaxAttempt    \* bound: attempts of a run

\* What a recheck establishes of the request behind a run: its pull request
\* is open, unmerged and still at the admitted revisions; the requester may
\* write; the head is approved; the environments are protected.
Fact == {"source", "rights", "review", "protection"}

\* Admission does not look at reviews.
AdmissionFact == Fact \ {"review"}

ASSUME PROfAssumption == PROf \in [Run -> PR] /\ CommentPR \in [Comment -> PR]
ASSUME RequestedAssumption == Requested \in [Run -> SUBSET Contract]
ASSUME FickleAssumption == Fickle \subseteq Fact
ASSUME OutsideAssumption == Outside \notin Run
ASSUME BoundAssumption == MaxMain \in Nat /\ MaxAttempt \in Nat \ {0}

RootJob == {"preflight", "validate_inputs", "whole_test", "whole_prod",
            "prepare_promotion", "publish_promotion"}

Stage == {"resolve", "plan", "destructive", "iam", "apply", "drift"}

Phase    == {"idle", "pending", "active", "done", "cancelled"}
Terminal == {"success", "failure", "cancelled", "skipped"}

\* preflight passes through "checked" (request authenticated) and "unclaimed"
\* (no earlier claim listed) to "claimed" before it succeeds.
JobState == {"waiting", "checked", "unclaimed", "claimed"} \cup Terminal

\* A worker is "queued" for the group of its stack, which it holds in the
\* states of Holding; "rechecked" and "applying" are inside its apply job.
Holding     == {"running", "rechecked", "applying"}
WorkerState == {"waiting", "queued"} \cup Holding \cup Terminal

VARIABLES
  main,        \* revision of the default branch
  holds,       \* the facts that hold of each run's request
  claimed,     \* claims that have been posted: a comment on a head
  phase,       \* where each run is in the group of its pull request
  attempt,     \* GITHUB_RUN_ATTEMPT
  revision,    \* GITHUB_SHA: the revision of main the run executes
  cancelled,   \* whether the cancellation of the run was requested
  contract,    \* the contract preflight admitted
  job,         \* state of the root jobs of each run
  worker,      \* state of the workers of each run
  passed,      \* stages of a worker that succeeded
  failed,      \* stages of a worker that failed
  writer,      \* who last changed each stack
  seen,        \* writer of the stack when the worker planned
  promoted,    \* runs whose promotion status was posted
  completed,   \* history: schedule steps each run completed
  applies,     \* history: times a run started to change a stack
  late         \* history: stacks a run changed after main had moved

environment == <<main, holds>>
control     == <<phase, attempt, revision, cancelled>>
admission   == <<claimed, contract>>
stages      == <<passed, failed, seen>>
history     == <<completed, applies, late>>
vars == <<environment, control, admission, job, worker, stages, writer,
          promoted, history>>

Init ==
  /\ main = 0
  /\ holds = [r \in Run |-> Fact]
  /\ claimed = {}
  /\ phase = [r \in Run |-> "idle"]
  /\ attempt = [r \in Run |-> 1]
  /\ revision = [r \in Run |-> 0]
  /\ cancelled = [r \in Run |-> FALSE]
  /\ contract = [r \in Run |-> NoContract]
  /\ job = [r \in Run |-> [j \in RootJob |-> "waiting"]]
  /\ worker = [r \in Run |-> [n \in Node |-> "waiting"]]
  /\ passed = [r \in Run |-> [n \in Node |-> {}]]
  /\ failed = [r \in Run |-> [n \in Node |-> {}]]
  /\ writer = [n \in Node |-> Outside]
  /\ seen = [r \in Run |-> [n \in Node |-> Outside]]
  /\ promoted = {}
  /\ completed = [r \in Run |-> {}]
  /\ applies = [r \in Run |-> [n \in Node |-> 0]]
  /\ late = [r \in Run |-> {}]

-----------------------------------------------------------------------------
(* Rechecks, workers and the graph. *)

\* Mutant of FirstAttempt: the attempt is not looked at.
AnyAttempt(r) == attempt[r] >= 1

\* _controller_metadata: every script refuses a re-run attempt.
FirstAttempt(r) == attempt[r] = 1

\* Mutant of RecheckOK: the default branch may have moved.
RecheckOnAnyMain(r) == FirstAttempt(r) /\ holds[r] = Fact

\* recheck_worker and recheck_admission.
RecheckOK(r) ==
  /\ FirstAttempt(r)
  /\ revision[r] = main
  /\ holds[r] = Fact

Selected(r, n) == contract[r] # NoContract /\ n \in Workers(contract[r])

\* The stages the receipt of a worker requires.
Required(r) ==
  IF contract[r].command = "up" THEN Stage ELSE Stage \ {"apply", "drift"}

\* needs of the jobs of a worker; the gates of the operator run in parallel.
StageNeeds(n, g) ==
  CASE g = "resolve"     -> {}
    [] g = "plan"        -> {"resolve"}
    [] g = "destructive" -> {"resolve", "plan"}
    [] g = "iam"         -> {"resolve", "plan"} \cup
                            (IF n[2] = Operator THEN {} ELSE {"destructive"})
    [] g = "apply"       -> {"resolve", "plan", "destructive", "iam"}
    [] g = "drift"       -> {"resolve", "apply"}

\* Mutant of Rechecks: the plan job trusts the recheck of the resolve job.
RechecksAfterPlan(n, g) ==
  g \in {"resolve", "apply", "drift"} \/ (g = "iam" /\ n[2] # Operator)

\* The jobs of a worker that recheck before they use credentials.
Rechecks(n, g) ==
  \/ g \in {"resolve", "plan", "apply", "drift"}
  \/ g = "iam" /\ n[2] # Operator

\* Mutants of StackFree: the group of the stack is ignored; it is taken twice,
\* by the caller of the reusable workflow and by the workflow itself.
StackNeverLocked(n) == TRUE
StackLockedByWaiters(n) ==
  \A q \in Run : worker[q][n] \notin {"queued"} \cup Holding

\* No other worker of any run holds the state group of the stack.
StackFree(n) == \A q \in Run : worker[q][n] \notin Holding

Admitted(r) ==
  /\ job[r]["preflight"] = "success"
  /\ job[r]["validate_inputs"] = "success"

WorkerSucceeded(r, n) ==
  IF n[2] \in contract[r].scopes
  THEN worker[r][n] = "success" /\ Required(r) \subseteq passed[r][n]
  ELSE worker[r][n] = "skipped"

AccountSettled(r, a) == \A s \in Scope : worker[r][<<a, s>>] \in Terminal

\* All needs of a worker have ended, so its condition is evaluated.
WorkerReady(r, n) ==
  /\ phase[r] = "active"
  /\ worker[r][n] = "waiting"
  /\ job[r]["preflight"] \in Terminal
  /\ job[r]["validate_inputs"] \in Terminal
  /\ n[1] = "prod" => job[r]["whole_test"] \in Terminal
  /\ \A s \in Scope : s < n[2] => worker[r][<<n[1], s>>] \in Terminal

\* Mutant of WorkerAllowed: PROD waits for the TEST barrier to end, and its
\* result is not looked at.
WorkerAllowedAfterTest(r, n) ==
  /\ ~ cancelled[r]
  /\ Admitted(r)
  /\ n[2] \in contract[r].scopes
  /\ n[1] = "prod" => contract[r].target = "prod"
  /\ \A s \in Scope : s < n[2] =>
       worker[r][<<n[1], s>>] =
         IF s \in contract[r].scopes THEN "success" ELSE "skipped"

\* The condition of a worker in the root graph.
WorkerAllowed(r, n) ==
  /\ ~ cancelled[r]
  /\ Admitted(r)
  /\ n[2] \in contract[r].scopes
  /\ n[1] = "prod" => /\ contract[r].target = "prod"
                      /\ job[r]["whole_test"] = "success"
  /\ \A s \in Scope : s < n[2] =>
       worker[r][<<n[1], s>>] =
         IF s \in contract[r].scopes THEN "success" ELSE "skipped"

\* All needs of a root job have ended.
JobReady(r, j) ==
  /\ phase[r] = "active"
  /\ job[r][j] = "waiting"
  /\ j # "preflight" => job[r]["preflight"] \in Terminal
  /\ j \notin {"preflight", "validate_inputs"} =>
       job[r]["validate_inputs"] \in Terminal /\ AccountSettled(r, "test")
  /\ j \in {"whole_prod", "prepare_promotion", "publish_promotion"} =>
       job[r]["whole_test"] \in Terminal /\ AccountSettled(r, "prod")
  /\ j \in {"prepare_promotion", "publish_promotion"} =>
       job[r]["whole_prod"] \in Terminal
  /\ j = "publish_promotion" => job[r]["prepare_promotion"] \in Terminal

\* Mutant of Promotable: the completion kind is not looked at.
PromotableOfAnyKind(r) ==
  /\ ~ cancelled[r]
  /\ Admitted(r)
  /\ contract[r].target = "prod"
  /\ job[r]["whole_test"] = "success"
  /\ job[r]["whole_prod"] = "success"

\* A promotable outcome: both barriers report an apply with drift.
Promotable(r) ==
  /\ ~ cancelled[r]
  /\ Admitted(r)
  /\ contract[r].target = "prod"
  /\ CompletionKind(contract[r]) = "apply-drift"
  /\ job[r]["whole_test"] = "success"
  /\ job[r]["whole_prod"] = "success"

\* The condition of a root job.  The barriers run even in a cancelled run.
JobAllowed(r, j) ==
  CASE j = "preflight"         -> TRUE
    [] j = "validate_inputs"   -> ~ cancelled[r] /\ job[r]["preflight"] = "success"
    [] j = "whole_test"        -> Admitted(r)
    [] j = "whole_prod"        -> /\ Admitted(r)
                                  /\ contract[r].target = "prod"
                                  /\ job[r]["whole_test"] = "success"
    [] j = "prepare_promotion" -> Promotable(r)
    [] j = "publish_promotion" -> /\ Promotable(r)
                                  /\ job[r]["prepare_promotion"] = "success"

SetJob(r, j, s) == job' = [job EXCEPT ![r][j] = s]
SetWorker(r, n, s) == worker' = [worker EXCEPT ![r][n] = s]

-----------------------------------------------------------------------------
(* The group of the pull request. *)

\* GitHub keeps one pending run per group: a newer one displaces it.
JoinGroup(r) ==
  phase' = [q \in Run |->
    IF q = r THEN "pending"
    ELSE IF PROf[q] = PROf[r] /\ phase[q] = "pending" THEN "cancelled"
    ELSE phase[q]]

Dispatch(r) ==
  /\ phase[r] = "idle"
  /\ JoinGroup(r)
  /\ revision' = [revision EXCEPT ![r] = main]
  /\ UNCHANGED <<environment, attempt, cancelled, admission, job, worker,
                 stages, writer, promoted, history>>

\* Mutant of StartRun: runs of one pull request are not serialised.
StartRunAtOnce(r) ==
  /\ phase[r] = "pending"
  /\ phase' = [phase EXCEPT ![r] = "active"]
  /\ UNCHANGED <<environment, attempt, revision, cancelled, admission, job,
                 worker, stages, writer, promoted, history>>

StartRun(r) ==
  /\ phase[r] = "pending"
  /\ \A q \in Run : PROf[q] = PROf[r] => phase[q] # "active"
  /\ phase' = [phase EXCEPT ![r] = "active"]
  /\ UNCHANGED <<environment, attempt, revision, cancelled, admission, job,
                 worker, stages, writer, promoted, history>>

CancelRun(r) ==
  /\ \/ phase[r] = "pending" /\ phase' = [phase EXCEPT ![r] = "cancelled"]
     \/ phase[r] = "active" /\ UNCHANGED phase
  /\ ~ cancelled[r]
  /\ cancelled' = [cancelled EXCEPT ![r] = TRUE]
  /\ UNCHANGED <<environment, attempt, revision, admission, job, worker,
                 stages, writer, promoted, history>>

FinishRun(r) ==
  /\ phase[r] = "active"
  /\ \A j \in RootJob : job[r][j] \in Terminal
  /\ \A n \in Node : worker[r][n] \in Terminal
  /\ phase' = [phase EXCEPT ![r] = "done"]
  /\ UNCHANGED <<environment, attempt, revision, cancelled, admission, job,
                 worker, stages, writer, promoted, history>>

\* "Re-run failed jobs" keeps what succeeded; "re-run all jobs" keeps nothing.
\* Either way the attempt grows and the revision stays.
Rerun(r, all) ==
  /\ phase[r] \in {"done", "cancelled"}
  /\ attempt[r] < MaxAttempt
  /\ JoinGroup(r)
  /\ attempt' = [attempt EXCEPT ![r] = @ + 1]
  /\ cancelled' = [cancelled EXCEPT ![r] = FALSE]
  /\ job' = [job EXCEPT ![r] = [j \in RootJob |->
       IF ~ all /\ job[r][j] = "success" THEN "success" ELSE "waiting"]]
  /\ worker' = [worker EXCEPT ![r] = [n \in Node |->
       IF ~ all /\ worker[r][n] = "success" THEN "success" ELSE "waiting"]]
  /\ passed' = [passed EXCEPT ![r] = [n \in Node |->
       IF all THEN {} ELSE passed[r][n]]]
  /\ failed' = [failed EXCEPT ![r] = [n \in Node |-> {}]]
  /\ UNCHANGED <<environment, revision, admission, seen, writer, promoted,
                 history>>

-----------------------------------------------------------------------------
(* preflight: deployment_controller_runtime.accept. *)

\* Authenticate the intake, collect the evidence, build the contract and read
\* the protections.  The dispatch must be for the comment's own pull request.
CheckRequest(r) ==
  /\ JobReady(r, "preflight")
  /\ FirstAttempt(r)
  /\ CommentPR[CommentOf[r]] = PROf[r]
  /\ AdmissionFact \subseteq holds[r]
  /\ Requested[r] # {}
  /\ SetJob(r, "preflight", "checked")
  /\ UNCHANGED <<environment, control, admission, worker, stages, writer,
                 promoted, history>>

\* claim_request lists the statuses of the head ...
ListClaims(r) ==
  /\ job[r]["preflight"] = "checked"
  /\ ClaimOf(r) \notin claimed
  /\ SetJob(r, "preflight", "unclaimed")
  /\ UNCHANGED <<environment, control, admission, worker, stages, writer,
                 promoted, history>>

\* ... and then posts the claim.  The job may fail although the post arrived.
PostClaim(r) ==
  /\ job[r]["preflight"] = "unclaimed"
  /\ claimed' = claimed \cup {ClaimOf(r)}
  /\ \E s \in {"claimed", "failure"} : SetJob(r, "preflight", s)
  /\ UNCHANGED <<environment, control, contract, worker, stages, writer,
                 promoted, history>>

PersistContract(r) ==
  /\ job[r]["preflight"] = "claimed"
  /\ \E c \in Requested[r] : contract' = [contract EXCEPT ![r] = c]
  /\ SetJob(r, "preflight", "success")
  /\ UNCHANGED <<environment, control, claimed, worker, stages, writer,
                 promoted, history>>

FailPreflight(r) ==
  /\ \/ JobReady(r, "preflight")
     \/ job[r]["preflight"] \in {"checked", "unclaimed", "claimed"}
  /\ SetJob(r, "preflight", "failure")
  /\ UNCHANGED <<environment, control, admission, worker, stages, writer,
                 promoted, history>>

-----------------------------------------------------------------------------
(* The other root jobs. *)

SkipJob(r, j) ==
  /\ JobReady(r, j)
  /\ ~ JobAllowed(r, j)
  /\ SetJob(r, j, "skipped")
  /\ UNCHANGED <<environment, control, admission, worker, stages, writer,
                 promoted, history>>

\* A check of the job fails, or it times out or is killed.
FailJob(r, j) ==
  /\ j # "preflight"
  /\ JobReady(r, j)
  /\ JobAllowed(r, j)
  /\ SetJob(r, j, "failure")
  /\ UNCHANGED <<environment, control, admission, worker, stages, writer,
                 promoted, history>>

ValidateInputs(r) ==
  /\ JobReady(r, "validate_inputs")
  /\ JobAllowed(r, "validate_inputs")
  /\ RecheckOK(r)
  /\ SetJob(r, "validate_inputs", "success")
  /\ UNCHANGED <<environment, control, admission, worker, stages, writer,
                 promoted, history>>

AccountSucceeded(r, a) == \A s \in Scope : WorkerSucceeded(r, <<a, s>>)

\* build_verified_barrier: the PROD barrier recomputes the TEST barrier.
Barrier(r, a) ==
  LET j == IF a = "test" THEN "whole_test" ELSE "whole_prod" IN
  /\ JobReady(r, j)
  /\ JobAllowed(r, j)
  /\ RecheckOK(r)
  /\ AccountSucceeded(r, "test")
  /\ a = "prod" => AccountSucceeded(r, "prod")
  /\ SetJob(r, j, "success")
  /\ UNCHANGED <<environment, control, admission, worker, stages, writer,
                 promoted, history>>

\* build_promotion_proof, and revalidate_publication again.
ProofHolds(r) ==
  /\ RecheckOK(r)
  /\ AccountSucceeded(r, "test")
  /\ AccountSucceeded(r, "prod")

PreparePromotion(r) ==
  /\ JobReady(r, "prepare_promotion")
  /\ JobAllowed(r, "prepare_promotion")
  /\ ProofHolds(r)
  /\ SetJob(r, "prepare_promotion", "success")
  /\ UNCHANGED <<environment, control, admission, worker, stages, writer,
                 promoted, history>>

\* The job may fail although the status was posted.
PublishPromotion(r) ==
  /\ JobReady(r, "publish_promotion")
  /\ JobAllowed(r, "publish_promotion")
  /\ ProofHolds(r)
  /\ promoted' = promoted \cup {r}
  /\ \E s \in {"success", "failure"} : SetJob(r, "publish_promotion", s)
  /\ UNCHANGED <<environment, control, admission, worker, stages, writer,
                 history>>

-----------------------------------------------------------------------------
(* Workers: the reusable account workflows. *)

\* The worker joins the group of its stack, displacing an older pending one.
StartWorker(r, n) ==
  /\ WorkerReady(r, n)
  /\ WorkerAllowed(r, n)
  /\ worker' = [q \in Run |->
       IF q = r THEN [worker[r] EXCEPT ![n] = "queued"]
       ELSE IF worker[q][n] = "queued" THEN [worker[q] EXCEPT ![n] = "cancelled"]
       ELSE worker[q]]
  /\ UNCHANGED <<environment, control, admission, job, stages, writer,
                 promoted, history>>

SkipWorker(r, n) ==
  /\ WorkerReady(r, n)
  /\ ~ WorkerAllowed(r, n)
  /\ SetWorker(r, n, "skipped")
  /\ UNCHANGED <<environment, control, admission, job, stages, writer,
                 promoted, history>>

AcquireStack(r, n) ==
  /\ worker[r][n] = "queued"
  /\ ~ cancelled[r]
  /\ StackFree(n)
  /\ SetWorker(r, n, "running")
  /\ UNCHANGED <<environment, control, admission, job, stages, writer,
                 promoted, history>>

CancelQueued(r, n) ==
  /\ worker[r][n] = "queued"
  /\ cancelled[r]
  /\ SetWorker(r, n, "cancelled")
  /\ UNCHANGED <<environment, control, admission, job, stages, writer,
                 promoted, history>>

\* A job of the worker may start: its needs succeeded.
CanRun(r, n, g) ==
  /\ worker[r][n] = "running"
  /\ ~ cancelled[r]
  /\ g \in Required(r) \ (passed[r][n] \cup failed[r][n])
  /\ StageNeeds(n, g) \subseteq passed[r][n]

Pass(r, n, g) ==
  /\ passed' = [passed EXCEPT ![r][n] = @ \cup {g}]
  /\ completed' = [completed EXCEPT ![r] =
       IF g \in Operation THEN @ \cup {<<n, g>>} ELSE @]

Fail(r, n, g) == failed' = [failed EXCEPT ![r][n] = @ \cup {g}]

\* Every stage but apply.  A plan describes the stack as it is now; a drift
\* check is clean only when nobody else has changed the stack since.
RunStage(r, n, g) ==
  /\ g # "apply"
  /\ CanRun(r, n, g)
  /\ Rechecks(n, g) => RecheckOK(r)
  /\ g = "drift" => writer[n] = r
  /\ Pass(r, n, g)
  /\ seen' = IF g = "plan" THEN [seen EXCEPT ![r][n] = writer[n]] ELSE seen
  /\ UNCHANGED <<environment, control, admission, job, worker, failed, writer,
                 promoted, applies, late>>

\* A stage is rejected, times out, waits too long for its approval or dies.
FailStage(r, n, g) ==
  /\ CanRun(r, n, g)
  /\ Fail(r, n, g)
  /\ UNCHANGED <<environment, control, admission, job, worker, passed, seen,
                 writer, promoted, history>>

\* The apply job rechecks when it starts and again immediately before it
\* applies; the last recheck is the one that counts.
CheckApply(r, n) ==
  /\ CanRun(r, n, "apply")
  /\ RecheckOK(r)
  /\ SetWorker(r, n, "rechecked")
  /\ UNCHANGED <<environment, control, admission, job, stages, writer,
                 promoted, history>>

\* Then it reads the pull request once more; the operator instead requires
\* the checkpoint the plan was made from.
RevalidatePull(r, n) ==
  /\ worker[r][n] = "rechecked"
  /\ IF n[2] = Operator THEN writer[n] = seen[r][n] ELSE "source" \in holds[r]
  /\ SetWorker(r, n, "applying")
  /\ UNCHANGED <<environment, control, admission, job, stages, writer,
                 promoted, history>>

\* Replaying the saved plan changes the stack even when it fails half way.
ApplyPlan(r, n) ==
  /\ worker[r][n] = "applying"
  /\ SetWorker(r, n, "running")
  /\ writer' = [writer EXCEPT ![n] = r]
  /\ applies' = [applies EXCEPT ![r][n] = @ + 1]
  /\ late' = [late EXCEPT ![r] = IF main # revision[r] THEN @ \cup {n} ELSE @]
  /\ \/ Pass(r, n, "apply") /\ UNCHANGED failed
     \/ Fail(r, n, "apply") /\ UNCHANGED <<passed, completed>>
  /\ UNCHANGED <<environment, control, admission, job, seen, promoted>>

\* The apply job ends before it has changed anything.
AbortApply(r, n) ==
  /\ worker[r][n] \in {"rechecked", "applying"}
  /\ SetWorker(r, n, "running")
  /\ Fail(r, n, "apply")
  /\ UNCHANGED <<environment, control, admission, job, passed, seen, writer,
                 promoted, history>>

\* The receipt job runs always, once every other job of the worker has ended.
Settled(r, n) ==
  /\ worker[r][n] = "running"
  /\ \A g \in Stage : ~ CanRun(r, n, g)

IssueReceipt(r, n) ==
  /\ Settled(r, n)
  /\ RecheckOK(r)
  /\ Required(r) \subseteq passed[r][n]
  /\ SetWorker(r, n, "success")
  /\ UNCHANGED <<environment, control, admission, job, stages, writer,
                 promoted, history>>

WithholdReceipt(r, n) ==
  /\ Settled(r, n)
  /\ SetWorker(r, n, "failure")
  /\ UNCHANGED <<environment, control, admission, job, stages, writer,
                 promoted, history>>

-----------------------------------------------------------------------------
(* The surroundings. *)

AdvanceMain ==
  /\ main < MaxMain
  /\ main' = main + 1
  /\ UNCHANGED <<holds, control, admission, job, worker, stages, writer,
                 promoted, history>>

ChangeFact(r, f) ==
  /\ holds' = [holds EXCEPT ![r] =
       IF f \in @ THEN @ \ {f} ELSE @ \cup {f}]
  /\ UNCHANGED <<main, control, admission, job, worker, stages, writer,
                 promoted, history>>

\* pulumi-test-deploy and pulumi-prod deploy the platform stack under the
\* same group, nightly-guardrails checks its drift: they displace a pending
\* worker and wait for a running one.
OutsideQueues(n) ==
  /\ n[2] = Platform
  /\ \E q \in Run : worker[q][n] = "queued"
  /\ worker' = [q \in Run |->
       IF worker[q][n] = "queued" THEN [worker[q] EXCEPT ![n] = "cancelled"]
       ELSE worker[q]]
  /\ UNCHANGED <<environment, control, admission, job, stages, writer,
                 promoted, history>>

OutsideDeploys(n) ==
  /\ n[2] = Platform
  /\ StackFree(n)
  /\ writer[n] # Outside
  /\ writer' = [writer EXCEPT ![n] = Outside]
  /\ UNCHANGED <<environment, control, admission, job, worker, stages,
                 promoted, history>>

-----------------------------------------------------------------------------
\* What GitHub's scheduler and the jobs of a run do by themselves: every job
\* has a timeout, so none of them stays enabled forever without a step.
Progress(r) ==
  \/ StartRun(r) \/ FinishRun(r)
  \/ CheckRequest(r) \/ ListClaims(r) \/ PostClaim(r) \/ PersistContract(r)
  \/ FailPreflight(r)
  \/ \E j \in RootJob : SkipJob(r, j) \/ FailJob(r, j)
  \/ ValidateInputs(r)
  \/ \E a \in Account : Barrier(r, a)
  \/ PreparePromotion(r) \/ PublishPromotion(r)
  \/ \E n \in Node :
       \/ StartWorker(r, n) \/ SkipWorker(r, n)
       \/ AcquireStack(r, n) \/ CancelQueued(r, n)
       \/ \E g \in Stage : RunStage(r, n, g) \/ FailStage(r, n, g)
       \/ CheckApply(r, n) \/ RevalidatePull(r, n)
       \/ ApplyPlan(r, n) \/ AbortApply(r, n)
       \/ IssueReceipt(r, n) \/ WithholdReceipt(r, n)

\* What people, GitHub and other workflows do to a run.
Disturb(r) ==
  \/ Dispatch(r)
  \/ CancelRun(r)
  \/ \E all \in BOOLEAN : Rerun(r, all)
  \/ \E f \in Fickle : ChangeFact(r, f)

Next ==
  \/ \E r \in Run : Progress(r) \/ Disturb(r)
  \/ AdvanceMain
  \/ \E n \in Node : OutsideQueues(n) \/ OutsideDeploys(n)

Spec == Init /\ [][Next]_vars

FairSpec == Spec /\ \A r \in Run : WF_vars(Progress(r))

-----------------------------------------------------------------------------
(* Properties. *)

\* The variables have the values the workflow contexts and the state files
\* of the stacks can give them.
TypeOK ==
  /\ main \in Nat
  /\ holds \in [Run -> SUBSET Fact]
  /\ claimed \subseteq {ClaimOf(r) : r \in Run}
  /\ phase \in [Run -> Phase]
  /\ attempt \in [Run -> Nat \ {0}]
  /\ revision \in [Run -> Nat]
  /\ cancelled \in [Run -> BOOLEAN]
  /\ contract \in [Run -> Contract \cup {NoContract}]
  /\ job \in [Run -> [RootJob -> JobState]]
  /\ worker \in [Run -> [Node -> WorkerState]]
  /\ passed \in [Run -> [Node -> SUBSET Stage]]
  /\ failed \in [Run -> [Node -> SUBSET Stage]]
  /\ writer \in [Node -> Run \cup {Outside}]
  /\ seen \in [Run -> [Node -> Run \cup {Outside}]]
  /\ promoted \subseteq Run
  /\ completed \in [Run -> SUBSET Step]
  /\ applies \in [Run -> [Node -> Nat]]
  /\ late \in [Run -> SUBSET Node]

\* A run touches a stack when its worker waits for it, holds it, has done a
\* step of the schedule on it or has begun to change it.
Touches(r, n) ==
  \/ worker[r][n] \in {"queued"} \cup Holding
  \/ \E o \in Operation : <<n, o>> \in completed[r]
  \/ applies[r][n] > 0

\* Whatever failures, cancellations and re-runs happen, a run touches only
\* selected stacks, and only after it has completed its whole schedule on all
\* stacks that come before: STACK_ORDER within an account, the full TEST
\* graph before PROD (the conditions of the workers and barriers).
StacksInOrder ==
  \A r \in Run, n \in Node : Touches(r, n) =>
    /\ Selected(r, n)
    /\ \A x \in Schedule(contract[r]) :
         NodeBefore(x[1], n) => x \in completed[r]

\* A comment admits at most one run for a head, although listing the claims
\* and posting one are two calls, deliveries repeat and a dispatch can name
\* another pull request than the comment's (claim_request under the group of
\* the PR).
ClaimedOnce ==
  \A q, r \in Run :
    /\ ClaimOf(q) = ClaimOf(r)
    /\ contract[q] # NoContract
    /\ contract[r] # NoContract
    => q = r

\* A run begins to change a stack at most once, even when its apply job
\* failed half way and is re-run (the attempt check of every script).
AtMostOneApply ==
  \A r \in Run, n \in Node : applies[r][n] <= 1

\* The plan about to be replayed was made from the state the stack is in now,
\* although runs of other pull requests and the deployments of main share
\* the stack (the state group is held from plan to apply).
AppliedPlanIsCurrent ==
  \A r \in Run, n \in Node :
    worker[r][n] \in {"rechecked", "applying"} => writer[n] = seen[r][n]

\* Once main has moved, a run changes at most the one stack whose last
\* recheck had already passed; every later worker is refused.
AtMostOneLateApply ==
  \A r \in Run : Cardinality(late[r]) <= 1

\* A re-run attempt never completes a step, changes a stack or publishes.
RerunsNeverDeploy ==
  [][\A r \in Run : attempt[r] > 1 =>
       /\ completed'[r] = completed[r]
       /\ applies'[r] = applies[r]
       /\ r \in promoted' => r \in promoted]_vars

\* The graph implements the schedule.
Abstract == INSTANCE DeploymentSchedule WITH done <- completed
ImplementsSchedule == Abstract!Spec

\* Every run that enters the group of its pull request leaves it: waiting for
\* the group and for the stacks never closes a cycle.
EveryRunFinishes ==
  \A r \in Run : phase[r] = "pending" ~> phase[r] \in {"done", "cancelled"}
=============================================================================
