# Formal model of the deployment and alerting machinery

This directory holds TLA+ specifications of the part of the repository that decides what is deployed,
by whom and on whose word: the intake and admission of `/pulumi <account> <command>` comments, the workflow
that executes them and its account workers, the sealed plans of the operator program and the saved plans of the
other programs with their policies and gates, the previews of reviewed pull requests, the publication of
promotions and of Well-Architected evidence, the tool that sets up the controls of the repository, and the
consumers of the operations alert queue. The specifications are model-checked with TLC on small
instances, and every safety property that holds is proved with TLAPS for all values of the constants.

Paths below are relative to the repository (`scripts/...`, `.github/workflows/...`).

## 1. The system

An operator of the infrastructure writes `/pulumi test plan`, `/pulumi test up`, `/pulumi prod plan`
or `/pulumi prod up` on a pull request. The intake workflow validates the comment and dispatches the
*command runner*. The runner admits the request, derives from the changed files which of three Pulumi
programs (operator, governance, platform: `STACK_ORDER`) are affected, deploys them to TEST and then
to PROD, and publishes a promotion status that the merge of the pull request requires. Beside it, a pull
request whose source was reviewed gets a preview with credentials, the default branch is deployed on every
push, an operator publishes evidence about the account on a head, and an administrator configures the rules all
of this depends on.

### Components

| Component | State it keeps | Operations | Hard behaviour | What makes it correct |
|---|---|---|---|---|
| **Command intake** `pulumi-pr-commands.yml`, `pulumi_pr_comment.py` | intake artifact | parse, authorise, record, dispatch | edits and withdrawals of comments, re-runs, foreign dispatches | what is dispatched is what the author said |
| **Admission** `deployment_controller_runtime.py`, `pulumi_command_preflight.py` | claim statuses of commits; the contract artifact | authenticate intake, collect evidence, claim, persist the contract | list-then-post claim; lost answers; facts that change between reads; a command that expires while it waits | one admission per comment and head, of one moment, in time |
| **Scope selection** `deployment_scopes.py`, `governance_paths.py` | none (pure) | classify changed paths, select stacks and validations | renames, cut listings, unclassified paths, one reviewed cutover | every changed path is covered |
| **Command runner** `pulumi-pr-command-runner.yml` | run, attempt and job states; the group of the pull request | dispatch, queue, preflight, validate inputs, six account workers, two barriers, prepare and publish the promotion, re-run, cancel | needs that end in failure or a skip; re-runs that keep old results; displaced pending runs | stacks touched in order; a comment admits one run for a head; runs end |
| **Schedule and contract** `deployment_schedule.py`, `deployment_controller.py` | none (pure) | build contract, schedule, completion kind, reduce barrier | plans and empty selections that look like deployments | the order of the schedule; only a nonempty PROD `up` is promotable |
| **Worker rechecks** `deployment_worker_recheck.py`, `deployment_worker_runtime.py` | none (reads GitHub) | recheck an admission before each use of credentials | a fact that changes right after the recheck | stale requests stop at the next job |
| **Account workers** `pulumi-{operator,governance,platform}-account.yml` | the state group of each stack and account; saved plan artifacts; the stack itself | resolve, preview, destructive diff, IAM validation, apply, drift, receipt | other runs that want the stack while a plan waits for approval; half-done applies | the plan that is replayed describes the current stack; no double apply |
| **Receipts and barriers** `deployment_worker_receipt.py`, `deployment_receipt_runtime.py`, `deployment_account_barrier.py` | receipt and barrier artifacts | issue a receipt; reduce the receipts of an account | a skipped worker read as a success | a barrier means that the account is complete |
| **Promotion proof** `deployment_promotion_proof.py` | proof artifact | recompute both barriers from the job graph | artifacts of another attempt | a proof means that the whole schedule ran |
| **Promotion emitter** `deployment_promotion_emitter.py`, `deployment_promotion_publication.py` | deployments and statuses of a head | publish records and the aggregate status | lost posts, stale reads, partial publication | published at most once, aggregate last |
| **Promotion scope report** `deployment_promotion_scope.py`, `governance-promotion.yml` | promotion status of a head | decide what the status says, and write it | two workflows that write one status | a writer reads back what it wrote |
| **Operator execution** `operator_execution_runtime.py`, `operator_execution_transport.py`, `operator_plan_envelope.py`, `operator_enrollment_runtime.py` | sealed plan; the checkpoint and the roles of the account | preview, validate, seal, open, apply, drift | checkpoint and roles move between reads; a program that rewrites its own plan | what was previewed is what is applied |
| **Operator plan validation** `operator_plan_validation.py`, `seed/policy_registry.py` | none (pure) | validate a plan against its checkpoint and the catalog | legal plans that add up to an illegal state | the operators stay enrolled and guarded |
| **Saved plans** `run_pulumi_command.py`, `_pulumi_stack_config.py`, `_pulumi_command_support.py` | plans and manifest of the stacks, their checkpoints, locks and keys | preview, gates, update, drift, re-run | several stacks, one of which fails; people who write stacks | only what was read is applied, in order, from the planned checkpoint |
| **Guardrail policies** `policy/`, `pulumi_ci_guardrails.py` | none (pure) | rules on resources and stacks; gates over previews | inputs not known before the update | what is built is protected |
| **Reviewed source admission** `reviewed_source_admission.py`, `reviewed-pr-preview.yml`, `reviewed-source-signal.yml` | three statuses of a head | announce, admit, preview, publish; cancel on a newer signal; re-run | reads interleaved with pushes and dismissals; jobs that outlive a cancellation; re-runs that keep old results | credentials and verdicts only for what was approved |
| **Well-Architected evidence** `collect_well_architected_evidence.py`, `_well_architected_*.py`, `publish_well_architected.py`, `trusted-well-architected.yml` | the evidence status of a head | authenticate an approval, collect, accept, refresh, post | two jobs, checks of several requests, a long collection, its own status among the checks | a success rests on facts that held |
| **Repository administration** `configure_github_repository_controls.py`, `_github_*.py` | ruleset and environments of the repository | apply, verify, create-only modes | several requests without a transaction, people who edit beside it | no opening; nothing lost; what was written verifies |
| **Alert triage** `operations_alert_triage.py`, the installed, backfill and reconcile workflows, the staged consumer `docs/examples/operations-alert-triage-v2.yml` | SQS queue, GitHub issues and their search index | receive, classify, search, create or update an issue, audit, delete | at-least-once delivery, failures between write and delete, a search index that lags | no alert lost, one open issue per stream, repetitions only after failures |
| **Deployments of the default branch** `pulumi-test-deploy.yml`, `pulumi-prod.yml`, `nightly-guardrails.yml` | the platform stacks | deploy main, check drift | share the state groups with the runner | mutual exclusion with the workers |
| Operator seed, repository catalogs, governance promotion of generated services, input validation, infrastructure programs | none that outlives a call | validation and rendering of documents | - | not behaviour for a state machine (section 6) |

### How they interact

* The intake **dispatches** the runner with the number of the pull request and the intake artifact.
  The runner takes the concurrency group of that *number*; only preflight compares it with the pull
  request the comment really belongs to.
* Root jobs and workers communicate through `needs` (job results) and through artifacts, whose digests
  travel as job outputs. An artifact is trusted only together with the result of the job that made it.
* Workers of all runs, and the deployments of main, share one **state group** per stack and account. People who
  administer an account are outside every group.
* The **engine** (Pulumi) takes its own lock on a checkpoint for the time of an update. Between the
  last read of a checkpoint and this lock nothing is held.
* Everything else is shared through GitHub: the default branch, the pull request, reviews, permissions,
  environment protections and commit statuses. All of it can change at any time; the scripts re-read it.
* Alerts go from EventBridge over SNS to one SQS queue, and from there to issues. The consumers and the backfill
  share a concurrency group and the issues; nothing else of the deployment machinery touches them.

## 2. Modules

| Module | Models | Kind |
|---|---|---|
| `ScopeSelection` | classification of paths, selected stacks and validations, GitHub's comparison | pure definitions |
| `CommandAdmission` | from a comment to an admitted contract, one read at a time | detailed specification and its properties |
| `DeploymentContract` | contract, schedule and its order, completion kinds | pure definitions |
| `DeploymentSchedule` | what the runner promises: admit once, perform the schedule in order, promote when complete | abstract specification |
| `DeploymentGraph` | the runner: groups, preflight, root jobs, workers, stages, rechecks, re-runs, surroundings | detailed specification and its properties |
| `PromotionStatus` | what a publication promises: record each account once, announce what is recorded | abstract specification |
| `PromotionPublication` | the writers of the promotion status of one head: emitter and scope report, request by request | detailed specification and its properties |
| `OperatorPlan` | the validator of operator plans, the check of enrolled roles | pure definitions |
| `OperatorExecution` | the stages of the operator worker, read by read | specification and its properties |
| `PolicyPack`, `PreviewGates` | the mandatory policies on resources and stacks; the gates over previews | pure definitions |
| `SavedPlan` | plans of several stacks: preview, gates, update, drift | specification and its properties |
| `ReviewedSource` | the preview of a reviewed pull request and its three statuses | specification and its properties |
| `WellArchitectedEvidence` | the sixteen checks and the scores | pure definitions |
| `TrustedEvidence` | the trusted run that collects, reads again and posts | specification and its properties |
| `RepositoryControls` | the administrator's tool against GitHub's settings, request by request | specification and its properties |
| `AlertTriage` | the installed and the staged consumer of the alert queue, the backfill, the queue and the issues | specification and its properties |
| `MC*` (nine modules) | values of the constants for TLC | model checking |
| `*_proofs` (eight modules) | section 4; `Maintenance_proofs` has the proofs of `RepositoryControls` and of `AlertTriage` | proofs |

`DeploymentContract` <- `DeploymentGraph` (`Abstract == INSTANCE DeploymentSchedule WITH done <- completed`).
`PromotionPublication` stands beside it (`Aggregate == INSTANCE PromotionStatus WITH ...`) and details the
step that is `PublishPromotion` there, as `CommandAdmission` (with `ScopeSelection`) details its preflight,
`OperatorExecution` (with `OperatorPlan`) the stages of an operator worker, and `SavedPlan` (with `PolicyPack` and
`PreviewGates`) those of the other two workers. `ReviewedSource`, `TrustedEvidence` (with
`WellArchitectedEvidence`), `RepositoryControls` and `AlertTriage` share only GitHub with them.

### `CommandAdmission`: state and actions

| Variable | Code |
|---|---|
| `facts[p]` | all that GitHub has shown of pull request `p` (head, base, open, on its way to main), the last is now; a read takes the last, a property may ask for the moments between two reads |
| `rights`, `protected`, `comment` | permissions, environment protections, the comments as they are now |
| `intake[c]`, `recorded` | the intake run of a comment and its artifact; history of the requests recorded |
| `waiting[p]`, `active[p]` | the concurrency group of a number: the pending request, and the run with what it has read |
| `claims` | statuses `Pulumi command claim/<id>`: a head and a comment |
| `admitted` | the contracts; `clock` counts in units of the windows `IntakeAge` and `CommandAge` |

`Post`, `EditComment`, `Withdraw` are people's comments; `StartIntake`, `RerunIntake`, `RecordRequest`, `SendRequest` are
`pulumi-pr-commands.yml`; `ForeignDispatch` is anybody with write access. `StartRun` to `EndRun` are `accept`: the
dispatch arguments (`ReadRun`), `_authenticate_intake` (`ReadArtifact`), the comment (`ReadComment`), then `collect_evidence`
with the pull request before (`ReadBefore`), the comparison and main (`ReadComparison`), the pull request after
(`ReadAfter`), the permission and the environments, and `claim_request` (`ListClaims`, `PostClaim`), `Accept`. Any of them
may end in `EndRun`. `PostClaim` may fail although the post arrived.

### `DeploymentGraph`: state and actions

| Variable | Code |
|---|---|
| `main` | head of the default branch; `revision[r]` is `GITHUB_SHA` of run `r` |
| `holds[r]` | the facts a recheck of `r` reads: `source` (pull request open, unmerged, at the admitted head and base), `rights` (permission of the requester), `review` (approval of the head), `protection` (environments) |
| `claimed` | claim statuses `Pulumi command claim/<id>`: a head and a comment (`ClaimOf`, of the head `HeadOf` that the run's intake recorded) |
| `phase[r]`, `cancelled[r]`, `attempt[r]` | the run in its concurrency group; a requested cancellation; `GITHUB_RUN_ATTEMPT` |
| `contract[r]` | the contract artifact and the outputs of preflight |
| `job[r][j]`, `worker[r][n]` | results of root jobs and of the six reusable workflow calls; a worker is a pair of account and scope |
| `passed[r][n]`, `failed[r][n]` | results of the jobs inside a worker |
| `writer[n]`, `seen[r][n]` | who changed the stack last (its checkpoint), and whom the saved plan of the worker was made after |
| `promoted` | runs whose aggregate status was posted |
| `completed`, `applies`, `late` | history variables for the properties: written, never read by an action |

* **Groups.** `Dispatch`, `StartRun`, `CancelRun`, `FinishRun`, `Rerun` are GitHub's side of the runner's
  `concurrency: pulumi-command-<number>` with `cancel-in-progress: false`: one run is active, one may
  be pending, and a newer pending one displaces it. "Re-run failed jobs" keeps the results of
  successful jobs, "re-run all jobs" keeps none; both keep the contract *artifact* and the revision.
* **Preflight** is `CheckRequest`, `ListClaims`, `PostClaim`, `PersistContract`, with `FailPreflight`
  possible between any two of them: `accept` lists the claim statuses and posts a new one in two calls,
  which other runs may interleave. `PostClaim` may end in failure although the post arrived.
* **Root jobs.** `JobReady` is `needs`, `JobAllowed` is `if`; `SkipJob` and `FailJob` are the results
  GitHub gives by itself, and `ValidateInputs`, `Barrier`, `PreparePromotion`, `PublishPromotion` the
  successes the scripts allow. `always()` conditions appear as conditions that do not look at `cancelled`.
* **Workers.** `StartWorker` queues for the state group, `AcquireStack` takes it, `RunStage` is a job that
  succeeds and `FailStage` one that does not. The apply job is `CheckApply`, `RevalidatePull`, `ApplyPlan`:
  the recheck before credentials and the one before the apply are one action, because a failing first
  check is `FailStage` and only the last one separates the change of the stack from what was checked.
  `ApplyPlan` changes the stack whether it succeeds or not. `IssueReceipt` ends the worker.
* **Surroundings.** `AdvanceMain`, `ChangeFact` (both directions: a fact can be restored),
  `OutsideQueues` (pulumi-test-deploy, pulumi-prod and nightly-guardrails queue for the group of a platform
  stack) and `OutsideDeploys` (the first two change the stack).

### `PromotionPublication`: state and actions

The module describes one head commit. `PullOf` gives the pull request of each job: two pull requests can have
the same head, and then their jobs are in different groups and write one status.

| Variable | Code |
|---|---|
| `deployments`, `outcomes`, `statuses` | what GitHub keeps for the head: deployments in the order of their ids, their success statuses, and the statuses of the context "Infrastructure Promotion" |
| `inflight` | requests whose sender has given up (a timeout in `_post_once`) and that may still arrive |
| `pc[j]`, `at[j]` | where a job is, and which of its writes (`Work`) it is at |
| `answer[j]` | id of the status that the answer to a post named; 0 when there was no answer |
| `intent[j]` | what a scope report found: the run that promotes the head, or none |
| `conclusion[q]` | conclusion of the command run whose publisher is `q`; a scope report looks only at runs that have ended |
| `valid[q]` | whether the evidence of the run can be rebuilt now (`revalidate_publication`): request, review and proof are current |

`Join` is the group `promotion-status` of the pull request with its one pending place. `Begin` is the first
authorisation, or the verification by which a report decides what to write. Each write is `Look` (read,
and do nothing if the record is there), `Authorize`, `Send` and `Readback`: `_ensure_deployment`,
`_ensure_status` and `_post_once`. `Send` answers, arrives without an answer, is lost, or is left to arrive
later (`Deliver`). `Check` is the second look at all records before the status, `Confirm` the authorisation after
it. `Fail` is any check that fails, a rejected environment, a cancellation or a crash. `Conclude` ends the command
run and `ChangeEvidence` changes, in both directions, what the authorisations read.

### `OperatorExecution`: state and actions

| Variable | Code |
|---|---|
| `checkpoint` | the object of the bucket: version, secrets provider, rows (resources), whether an operation is pending |
| `live` | the roles and policies of the account as they are |
| `worker` | the run that holds the account's group: its stage, what it has read, the engine's preview, the sealed plan |
| `started`, `changes` | bounds |

`ReadHead`, `ReadAgain` are the snapshots around each use of the checkpoint, `EnrollRole` the reads of the enrolled roles one
after another. `PulumiPreview` is the engine, which computes goals from the checkpoint it finds and prints them (`Shown`), after which
the *program* may have written other goals over the saved plan (`Files`: of some resources another goal of `Forgery`, or none).
`Validate` is `validate_plan`: its comparison of plan and preview sees what a preview prints (`Printed`, `Project`).
`Seal` and `Open` are the envelope with its binding to version and catalog, `Up` the apply, to the checkpoint as it is *then*
(`applied` has that version); it may stop after any prefix. `SameProvider`, `Refresh` and `Clean` are the drift stage. `Rewrite` and
`ChangeRole` are others who write the checkpoint and the roles; `late` notes that somebody wrote the checkpoint after the last snapshot.

### `SavedPlan`: state and actions

| Variable | Code |
|---|---|
| `live`, `checkpoint`, `locked`, `key` | resources of each stack, its checkpoint (version, pending, who wrote it), the engine's lock, the key behind the alias |
| `group`, `job`, `reached`, `at`, `runs` | state group, the jobs of each worker (plan, gates, apply, drift), the index of the stack, attempts |
| `source`, `preview`, `plan`, `manifest`, `expired` | commit, printed steps, goals of the saved plan, manifest entry (version of the checkpoint and key), age |
| `binding`, `update`, `completed` | identity read by `prepared_stack_configuration`; steps of the update under way; history of the stacks updated in full |

`Select` begins a stack, `PrepareForPlan` and `PrepareForUpdate` read and compare the identity, `PreviewStack` shows the steps with
what is `Unknown` before the update, each with its new state as the engine prints it (`NewState`: type, and inputs as a field of their
own), `PassGates` is `pulumi_ci_guardrails.py`, `BeginUpdate` the engine's lock,
`CompleteUpdate`, `StopUpdate` (a step or a policy refuses) and `LoseUpdate` (the machine is lost, the lock stays) its ends,
`CheckDrift` the last job. `RerunFailed` is GitHub's. `InitializeStack`, `UpdateByHand`, `ChangeInConsole`, `RetargetKey`,
`Repair` are people.

### `ReviewedSource`: state and actions

| Variable | Code |
|---|---|
| `facts` | head, main, the reviews in their order, the right of the reviewer, whether the environment of the publisher and the App with its pinned ruleset are as audited |
| `attempt[r]` | place and job of an attempt, the first attempt of its run and whether it was resumed after the admission, the revision it trusts, the jobs that have passed, the reviews it has read, its verdict and how many of its posts were made; `sound` and `steady` are history |
| `statuses[h]` | the three contexts of a head, with the attempt that wrote each |
| `acts` | history: what was executed or published, and whether a moment of its admission allowed it |
| `events` | bound: attempts and changes of the facts |

An attempt is what GitHub numbers `run_attempt`; here attempts of all runs are numbered in the order they start. `Signal` starts a run.
`Rerun` starts the last attempt of a run again, as a whole or from one of its jobs, with the head and the revision of the run and the
results of the jobs before: nothing in the workflow or the script looks at `run_attempt`, so a publishing job that is started again posts what its run
found earlier, without a pending before it. Both join the group of the branch and cancel what is under way; `Begin` takes the group once the older attempt is
over, which may be after its `always()` job. `ReadBoundary` and `ReadEnvironment` are `assert_publication_boundary` with the environment and its branch policies
(both jobs that publish have it), `ReadIdentity` the App and the pinned ruleset before the posts; nothing catches their refusal, so they end
the attempt without a post. `ResolveSignal`, `ReadAnnounce1/2` are the announcement, `ReadMain1`, `ReadPull1`, `ReadReviews1`,
`ReadPermission`, `ReadReviews2`, `ReadPull2`, `ReadMain2` one admission, which every job repeats; `PostStatus` posts one
context, `Execute` is the work with credentials, `Stop` and `Lose` a cancellation and a lost machine.

### `TrustedEvidence`: state and actions

| Variable | Code |
|---|---|
| `world` | what GitHub, AWS and the protected variables show now: the pull request, the approval, and an answer to every request |
| `clock`, `changes` | time, bound of the changes |
| `run[r]` | the run: its step, approval, own earlier status, place in the list of checks, the answers to the check under way (`view`), the rows of the report (`rows`, each with the answers it rests on), time of collection; `collecting`, `publishing`, `confirmed`, `valid` are history |
| `status[h]` | newest evidence status of a head |

A check is a list of requests, where an answer decides what is asked next (`Open` in `WellArchitectedEvidence`: the rollup after the
first view of the pull request, one request per page of threads, per ruleset, per user and his keys, devices and profile, the queue that the
subscriptions name), and a verdict on the answers (`Holds`). `Ask` is **one request**: with the last one of a check its row is
concluded. `Prepare` and `Context` are the job without credentials, `Verify`, `OwnStatus`, `Collect` (all sixteen checks) and `Record` the
collecting one, `Current`, `Accept`, `OwnStatus`, `Refresh` (the checks of GitHub again), `Expiry`, `Context` and `Post` the publishing
one; `Stop` is every refusal. An answer that does not come, or makes no sense, is `Unanswered`: the check does not pass. `Change` and `Tick`
are the surroundings. `collecting` and `publishing` hold every answer that could be had while the job made its requests; no action reads them.

### `RepositoryControls`: state and actions

| Variable | Code |
|---|---|
| `ruleset`, `env`, `classic`, `central` | the ruleset named main; the environments with mode, reviewers and branch list; classic protection; which repository it is |
| `run[r]` | the requests a run still has to make, what it has read, its outcome |
| `alone`, `edits`, `promised` | history: runs nobody wrote beside; edits by hand; what the ruleset required and nobody dropped |

A run is its list of requests; each is an action (`PutRuleset`, `PutEnvironment`, `ListPolicies`, `DeletePolicy`, `PostMain`,
`ReadRuleset`, ...), and some put further requests before the rest: a listing the deletions and the post of `main`, the reading of
an environment that of its policies, the inventory the reads and the creations of what is missing. Policies have the ids GitHub counts,
from `FirstId` on. `StartApply`, `StartVerify`, `StartCreate` are the modes, `Report` the end,
`Stop` a crash after any request, `ByHand` an edit of somebody else.

### `AlertTriage`: state and actions

`Maintenance_proofs` extends this module beside `RepositoryControls`, so the names both would have are told apart here:
`TriageRun`, `TriageInit`, `TriageNext`, `TriageSpec`.

| Variable | Code |
|---|---|
| `queue[m]`, `receipt[m]` | where SQS has message `m`, and the number of its latest receipt handle |
| `event[m]` | what the classification reads of the alert, and its stream (`message_fingerprint`) |
| `issues`, `index` | the issues in the order of their numbers, each with its stream and whether it is open; the ones the search reports as open |
| `pc[r]` | where run `r` is: waiting in the group, or in a step of its workflow (`Workflow[r]`) |
| `batch[r]`, `pages[r]` | `alerts_json`: the receipts the run holds; `receive_pages` |
| `todo[r]`, `found[r]` | groups the loop over the streams has yet to write; `existing_matches` of the current one |
| `acks[r]` | receipts the delete loop has yet to use (`operations-acknowledgments.json`) |
| `writes`, `blind` | history variables: what was written with which receipts; streams for which a search missed an open issue |

`Join`, `TakeGroup`, `Fail` are the group `Operations Alert Issue Triage` and the end of a run at any point. The installed
run is `ReceivePage` until `StopReceiving`, `WriteUnmarked` (one issue, no marker, no search) and `Acknowledge`. The
staged run is `ReceiveBatch` (one receive with its classification), then `Search` and `WriteCanonical` for each stream
with an actionable alert, `Audit` and `Acknowledge`, and `Finish`, which fails if something was
quarantined. A backfill is `Search` and `WriteCanonical` for its one stream. `Disposition` is `message_disposition`
on the fields it compares. `Publish`, `Reappear` (the visibility timeout ends, at any time), `Close` and `Refresh`
are the queue, the people and the search index.

### Abstractions

* Digests, signatures, ciphers and artifact identities are compared for equality by the code; here an artifact is
  what it covers, or the result of the job that made it, and a verification that fails is a job that fails.
* In `DeploymentGraph` a recheck reads its facts in one step: it has the reads of `CommandAdmission`, where the window
  between them is what the properties are about. The head of a run is the one its intake recorded; `CommandAdmission` has the intake that records it. `publish_promotion` takes a second group there as well; a job displaced in it is a job
  that fails. `comment_result` formats a comment and changes nothing.
* A path is its class in `ScopeSelection`: the list of the source that names it. The lists overlap as in the source.
* In `PromotionPublication` the head has a selection that is not empty. The identity of the App, URLs and payloads of
  a record are its equality; the code rejects records that differ in them, which is `Fail`. The reads of a
  verification are one step. A read sees what has arrived; a stale read makes a job fail where it could
  have gone on, which `Fail` allows too.
* A resource of `OperatorPlan` is a row of the fields the validator compares; policy documents, boundaries and guards are
  members of small sets, and what the analyzer rejects is one of them. Adding or removing managed policies through the
  `managedPolicyArns` of a role is not modelled. A preview prints no value of a secret, and of the identity
  provider neither inputs nor outputs; plan and preview are compared without them. What others write into the checkpoint keeps its rows: they change the version, the
  provider or the pending operation.
* A resource of `PolicyPack` is the record of the inputs its rules read (a bucket policy's `owner` is its `bucket` property); an input is `Absent`, `Unknown` (the sentinel the engine
  sends in a preview) or a value. The cost proxy and the messages are left out. In `SavedPlan` a resource is at one of a few
  versions; the checks of commit, backend, project and file hash agree within a run and are not modelled separately; the
  `file://` backends, which yield no identity, are left out.
* In `ReviewedSource` the destructive diff gate and the IAM validation are one job after the other, although GitHub runs them side by side: they
  share nothing but their needs, and a re-run from the first repeats both. All the facts of the publisher are two: its environment (with reviewers and
  branch policies) and its App with the pinned ruleset. That the pull request is open at its head is read before and after the reviews, and is
  no part of the moment `ReviewedAtOneMoment` speaks of: a push away and back in between is not seen, in the code either.
* In `TrustedEvidence` each request is a step, with three exceptions: the address of a queue and its attributes are one request, and so are the access keys
  of a user with their last uses; the files of the pull request are whether they could be read. Requests of one check that
  are answered at different moments make up one row: a check may pass on answers that were never true together, such as a rule one ruleset loses after it was
  read and another that a later one gains before it is read. The properties say what remains true: each answer stood at some moment
  of the job it is read in.
* In `WellArchitectedEvidence` a number of days is a number of ticks; texts that must merely be present, one page of 100 alerts
  and the exceptions for Dependabot are left out, as are the local bootstrap mode and the legacy producer.
* In `AlertTriage` an issue is its stream and whether it is open; bodies and comments are the receipts they list, and
  fingerprints of different streams differ. Receipts of one receive are distinct. A post whose answer is lost is a
  failure after the step. `Reappear` does not wait for a time, which covers every timeout. Messages do not expire.
  The reconcile workflow is one of those who close issues.

## 3. Properties and runs

| Run | Instance | Properties | Distinct states |
|---|---|---|---|
| `one_run` | one run, any of the 32 contracts over 3 scopes and 2 accounts, 2 attempts, main moves once, the pull request changes | `StacksInOrder`, `AtMostOneApply`, `AtMostOneLateApply`, `RerunsNeverDeploy`, `ImplementsSchedule` | 469 280 |
| `two_pulls` | two pull requests, PROD `up` of the platform in both accounts, deployments of main | `AppliedPlanIsCurrent` | 1 419 744 |
| `queue` | two dispatches of one comment on one head in its group, 2 attempts, deployments of main, fair | `ClaimedOnce`, `EveryRunFinishes` | 173 240 |
| `admission` | one comment, two pull requests with a common head, three heads (a rename, the reviewed comparison, a cut listing with an unclassified file), two dispatches, the clock past the windows, one change | `ConsumedOnce`, `AdmitsTheComment`, `AdmittedAtOneMoment`, `SelectionCovers`, `SelectionIsCanonical`, `ExpiredIsRefused` | 761 369 |
| `publication` | a publisher and the scope reports of two pull requests with one head, every request may be late | `NoDuplicateDeployment`, `SuccessIsPublished`, `WriterUndisturbed`, `ImplementsStatus` | 66 112 |
| `reviewed` | three attempts (signals, and re-runs of a run or of a job), two heads of which one tampers with the bot, main moves once; three events, attempts and changes of reviews, heads, rights and publisher together | `ReviewedAtOneMoment`, `NewestRunSpeaks`, `OneRunSucceeds`, `VerdictIsGiven` | 4 442 727 |
| `operator` | two workers of an account, programs that want anything (two edits) and write another goal of one resource over their plan, two changes by others | `AppliedIsPreviewed`, `CheckpointStaysValid`, `DriftIsSeen`, `OperatorsKeep` | 49 640 |
| `plans` | two workers, five commits, two stacks, one of them with a re-run, one step of a person | `UpdatesAreReviewed`, `StartsFromPlannedCheckpoint`, `EarlierStacksFirst`, `ProtectedWhenApplied` | 1 528 373 |
| `evidence` | two runs, approvals with complete and deficient evidence, one request at a time, two changes of the facts or of an answer between any of them, one tick | `SuccessMeansHeld`, `FailureHasCause`, `VerdictIsApproved`, `SuccessIsComplete` | 585 326 |
| `controls` | two runs of any mode that overlap or follow each other, one edit by hand, settings as anyone may have left them | `AppliedVerifies`, `ChecksKept`, `OnlyMainIsAdded` | 1 687 000 |
| `cutover` | an installed run, a staged run and a backfill, two messages of any class, two receives | `DeletedIsRecorded`, `OneOpenIssue`, `RepeatedAfterFailure` | 2 792 701 |
| `installed_count` | one installed run, two messages, three pages | `CountsMessagesOnce`: violated | - |

The cfg of run `x` is `MCX.cfg` in camel case; its module is the MC module of the component. What the properties say:

* Admission.
  * `ConsumedOnce`, `ClaimedOnce`: a head admits at most one run of a comment (STACK-FR2); the claim is a status of the head, and section 5 says when a
    comment has two heads. The
    claim is a listing followed by a post; what saves it is that all admissible runs of one comment share a
    concurrency group, *because* preflight refuses a dispatch that names another pull request.
  * `AdmitsTheComment`: what is admitted is the command the author gave, on the pull request of the comment, by somebody
    who may give it, although anybody with write access may dispatch anything.
  * `AdmittedAtOneMoment`: head, base, open and "on its way to main" of the contract were true together at one moment between the
    two readings, although each is read at its own.
  * `SelectionCovers`: every path the head changes, the old name of a renamed one included, has its stacks and validations selected;
    `SelectionIsCanonical`: the workers, who recompute the selection from bare paths, come to the same one.
  * `ExpiredIsRefused`: waiting in the group counts towards the age of a command.
* The runner.
  * `StacksInOrder`: a run queues for, holds, completes a step on or changes a stack only if the stack is
    selected and the run has completed *all* operations of its schedule on every stack before it. This
    is STACK-FR3 of `specs/affected-stack-deployment/prd.md`. It is hard because a worker's condition must tell
    an unselected predecessor (skipped, fine) from one skipped after a failure.
  * `AtMostOneApply`: a run begins to change a stack at most once, over all attempts. `RerunsNeverDeploy`: no step of a
    later attempt completes a step, changes a stack or publishes. A re-run of failed jobs keeps a
    successful preflight, so every later job must look at the attempt.
  * `AtMostOneLateApply`: the apply job cannot check main and change the stack atomically. After main moved,
    the one stack in this window may still change; every later worker is refused.
  * `AppliedPlanIsCurrent`: at the moment of an apply the stack is as the plan saw it, although the approval
    may take days. Mutual exclusion alone is not enough: the group must be held from plan to apply.
  * `ImplementsSchedule`: the graph of jobs implements `DeploymentSchedule`. In particular
    the promotion is published only for a nonempty PROD `up` whose whole schedule is done (STACK-FR5, FR7).
  * `EveryRunFinishes`: a run that entered its group leaves it (STACK-NFR4). It fails if the caller and the
    called workflow both take the state group: then a worker waits for itself.
* The publication.
  * `NoDuplicateDeployment`: a run never creates two deployments for one account, although any request can be lost,
    can lose its answer, or can arrive after its sender gave up. It holds because a post is sent once: a job that
    does not find what it sent fails.
  * `SuccessIsPublished`: a job that succeeds has its status on the head, whatever answers it got.
  * `ImplementsStatus`: the publication implements `PromotionStatus`. Each account is recorded once, and a status that
    names a run appears only when the run has recorded both, even when the status is one that arrives late.
  * `WriterUndisturbed`: from the answer to a post of the status until it is read back, no job of the same pull request writes the
    status, except by a request of a failed job that arrives late. The emitter and the report read back the
    *latest* status, so this is what their common group is for.
* Operator plans.
  * `AppliedIsPreviewed`: what is applied is, as far as a preview prints it, what the engine showed in the preview of this worker, on the version
    of the checkpoint it was computed from; neither a program that writes other goals over its plan nor a checkpoint that moves between the jobs
    comes between. It names what escapes the code: the value of a secret, a provider (held to its pinned form instead), and a checkpoint
    that is written after the last snapshot and before `up` finds it (`late`).
  * `OperatorsKeep`: whatever the pull request wants and however far an apply comes, guarded roles keep their
    boundary, guards and inventory, no resource is dropped, nothing rejected is trusted; the quota of attachments is counted by the enrollment
    alone, so an apply may exceed it and the next worker stops there. `CheckpointStaysValid`: also what a partial
    apply leaves is a checkpoint the next plan can start from: a sequence of legal plans never locks the operators out.
  * `DriftIsSeen`: a worker that ended well found the roles as the checkpoint says, secrets excepted.
* Saved plans.
  * `UpdatesAreReviewed`: an update, however it ends, has performed only steps of the preview the gates read; nothing critical is deleted
    or replaced, and what is created or changed is harmless by the rules of the pack on the inputs it *really* gets, which the preview may not have
    known. Nothing is presumed of the analyzer: the IAM gate finds no document in what a preview prints (section 5).
  * `StartsFromPlannedCheckpoint`: an update starts from the checkpoint its plan was made on; only a person outside the group can
    have written it since, and only after it was verified.
  * `EarlierStacksFirst`: a stack is updated only when those before it are complete, over failures and re-runs.
  * `ProtectedWhenApplied`: after a full update every bucket is encrypted, although the rules of the stack are asked only once the
    resources exist.
* Reviewed source.
  * `ReviewedAtOneMoment`: whatever runs with credentials or publishes a verdict does so for a head that at *one* moment of its admission was
    approved by an independent reviewer with rights, with nobody asking for changes, under the trusted main. The code
    reads all of it twice and compares; that this suffices is not obvious, and depends on reviews not coming back.
    The pull request is asked about before and after, and is not part of that moment.
  * `NewestRunSpeaks`: once an attempt has announced itself no verdict of an attempt that started before it shows, although a cancelled one
    still runs its last job. `OneRunSucceeds`: three successes are those of one attempt, *unless* one of them was posted by an attempt that was
    resumed after its admission; then two runs can be mixed, and section 5 says how. `VerdictIsGiven`: an attempt that announced itself, or was resumed to publish,
    leaves no verdict pending, unless it was cancelled or lost, main moved, or its publisher (environment, App, ruleset) was not as audited at some moment
    while it ran.
* Evidence.
  * `SuccessMeansHeld`: every check of a success passes on answers to all of its requests, each of which stood at some moment of the job that counts: for
    the checks of GitHub the publishing job, else the collecting one. No answer is older, or was left out. It does *not* say that
    a check held at one moment: the code reads a check in several requests (abstractions above, section 5).
  * `FailureHasCause`: every failure has a check that does not pass on the answers of the job that counts, and the producer's own earlier
    verdict on the head is not among these answers: a failure never keeps itself alive.
  * `VerdictIsApproved`: a verdict is posted only for the approval that is protected after the collection, in force and on the head of an
    open pull request after the last reading. `SuccessIsComplete`: a success rests on one full row for every question
    and control; nothing stands for what is missing.
* Controls.
  * `AppliedVerifies`: a run nobody writes beside never ends in the middle, whatever an earlier run left: it refuses before its first
    write, or what it wrote passes its own verification.
  * `OnlyMainIsAdded`: no request lets a branch use an environment it could not use before, except main, wherever a run stops.
  * `ChecksKept`: what the ruleset required and nobody dropped is required after any runs, by the same issuer.
* Alerts.
  * `DeletedIsRecorded`: a message is deleted from the queue only when an issue shows its alert, or when it is a
    completed backup without a warning. It relates the classification, the writes and the deletions of
    runs that fail anywhere, and that receive messages others have handled (docs/alert-routing-evidence.md,
    "The workflow deletes SQS messages only after ...", "No quarantined receipt appears in that allowlist").
  * `OneOpenIssue`: staged runs and backfills together create at most one open issue of a stream, except where a search
    missed an open one. The documentation names the exception ("not an atomic uniqueness guarantee");
    the property says that the index is the only one: not two runs, not a backfill beside a triage.
  * `RepeatedAfterFailure`: of the runs that wrote one message, at most one has not failed. Delivery is at least once, and
    retries may repeat a comment; this says that *only* a retry after a failure does.
  * `CountsMessagesOnce` is what an issue says of itself, and is violated by the installed workflow (section 5).

Each property is paired with a *mutant*: an operator next to the definition it perturbs (its comment says
"Mutant"), a bug a change of the code could introduce. With the mutant in its place TLC finds the
property violated.

| Property | Mutant | What is wrong in it |
|---|---|---|
| `StacksInOrder` | `WorkerAllowedAfterTest` | PROD starts when the TEST barrier has merely ended |
| `AtMostOneApply` | `AnyAttempt` | the attempt is not checked |
| `AtMostOneLateApply` | `RecheckOnAnyMain` | main is not compared |
| `RerunsNeverDeploy` | `RechecksAfterPlan` | the plan job does not recheck |
| `ImplementsSchedule` | `PromotableOfAnyKind` | a plan is promotable |
| `AppliedPlanIsCurrent` | `StackNeverLocked` | stacks are not locked |
| `ClaimedOnce` | `StartRunAtOnce` | the pull request is not serialised |
| `EveryRunFinishes` | `StackLockedByWaiters` | caller and worker both lock |
| `NoDuplicateDeployment` | `RetryingReadback` | a post that is not found is repeated |
| `SuccessIsPublished` | `TrustingReadback` | it is not looked for |
| `WriterUndisturbed`, `OneOpenIssue` | `OwnGroupFree` | the two workflows have groups of their own |
| `ImplementsStatus` | `WorkStatusEarly` | the status comes before the last outcome |
| `ConsumedOnce` | `ListNoClaims` | the claim is not looked up |
| `AdmitsTheComment` | `ReadAnyArtifact` | the artifact is not compared with the dispatch |
| `AdmittedAtOneMoment` | `ReadAfterSameHead` | the base is not compared with that of the listing |
| `ExpiredIsRefused` | `ReadPermissionAtIntake` | the age is taken at the intake |
| `SelectionCovers` | `RecordDestination` | the old name of a renamed file is dropped |
| `SelectionIsCanonical` | `SelectDestinations` | all paths are recorded, only destinations classified |
| `ReviewedAtOneMoment` | `ReadReviewsAgain` | the two readings of the reviews are not compared |
| `NewestRunSpeaks` | `BeginAtOnce` | an attempt does not wait for those it cancels |
| `OneRunSucceeds` | `AnnounceNothing` | an attempt does not announce itself as pending |
| `VerdictIsGiven` | `RefusedSilently` | a refused admission publishes nothing |
| `AppliedIsPreviewed` | `OpenAnyVersion` | the envelope opens for any checkpoint of the same content |
| `CheckpointStaysValid` | `OwnTargets` | references to what others own are not looked at |
| `DriftIsSeen` | `PreviewIgnoringRefresh` | what a refresh has seen is not compared |
| `OperatorsKeep` | `NoReview` | destructive changes are not looked at |
| `SuccessMeansHeld` | `RefreshFailed` | a check that passed when it was collected is not read again |
| `FailureHasCause` | `EntriesWithOwn` | the own status counts like any other |
| `VerdictIsApproved` | `CurrentAsPrepared` | the publishing job trusts the approval of the first |
| `SuccessIsComplete` | `MatrixAnyIds` | two rows of one question go unnoticed |
| `UpdatesAreReviewed` | `DeletionsOnly` | a replacement passes as a change in place |
| `StartsFromPlannedCheckpoint` | `PrepareAnyUpdate` | the identity of the checkpoint is not compared |
| `EarlierStacksFirst` | `StopAndGoOn` | a stack that failed is passed over |
| `ProtectedWhenApplied` | `ConcreteNameOfAny` | the sentinel of an unknown name is taken for a bucket |
| `AppliedVerifies` | `DeleteOthers` | every policy named main stays, a tag one included |
| `ChecksKept` | `BaselineOnly` | the baseline replaces the list |
| `OnlyMainIsAdded` | `OpenPayload` | the environment is opened first and restricted by its list later |
| `DeletedIsRecorded` | `StopReceivingEarly` | messages are deleted as they are received |
| `RepeatedAfterFailure` | `AcknowledgeRegardless` | a failing delete is passed over |

### Bounds

* `MaxAttempt = 2` where re-runs matter: the code distinguishes the first attempt from all others, and
  `AtMostOneApply` and `RerunsNeverDeploy` are proved for any bound.
* `MaxMain = 1` where main matters: the code compares for equality, and revisions never return.
* Two runs: claims, groups, stacks and statuses relate two runs at a time. The `Scope` of a run is small where the
  question is about one stack; `one_run` has all three programs in both accounts.
* `Fickle` names the facts that may change. A recheck treats the facts alike, so one of
  them stands for all; the two that are treated differently are `review` (not read at admission)
  and `source` (read again by the apply job), and each is fickle in a run.
* `admission` has windows of zero ticks and one tick: a command is fresh or expired, and the tick may come between any two steps.
  One change is enough to separate two reads; two pull requests with a common head share the claim. `ListLimit = 2`
  stands for GitHub's 300 files. `SelectionIsCanonical` and `AdmittedAtOneMoment` with one change; the latter is proved for any number.
* `publication` has one publisher: a record belongs to one run, and the reports are the other writers of the
  status. They belong to two pull requests, so that all three may write at once, and all are `Slow`.
* `reviewed`: three attempts are one that is cancelled, one that cancels, and one that resumes an older run; three events are attempts and changes together, so
  that a review can be dismissed and another fact change back during one attempt, or one fact change between two. All its properties are proved for any number.
* `operator`: two workers in turn (the second meets what the first left), two edits of a plan per program, one forged goal, two changes by others: one
  hides what another did. The roles, policies and documents are one of each kind the validator distinguishes.
* `plans`: the commits are a good one and one for each way to go wrong; two stacks have an earlier and a later; one step of a person
  may come at any point.
* `evidence`: each approval is deficient in at most one way; `Request` lists the requests there is an answer to, `Replies` those whose answer changes: a
  thread on the second page, a rule that moves between two rulesets, an environment that cannot be read, a user who loses a device, the
  queue of the alerts. `MaxChanges = 2` lets a rule move while the rulesets are read, or a fact change and return; the worlds of deficient evidence start with
  their changes used up (`settled`). Runs are symmetric. All four properties are proved for any requests, answers and number of changes.
* `controls`: two runs, which may overlap or follow; every ruleset with the environments set up, and every state of the environments
  with one ruleset; runs are symmetric.
* `cutover` has every kind of writer, and two messages, so that a batch can be mixed. `MaxReceipt = 2`: received,
  and received again. Messages are symmetric.

### Fairness

`FairSpec` asks weak fairness of `Progress(r)`, the steps that GitHub's scheduler and the jobs of a run
take by themselves. The code justifies it: every job has `timeout-minutes`, an approval that does not
come expires, GitHub starts the pending run of a free group and schedules a job once its needs have
ended. `Progress` includes failing: nothing is assumed about the result of a job. `Dispatch`, `Rerun`,
`CancelRun`, `ChangeFact`, `AdvanceMain` and the deployments of main are not fair. The other components promise nothing
that must happen except within a run (`VerdictIsGiven` is about a run that has ended).
The deadlock check is off in every run: the systems stop when their runs have ended and bounds are exhausted.

## 4. Proofs

All theorems hold for arbitrary sets of runs, comments, pull requests, workers, stacks, heads and so on, for any
assignment of comments and contracts, and for any bounds. The assumptions are those named in the modules, which TLC evaluates on the
instances: constants have their types; `NoContract` is not a contract, `Outside` not a run, `NoRun` not a publisher, `Unmarked` not
a stream; publishers and reporters are different jobs; the list of stacks is not empty; approvals that may be
protected exist. Five say more:

* `CutoverAssumption`: the one comparison that was reviewed renames no file. Both of its sides are fixed commits, so this is a fact about
  the repository; if they did rename one, a worker, which sees paths only, would count another number of changes than admission.
* `OperatorConstants`: the checkpoints an account starts from have no fault the validator would find (else no plan is accepted at
  all), the rows and the roles have the fields the decoder gives them, and of a provider resource the checkpoint holds what it was given.
* `ProgramConstants`: the type of a resource is part of its urn and is known in every preview; the encryption of a bucket names
  it by its id, not by a text. Nothing is assumed about what is harmless, about documents a preview does not know, or about the analyzer.
* `ReviewAssumption`: the rows of a review are lists, since the collector turns away anything else.
* `ControlsConstants`: the protected and the unattended environments and that of the App key are different ones, as they are in the
  code; the settings somebody may have left are ones GitHub can hold, with finitely many policies in a list.

| Module | Theorem (property) | Inductive invariant |
|---|---|---|
| `DeploymentGraph_proofs` | `TypeCorrect` | `TypeOK` |
| | `CommentClaimedOnce` (`ClaimedOnce`) | `AdmissionInv`, `GroupInv`, `ClaimInv` |
| | `StacksTouchedInOrder` (`StacksInOrder`) | the above, `ResultInv` |
| | `StackAppliedAtMostOnce`, `RerunsDeployNothing` (`AtMostOneApply`, `RerunsNeverDeploy`) | `ApplyInv` |
| | `OneLateApplyAtMost` (`AtMostOneLateApply`) | `ApplyInv`, `ChainInv`, `LateInv` |
| | `GraphImplementsSchedule` (`ImplementsSchedule`) | the above, `StageInv` |
| | `AppliedPlansAreCurrent` (`AppliedPlanIsCurrent`) | `StackInv` |
| `CommandAdmission_proofs` | `AdmissionTypeCorrect` | `TypeOK` |
| | `CommandIsConsumedOnce`, `AdmittedIsTheComment`, `ContractIsOfOneMoment`, `ExpiredCommandIsRefused`, `EveryChangedPathIsCovered`, `AdmittedSelectionIsCanonical` (`SelectionIsCanonical`) | `IntakeInv`, `RunInv`, `RecordedInv`, `ClaimInv`, `AdmittedInv` |
| `ReviewedSource_proofs` | `ReviewTypeCorrect` | `TypeOK` |
| | `LaterAttemptsReplaceEarlier`, `SuccessIsOfOneAttempt`, `AttemptsConclude` (`NewestRunSpeaks`, `OneRunSucceeds`, `VerdictIsGiven`) | `StatusInv`: `SaneInv`, `Order`, `Signed`, `Newest`, `Given`, `Trusted`, `Steady` |
| | `CredentialsAreReviewed` (`ReviewedAtOneMoment`) | `WatchInv` |
| `SavedPlan_proofs` | `StacksUpdatedInOrder` (`EarlierStacksFirst`) | `Kept`, `OrderInv` |
| | `UpdatesStartAsPlanned` (`StartsFromPlannedCheckpoint`) | `Kept`, `GroupInv`, `VerifiedInv` |
| | `WorkersDoWhatWasReviewed`, `AppliedIsProtected` (`UpdatesAreReviewed`, `ProtectedWhenApplied`) | the above, `LiveInv`, `ReviewInv` |
| `OperatorExecution_proofs` | `AppliedAsPreviewed` (`AppliedIsPreviewed`) | `Inv` |
| | `CheckpointsStayValid`, `DriftStopsAWorker`, `OperatorsAreKept` (`CheckpointStaysValid`, `DriftIsSeen`, `OperatorsKeep`) | `Inv`, `RowsInv` |
| `TrustedEvidence_proofs` | `SuccessRestsOnFacts`, `FailureIsCaused`, `VerdictsAreApproved` (`SuccessMeansHeld`, `FailureHasCause`, `VerdictIsApproved`) | `Alone`; `Good`: `Shaped`, `Early`, `Own`, `Present`, `FirstReading`, `SecondReading`, `Confirmation`, `Concluded` |
| | `SuccessIsOfACompleteReview` (`SuccessIsComplete`) | the above |
| `PromotionPublication_proofs` | `PublicationTypeCorrect` | `TypeOK`, `AtInv` |
| | `DeploymentsRecordedOnce` (`NoDuplicateDeployment`) | the above, `RecordInv` |
| | `SuccessMeansPublished` (`SuccessIsPublished`) | the above, `StatusInv`, `PostedInv` |
| | `PublicationImplementsStatus` (`ImplementsStatus`) | `RecordInv`, `StatusInv` |
| | `WritersAreUndisturbed` (`WriterUndisturbed`) | `GroupInv` |
| `Maintenance_proofs` | `RequirementsAreKept`, `NothingElseIsOpened` (`ChecksKept`, `OnlyMainIsAdded`) | `Typed`: `ControlsTypes`, `ShapeInv`, `RulesInv` |
| | `WhatIsWrittenVerifies` (`AppliedVerifies`) | the above, `AloneInv` |
| | `TriageTypeCorrect` | `TypeOK` |
| | `NoAlertIsLost` (`DeletedIsRecorded`) | `SettledInv` |
| | `StreamHasOneIssue` (`OneOpenIssue`) | `MutexInv`, `IssueInv` |
| | `RepetitionMeansFailure` (`RepeatedAfterFailure`) | `MutexInv`, `SettledInv`, `HoldInv`, `WriteInv` |

The arguments:

* **Claims.** A run inside preflight past the check is active and was dispatched for its comment's own pull
  request (`AdmissionInv`); one run of a pull request is active (`GroupInv`); hence when a run is
  "unclaimed" no other run of its comment is in preflight, and a contract exists only where
  the claim of its head and comment was posted (`ClaimInv`).
* **Order.** `StacksInOrder` is not inductive: that a worker may start is read off the results of other
  workers and of the TEST barrier. `ResultInv` says what these results mean: success of a worker means that
  all its operations are completed, success of the barrier that all TEST operations are.
* **Single apply.** `ApplyInv` ties `applies` to `passed`, `failed` and the state of the worker in the
  first attempt, and says that a later attempt never reaches the apply stage.
* **Refinement.** A step maps to `Admit`, `Perform`, `Promote` or a stutter. `StageInv` adds that a stage that
  passed had its needs passed, which is the order of the operations within a worker.
* **Current plan.** `StackInv`: a worker that passed the plan and holds the group sees the last writer
  until it applies itself; two workers never hold one group.
* **Late apply.** `ChainInv`: at most one worker of a run is in its apply window, since workers run in order
  of account and scope and each starts after the previous has ended; `LateInv`: after a late apply
  no recheck of the run passes, and `late` has at most one element.
* **Admission.** `Knows` says what a preflight knows at each of its steps, in terms that no step of anybody else takes back: `facts`
  and `recorded` only grow, a clock only advances, a comment keeps its author and its time (`Grown`).
  The two equal readings around the comparison give the moment (`Sound`); the claim listed under the group is free until it is
  posted (`ClaimInv`). What was admitted keeps what it is `Founded` on. For `SelectionIsCanonical`: the record a worker makes of a path alone
  has the same paths as the record admission made of a change, so both select the same, unless it is the reviewed comparison, which is
  recognised by the number of its changes too; without a rename the two numbers are one.
* **Operator plans.** Every write of the checkpoint is a new version, so two reads of one version have the same rows. The engine plans from a
  version between the read before and the read after; when these agree the plan was validated against the rows it starts from, and
  a forged plan that passes has the goals that were shown, as far as they are printed, except for providers (`PlannedMatches`). The version the update finds
  is the one of the last snapshot, unless somebody wrote in between, which is `late` (`Inv`, by the place of the worker). `RowsInv` is about what an update may leave: a plan
  is accepted as a whole, but an update may end anywhere in it, so each *subset* of the steps of an accepted plan is shown to leave a
  checkpoint without a fault and the guards of the roles. That the drift stage saw the roles is what it read after the last step that
  could change the rows.
* **Reviews.** All steps between two posts are of a few kinds (`Moves`), so each part of the invariant is proved for the kinds and
  not for the twenty actions; `ReadsEffect` does that for the reads. `Order` says that one attempt is at work and earlier ones have ended; a status then names the newest
  attempt that posted (`Signed`, `Newest`), and an attempt that ended undisturbed has answered its announcement (`Given`); one whose publisher is `Steady` meets no refusal that
  nothing catches, but for main. An attempt that was not resumed posts a verdict only after its announcement (`Known`), from which `OneRunSucceeds` follows. For `ReviewedAtOneMoment`, `WatchInv`
  looks ahead: a run that has read the reviews either knows of an allowed moment, or will be refused by something it has still to
  read. That holds because main never moves back and reviews are never restored (`Prior`): two equal readings mean
  that there was nothing else in between.
* **Saved plans.** A worker at stack *n* has completed those before (`OrderInv`), which a re-run inherits because it starts where
  the failed attempt was. From its verification to its lock the identity is the manifest's (`VerifiedInv`); other workers
  cannot write in between (`GroupInv`), and people sign what they write. For the other two `ReviewInv` follows a plan from its preview: the
  record of each stack is what the preview of it made (`Recorded`), the gates passed and the pack accepted what was known then, and this
  holds until the worker starts over (`Gated`, `AllPreviewed`). The resource at an urn keeps its type (`LiveInv`), so that what the
  preview did not know can change the inputs of a resource and not which rules it meets; those rules are asked again in the update, and
  a bucket whose encryption was not in the preview is encrypted when the stack rules have accepted all of it.
* **Evidence.** The history of a job always holds the present: whatever a request could find now is in `collecting` or `publishing` (`Present`), and what a
  request does find is among it (`FoundIsShown`); this is where the own status matters: either none was read and there is none, or it is
  taken out, and `Alone` and `Own` keep the status that was read until the job is done. So the answers to the check under way all stood at some moment of the job (`Stood`), and with
  the last one they make a row that rests on the job (`AskAnswers`). Rows of the first reading stay, except those of GitHub, which the second reading
  replaces one after another (`FirstReading`, `SecondReading`); at the post every row rests on the job that counts (`RowsRest`). A success is a post
  with all checks passed (`PublishIsPost`, `SuccessIsOfAll`), a failure one with some check that is not.
  For `SuccessIsComplete`, the two checks of the owners' review ask about the approval alone: that they passed, at whatever moment, tells what
  it is. A list with as many rows as there are questions, and a row for each, has exactly one for each, by counting.
* **Publication.** `RecordInv` follows one record from before its post to after it: until its job sends it, no request
  and no record of it exists; while the job waits, there is one request in flight, one record, or none;
  from then on nothing sends it again, so that what is in flight and what is recorded are together at most one.
  Hence no duplicates. `StatusInv` says that a run named by a status in flight, or by what a report
  intends to post, has both accounts recorded; this is the guard of `Announce`, and records are never withdrawn. `PostedInv` says that a job past
  its last readback has its status on the head. For `WriterUndisturbed`: one job of a pull request is active (`OneActive`), a
  request under way is that of a failed job or of one about to look for it (`Lingering`), and a job about to send has not
  seen its status (`Unseen`).
* **Triage.** `SettledInv`: while a staged run writes, each actionable alert it holds is recorded or its stream is still to
  do; so after the last stream, everything on the allowlist is recorded or benign. This needs no group: a lost alert
  would be the fault of one run. The other two do need it. `MutexInv` says that one run is active; hence nobody creates
  an issue between the search and the creation of another run (`IssueInv`), nobody else receives or deletes what
  an active run holds (`HoldInv`), and so a run that acknowledged all it wrote has deleted it, although
  a delete with an old receipt may do nothing (`WriteInv`). A later run therefore holds a message that was written only
  if its earlier writer failed.
* **Controls.** Three facts hold whoever writes (`Typed`): the types, the shape of the list of requests (what continues
  another request stands at its head), and that the ruleset, and every ruleset a run is about to write, asks for
  what was promised. The first two properties follow; `OnlyMainIsAdded` needs only what one request does. `AppliedVerifies` is not
  inductive by far: it is about the last read of a run and depends on all it did before. `AloneInv` says of a run nobody wrote beside
  that its work is under way (`WorkInv`: a list of policies it has begun to clean is down to what it has still to delete and to post),
  and that it either only verifies (`Quiet`), or has written nothing and looks (`Looking`: what it will not have read before it decides
  is as it should be or will be written), or will find everything it still reads as it should be (`Sure`). Each request keeps one of
  the three, or takes the run from looking to being sure; a write of anybody else takes the run out of `alone`.

Only model-checked: `EveryRunFinishes`, because liveness under fairness is outside the prover's reach. `CountsMessagesOnce` does not hold.

What the proofs changed in the specifications:

* Two alternatives of a `CASE` in `SavedPlan` (`Known`) overlapped, where TLC takes the first; they are disjoint now.
* The list of names in `RepositoryControls` (`InOrder`) held every ordered part of a set; it must hold all of it, as the code's list does.
* That no file of the reviewed comparison is renamed, and that lists of policies are finite, had been true of the instances and said nowhere.

## 5. Observations

Admission and the runner:

* `specs/affected-stack-deployment/architecture.md` (lines 33-35) gives the backend lock to the caller's job
  and says that the child must not reacquire it. In the workflows the child takes the group and the
  caller does not. The lock is taken once either way, so the promise (no parent/child deadlock)
  holds; the model follows the workflows.
* A stack is locked during a worker, not during a run. Between the receipt of a worker and the
  promotion, a run of another pull request may deploy the same stack, and the promotion is still published.
  No document promises more, and no property here forbids it.
* A claim whose post arrived but whose answer was lost consumes the comment without a run; the requester has
  to write a new comment, as STACK-NFR4 intends.
* A claim is a status of the head. An intake that is re-run after a push records the new head, and its comment can then be admitted once
  for each of the two heads, within its fifteen minutes; both models and both properties (`ConsumedOnce`, `ClaimedOnce`) say "for a head". The intake binds the head it reads when it runs, not the one the
  author saw when writing.

Promotion:

* A scope report that runs after a publication but before the command run has ended finds no successful run
  and replaces "success" by "pending"; the report that follows the end of the run repairs it. The
  scope report describes the first as an incomplete deployment, so nothing is contradicted.
* A publisher that waits for the group `promotion-status` can be displaced by a newer scope report. Then everything is
  deployed and nothing is published, and since re-runs deploy and publish nothing, a new command is needed.
* A publisher whose authorisation after the status fails, fails with its status on the head. The next scope
  report replaces it when the evidence is not current.
* Two pull requests with one head write one status, from different groups. Their jobs may fail on each other's
  status; they never announce what is not recorded (`publication`).

Operator and saved plans:

* A pending operation in the checkpoint, as a lost machine leaves it, blocks every later operator plan until it is repaired by hand.
  Every resource counts as critical, so a deletion or replacement is always refused, and so is a change of a boundary.
* Nothing is read again between the last snapshot and `pulumi up`, and the roles are read one after another; a change in this window is
  found by the drift stage at the earliest. What provider events hide from a preview is why the drift stage compares the provider.
* A manifest that was applied in part can be retried only if the update wrote nothing: otherwise its checkpoint is another one. The
  time of a manifest is that after all of its previews. `previewSha256` is recorded and never compared.
* The rules about a whole stack run when its resources exist; an unknown ACL, range or document passes the preview and is refused by the
  update, which then ends half way. `UpdatesAreReviewed` holds then too, because the rules on a resource are asked with its real inputs before it is made.
* The IAM gate looks for documents at the top level of `newState` (`scripts/pulumi_ci_guardrails.py`, lines 210-228 and 255). The engine prints a state with its inputs and outputs
  as fields of their own, which is how the validator of the operator plans reads the same output (`scripts/operator_plan_validation.py`, lines 1434-1441 and 1520;
  `tests/unit/test_operator_plan_validation.py`, line 462). The gate's own tests use top-level fields (`tests/unit/test_ci_guardrails.py`, lines 306-360). So the gate finds
  no document in a real preview and passes, although `specs/issue-59-github-ci-aws-bootstrap/architecture.md` (line 119) has it validate previewed policies. What
  remains is the pack, whose rule on broad grants is asked about every document in the update.

Reviews and evidence:

* A signal whose run fails before it has posted anything leaves the verdict of an older run of that head in place. A verdict
  stays pending when main moves before the publishing job looks, and when the environment, the App or the pinned ruleset is found changed, because the publisher then
  refuses before it may post (`VerdictIsGiven` excludes these).
* Nothing looks at `run_attempt`. Re-running the publishing job of an older run posts that run's outcome over a newer verdict of the same head, context by
  context and with no pending before; if its machine is lost half way, the three contexts are of two runs. The job admits the head, its reviews and main anew,
  so it never speaks for a head that is not approved; the outcome may only be an older one. `NewestRunSpeaks` counts attempts, `OneRunSucceeds` excludes resumed ones.
* A check of several requests can pass on answers of different moments. A ruleset may lose the required review after it was read, and
  another one gain the required checks before it is read: the check passes, although the branch never had both. Likewise the two
  views of the pull request, the pages of threads, and users with their keys and devices. `SuccessMeansHeld` says what is left. The expiry
  and the head are checked at two moments before the post (`VerdictIsApproved`). A success is never retracted when a fact changes after it.
* Any ruleset that applies to the branch counts as its protection, not only the one named main.

Controls:

* Settings and branch list are separate requests. A create-only mode that stops between them leaves an environment nothing may use, and
  every later create-only run refuses it: a person has to finish it. It is closed, not open.
* The inventory is one read and the write another. An environment that is created in between is rewritten, although the mode says that
  it never rewrites existing controls; a check somebody adds to the ruleset between the read and the write is lost. GitHub offers no
  precondition for either.
* A list that GitHub kept while an environment was open to "protected branches" comes back with the switch to custom branches; the
  tool deletes what is superfluous afterwards, and `OnlyMainIsAdded` says nothing of this window.

Alerts:

* The installed triage workflow counts a message twice (`installed_count`). Its loop receives up to 50 pages with up to
  10 seconds of waiting each and takes the visibility timeout of the queue, 30 seconds; a message of an early
  page can return in a later one, is listed again, and is part of "contains N message(s)". Both of its receipts are
  deleted, so nothing is lost. The staged consumer receives once, with 900 seconds.
* `docs/alert-routing-evidence.md` (lines 81-92) describes markers and canonical issues as the behaviour of
  `operations-alert-triage.yml`. The installed file has neither: each run creates a new issue.
  The text fits the staged consumer, which is not installed.
* The search index is not atomic with the issues, as the documentation says. When it reports two open issues of one stream, a
  staged run stops there: the streams behind it in the batch, in the order of their fingerprints, wait for a person too. The
  message says "reconcile them before retrying", but the reconcile workflow refuses legacy issues that have a marker,
  so that one of the two has to be closed by hand.

## 6. Not modelled

* The declarations of resources under `pulumi/`: they have no steps of their own. What the engine does with them is in `SavedPlan` and
  `OperatorExecution`, the rules they must obey in `PolicyPack`.
* `deployment_input_validation.py` runs fixed checks in a container and keeps no state; its recheck and its result are in
  `DeploymentGraph` and `CommandAdmission`.
* `operator_seed_installation.py` and `operator_seed_observation.py` generate the packet a person installs and compare it with an account.
* `governance_promotion.py` is a legacy publisher the generated services use; no workflow of this repository runs it for deployments.
* Scaffolding, rendering, command lines, the wording of every message, and one-shot administration scripts.
* Of components that are modelled: the reconcile workflow of the alerts and the expiry of messages; the several reads of a worker
  recheck and of a promotion proof beyond those of admission; the local mode of the evidence collector; and what section 2 names under
  "Abstractions".

AWS, Pulumi's engine and GitHub are external: of the last, the concurrency groups, job results and re-runs
are modelled as the workflows use them.

## 7. What could follow

1. The reads of a worker recheck one by one in `DeploymentGraph`, with the instance that needs.
2. The composition of `PromotionPublication` with the run it ends (`conclusion` and `valid` are free there), and the
   several reads of a verification.
3. The reconcile workflow and the expiry of messages in `AlertTriage`.
4. The lemmas about lists of requests in `Maintenance_proofs` and about parts of a plan in `OperatorExecution_proofs` say more than
   their theorems need; a third mode of the tool, or another stage of the worker, could be added on them.
