-------------------------- MODULE OperatorExecution --------------------------
(***************************************************************************)
(* The operator worker of one account (pulumi-operator-account.yml,        *)
(* operator_execution_runtime.execute): a plan is previewed, validated and *)
(* sealed, a person approves it, it is opened, validated again and         *)
(* applied, and a last preview with a refresh looks for drift.             *)
(*                                                                         *)
(* Workers of an account are serialised by its concurrency group, but they *)
(* are not alone: the checkpoint is an object of a bucket and the roles    *)
(* are roles of an account, and both may change between any two reads.     *)
(* The program that is planned belongs to a pull request: it wants what it *)
(* wants, and it may rewrite the plan the engine has saved beside it to    *)
(* any other one.                                                          *)
(* What the engine prints and does is taken to be what it sees and does.   *)
(* Any step may fail, an admission that no longer holds included           *)
(* (CommandAdmission and DeploymentGraph have the admission).              *)
(***************************************************************************)
EXTENDS OperatorPlan

CONSTANTS
  Wanted,      \* of each resource: the rows a program may want, or Gone
  Forgery,     \* of each resource: goals a program may write into a saved plan
  InitialRows, \* checkpoints to begin with
  InitialLive, \* of each role: boundary, attachments, trust, session
  Outside,     \* what others may make of the roles
  Provider,    \* states of the secrets provider, one of them is read by all
  None,
  MaxEdits,    \* bound of the model: resources a program wants changed at once
  MaxForged,   \* bound of the model: resources a program forges at once
  MaxRuns,     \* bound of the model: workers
  MaxChanges   \* bound of the model: changes by others

\* What a decoded row and the answer about a role have.
RowShape(row) ==
  DOMAIN row = {"urn", "kind", "inputs", "outputs", "provider", "protect", "external"}

RoleShape(role) == DOMAIN role = {"boundary", "attached", "trust", "session"}

\* The validator finds no fault with the checkpoints to begin with; what a
\* provider resource is given, and no more, is what it has.
ASSUME OperatorConstants ==
  /\ \A rows \in InitialRows :
       /\ DOMAIN rows \subseteq DOMAIN Wanted
       /\ Checkpoint([rows |-> rows, pending |-> FALSE])
       /\ \A u \in DOMAIN rows :
            /\ RowShape(rows[u])
            /\ rows[u].kind = "provider" => rows[u].outputs = rows[u].inputs
  /\ \A u \in DOMAIN Wanted : \A row \in Wanted[u] : row = Gone \/ RowShape(row)
  /\ \A u \in DOMAIN Wanted : \A goal \in Forgery[u] :
       goal = [desired |-> goal.desired, ops |-> goal.ops]
         /\ (goal.desired = Gone \/ RowShape(goal.desired))
  /\ DOMAIN InitialLive = Role /\ \A r \in Role : RoleShape(InitialLive[r])
  /\ \A r \in Role : \A actual \in Outside[r] : RoleShape(actual)

VARIABLES
  checkpoint,  \* version, secrets provider, rows, and whether one is pending
  live,        \* the roles as they are in the account
  worker,      \* the worker that holds the group of the account
  started,     \* number of workers so far
  changes      \* number of changes by others so far

vars == <<checkpoint, live, worker, started, changes>>

Urn == DOMAIN Wanted

\* A read of a checkpoint takes its head, its bytes and its head again.
Program(job) ==
  CASE job = "preview" -> <<"enroll", "head", "again", "pulumi", "head", "again",
                            "validate", "enroll", "head", "again", "seal">>
    [] job = "apply"   -> <<"enroll", "head", "again", "open", "enroll", "head",
                            "again", "up", "provider">>
    [] job = "drift"   -> <<"enroll", "head", "again", "refresh", "head", "again",
                            "clean">>
    [] OTHER           -> <<"end">>

\* Nothing has been read; the versions of a checkpoint begin at 1.
Unread == [version |-> 0]

Enter(w, job) ==
  [w EXCEPT !.job = job, !.step = 1, !.left = RoleRead, !.read = Unread,
            !.before = Unread]

Worker ==
  [job |-> "preview", step |-> 1, left |-> RoleRead, read |-> Unread, before |-> Unread,
   plan |-> None, shown |-> None, sealed |-> None, engine |-> None,
   applied |-> None, late |-> FALSE, drifted |-> FALSE]

Failed(w) == [Enter(w, "failed") EXCEPT !.plan = None, !.shown = None, !.sealed = None]

At(step) == worker # None /\ Program(worker.job)[worker.step] = step

\* The next step; an enrollment begins with every role of the catalog to be read.
Next1(w) == [w EXCEPT !.step = @ + 1, !.left = RoleRead]

Init ==
  /\ \E rows \in InitialRows :
       checkpoint = [version |-> 1, provider |-> CHOOSE p \in Provider : TRUE,
                     rows |-> rows, pending |-> FALSE]
  /\ live = InitialLive
  /\ worker = None
  /\ started = 0
  /\ changes = 0

\* The next worker takes the group once the one before has ended.
Start ==
  /\ started < MaxRuns
  /\ worker # None => worker.job \in {"complete", "failed"}
  /\ worker' = Worker
  /\ started' = started + 1
  /\ UNCHANGED <<checkpoint, live, changes>>

\* A read is refused, a process fails, the job is lost or its artifact expires.
Fail ==
  /\ worker # None
  /\ worker.job \notin {"complete", "failed"}
  /\ worker' = Failed(worker)
  /\ UNCHANGED <<checkpoint, live, started, changes>>
-----------------------------------------------------------------------------
(***************************************************************************)
(* Reads.  A step whose check does not hold is a Fail.                     *)
(***************************************************************************)
\* The enrolled roles are read one after the other.
EnrollRole(r) ==
  /\ At("enroll")
  /\ r \in worker.left
  /\ Enrolled(r, live[r])
  /\ worker' = IF worker.left = {r} THEN Next1(worker)
               ELSE [worker EXCEPT !.left = @ \ {r}]
  /\ UNCHANGED <<checkpoint, live, started, changes>>

ReadHead ==
  /\ At("head")
  /\ worker' = [Next1(worker) EXCEPT !.read = checkpoint]
  /\ UNCHANGED <<checkpoint, live, started, changes>>

\* The version read is still the head, and what the job has read before.
ReadAgain ==
  /\ At("again")
  /\ checkpoint.version = worker.read.version
  /\ worker.before \in {Unread, worker.read}
  /\ worker' = [Next1(worker) EXCEPT !.before = worker.read, !.read = Unread]
  /\ UNCHANGED <<checkpoint, live, started, changes>>
-----------------------------------------------------------------------------
(***************************************************************************)
(* What programs and the engine make of a checkpoint.                      *)
(***************************************************************************)
\* What a refresh reads: the outputs of a row, and the inputs among them.
Outputs(row, roles) ==
  CASE row.kind = "role" ->
         LET r == roles[row.inputs.name]
         IN  [boundary |-> r.boundary, trust |-> r.trust, session |-> r.session]
    [] row.kind = "exclusive" -> [policies |-> roles[row.inputs.role].attached]
    [] OTHER -> row.inputs

Refreshed(row, roles) ==
  LET out == Outputs(row, roles)
  IN  [k \in DOMAIN row.inputs |-> IF k \in DOMAIN out THEN out[k] ELSE row.inputs[k]]

EngineOps(inputs, prior, desired) ==
  IF prior = Gone THEN Create
  ELSE IF desired = Gone THEN Delete
  ELSE IF inputs = desired.inputs THEN Same
  ELSE IF Target(prior) = Target(desired) THEN Update
  ELSE <<"create-replacement", "replace", "delete-replaced">>

Owned(rows) == DOMAIN rows \ External(rows)

\* A row without its outputs is what a goal can say of it.
Goal(row) == IF row = Gone THEN Gone ELSE [row EXCEPT !.outputs = Gone]

\* For a few resources, one of the choices there is for each.
Choices(choice, bound) ==
  UNION {{e \in [D -> UNION {choice[u] : u \in D}] : \A u \in D : e[u] \in choice[u]} :
           D \in {D \in SUBSET Urn : Cardinality(D) <= bound}}

\* What a program may want to have changed.
Edits == Choices(Wanted, MaxEdits)

Wishes(rows) ==
  {[u \in Urn \ External(rows) |->
      IF u \in DOMAIN e THEN e[u] ELSE Goal(Prior(rows, u))] :
     e \in {e \in Edits : DOMAIN e \cap External(rows) = {}}}

\* The goals of a saved plan: what is wanted, and the operations to get there.
Goals(rows, wish, inputs) ==
  [u \in {u \in DOMAIN wish : u \in DOMAIN rows \/ wish[u] # Gone} |->
     [desired |-> wish[u], ops |-> EngineOps(inputs[u], Prior(rows, u), wish[u])]]

Planned(rows, inputs) == {Goals(rows, w, inputs) : w \in Wishes(rows)}

\* The events the engine prints for its goals: references are read.
Shown(rows, goals, seen) ==
  [u \in DOMAIN goals \cup External(rows) |->
     IF u \in DOMAIN goals
     THEN [ops |-> goals[u].ops, old |-> Prior(rows, u), new |-> goals[u].desired,
           seen |-> seen[u]]
     ELSE [ops |-> <<"read">>, old |-> rows[u],
           new |-> IF rows[u].kind = "oidc" THEN Unprinted(rows[u]) ELSE rows[u],
           seen |-> seen[u]]]

\* What a program may write over a saved plan, and what the plan holds then: of
\* some resources another goal or none.
Forgeries == Choices([u \in Urn |-> Forgery[u] \cup {None}], MaxForged)

Files(goals) ==
  {[u \in (DOMAIN goals \ DOMAIN f) \cup {u \in DOMAIN f : f[u] # None} |->
      IF u \in DOMAIN f THEN f[u] ELSE goals[u]] : f \in Forgeries}

NotRefreshed == [u \in Urn |-> Gone]
-----------------------------------------------------------------------------
(***************************************************************************)
(* The preview job.                                                        *)
(***************************************************************************)
Accepted(plan, shown, state) ==
  /\ ValidPlan(state, plan, shown)
  /\ IamAnalysis(plan)
  /\ DestructiveReview(shown)

\* The engine reads the checkpoint for itself.  Of the plans only those that
\* pass the validation against the checkpoint the job has read go on.
PulumiPreview ==
  /\ At("pulumi")
  /\ LET rows   == checkpoint.rows
         inputs == [u \in Urn |-> IF u \in DOMAIN rows THEN rows[u].inputs ELSE Gone]
     IN  \E goals \in Planned(rows, inputs) :
           LET shown == Shown(rows, goals, NotRefreshed)
           IN  \E plan \in Files(goals) :
                 /\ Accepted(plan, shown, worker.before)
                 /\ worker' = [Next1(worker) EXCEPT
                      !.plan = plan, !.shown = shown,
                      !.engine = [plan |-> goals, version |-> checkpoint.version]]
  /\ UNCHANGED <<checkpoint, live, started, changes>>

Validate ==
  /\ At("validate")
  /\ Accepted(worker.plan, worker.shown, worker.before)
  /\ worker' = Next1(worker)
  /\ UNCHANGED <<checkpoint, live, started, changes>>

\* What an apply needs of the preview, and the state an envelope opens for: the
\* request and the run are the worker's own, the rest is of the checkpoint.
Content(state) == [rows |-> state.rows, pending |-> state.pending]
Bundle == [plan |-> worker.plan, shown |-> worker.shown,
           checkpoint |-> Content(worker.before)]
Binding(state) == [version |-> state.version, provider |-> state.provider]

\* The envelope binds the plan to the checkpoint.  A command that only plans
\* ends here, the other one waits for its approval.
Seal ==
  /\ At("seal")
  /\ \E job \in {"apply", "complete"} :
       worker' = [Enter(worker, job) EXCEPT
         !.sealed = [binding |-> Binding(worker.before), bundle |-> Bundle],
         !.plan = None, !.shown = None]
  /\ UNCHANGED <<checkpoint, live, started, changes>>
-----------------------------------------------------------------------------
(***************************************************************************)
(* The apply job.                                                          *)
(***************************************************************************)
\* What the envelope holds was made from the checkpoint that is there, and is
\* validated once more.
Opened(bundle) ==
  /\ bundle.checkpoint = Content(worker.before)
  /\ Accepted(bundle.plan, bundle.shown, worker.before)
  /\ worker' = [Next1(worker) EXCEPT !.plan = bundle.plan]
  /\ UNCHANGED <<checkpoint, live, started, changes>>

\* Mutant: the envelope opens for any checkpoint with the same content.
OpenAnyVersion ==
  /\ At("open")
  /\ Opened(worker.sealed.bundle)

\* The artifact is the one this run has uploaded; its envelope opens for the
\* version and the provider it was sealed for.
Open ==
  /\ At("open")
  /\ worker.sealed.binding = Binding(worker.before)
  /\ Opened(worker.sealed.bundle)

\* A resource of the plan that is still where its operation starts.
Applicable(u) ==
  LET prior == Prior(checkpoint.rows, u)
      goal  == worker.plan[u]
  IN  (prior = Gone) = (goal.ops = Create)
        /\ (prior # Gone =>
              EngineOps(prior.inputs, prior, goal.desired) = goal.ops)

\* The roles once the goals of D are reached.
Reached(D) ==
  LET goal(u) == worker.plan[u].desired
      of(kind, r) == {u \in D : goal(u) # Gone /\ goal(u).kind = kind
                                  /\ goal(u).inputs[IF kind = "role" THEN "name" ELSE "role"] = r}
      old(u)  == Prior(checkpoint.rows, u)
      dropped(r) == {old(u).inputs.policy :
                       u \in {u \in D : old(u) # Gone /\ old(u).kind = "attachment"
                                          /\ old(u).inputs.role = r}}
      added(r) == {goal(u).inputs.policy : u \in of("attachment", r)}
      set(a, k, S) == IF S = {} THEN a ELSE goal(CHOOSE u \in S : TRUE).inputs[k]
  IN  [r \in Role |->
         [live[r] EXCEPT
            !.boundary = set(@, "boundary", of("role", r)),
            !.trust    = set(@, "trust", of("role", r)),
            !.attached = set((@ \ dropped(r)) \cup added(r), "policies",
                             of("exclusive", r))]]

RowsAfter(D, roles) ==
  LET rows == checkpoint.rows
  IN  [u \in (DOMAIN rows \ D) \cup {u \in D : worker.plan[u].desired # Gone} |->
         IF u \in D
         THEN [worker.plan[u].desired EXCEPT
                 !.outputs = Outputs(worker.plan[u].desired, roles)]
         ELSE rows[u]]

\* The engine carries out the plan against the checkpoint it finds, whatever its
\* version, all of it or, when a call fails or the process dies, a part; every
\* write is a version.
Up ==
  /\ At("up")
  /\ LET C == ChangedUrns(worker.plan)
     IN  \E D \in SUBSET C :
           /\ \A u \in D : Applicable(u)
           /\ LET roles == Reached(D)
              IN  \/ /\ D = C
                     /\ \A u \in DOMAIN worker.plan : Applicable(u)
                     /\ checkpoint' = [checkpoint EXCEPT
                          !.version = @ + 1, !.rows = RowsAfter(D, roles)]
                     /\ worker' = [Next1(worker) EXCEPT
                          !.applied = [plan |-> worker.plan,
                                       version |-> checkpoint.version]]
                     /\ live' = roles
                  \/ /\ \E pending \in BOOLEAN :
                          checkpoint' = [checkpoint EXCEPT
                            !.version = @ + 1, !.rows = RowsAfter(D, roles),
                            !.pending = pending]
                     /\ worker' = [Failed(worker) EXCEPT
                          !.applied = [plan |-> worker.plan,
                                       version |-> checkpoint.version]]
                     /\ live' = roles
  /\ UNCHANGED <<started, changes>>

\* The snapshot after the apply has the provider of the one before.
SameProvider ==
  /\ At("provider")
  /\ checkpoint.provider = worker.before.provider
  /\ worker' = [Enter(worker, "drift") EXCEPT !.plan = None, !.sealed = None]
  /\ UNCHANGED <<checkpoint, live, started, changes>>
-----------------------------------------------------------------------------
(***************************************************************************)
(* The drift job.                                                          *)
(***************************************************************************)
\* What the provider reads is not what the checkpoint says, as far as a preview
\* prints it.
Drifted(rows) ==
  \E u \in DOMAIN rows : Project(rows[u].outputs) # Project(Outputs(rows[u], live))

\* The engine refreshes, and fails by itself if anything is to be changed.
Refresh ==
  /\ At("refresh")
  /\ LET rows   == checkpoint.rows
         inputs == [u \in Urn |->
                      IF u \in DOMAIN rows THEN Refreshed(rows[u], live) ELSE Gone]
         seen   == [u \in Urn |->
                      IF u \in DOMAIN rows THEN Outputs(rows[u], live) ELSE Gone]
     IN  \E goals \in Planned(rows, inputs) :
           /\ ChangedUrns(goals) = {}
           /\ LET shown == Shown(rows, goals, seen)
              IN  \E plan \in Files(goals) :
                    /\ ValidPlan(worker.before, plan, shown)
                    /\ worker' = [Next1(worker) EXCEPT !.plan = plan, !.shown = shown,
                                                       !.drifted = Drifted(rows)]
  /\ UNCHANGED <<checkpoint, live, started, changes>>

Clean ==
  /\ At("clean")
  /\ ValidPlan(worker.before, worker.plan, worker.shown)
  /\ ChangedUrns(worker.plan) = {}
  /\ worker' = [Enter(worker, "complete") EXCEPT !.plan = None, !.shown = None]
  /\ UNCHANGED <<checkpoint, live, started, changes>>
-----------------------------------------------------------------------------
(***************************************************************************)
(* The others: the checkpoint is written again, its provider is changed or *)
(* a pending operation is cleared by hand, and the roles are changed.      *)
(***************************************************************************)
Change ==
  /\ changes < MaxChanges
  /\ changes' = changes + 1
  /\ UNCHANGED started

\* Nobody looks at the version again once an update is about to begin.
Rewrite ==
  /\ Change
  /\ \E p \in Provider :
       checkpoint' = [checkpoint EXCEPT !.version = @ + 1, !.provider = p,
                                        !.pending = FALSE]
  /\ worker' = IF At("up") THEN [worker EXCEPT !.late = TRUE] ELSE worker
  /\ UNCHANGED live

ChangeRole ==
  /\ Change
  /\ \E r \in Role : \E actual \in Outside[r] \ {live[r]} :
       live' = [live EXCEPT ![r] = actual]
  /\ UNCHANGED <<checkpoint, worker>>

Next ==
  \/ Start \/ Fail \/ ReadHead \/ ReadAgain \/ PulumiPreview \/ Validate \/ Seal
  \/ Open \/ Up \/ SameProvider \/ Refresh \/ Clean \/ Rewrite \/ ChangeRole
  \/ \E r \in RoleRead : EnrollRole(r)

Spec == Init /\ [][Next]_vars

-----------------------------------------------------------------------------
(***************************************************************************)
(* Properties.                                                             *)
(***************************************************************************)
\* What is applied is, as far as a preview prints it, what the engine has shown
\* in the preview of the same worker, and the version it is applied to is the one
\* that was computed from: neither a program that rewrites the saved plan nor a
\* checkpoint that moves between the jobs comes between the two (execute: the
\* snapshots, the binding of the envelope, the comparison of the plan with the
\* preview).  Three things escape it.  The value of a secret is printed nowhere;
\* the provider is not shown, and held to its pinned form; and a checkpoint that
\* is written after the last snapshot, before the update finds it, is not seen.
AppliedIsPreviewed ==
  worker # None /\ worker.applied # None =>
    /\ DOMAIN worker.applied.plan = DOMAIN worker.engine.plan
    /\ \A u \in DOMAIN worker.applied.plan :
         \/ /\ worker.applied.plan[u].ops = worker.engine.plan[u].ops
            /\ Printed(worker.applied.plan[u].desired) = Printed(worker.engine.plan[u].desired)
         \/ worker.applied.plan[u].desired.kind = "provider"
    /\ worker.applied.version = worker.engine.version \/ worker.late

\* Whatever the pull request wants and however far an apply comes, it leaves
\* every guarded role its boundary, its guards and no other policies than it may
\* have, drops no resource, and trusts nothing the analyzer rejects.  How many
\* policies are attached is counted by the enrollment alone.
OperatorsKeep ==
  [][checkpoint'.rows # checkpoint.rows =>
       /\ DOMAIN checkpoint.rows \subseteq DOMAIN checkpoint'.rows
       /\ \A r \in RoleRead :
            /\ Guarded(r, live[r]) => Guarded(r, live'[r])
            /\ live'[r].trust = live[r].trust \/ live'[r].trust \notin Rejected]_vars

\* The checkpoint an apply leaves, a partial one included, is one the next
\* plan can start from: nothing in it has two owners or names what is not there.
CheckpointStaysValid == Checkpoint([checkpoint EXCEPT !.pending = FALSE])

\* A worker that ended well has applied its plan to roles that were as the
\* checkpoint says when it looked, secrets excepted: no program can want or write
\* its way around drift.
DriftIsSeen == worker # None /\ worker.job = "complete" => ~worker.drifted
=============================================================================
