------------------------------ MODULE SavedPlan ------------------------------
(***************************************************************************)
(* Saved Pulumi plans: a worker previews every stack of its list and saves *)
(* a plan for each, the gates read the previews, and after an approval     *)
(* another job applies those plans, stack by stack, and looks for drift.   *)
(*                                                                         *)
(* A plan is bound to what it was made of: the commit, the age of its      *)
(* manifest, the version of the checkpoint and the key that encrypts it    *)
(* (run_pulumi_command.py, _pulumi_stack_config.py).  Workers of one       *)
(* account take turns (the state group); people who administer the account *)
(* do not: they update stacks from their own machines, change resources in *)
(* the console, retarget the key and repair stacks an update left behind.  *)
(*                                                                         *)
(* A resource of a stack is at one of a few versions, named by strings;    *)
(* Inputs gives the record the policy pack reads of each.                  *)
(***************************************************************************)
EXTENDS PolicyPack, PreviewGates, Sequences

CONSTANTS Worker, Stacks,       \* the stacks of an account, in the listed order
          Commit, Urn,
          Program,              \* Program[c][s][u]: the version commit c wants
          Inputs,               \* the concrete inputs of a version
          Late,                 \* version -> inputs known only once it exists
          Sources,              \* worker -> commits its run may be for
          InitialStates,        \* what the stacks hold before: stack -> urn -> version
          MaxEdits, MaxRuns     \* bounds: steps of people, attempts of a worker

VARIABLES live,         \* stack -> urn -> version, in the cloud
          checkpoint,   \* stack -> [version, pending, by]; version 0: absent
          locked,       \* stack -> the lock of an update is held
          key,          \* the key the alias of the secrets provider points to
          edits,        \* steps people took
          group,        \* the worker that holds the state group
          job,          \* worker -> where it is
          reached,      \* worker -> the last job of its run that started
          at,           \* worker -> index of the stack it works on
          runs,         \* worker -> attempts
          source,       \* worker -> the commit it checked out
          binding,      \* worker -> what prepared_stack_configuration read
          preview,      \* worker -> stack -> the steps the preview showed
          plan,         \* worker -> stack -> the goals of the saved plan
          manifest,     \* worker -> stack -> the identity its entry is bound to
          expired,      \* worker -> its manifest is older than a plan may be
          update,       \* worker -> the steps of the update under way
          completed     \* worker -> stacks its plans were applied to, in full

vars == <<live, checkpoint, locked, key, edits, group, job, reached, at, runs, source,
          binding, preview, plan, manifest, expired, update, completed>>
cloud == <<live, checkpoint, locked>>
saved == <<preview, plan, manifest>>
worker == <<group, job, reached, at, runs, source, binding, saved, expired, update, completed>>

Stack == {Stacks[i] : i \in DOMAIN Stacks}
None == "none"
NoIdentity == [version |-> 0, key |-> 0]

ASSUME PlanConstants ==
  /\ MaxEdits \in Nat /\ MaxRuns \in [Worker -> Nat]
  /\ Stacks \in Seq(Stack) /\ Stacks # <<>>
  /\ Program \in [Commit -> [Stack -> [Urn -> DOMAIN Inputs \cup {None}]]]
  /\ Sources \in [Worker -> SUBSET Commit]
  /\ InitialStates \subseteq [Stack -> [Urn -> DOMAIN Inputs \cup {None}]]
  /\ None \notin Worker

-----------------------------------------------------------------------------
(* What the engine does with a program (external).                         *)

\* A new physical name cannot be given in place.
Operation(old, new) ==
  CASE old = None -> "create"
    [] new = None -> "delete"
    [] Inputs[old].name # Inputs[new].name -> "replace"
    [] OTHER -> "update"

\* The inputs of a version as they are known while the resource is `old`.
Known(old, new) ==
  IF old = new THEN Inputs[new]
  ELSE [f \in DOMAIN Inputs[new] |->
          IF f \notin Late[new] THEN Inputs[new][f]
          ELSE IF f = "documents" THEN [d \in DOMAIN Inputs[new].documents |-> Unknown]
          ELSE Unknown]

Changed(resources, goal) == {u \in Urn : resources[u] # goal[u]}

\* A state is printed with its type, and its inputs as a field of their own.
NewState(old, new) ==
  IF new = None THEN [field \in {} |-> None]
  ELSE [type |-> Inputs[new].type, inputs |-> Known(old, new)]

Step(u, old, new) ==
  [urn |-> u, op |-> Operation(old, new), to |-> new,
   type |-> Inputs[IF new = None THEN old ELSE new].type, state |-> NewState(old, new)]

Steps(resources, goal) ==
  {Step(u, resources[u], goal[u]) : u \in Changed(resources, goal)}

VersionsOf(u) == {v \in DOMAIN Inputs : Inputs[v].urn = u} \cup {None}

Wanted(goal) == {u \in Urn : goal[u] # None}
Shown(resources, goal) == {Known(resources[u], goal[u]) : u \in Wanted(goal)}
Deployed(goal) == {Inputs[goal[u]] : u \in Wanted(goal)}

PackAccepts(inputs) == (\A r \in inputs : ResourceAccepted(r)) /\ StackAccepted(inputs)

\* The engine always knows what a resource is, and its type is a part of its
\* urn; programs that compute the bucket of another resource from one give it
\* its id.
ASSUME ProgramConstants ==
  /\ \A v \in DOMAIN Inputs :
       /\ {"urn", "type", "name", "owner", "bucketUrns", "encryption", "documents"}
            \subseteq DOMAIN Inputs[v]
       /\ Late[v] \cap {"urn", "type", "bucketUrns"} = {}
  /\ \A v, x \in DOMAIN Inputs :
       Inputs[v].urn = Inputs[x].urn => Inputs[v].type = Inputs[x].type
  /\ \A s \in Stack, u \in Urn :
       /\ \A c \in Commit : Program[c][s][u] \in VersionsOf(u)
       /\ \A states \in InitialStates : states[s][u] \in VersionsOf(u)
  /\ \A c \in Commit, s \in Stack :
       \A e, b \in Deployed(Program[c][s]) :
         b.type = "bucket" /\ b.urn \in e.bucketUrns => e.owner = b.name

\* A saved plan holds the operation and the goal of every resource.
Goals(steps) == {[urn |-> st.urn, op |-> st.op, to |-> st.to] : st \in steps}

\* An update with a plan performs no operation the plan does not hold.
Planned(goals, st) == Goals({st}) \subseteq goals

-----------------------------------------------------------------------------
Init ==
  /\ live \in InitialStates
  /\ checkpoint \in [Stack -> {[version |-> v, pending |-> FALSE, by |-> None] : v \in {0, 1}}]
  /\ \A s \in Stack : checkpoint[s].version = 0 => live[s] = [u \in Urn |-> None]
  /\ locked = [s \in Stack |-> FALSE] /\ key = 1 /\ edits = 0
  /\ group = None
  /\ job = [w \in Worker |-> "waiting"] /\ reached = [w \in Worker |-> "plan"]
  /\ at = [w \in Worker |-> 1] /\ runs = [w \in Worker |-> 0]
  /\ source \in {f \in [Worker -> Commit] : \A w \in Worker : f[w] \in Sources[w]}
  /\ binding = [w \in Worker |-> NoIdentity]
  /\ preview = [w \in Worker |-> [s \in Stack |-> {}]]
  /\ plan = [w \in Worker |-> [s \in Stack |-> {}]]
  /\ manifest = [w \in Worker |-> [s \in Stack |-> NoIdentity]]
  /\ expired = [w \in Worker |-> FALSE]
  /\ update = [w \in Worker |-> {}]
  /\ completed = [w \in Worker |-> {}]

Here(w) == Stacks[at[w]]
Goal(w) == Program[source[w]][Here(w)]

To(w, next) == job' = [job EXCEPT ![w] = next]

\* The runner of a job that ends takes with it what it had read.
Ends(w, result) ==
  /\ To(w, result) /\ group' = None
  /\ at' = [at EXCEPT ![w] = 1]
  /\ binding' = [binding EXCEPT ![w] = NoIdentity]

\* Each job starts with the first stack of its list.
Starts(w, next) ==
  /\ To(w, next)
  /\ reached' = [reached EXCEPT ![w] = next]
  /\ at' = [at EXCEPT ![w] = 1]

\* A stack is done: the same job goes on with the next one, or the next job starts.
NextStack(w, again, next) ==
  IF at[w] < Len(Stacks)
  THEN at' = [at EXCEPT ![w] = @ + 1] /\ To(w, again) /\ UNCHANGED reached
  ELSE Starts(w, next)

\* A run starts, or starts over: its runner has no plans.
Preview(w) ==
  /\ group = None /\ runs[w] < MaxRuns[w]
  /\ job[w] \in {"waiting", "failure"}
  /\ group' = w /\ Starts(w, "plan")
  /\ runs' = [runs EXCEPT ![w] = @ + 1]
  /\ preview' = [preview EXCEPT ![w] = [s \in Stack |-> {}]]
  /\ plan' = [plan EXCEPT ![w] = [s \in Stack |-> {}]]
  /\ manifest' = [manifest EXCEPT ![w] = [s \in Stack |-> NoIdentity]]
  /\ expired' = [expired EXCEPT ![w] = FALSE]
  /\ completed' = [completed EXCEPT ![w] = {}]
  /\ UNCHANGED <<cloud, key, edits, source, binding, update>>

\* The jobs that failed run again, with the artifacts of those that did not.
RerunFailed(w) ==
  /\ group = None /\ runs[w] < MaxRuns[w]
  /\ job[w] = "failure" /\ reached[w] # "plan"
  /\ group' = w /\ Starts(w, reached[w])
  /\ runs' = [runs EXCEPT ![w] = @ + 1]
  /\ UNCHANGED <<cloud, key, edits, source, binding, saved, expired, update, completed>>

\* The manifest is this run's and not too old; the rest of it cannot differ here,
\* where the runner has what its own plan job uploaded.
ManifestHolds(w) == ~expired[w]

\* No worker creates a stack: it selects one that exists.
Selectable(s) == checkpoint[s].version > 0

VersionNow(s) == checkpoint[s].version

\* An operation an update left pending has to be resolved by a person.
Settled(s) == ~checkpoint[s].pending

\* The manifest is validated, before an update, and the stack selected; then the
\* version of its checkpoint is read for the first time.
Select(w) ==
  /\ job[w] \in {"plan", "apply"}
  /\ job[w] = "apply" => ManifestHolds(w)
  /\ Selectable(Here(w))
  /\ binding' = [binding EXCEPT ![w] = [version |-> VersionNow(Here(w)), key |-> 0]]
  /\ To(w, IF job[w] = "plan" THEN "planPrepares" ELSE "applyPrepares")
  /\ UNCHANGED <<cloud, key, edits, group, reached, at, runs, source, saved, expired, update,
                 completed>>

Identity(w) == [version |-> VersionNow(Here(w)), key |-> key]

\* The checkpoint is exported and its version read again: the two must agree.
Prepared(w) ==
  /\ VersionNow(Here(w)) = binding[w].version
  /\ Settled(Here(w))
  /\ binding' = [binding EXCEPT ![w] = Identity(w)]

PrepareForPlan(w) ==
  /\ job[w] = "planPrepares" /\ Prepared(w) /\ To(w, "previewing")
  /\ UNCHANGED <<cloud, key, edits, group, reached, at, runs, source, saved, expired, update,
                 completed>>

\* Mutant: any prepared identity will do for a saved plan.
PrepareAnyUpdate(w) ==
  /\ job[w] = "applyPrepares" /\ Prepared(w) /\ To(w, "verified")
  /\ UNCHANGED <<cloud, key, edits, group, reached, at, runs, source, saved, expired, update,
                 completed>>

\* ... and they must be what the plan was made on.
PrepareForUpdate(w) ==
  /\ job[w] = "applyPrepares" /\ Prepared(w) /\ To(w, "verified")
  /\ manifest[w][Here(w)] = Identity(w)
  /\ UNCHANGED <<cloud, key, edits, group, reached, at, runs, source, saved, expired, update,
                 completed>>

\* The preview is what the gates read, the plan what the update may do ...
SavePlan(w, steps) ==
  /\ preview' = [preview EXCEPT ![w][Here(w)] = steps]
  /\ plan' = [plan EXCEPT ![w][Here(w)] = Goals(steps)]

\* ... and the entry of the manifest is bound to the identity read before.
BindPlan(w) == manifest' = [manifest EXCEPT ![w][Here(w)] = binding[w]]

\* The engine refreshes the stack and saves the plan; the policy pack sees the
\* inputs that are known by now.
PreviewStack(w) ==
  LET s == Here(w)
      steps == Steps(live[s], Goal(w))
  IN /\ job[w] = "previewing"
     /\ PackAccepts(Shown(live[s], Goal(w)))
     /\ SavePlan(w, steps) /\ BindPlan(w)
     /\ NextStack(w, "plan", "gates")
     /\ UNCHANGED <<cloud, key, edits, group, runs, source, binding, expired, update, completed>>

\* The gates read the previews of all stacks; then somebody approves.
PassGates(w) ==
  LET previews == {preview[w][s] : s \in Stack}
  IN /\ job[w] = "gates"
     /\ DestructiveGate(previews) /\ IamGate(previews)
     /\ Starts(w, "apply")
     /\ UNCHANGED <<cloud, key, edits, group, runs, source, binding, saved, expired, update,
                    completed>>

\* It matters when an update is about to be validated.
Expire(w) ==
  /\ job[w] = "apply" /\ ~expired[w]
  /\ expired' = [expired EXCEPT ![w] = TRUE]
  /\ UNCHANGED <<cloud, key, edits, group, job, reached, at, runs, source, binding, saved,
                 update, completed>>

\* The engine takes the lock of the stack and refreshes it: the steps of the
\* update are those needed now.  With nothing to do it may write no new version.
BeginUpdate(w) ==
  LET s == Here(w)
      steps == Steps(live[s], Goal(w))
  IN /\ job[w] = "verified" /\ ~locked[s]
     /\ locked' = [locked EXCEPT ![s] = TRUE]
     /\ update' = [update EXCEPT ![w] = steps]
     /\ \E written \in IF steps = {} THEN {0, 1} ELSE {1} :
          checkpoint' = IF written = 0 THEN checkpoint
                        ELSE [checkpoint EXCEPT ![s].version = @ + 1, ![s].by = w]
     /\ To(w, "updating")
     /\ UNCHANGED <<live, key, edits, group, reached, at, runs, source, binding, saved, expired,
                    completed>>

\* The steps an update may get through: those of its plan that the pack accepts.
Performable(w) ==
  {st \in update[w] :
     /\ Planned(plan[w][Here(w)], st)
     /\ st.to # None => ResourceAccepted(Inputs[st.to])}

Perform(w, steps) ==
  LET target(u) == (CHOOSE st \in steps : st.urn = u).to
  IN live' = [live EXCEPT ![Here(w)] =
                [u \in Urn |-> IF \E st \in steps : st.urn = u THEN target(u) ELSE @[u]]]

\* An update that did something leaves a checkpoint of its own.
Written(w, steps, pending) ==
  checkpoint' = IF steps = {} /\ ~pending THEN checkpoint
                ELSE [checkpoint EXCEPT ![Here(w)].version = @ + 1,
                                        ![Here(w)].pending = pending, ![Here(w)].by = w]

CompleteUpdate(w) ==
  /\ job[w] = "updating"
  /\ Performable(w) = update[w] /\ PackAccepts(Deployed(Goal(w)))
  /\ Perform(w, update[w]) /\ Written(w, update[w], FALSE)
  /\ locked' = [locked EXCEPT ![Here(w)] = FALSE]
  /\ update' = [update EXCEPT ![w] = {}]
  /\ completed' = [completed EXCEPT ![w] = @ \cup {Here(w)}]
  /\ NextStack(w, "apply", "drift")
  /\ UNCHANGED <<key, edits, group, runs, source, binding, saved, expired>>

\* Mutant: a stack whose update fails does not keep the next ones from theirs.
StopAndGoOn(w) ==
  /\ job[w] = "updating"
  /\ \E steps \in SUBSET Performable(w) : Perform(w, steps) /\ Written(w, steps, FALSE)
  /\ locked' = [locked EXCEPT ![Here(w)] = FALSE]
  /\ update' = [update EXCEPT ![w] = {}]
  /\ IF at[w] < Len(Stacks)
     THEN NextStack(w, "apply", "drift") /\ UNCHANGED <<group, binding>>
     ELSE Ends(w, "failure") /\ UNCHANGED reached
  /\ UNCHANGED <<key, edits, runs, source, saved, expired, completed>>

\* The engine stops at an operation that is not planned, not accepted or fails;
\* what it did before stays, and the stacks that follow are left alone.
StopUpdate(w) ==
  /\ job[w] = "updating"
  /\ \E steps \in SUBSET Performable(w) : Perform(w, steps) /\ Written(w, steps, FALSE)
  /\ locked' = [locked EXCEPT ![Here(w)] = FALSE]
  /\ update' = [update EXCEPT ![w] = {}]
  /\ Ends(w, "failure")
  /\ UNCHANGED <<key, edits, reached, runs, source, saved, expired, completed>>

\* The runner is lost during an update: the lock and a pending operation remain.
LoseUpdate(w) ==
  /\ job[w] = "updating"
  /\ \E steps \in SUBSET Performable(w) : Perform(w, steps) /\ Written(w, steps, TRUE)
  /\ update' = [update EXCEPT ![w] = {}]
  /\ Ends(w, "failure")
  /\ UNCHANGED <<locked, key, edits, reached, runs, source, saved, expired, completed>>

\* A preview that expects no changes, stack by stack.
CheckDrift(w) ==
  /\ job[w] = "drift"
  /\ Selectable(Here(w))
  /\ live[Here(w)] = Goal(w) /\ PackAccepts(Deployed(Goal(w)))
  /\ IF at[w] < Len(Stacks)
     THEN at' = [at EXCEPT ![w] = @ + 1] /\ UNCHANGED <<job, group, binding>>
     ELSE Ends(w, "success")
  /\ UNCHANGED <<cloud, key, edits, reached, runs, source, saved, expired, update, completed>>

\* Whatever a job refuses, misses or loses ends the run.
Fail(w) ==
  /\ job[w] \notin {"waiting", "success", "failure", "updating"}
  /\ Ends(w, "failure")
  /\ UNCHANGED <<cloud, key, edits, reached, runs, source, saved, expired, update, completed>>

-----------------------------------------------------------------------------
(* What people do, outside the state group.                                *)

Edit == edits < MaxEdits /\ edits' = edits + 1
Writes(s) == checkpoint' = [checkpoint EXCEPT ![s] = [version |-> @.version + 1,
                                                      pending |-> FALSE, by |-> "person"]]

\* A stack of the account is created by a workflow of its own.
InitializeStack(s) ==
  /\ Edit /\ checkpoint[s].version = 0 /\ Writes(s)
  /\ UNCHANGED <<live, locked, key, worker>>

\* A direct update or refresh from a machine of their own: never in Actions.
UpdateByHand(s, c) ==
  /\ Edit /\ checkpoint[s].version > 0 /\ ~checkpoint[s].pending /\ ~locked[s]
  /\ PackAccepts(Deployed(Program[c][s]))
  /\ live' = [live EXCEPT ![s] = Program[c][s]] /\ Writes(s)
  /\ UNCHANGED <<locked, key, worker>>

ChangeInConsole(s, u, v) ==
  /\ Edit /\ live[s][u] # v /\ checkpoint[s].version > 0
  /\ live' = [live EXCEPT ![s][u] = v]
  /\ UNCHANGED <<checkpoint, locked, key, worker>>

RetargetKey == Edit /\ key' = 3 - key /\ UNCHANGED <<cloud, worker>>

\* pulumi cancel and a refresh, after an update that was lost.
Repair(s) ==
  /\ Edit /\ locked[s] /\ \A w \in Worker : job[w] = "updating" => Here(w) # s
  /\ locked' = [locked EXCEPT ![s] = FALSE] /\ Writes(s)
  /\ UNCHANGED <<live, key, worker>>

People ==
  \/ \E s \in Stack : InitializeStack(s) \/ Repair(s) \/ (\E c \in Commit : UpdateByHand(s, c))
  \/ \E s \in Stack, u \in Urn : \E v \in VersionsOf(u) : ChangeInConsole(s, u, v)
  \/ RetargetKey

Next ==
  \/ \E w \in Worker :
       \/ Preview(w) \/ RerunFailed(w) \/ Select(w) \/ PrepareForPlan(w)
       \/ PrepareForUpdate(w) \/ PreviewStack(w) \/ PassGates(w) \/ Expire(w)
       \/ BeginUpdate(w) \/ CompleteUpdate(w) \/ StopUpdate(w) \/ LoseUpdate(w)
       \/ CheckDrift(w) \/ Fail(w)
  \/ People

Spec == Init /\ [][Next]_vars

-----------------------------------------------------------------------------
(* Correctness.                                                            *)

Ended(w) == job[w] = "updating" /\ job'[w] # "updating"
BuiltBy(w, s, u) == Ended(w) /\ s = Here(w) /\ live'[s][u] # live[s][u]

\* With the inputs it really has, a version exposes no bucket and grants nothing
\* broad that was not reviewed.
Harmless(v) == NotExposed(Inputs[v]) /\ NoBroadGrant(Inputs[v])

(* An update by a worker, however it ends, has performed only operations   *)
(* that the preview the gates read had shown: no critical resource is      *)
(* deleted or replaced, and what is created or changed is harmless by the  *)
(* rules of the pack, even when the preview did not know its documents yet *)
(* or somebody changed the stack in between.  The analyzer vouches for     *)
(* nothing here: the gate finds it no document to read.                    *)
UpdatesAreReviewed ==
  [][\A w \in Worker, s \in Stack, u \in Urn : BuiltBy(w, s, u) =>
       \E st \in update[w] :
         /\ st.urn = u /\ st.to = live'[s][u]
         /\ Goals({st}) \subseteq Goals(preview[w][s])
         /\ st.op \in {"delete", "replace"} => st.type \notin CriticalTypes
         /\ st.to # None => Harmless(st.to)]_vars

(* An update starts from the checkpoint its plan was made on: no other     *)
(* worker and no earlier attempt of the same one wrote the stack since.    *)
(* Only somebody outside the group can have, and only after the identity   *)
(* of the stack was verified.                                              *)
StartsFromPlannedCheckpoint ==
  [][\A w \in Worker : (job[w] = "verified" /\ job'[w] = "updating") =>
       \/ checkpoint[Here(w)].version = manifest[w][Here(w)].version
       \/ /\ checkpoint[Here(w)].by = "person"
          /\ binding[w].version = manifest[w][Here(w)].version]_vars

(* The stacks are updated in their order: an update starts when the plans  *)
(* of every stack before it were applied in full by the same run, in       *)
(* whatever attempt.                                                       *)
EarlierStacksFirst ==
  [][\A w \in Worker : (job[w] = "verified" /\ job'[w] = "updating") =>
       {Stacks[i] : i \in 1..(at[w] - 1)} \subseteq completed[w]]_vars

(* When an update has performed all of its steps every bucket of the       *)
(* program is encrypted, by inputs of its own or by a resource that names  *)
(* this very bucket: the rules of the whole stack are only asked once the  *)
(* resources exist, so the preview must have refused what they will        *)
(* refuse, without knowing the names.                                      *)
ProtectedWhenApplied ==
  [][\A w \in Worker : (Ended(w) /\ live'[Here(w)] = Goal(w)) =>
       LET all == Deployed(Goal(w))
       IN \A b \in all : b.type = "bucket" =>
            \/ Encrypts(b)
            \/ \E e \in all :
                 e.type = "bucketEncryption" /\ Encrypts(e) /\ e.owner = b.name]_vars
=============================================================================
