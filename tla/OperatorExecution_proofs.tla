---------------------- MODULE OperatorExecution_proofs ----------------------
(***************************************************************************)
(* What is applied is what was previewed, the checkpoint stays valid, the  *)
(* operators stay enrolled and drift stops a worker: for any catalog, any  *)
(* programs and any number of workers and of changes by others.            *)
(*                                                                         *)
(* The first argument is about versions.  Every write of the checkpoint is *)
(* a new version, so two reads of one version have the same rows.  The     *)
(* engine plans from a version between the one the job has read before and *)
(* the one it reads after; these are one, so the plan was validated        *)
(* against the rows the engine has planned from, and then it can differ    *)
(* from the goals that were shown in providers only.  The envelope carries *)
(* the plan and the version over to the apply.                             *)
(*                                                                         *)
(* The second is about rows.  Only an update changes them, and what it     *)
(* performs of a plan was validated against the rows it changes.  A plan   *)
(* is accepted as a whole, but an update may end anywhere in it: so each   *)
(* part of what was accepted is shown to leave a sound checkpoint and the  *)
(* guards of the roles.                                                    *)
(***************************************************************************)
EXTENDS OperatorExecution, TLAPS

Field == {"job", "step", "left", "read", "before", "plan", "shown", "sealed",
          "engine", "applied", "late", "drifted"}

\* A plan has the goals of another one as far as they are printed, but for its
\* providers.
SameGoal(x, y) == x.ops = y.ops /\ Printed(x.desired) = Printed(y.desired)

Match(p, e) ==
  /\ DOMAIN p = DOMAIN e
  /\ \A u \in DOMAIN p : SameGoal(p[u], e[u]) \/ p[u].desired.kind = "provider"

CheckpointForm(c) ==
  /\ c = [version |-> c.version, provider |-> c.provider, rows |-> c.rows,
          pending |-> c.pending]
  /\ c.version \in Nat \ {0}

\* What has been read is not newer than the checkpoint, and it has its rows
\* when it is of its version.
Seen(x, c) ==
  /\ x.version \in Nat
  /\ x.version <= c.version
  /\ x.version = c.version => x.rows = c.rows

Positioned(w) ==
  \/ w.job = "preview" /\ w.step \in 1..11
  \/ w.job = "apply" /\ w.step \in 1..9
  \/ w.job = "drift" /\ w.step \in 1..7
  \/ w.job \in {"complete", "failed"} /\ w.step = 1

Previewing(w, c) ==
  w.job = "preview" =>
    /\ w.applied = None
    /\ w.step >= 4 => w.before.version >= 1
    /\ w.step >= 5 =>
         /\ w.engine.version \in Nat
         /\ w.before.version <= w.engine.version
         /\ w.engine.version <= c.version
         /\ w.engine.version = w.before.version => Match(w.plan, w.engine.plan)
    /\ w.step >= 7 => w.engine.version = w.before.version

Updating(w) == w.job = "apply" /\ w.step = 8

Applying(w, c) ==
  w.job = "apply" =>
    /\ w.engine.version \in Nat \ {0}
    /\ Match(w.sealed.bundle.plan, w.engine.plan)
    /\ w.sealed.binding.version = w.engine.version
    /\ w.step >= 5 => /\ w.before.version = w.engine.version
                      /\ Match(w.plan, w.engine.plan)
    /\ Updating(w) => w.late \/ w.engine.version = c.version

AppliedMatches(w) ==
  w.applied # None => /\ Match(w.applied.plan, w.engine.plan)
                      /\ w.late \/ w.applied.version = w.engine.version

WorkerInv(w, c) ==
  /\ w = [f \in Field |-> w[f]]
  /\ Positioned(w)
  /\ Seen(w.read, c)
  /\ Seen(w.before, c)
  /\ Previewing(w, c)
  /\ Applying(w, c)
  /\ AppliedMatches(w)

\* The inductive invariant.
Inv ==
  /\ CheckpointForm(checkpoint)
  /\ worker # None => WorkerInv(worker, checkpoint)
-----------------------------------------------------------------------------
(***************************************************************************)
(* Where a worker is.                                                      *)
(***************************************************************************)
LEMMA AtPreview ==
  ASSUME NEW w, w.job = "preview", w.step \in 1..11
  PROVE  /\ Program(w.job)[w.step] = "head" => w.step \in {2, 5, 9}
         /\ Program(w.job)[w.step] = "again" => w.step \in {3, 6, 10}
         /\ Program(w.job)[w.step] = "enroll" => w.step \in {1, 8}
         /\ Program(w.job)[w.step] = "pulumi" => w.step = 4
         /\ Program(w.job)[w.step] = "validate" => w.step = 7
         /\ Program(w.job)[w.step] = "seal" => w.step = 11
         /\ Program(w.job)[w.step] \notin {"open", "up", "provider", "refresh",
                                           "clean", "end"}
<1>1. Program(w.job) = <<"enroll", "head", "again", "pulumi", "head", "again",
                         "validate", "enroll", "head", "again", "seal">>
  BY DEF Program
<1>2. w.step \in {1, 2, 3, 4, 5, 6, 7, 8, 9, 10, 11}
  OBVIOUS
<1> QED
  BY <1>1, <1>2

LEMMA AtApply ==
  ASSUME NEW w, w.job = "apply", w.step \in 1..9
  PROVE  /\ Program(w.job)[w.step] = "head" => w.step \in {2, 6}
         /\ Program(w.job)[w.step] = "again" => w.step \in {3, 7}
         /\ Program(w.job)[w.step] = "enroll" => w.step \in {1, 5}
         /\ Program(w.job)[w.step] = "open" => w.step = 4
         /\ Program(w.job)[w.step] = "up" => w.step = 8
         /\ Program(w.job)[w.step] = "provider" => w.step = 9
         /\ Program(w.job)[w.step] \notin {"pulumi", "validate", "seal", "refresh",
                                           "clean", "end"}
<1>1. Program(w.job) = <<"enroll", "head", "again", "open", "enroll", "head",
                         "again", "up", "provider">>
  BY DEF Program
<1>2. w.step \in {1, 2, 3, 4, 5, 6, 7, 8, 9}
  OBVIOUS
<1> QED
  BY <1>1, <1>2

LEMMA AtDrift ==
  ASSUME NEW w, w.job = "drift", w.step \in 1..7
  PROVE  /\ Program(w.job)[w.step] = "head" => w.step \in {2, 5}
         /\ Program(w.job)[w.step] = "again" => w.step \in {3, 6}
         /\ Program(w.job)[w.step] = "enroll" => w.step = 1
         /\ Program(w.job)[w.step] = "refresh" => w.step = 4
         /\ Program(w.job)[w.step] = "clean" => w.step = 7
         /\ Program(w.job)[w.step] \notin {"pulumi", "validate", "seal", "open",
                                           "up", "provider", "end"}
<1>1. Program(w.job) = <<"enroll", "head", "again", "refresh", "head", "again",
                         "clean">>
  BY DEF Program
<1>2. w.step \in {1, 2, 3, 4, 5, 6, 7}
  OBVIOUS
<1> QED
  BY <1>1, <1>2

LEMMA AtEnd ==
  ASSUME NEW w, w.job \in {"complete", "failed"}, w.step = 1
  PROVE  Program(w.job)[w.step] = "end"
BY DEF Program
-----------------------------------------------------------------------------
(***************************************************************************)
(* A plan that is valid for the rows it was planned from has the goals the *)
(* engine has shown: its own or a forged plan's.                           *)
(***************************************************************************)
LEMMA GoalsShape ==
  ASSUME NEW rows, NEW inputs, NEW goals \in Planned(rows, inputs)
  PROVE  DOMAIN goals \cap External(rows) = {}
<1>1. PICK wish \in Wishes(rows) : goals = Goals(rows, wish, inputs)
  BY DEF Planned
<1>2. DOMAIN wish = Urn \ External(rows)
  BY DEF Wishes
<1> QED
  BY <1>1, <1>2 DEF Goals

\* No goal is a read.
LEMMA NoReads ==
  ASSUME NEW prior, NEW desired, NEW ops, Operation(prior, desired, ops)
  PROVE  ops # <<"read">>
<1>1. ops = Same \/ ops = Update \/ ops \in {Create, Delete} \/ ops \in Replacements
  BY DEF Operation, ChangedOperation, ProviderHardening, ExclusiveTransition, Lifecycle
<1>2. /\ Same # <<"read">> /\ Update # <<"read">> /\ Create # <<"read">>
      /\ Delete # <<"read">>
  BY DEF Same, Update, Create, Delete
<1>3. <<"read">> \notin Replacements
  BY DEF Replacements
<1> QED
  BY <1>1, <1>2, <1>3

LEMMA ValidPlanFacts ==
  ASSUME NEW state, NEW goals, NEW preview, ValidPlan(state, goals, preview)
  PROVE  /\ DOMAIN goals \cap External(state.rows) = {}
         /\ DOMAIN state.rows \ External(state.rows) \subseteq DOMAIN goals
         /\ DOMAIN preview = DOMAIN state.rows \cup DOMAIN goals
         /\ \A u \in DOMAIN goals :
              /\ Operation(Prior(state.rows, u), goals[u].desired, goals[u].ops)
              /\ \/ goals[u].desired # Gone /\ goals[u].desired.kind = "provider"
                 \/ PreviewResource(preview[u], Prior(state.rows, u),
                                    goals[u].desired, goals[u].ops)
BY DEF ValidPlan, CompleteInventory

\* Whatever the file of the plan holds, it is what was shown.
LEMMA PlannedMatches ==
  ASSUME NEW state, NEW inputs, NEW e \in Planned(state.rows, inputs), NEW seen,
         NEW p, ValidPlan(state, p, Shown(state.rows, e, seen))
  PROVE  Match(p, e)
<1> DEFINE rows == state.rows
           shown == Shown(rows, e, seen)
<1>1. DOMAIN e \cap External(rows) = {}
  BY GoalsShape
<1>2. /\ DOMAIN p \cap External(rows) = {}
      /\ DOMAIN rows \ External(rows) \subseteq DOMAIN p
      /\ DOMAIN shown = DOMAIN rows \cup DOMAIN p
      /\ \A u \in DOMAIN p :
           /\ Operation(Prior(rows, u), p[u].desired, p[u].ops)
           /\ \/ p[u].desired # Gone /\ p[u].desired.kind = "provider"
              \/ PreviewResource(shown[u], Prior(rows, u), p[u].desired, p[u].ops)
  BY ValidPlanFacts
<1>3. DOMAIN shown = DOMAIN e \cup External(rows)
  BY DEF Shown
<1>4. External(rows) \subseteq DOMAIN rows
  BY DEF External
<1>5. DOMAIN p = DOMAIN e
  BY <1>1, <1>2, <1>3, <1>4
<1>6. ASSUME NEW u \in DOMAIN p
      PROVE  SameGoal(p[u], e[u]) \/ p[u].desired.kind = "provider"
  <2>1. CASE PreviewResource(shown[u], Prior(rows, u), p[u].desired, p[u].ops)
    <3>1. shown[u] = [ops |-> e[u].ops, old |-> Prior(rows, u), new |-> e[u].desired,
                      seen |-> seen[u]]
      BY <1>5, <1>6 DEF Shown
    <3>2. shown[u].ops = e[u].ops /\ shown[u].new = e[u].desired
      BY <3>1
    <3> HIDE DEF shown
    <3>3. e[u].ops = p[u].ops
      BY <2>1, <3>2 DEF PreviewResource
    <3>4. ~EmptyRead(shown[u], p[u].desired)
      BY <1>2, <1>6, <3>2, <3>3, NoReads DEF EmptyRead
    <3>5. Printed(e[u].desired) = Printed(p[u].desired)
      BY <2>1, <3>2, <3>4 DEF PreviewResource, PreviewStates
    <3> QED
      BY <3>3, <3>5 DEF SameGoal
  <2> QED
    BY <1>2, <1>6, <2>1
<1> QED
  BY <1>5, <1>6 DEF Match
-----------------------------------------------------------------------------
(***************************************************************************)
(* The steps.                                                              *)
(***************************************************************************)
LEMMA NothingSeen ==
  ASSUME NEW c, CheckpointForm(c)
  PROVE  Seen(Unread, c)
BY DEF Seen, Unread, CheckpointForm

LEMMA FailedInv ==
  ASSUME NEW w, NEW c, WorkerInv(w, c), CheckpointForm(c)
  PROVE  WorkerInv(Failed(w), c)
<1>1. Failed(w) =
        [f \in Field |->
           CASE f = "job" -> "failed" [] f = "step" -> 1 [] f = "left" -> RoleRead
             [] f \in {"read", "before"} -> Unread
             [] f \in {"plan", "shown", "sealed"} -> None [] OTHER -> w[f]]
  BY DEF Failed, Enter, WorkerInv, Field
<1>2. /\ Failed(w).job = "failed" /\ Failed(w).step = 1
      /\ Failed(w).read = Unread /\ Failed(w).before = Unread
      /\ Failed(w).applied = w.applied /\ Failed(w).engine = w.engine
      /\ Failed(w).late = w.late
      /\ Failed(w) = [f \in Field |-> Failed(w)[f]]
  BY <1>1 DEF Field
<1> HIDE DEF Failed
<1> QED
  BY <1>2, NothingSeen
  DEF WorkerInv, Positioned, Previewing, Applying, Updating, AppliedMatches

\* What was seen is still not newer after a write.
LEMMA WriteInv ==
  ASSUME NEW w, NEW c, NEW d, WorkerInv(w, c), CheckpointForm(c), CheckpointForm(d),
         d.version = c.version + 1, Updating(w) => w.late
  PROVE  WorkerInv(w, d)
<1>1. c.version \in Nat /\ d.version \in Nat /\ c.version < d.version
  BY DEF CheckpointForm
<1>2. ASSUME NEW x, Seen(x, c)
      PROVE  Seen(x, d)
  BY <1>1, <1>2 DEF Seen
<1>3. Previewing(w, d)
  BY <1>1 DEF WorkerInv, Previewing
<1>4. Applying(w, d)
  BY DEF WorkerInv, Applying
<1> QED
  BY <1>2, <1>3, <1>4 DEF WorkerInv

LEMMA WrittenForm ==
  ASSUME NEW c, CheckpointForm(c), NEW d, NEW rows, NEW provider, NEW pending,
         \/ d = [c EXCEPT !.version = @ + 1, !.rows = rows]
         \/ d = [c EXCEPT !.version = @ + 1, !.rows = rows, !.pending = pending]
         \/ d = [c EXCEPT !.version = @ + 1, !.provider = provider,
                          !.pending = pending]
  PROVE  CheckpointForm(d) /\ d.version = c.version + 1
<1>1. PICK v, p, r, q : /\ c = [version |-> v, provider |-> p, rows |-> r,
                                pending |-> q]
                        /\ v = c.version
  BY DEF CheckpointForm
<1>2. \E x, y, z : d = [version |-> v + 1, provider |-> x, rows |-> y, pending |-> z]
  BY <1>1
<1>3. v \in Nat \ {0}
  BY <1>1 DEF CheckpointForm
<1> QED
  BY <1>1, <1>2, <1>3 DEF CheckpointForm

LEMMA StartInv ==
  ASSUME Inv, Start
  PROVE  Inv'
<1>1. Worker = [f \in Field |-> Worker[f]]
  BY DEF Worker, Field
<1>2. /\ Worker.job = "preview" /\ Worker.step = 1
      /\ Worker.read = Unread /\ Worker.before = Unread /\ Worker.applied = None
  BY DEF Worker
<1>3. Seen(Unread, checkpoint)
  BY NothingSeen DEF Inv
<1>4. WorkerInv(Worker, checkpoint)
  BY <1>1, <1>2, <1>3 DEF WorkerInv, Positioned, Previewing, Applying, Updating, AppliedMatches
<1> QED
  BY <1>4 DEF Inv, Start

LEMMA FailInv ==
  ASSUME Inv, Fail
  PROVE  Inv'
BY FailedInv DEF Inv, Fail

\* A step that only moves on.
LEMMA Next1Fields ==
  ASSUME NEW w, NEW c, WorkerInv(w, c)
  PROVE  /\ Next1(w) = [f \in Field |-> Next1(w)[f]]
         /\ Next1(w).step = w.step + 1
         /\ \A f \in Field \ {"step", "left"} : Next1(w)[f] = w[f]
BY DEF Next1, WorkerInv, Field

LEMMA EnrollRoleInv ==
  ASSUME Inv, NEW r \in RoleRead, EnrollRole(r)
  PROVE  Inv'
<1> DEFINE w == worker
<1>1. WorkerInv(w, checkpoint) /\ worker # None /\ checkpoint' = checkpoint
  BY DEF Inv, EnrollRole, At
<1>2. Program(w.job)[w.step] = "enroll"
  BY DEF EnrollRole, At
<1>3. CASE worker' = [worker EXCEPT !.left = @ \ {r}]
  <2>1. /\ worker' = [f \in Field |-> worker'[f]]
        /\ \A f \in Field \ {"left"} : worker'[f] = w[f]
    BY <1>1, <1>3 DEF WorkerInv, Field
  <2>2. /\ worker'.job = w.job /\ worker'.step = w.step /\ worker'.read = w.read
        /\ worker'.before = w.before /\ worker'.plan = w.plan
        /\ worker'.sealed = w.sealed /\ worker'.engine = w.engine
        /\ worker'.applied = w.applied /\ worker'.late = w.late
    BY <2>1 DEF Field
  <2>3. WorkerInv(worker', checkpoint')
    BY <1>1, <2>1, <2>2
    DEF WorkerInv, Positioned, Previewing, Applying, Updating, AppliedMatches
  <2> QED
    BY <1>1, <2>3 DEF Inv
<1>4. CASE worker' = Next1(worker)
  <2>1. /\ worker' = [f \in Field |-> worker'[f]]
        /\ worker'.step = w.step + 1
        /\ worker'.job = w.job /\ worker'.read = w.read
        /\ worker'.before = w.before /\ worker'.plan = w.plan
        /\ worker'.sealed = w.sealed /\ worker'.engine = w.engine
        /\ worker'.applied = w.applied /\ worker'.late = w.late
    BY <1>1, <1>4, Next1Fields DEF Field
  <2>2. \/ w.job = "preview" /\ w.step \in {1, 8}
        \/ w.job = "apply" /\ w.step \in {1, 5}
        \/ w.job = "drift" /\ w.step = 1
    BY <1>1, <1>2, AtPreview, AtApply, AtDrift, AtEnd DEF WorkerInv, Positioned
  <2>3. WorkerInv(worker', checkpoint')
    BY <1>1, <2>1, <2>2
    DEF WorkerInv, Positioned, Previewing, Applying, Updating, AppliedMatches
  <2> QED
    BY <1>1, <2>3 DEF Inv
<1> QED
  BY <1>3, <1>4 DEF EnrollRole

LEMMA ReadHeadInv ==
  ASSUME Inv, ReadHead
  PROVE  Inv'
<1> DEFINE w == worker
<1>1. WorkerInv(w, checkpoint) /\ worker # None /\ checkpoint' = checkpoint
  BY DEF Inv, ReadHead, At
<1>2. Program(w.job)[w.step] = "head"
  BY DEF ReadHead, At
<1>3. /\ worker' = [f \in Field |-> worker'[f]]
      /\ worker'.step = w.step + 1
      /\ worker'.job = w.job /\ worker'.read = checkpoint
      /\ worker'.before = w.before /\ worker'.plan = w.plan
      /\ worker'.sealed = w.sealed /\ worker'.engine = w.engine
      /\ worker'.applied = w.applied /\ worker'.late = w.late
  <2>1. worker' = [Next1(worker) EXCEPT !.read = checkpoint]
    BY DEF ReadHead
  <2> QED
    BY <1>1, <2>1, Next1Fields DEF Field
<1>4. \/ w.job = "preview" /\ w.step \in {2, 5, 9}
      \/ w.job = "apply" /\ w.step \in {2, 6}
      \/ w.job = "drift" /\ w.step \in {2, 5}
  BY <1>1, <1>2, AtPreview, AtApply, AtDrift, AtEnd DEF WorkerInv, Positioned
<1>5. Seen(checkpoint, checkpoint)
  BY DEF Inv, Seen, CheckpointForm
<1>6. WorkerInv(worker', checkpoint')
  BY <1>1, <1>3, <1>4, <1>5
  DEF WorkerInv, Positioned, Previewing, Applying, Updating, AppliedMatches
<1> QED
  BY <1>1, <1>6 DEF Inv

LEMMA ReadAgainInv ==
  ASSUME Inv, ReadAgain
  PROVE  Inv'
<1> DEFINE w == worker
<1>1. /\ WorkerInv(w, checkpoint) /\ worker # None /\ checkpoint' = checkpoint
      /\ CheckpointForm(checkpoint)
  BY DEF Inv, ReadAgain, At
<1>2. Program(w.job)[w.step] = "again"
  BY DEF ReadAgain, At
<1>3. /\ worker' = [f \in Field |-> worker'[f]]
      /\ worker'.step = w.step + 1
      /\ worker'.job = w.job /\ worker'.read = Unread
      /\ worker'.before = w.read /\ worker'.plan = w.plan
      /\ worker'.sealed = w.sealed /\ worker'.engine = w.engine
      /\ worker'.applied = w.applied /\ worker'.late = w.late
  <2>1. worker' = [Next1(worker) EXCEPT !.before = worker.read, !.read = Unread]
    BY DEF ReadAgain
  <2> QED
    BY <1>1, <2>1, Next1Fields DEF Field
<1>4. \/ w.job = "preview" /\ w.step \in {3, 6, 10}
      \/ w.job = "apply" /\ w.step \in {3, 7}
      \/ w.job = "drift" /\ w.step \in {3, 6}
  BY <1>1, <1>2, AtPreview, AtApply, AtDrift, AtEnd DEF WorkerInv, Positioned
<1>5. /\ w.read.version = checkpoint.version
      /\ w.before.version >= 1 => w.before = w.read
  BY DEF ReadAgain, Unread
<1>6. checkpoint.version \in Nat /\ checkpoint.version >= 1
  BY <1>1 DEF CheckpointForm
<1>7. Seen(Unread, checkpoint) /\ Seen(w.read, checkpoint) /\ Seen(w.before, checkpoint)
  BY <1>1, NothingSeen DEF WorkerInv
<1>8. Previewing(worker', checkpoint')
  <2>1. CASE w.job = "preview" /\ w.step = 3
    BY <1>1, <1>3, <1>5, <1>6, <2>1 DEF WorkerInv, Previewing
  <2>2. CASE w.job = "preview" /\ w.step = 6
    BY <1>1, <1>3, <1>5, <1>6, <1>7, <2>2 DEF WorkerInv, Previewing, Seen
  <2>3. CASE w.job = "preview" /\ w.step = 10
    BY <1>1, <1>3, <1>5, <1>6, <1>7, <2>3 DEF WorkerInv, Previewing, Seen
  <2> QED
    BY <1>3, <1>4, <2>1, <2>2, <2>3 DEF Previewing
<1>9. Applying(worker', checkpoint')
  <2>1. CASE w.job = "apply" /\ w.step = 3
    BY <1>1, <1>3, <2>1 DEF WorkerInv, Applying, Updating
  <2>2. CASE w.job = "apply" /\ w.step = 7
    <3>1. w.engine.version = w.before.version /\ w.before.version >= 1
      BY <1>1, <2>2 DEF WorkerInv, Applying
    <3>2. w.engine.version = checkpoint'.version
      BY <1>1, <1>5, <3>1
    <3> QED
      BY <1>1, <1>3, <1>5, <2>2, <3>1, <3>2 DEF WorkerInv, Applying
  <2> QED
    BY <1>3, <1>4, <2>1, <2>2 DEF Applying
<1>10. Positioned(worker') /\ AppliedMatches(worker')
  BY <1>1, <1>3, <1>4 DEF WorkerInv, Positioned, AppliedMatches
<1>11. WorkerInv(worker', checkpoint')
  BY <1>1, <1>3, <1>7, <1>8, <1>9, <1>10 DEF WorkerInv
<1> QED
  BY <1>1, <1>11 DEF Inv

LEMMA PulumiPreviewInv ==
  ASSUME Inv, PulumiPreview
  PROVE  Inv'
<1> DEFINE w == worker
           c == checkpoint
           inputs == [u \in Urn |->
                        IF u \in DOMAIN c.rows THEN c.rows[u].inputs ELSE Gone]
<1>1. /\ WorkerInv(w, c) /\ worker # None /\ checkpoint' = checkpoint
      /\ CheckpointForm(c)
  BY DEF Inv, PulumiPreview, At
<1>2. w.job = "preview" /\ w.step = 4
  <2>1. Program(w.job)[w.step] = "pulumi"
    BY DEF PulumiPreview, At
  <2> QED
    BY <1>1, <2>1, AtPreview, AtApply, AtDrift, AtEnd DEF WorkerInv, Positioned
<1>3. PICK goals \in Planned(c.rows, inputs) :
        \E plan \in Files(goals) :
          /\ Accepted(plan, Shown(c.rows, goals, NotRefreshed), w.before)
          /\ worker' = [Next1(worker) EXCEPT
               !.plan = plan, !.shown = Shown(c.rows, goals, NotRefreshed),
               !.engine = [plan |-> goals, version |-> c.version]]
  BY DEF PulumiPreview
<1> DEFINE shown == Shown(c.rows, goals, NotRefreshed)
           engine == [plan |-> goals, version |-> c.version]
<1>4. PICK plan \in Files(goals) :
        /\ Accepted(plan, shown, w.before)
        /\ worker' = [Next1(worker) EXCEPT !.plan = plan, !.shown = shown,
                                           !.engine = engine]
  BY <1>3
<1> HIDE DEF inputs
<1>5. /\ worker' = [f \in Field |-> worker'[f]]
      /\ worker'.step = 5
      /\ worker'.job = "preview" /\ worker'.read = w.read
      /\ worker'.before = w.before /\ worker'.plan = plan
      /\ worker'.engine = engine
      /\ worker'.applied = w.applied /\ worker'.late = w.late
  <2> DEFINE N == Next1(worker)
  <2>1. worker' = [N EXCEPT !.plan = plan, !.shown = shown, !.engine = engine]
    BY <1>4
  <2>2. /\ N = [f \in Field |-> N[f]] /\ N.step = 5 /\ N.job = "preview"
        /\ N.read = w.read /\ N.before = w.before /\ N.applied = w.applied
        /\ N.late = w.late
    BY <1>1, <1>2, Next1Fields DEF Field
  <2> HIDE DEF N, shown, engine
  <2> QED
    BY <2>1, <2>2 DEF Field
<1>6. ASSUME w.before.version = c.version
      PROVE  Match(plan, goals)
  <2>1. w.before.rows = c.rows
    BY <1>1, <1>6 DEF WorkerInv, Seen
  <2>2. ValidPlan(w.before, plan, shown)
    BY <1>4 DEF Accepted
  <2> QED
    BY <1>3, <2>1, <2>2, PlannedMatches
<1>7. c.version \in Nat /\ w.before.version \in Nat /\ w.before.version >= 1
        /\ w.before.version <= c.version
  BY <1>1, <1>2 DEF CheckpointForm, WorkerInv, Seen, Previewing
<1>8. Previewing(worker', checkpoint')
  BY <1>1, <1>2, <1>5, <1>6, <1>7 DEF Previewing, WorkerInv
<1>9. w.applied = None
  BY <1>1, <1>2 DEF Previewing, WorkerInv
<1> HIDE DEF shown, engine
<1>10. WorkerInv(worker', checkpoint')
  BY <1>1, <1>5, <1>8, <1>9
  DEF WorkerInv, Positioned, Applying, AppliedMatches
<1> QED
  BY <1>1, <1>10 DEF Inv

LEMMA ValidateInv ==
  ASSUME Inv, Validate
  PROVE  Inv'
<1> DEFINE w == worker
<1>1. WorkerInv(w, checkpoint) /\ worker # None /\ checkpoint' = checkpoint
  BY DEF Inv, Validate, At
<1>2. w.job = "preview" /\ w.step = 7
  <2>1. Program(w.job)[w.step] = "validate"
    BY DEF Validate, At
  <2> QED
    BY <1>1, <2>1, AtPreview, AtApply, AtDrift, AtEnd DEF WorkerInv, Positioned
<1>3. /\ worker' = [f \in Field |-> worker'[f]]
      /\ worker'.step = 8
      /\ worker'.job = "preview" /\ worker'.read = w.read
      /\ worker'.before = w.before /\ worker'.plan = w.plan
      /\ worker'.engine = w.engine /\ worker'.applied = w.applied /\ worker'.late = w.late
  BY <1>1, <1>2, Next1Fields DEF Field, Validate
<1>4. WorkerInv(worker', checkpoint')
  BY <1>1, <1>2, <1>3
  DEF WorkerInv, Positioned, Previewing, Applying, Updating, AppliedMatches
<1> QED
  BY <1>1, <1>4 DEF Inv

LEMMA SealInv ==
  ASSUME Inv, Seal
  PROVE  Inv'
<1> DEFINE w == worker
<1>1. /\ WorkerInv(w, checkpoint) /\ worker # None /\ checkpoint' = checkpoint
      /\ CheckpointForm(checkpoint)
  BY DEF Inv, Seal, At
<1>2. w.job = "preview" /\ w.step = 11
  <2>1. Program(w.job)[w.step] = "seal"
    BY DEF Seal, At
  <2> QED
    BY <1>1, <2>1, AtPreview, AtApply, AtDrift, AtEnd DEF WorkerInv, Positioned
<1>3. PICK job \in {"apply", "complete"} :
        worker' = [Enter(worker, job) EXCEPT
          !.sealed = [binding |-> Binding(worker.before), bundle |-> Bundle],
          !.plan = None, !.shown = None]
  BY DEF Seal
<1>4. /\ worker' = [f \in Field |-> worker'[f]]
      /\ worker'.step = 1 /\ worker'.job = job
      /\ worker'.read = Unread /\ worker'.before = Unread
      /\ worker'.sealed = [binding |-> Binding(worker.before), bundle |-> Bundle]
      /\ worker'.engine = w.engine /\ worker'.applied = w.applied /\ worker'.late = w.late
  BY <1>1, <1>3 DEF WorkerInv, Field, Enter
<1>5. /\ worker'.sealed.bundle.plan = w.plan
      /\ worker'.sealed.binding.version = w.before.version
  BY <1>4 DEF Bundle, Binding
<1>6. /\ w.applied = None /\ w.before.version >= 1
      /\ w.engine.version \in Nat /\ w.engine.version = w.before.version
      /\ Match(w.plan, w.engine.plan)
  BY <1>1, <1>2 DEF WorkerInv, Previewing
<1>7. Positioned(worker') /\ Seen(worker'.read, checkpoint')
        /\ Seen(worker'.before, checkpoint')
  BY <1>1, <1>4, NothingSeen DEF Positioned
<1>8. Previewing(worker', checkpoint') /\ AppliedMatches(worker')
  BY <1>4, <1>6 DEF Previewing, AppliedMatches
<1>9. Applying(worker', checkpoint')
  <2>1. w.engine.version \in Nat \ {0}
    BY <1>6
  <2> QED
    BY <1>4, <1>5, <1>6, <2>1 DEF Applying, Updating
<1>10. WorkerInv(worker', checkpoint')
  BY <1>4, <1>7, <1>8, <1>9 DEF WorkerInv
<1> QED
  BY <1>1, <1>10 DEF Inv

LEMMA OpenInv ==
  ASSUME Inv, Open
  PROVE  Inv'
<1> DEFINE w == worker
<1>1. WorkerInv(w, checkpoint) /\ worker # None /\ checkpoint' = checkpoint
  BY DEF Inv, Open, Opened, At
<1>2. w.job = "apply" /\ w.step = 4
  <2>1. Program(w.job)[w.step] = "open"
    BY DEF Open, At
  <2> QED
    BY <1>1, <2>1, AtPreview, AtApply, AtDrift, AtEnd DEF WorkerInv, Positioned
<1>3. worker' = [Next1(worker) EXCEPT !.plan = w.sealed.bundle.plan]
  BY DEF Open, Opened
<1>4. /\ worker' = [f \in Field |-> worker'[f]]
      /\ worker'.step = 5 /\ worker'.job = "apply"
      /\ worker'.read = w.read /\ worker'.before = w.before
      /\ worker'.plan = w.sealed.bundle.plan /\ worker'.sealed = w.sealed
      /\ worker'.engine = w.engine /\ worker'.applied = w.applied /\ worker'.late = w.late
  BY <1>1, <1>2, <1>3, Next1Fields DEF Field
<1>5. w.sealed.binding.version = w.before.version
  BY DEF Open, Binding
<1>6. WorkerInv(worker', checkpoint')
  BY <1>1, <1>2, <1>4, <1>5
  DEF WorkerInv, Positioned, Previewing, Applying, Updating, AppliedMatches
<1> QED
  BY <1>1, <1>6 DEF Inv

LEMMA UpInv ==
  ASSUME Inv, Up
  PROVE  Inv'
<1> DEFINE w == worker
           done == [plan |-> w.plan, version |-> checkpoint.version]
<1>1. /\ WorkerInv(w, checkpoint) /\ worker # None
      /\ CheckpointForm(checkpoint)
  BY DEF Inv, Up, At
<1>2. w.job = "apply" /\ w.step = 8
  <2>1. Program(w.job)[w.step] = "up"
    BY DEF Up, At
  <2> QED
    BY <1>1, <2>1, AtPreview, AtApply, AtDrift, AtEnd DEF WorkerInv, Positioned
<1>3. /\ Match(w.plan, w.engine.plan)
      /\ w.late \/ checkpoint.version = w.engine.version
  BY <1>1, <1>2 DEF WorkerInv, Applying, Updating
<1>4. /\ CheckpointForm(checkpoint') /\ checkpoint'.version = checkpoint.version + 1
      /\ \/ worker' = [Next1(worker) EXCEPT !.applied = done]
         \/ worker' = [Failed(worker) EXCEPT !.applied = done]
  <2>1. \E rows, pending :
          /\ \/ checkpoint' = [checkpoint EXCEPT !.version = @ + 1, !.rows = rows]
             \/ checkpoint' = [checkpoint EXCEPT !.version = @ + 1, !.rows = rows,
                                                 !.pending = pending]
          /\ \/ worker' = [Next1(worker) EXCEPT !.applied = done]
             \/ worker' = [Failed(worker) EXCEPT !.applied = done]
    BY DEF Up
  <2> QED
    BY <1>1, <2>1, WrittenForm
<1>5. CASE worker' = [Next1(worker) EXCEPT !.applied = done]
  <2>1. /\ worker' = [f \in Field |-> worker'[f]]
        /\ worker'.step = 9 /\ worker'.job = "apply"
        /\ worker'.read = w.read /\ worker'.before = w.before
        /\ worker'.plan = w.plan /\ worker'.sealed = w.sealed
        /\ worker'.engine = w.engine /\ worker'.applied = done /\ worker'.late = w.late
    BY <1>1, <1>2, <1>5, Next1Fields DEF Field
  <2>2. WorkerInv(worker', checkpoint)
    BY <1>1, <1>2, <1>3, <2>1
    DEF WorkerInv, Positioned, Previewing, Applying, Updating, AppliedMatches
  <2>3. ~Updating(worker')
    BY <2>1 DEF Updating
  <2> QED
    BY <1>1, <1>4, <2>2, <2>3, WriteInv DEF Inv
<1>6. CASE worker' = [Failed(worker) EXCEPT !.applied = done]
  <2>1. WorkerInv(Failed(w), checkpoint)
    BY <1>1, FailedInv
  <2>2. Failed(w).job = "failed" /\ Failed(w).engine = w.engine
        /\ Failed(w).late = w.late
    BY <1>1 DEF Failed, Enter, WorkerInv, Field
  <2>3. /\ worker' = [f \in Field |-> worker'[f]]
        /\ worker'.step = Failed(w).step /\ worker'.job = "failed"
        /\ worker'.read = Failed(w).read /\ worker'.before = Failed(w).before
        /\ worker'.engine = w.engine /\ worker'.applied = done /\ worker'.late = w.late
    BY <1>6, <2>1, <2>2 DEF WorkerInv, Field
  <2>4. WorkerInv(worker', checkpoint)
    BY <1>3, <2>1, <2>2, <2>3
    DEF WorkerInv, Positioned, Previewing, Applying, Updating, AppliedMatches
  <2>5. ~Updating(worker')
    BY <2>3 DEF Updating
  <2> QED
    BY <1>1, <1>4, <2>4, <2>5, WriteInv DEF Inv
<1> QED
  BY <1>4, <1>5, <1>6

LEMMA SameProviderInv ==
  ASSUME Inv, SameProvider
  PROVE  Inv'
<1> DEFINE w == worker
<1>1. /\ WorkerInv(w, checkpoint) /\ worker # None /\ checkpoint' = checkpoint
      /\ CheckpointForm(checkpoint)
  BY DEF Inv, SameProvider, At
<1>2. /\ worker' = [f \in Field |-> worker'[f]]
      /\ worker'.step = 1 /\ worker'.job = "drift"
      /\ worker'.read = Unread /\ worker'.before = Unread
      /\ worker'.engine = w.engine /\ worker'.applied = w.applied /\ worker'.late = w.late
  BY <1>1 DEF SameProvider, Enter, WorkerInv, Field
<1>3. WorkerInv(worker', checkpoint')
  BY <1>1, <1>2, NothingSeen
  DEF WorkerInv, Positioned, Previewing, Applying, Updating, AppliedMatches
<1> QED
  BY <1>1, <1>3 DEF Inv

LEMMA RefreshInv ==
  ASSUME Inv, Refresh
  PROVE  Inv'
<1> DEFINE w == worker
<1>1. WorkerInv(w, checkpoint) /\ worker # None /\ checkpoint' = checkpoint
  BY DEF Inv, Refresh, At
<1>2. w.job = "drift" /\ w.step = 4
  <2>1. Program(w.job)[w.step] = "refresh"
    BY DEF Refresh, At
  <2> QED
    BY <1>1, <2>1, AtPreview, AtApply, AtDrift, AtEnd DEF WorkerInv, Positioned
<1>3. PICK plan, shown, drifted :
        worker' = [Next1(worker) EXCEPT !.plan = plan, !.shown = shown,
                                        !.drifted = drifted]
  BY Zenon DEF Refresh
<1>4. /\ worker' = [f \in Field |-> worker'[f]]
      /\ worker'.step = 5 /\ worker'.job = "drift"
      /\ worker'.read = w.read /\ worker'.before = w.before
      /\ worker'.engine = w.engine /\ worker'.applied = w.applied /\ worker'.late = w.late
  <2> DEFINE N == Next1(worker)
  <2>1. worker' = [N EXCEPT !.plan = plan, !.shown = shown, !.drifted = drifted]
    BY <1>3
  <2>2. /\ N = [f \in Field |-> N[f]] /\ N.step = 5 /\ N.job = "drift"
        /\ N.read = w.read /\ N.before = w.before
        /\ N.engine = w.engine /\ N.applied = w.applied /\ N.late = w.late
    BY <1>1, <1>2, Next1Fields DEF Field
  <2> HIDE DEF N
  <2> QED
    BY <2>1, <2>2 DEF Field
<1>5. WorkerInv(worker', checkpoint')
  BY <1>1, <1>2, <1>4
  DEF WorkerInv, Positioned, Previewing, Applying, Updating, AppliedMatches
<1> QED
  BY <1>1, <1>5 DEF Inv

LEMMA CleanInv ==
  ASSUME Inv, Clean
  PROVE  Inv'
<1> DEFINE w == worker
<1>1. /\ WorkerInv(w, checkpoint) /\ worker # None /\ checkpoint' = checkpoint
      /\ CheckpointForm(checkpoint)
  BY DEF Inv, Clean, At
<1>2. /\ worker' = [f \in Field |-> worker'[f]]
      /\ worker'.step = 1 /\ worker'.job = "complete"
      /\ worker'.read = Unread /\ worker'.before = Unread
      /\ worker'.engine = w.engine /\ worker'.applied = w.applied /\ worker'.late = w.late
  BY <1>1 DEF Clean, Enter, WorkerInv, Field
<1>3. WorkerInv(worker', checkpoint')
  BY <1>1, <1>2, NothingSeen
  DEF WorkerInv, Positioned, Previewing, Applying, Updating, AppliedMatches
<1> QED
  BY <1>1, <1>3 DEF Inv

\* A checkpoint that is written before an update leaves its mark on the worker.
LEMMA RewriteInv ==
  ASSUME Inv, Rewrite
  PROVE  Inv'
<1>1. CheckpointForm(checkpoint') /\ checkpoint'.version = checkpoint.version + 1
  BY WrittenForm DEF Inv, Rewrite, Change
<1>2. CASE At("up")
  <2> DEFINE w == worker
  <2>1. WorkerInv(w, checkpoint) /\ CheckpointForm(checkpoint)
    BY <1>2 DEF Inv, At
  <2>2. worker' = [w EXCEPT !.late = TRUE]
    BY <1>2 DEF Rewrite
  <2>3. /\ worker' = [f \in Field |-> worker'[f]]
        /\ worker'.late = TRUE /\ worker'.job = w.job /\ worker'.step = w.step
        /\ worker'.read = w.read /\ worker'.before = w.before
        /\ worker'.plan = w.plan /\ worker'.sealed = w.sealed
        /\ worker'.engine = w.engine /\ worker'.applied = w.applied
    BY <2>1, <2>2 DEF WorkerInv, Field
  <2>4. WorkerInv(worker', checkpoint)
    BY <2>1, <2>3
    DEF WorkerInv, Positioned, Previewing, Applying, Updating, AppliedMatches
  <2> QED
    BY <1>1, <2>1, <2>3, <2>4, WriteInv DEF Inv
<1>3. CASE ~At("up")
  <2>1. worker' = worker
    BY <1>3 DEF Rewrite
  <2>2. worker # None => ~Updating(worker)
    BY <1>3 DEF At, Updating, Program
  <2> QED
    BY <1>1, <2>1, <2>2, WriteInv DEF Inv
<1> QED
  BY <1>2, <1>3

LEMMA InvStep == Inv /\ [Next]_vars => Inv'
<1> SUFFICES ASSUME Inv, [Next]_vars
             PROVE  Inv'
  OBVIOUS
<1>1. CASE ChangeRole
  BY <1>1 DEF Inv, ChangeRole, Change
<1>2. CASE UNCHANGED vars
  BY <1>2 DEF Inv, vars
<1> QED
  BY <1>1, <1>2, StartInv, FailInv, EnrollRoleInv, ReadHeadInv, ReadAgainInv,
     PulumiPreviewInv, ValidateInv, SealInv, OpenInv, UpInv, SameProviderInv,
     RefreshInv, CleanInv, RewriteInv
  DEF Next

LEMMA InvHolds == Spec => []Inv
<1>1. Init => Inv
  BY DEF Init, Inv, CheckpointForm
<1> QED
  BY <1>1, InvStep, PTL DEF Spec

\* Whatever a program wants or writes over its plan, a plan that is applied is,
\* as far as it is printed, the one the engine has shown in the preview of the
\* same worker; and whoever writes the checkpoint in between, it is applied to
\* the version it was computed from, but for a write after the last snapshot.
THEOREM AppliedAsPreviewed == Spec => []AppliedIsPreviewed
<1>1. Inv => AppliedIsPreviewed
  BY DEF Inv, WorkerInv, AppliedMatches, Match, SameGoal, AppliedIsPreviewed
<1> QED
  BY <1>1, InvHolds, PTL
-----------------------------------------------------------------------------
(***************************************************************************)
(* What an update makes of a valid checkpoint.  Nothing else changes rows, *)
(* so a worker reads one set of rows from its start to its update; an      *)
(* accepted plan for them drops nothing, moves nothing, and adds nothing   *)
(* that is owned already.  This holds of every part of the plan, so it     *)
(* does not matter where an update stops.                                  *)
(***************************************************************************)
Still(rows) == [rows |-> rows, pending |-> FALSE]

\* What an accepted plan is, beyond being valid: the engine has shown its updates.
Made(p, rows) ==
  \A u \in DOMAIN p :
    /\ u \in Urn
    /\ p[u].desired = Gone \/ RowShape(p[u].desired)
    /\ u \in DOMAIN rows /\ p[u].ops = Update
         /\ p[u].desired.kind \in {"attachment", "inline"} =>
           Target(p[u].desired) = Target(rows[u])

Ready(p, shown, rows) ==
  /\ ValidPlan(Still(rows), p, shown)
  /\ IamAnalysis(p)
  /\ DestructiveReview(shown)
  /\ Made(p, rows)

SoundRows(rows) ==
  /\ DOMAIN rows \subseteq Urn
  /\ \A u \in DOMAIN rows :
       /\ RowShape(rows[u])
       /\ rows[u].kind = "provider" => rows[u].outputs = rows[u].inputs
  /\ Checkpoint(Still(rows))

\* A row is another one but for what a provider has read of it.
SameBut(x, y) ==
  /\ x.urn = y.urn /\ x.kind = y.kind /\ x.inputs = y.inputs
  /\ x.provider = y.provider /\ x.protect = y.protect /\ x.external = y.external

\* The resources of D have been brought to their goals.
Updated(new, rows, p, D) ==
  /\ DOMAIN new = DOMAIN rows \cup D
  /\ \A u \in DOMAIN rows \ D : new[u] = rows[u]
  /\ \A u \in D : SameBut(new[u], p[u].desired)

LEMMA RowIsNotGone ==
  ASSUME NEW x, RowShape(x)
  PROVE  x # Gone
BY DEF RowShape, Gone

LEMMA SameButTarget ==
  ASSUME NEW x, NEW y, SameBut(x, y)
  PROVE  /\ Target(x) = Target(y)
         /\ InputShape(y) => InputShape(x)
         /\ Listed(y) => Listed(x)
<1>1. Target(x) = Target(y)
  BY DEF SameBut, Target
<1>2. InputShape(y) => InputShape(x)
  BY DEF SameBut, InputShape, Has
<1>3. Listed(y) => Listed(x)
  BY DEF SameBut, Listed
<1> QED
  BY <1>1, <1>2, <1>3

LEMMA ReadyFacts ==
  ASSUME NEW p, NEW shown, NEW rows, Ready(p, shown, rows)
  PROVE  /\ \A u \in DOMAIN p :
              /\ u \notin External(rows)
              /\ u \in DOMAIN shown
              /\ Operation(Prior(rows, u), p[u].desired, p[u].ops)
              /\ \/ p[u].desired # Gone /\ p[u].desired.kind = "provider"
                 \/ shown[u].ops = p[u].ops
         /\ \A u \in DOMAIN rows : u \in DOMAIN p \/ rows[u].external
         /\ TargetOwnership(rows, p)
         /\ References(Remaining(rows, p), FALSE)
         /\ Checkpoint(Still(rows))
BY DEF Ready, ValidPlan, Still, CompleteInventory, DesiredInventory, PreviewResource,
       External

\* No operation that drops or replaces a resource has been shown.
LEMMA NothingDropped ==
  ASSUME NEW p, NEW shown, NEW rows, Ready(p, shown, rows), NEW u \in DOMAIN p
  PROVE  \/ p[u].desired # Gone /\ p[u].desired.kind = "provider"
         \/ p[u].ops # Delete /\ p[u].ops \notin Replacements
<1>1. CASE p[u].desired # Gone /\ p[u].desired.kind = "provider"
  BY <1>1
<1>2. CASE shown[u].ops = p[u].ops
  <2>1. \A i \in DOMAIN p[u].ops :
          p[u].ops[i] \notin {"delete", "replace", "delete-replaced"}
    BY <1>2, ReadyFacts DEF Ready, DestructiveReview
  <2>2. p[u].ops # Delete
    BY <2>1 DEF Delete
  <2>3. p[u].ops # <<"create-replacement", "replace", "delete-replaced">>
    <3> SUFFICES ASSUME p[u].ops = <<"create-replacement", "replace", "delete-replaced">>
                 PROVE  FALSE
      OBVIOUS
    <3> QED
      BY <2>1, 2 \in DOMAIN p[u].ops
  <2>4. p[u].ops # <<"delete-replaced", "replace", "create-replacement">>
    <3> SUFFICES ASSUME p[u].ops = <<"delete-replaced", "replace", "create-replacement">>
                 PROVE  FALSE
      OBVIOUS
    <3> QED
      BY <2>1, 2 \in DOMAIN p[u].ops
  <2> QED
    BY <2>2, <2>3, <2>4 DEF Replacements
<1>3. \/ p[u].desired # Gone /\ p[u].desired.kind = "provider"
      \/ shown[u].ops = p[u].ops
  BY DEF Ready, ValidPlan, PreviewResource
<1> QED
  BY <1>1, <1>2, <1>3

LEMMA EveryGoalIsARow ==
  ASSUME NEW p, NEW shown, NEW rows, Ready(p, shown, rows), NEW u \in DOMAIN p
  PROVE  p[u].desired # Gone /\ RowShape(p[u].desired)
<1>1. Operation(Prior(rows, u), p[u].desired, p[u].ops)
  BY ReadyFacts
<1>2. p[u].desired # Gone
  <2> SUFFICES ASSUME p[u].desired = Gone
               PROVE  FALSE
    OBVIOUS
  <2>1. ChangedOperation(Prior(rows, u), Gone, p[u].ops) /\ p[u].ops # Same
    BY <1>1 DEF Operation
  <2>2. CASE Prior(rows, u).kind \in {"provider", "exclusive"}
    BY <2>1, <2>2 DEF ChangedOperation, ProviderHardening, ExclusiveTransition
  <2>3. CASE Prior(rows, u).kind \notin {"provider", "exclusive"}
    <3>1. p[u].ops = Delete
      BY <2>1, <2>3 DEF ChangedOperation, Lifecycle
    <3> QED
      BY <3>1, NothingDropped
  <2> QED
    BY <2>2, <2>3
<1> QED
  BY <1>2 DEF Ready, Made

\* An owned row keeps its owner and what it is about.
LEMMA GoalsStay ==
  ASSUME NEW p, NEW shown, NEW rows, Ready(p, shown, rows), SoundRows(rows),
         NEW u \in DOMAIN p, u \in DOMAIN rows
  PROVE  /\ p[u].desired.kind = rows[u].kind
         /\ p[u].desired.external = rows[u].external
         /\ Target(p[u].desired) = Target(rows[u])
<1>1. Prior(rows, u) = rows[u] /\ rows[u] # Gone /\ p[u].desired # Gone
  BY RowIsNotGone, EveryGoalIsARow DEF Prior, SoundRows
<1>2. Operation(rows[u], p[u].desired, p[u].ops)
  <2>1. Operation(Prior(rows, u), p[u].desired, p[u].ops)
    BY ReadyFacts
  <2> QED
    BY <1>1, <2>1, Zenon
<1>3. /\ p[u].desired.kind = rows[u].kind
      /\ p[u].desired.external = rows[u].external
      /\ \/ Target(rows[u]) = Target(p[u].desired)
         \/ p[u].desired.kind \in {"attachment", "inline"}
  BY <1>1, <1>2 DEF Operation, PreserveOwnership, Ownership
<1>4. CASE p[u].desired.kind \in {"attachment", "inline"}
  <2>1. CASE p[u].ops = Same
    <3>1. rows[u].inputs = p[u].desired.inputs
      BY <1>2, <2>1 DEF Operation
    <3> QED
      BY <1>3, <1>4, <3>1 DEF Target
  <2>2. CASE p[u].ops # Same
    <3>1. Lifecycle(p[u].desired.kind, rows[u], p[u].desired, p[u].ops)
      BY <1>1, <1>2, <1>4, <2>2 DEF Operation, ChangedOperation
    <3>2. p[u].ops # Create
      BY <1>1, <3>1 DEF Lifecycle
    <3>3. p[u].ops = Update
      BY <1>4, <3>1, <3>2, NothingDropped DEF Lifecycle
    <3> QED
      BY <1>3, <1>4, <3>3 DEF Ready, Made
  <2> QED
    BY <2>1, <2>2
<1> QED
  BY <1>3, <1>4

\* What is made is no provider.
LEMMA ProvidersAreThere ==
  ASSUME NEW p, NEW shown, NEW rows, Ready(p, shown, rows), NEW u \in DOMAIN p,
         p[u].desired.kind = "provider"
  PROVE  u \in DOMAIN rows
<1>1. Operation(Prior(rows, u), p[u].desired, p[u].ops) /\ p[u].desired # Gone
  BY ReadyFacts, EveryGoalIsARow
<1>2. Prior(rows, u) # Gone
  BY <1>1 DEF Operation, ChangedOperation, ProviderHardening
<1> QED
  BY <1>2 DEF Prior

\* A resource of the update is as its goal, another one as it was; and the
\* owned ones have goals, which say of them what the checkpoint says.
LEMMA UpdatedRow ==
  ASSUME NEW p, NEW shown, NEW rows, Ready(p, shown, rows), SoundRows(rows),
         NEW D \in SUBSET DOMAIN p, NEW new, Updated(new, rows, p, D),
         NEW u \in DOMAIN rows
  PROVE  /\ new[u].kind = rows[u].kind
         /\ new[u].external = rows[u].external
         /\ Target(new[u]) = Target(rows[u])
<1>1. CASE u \in D
  <2>1. SameBut(new[u], p[u].desired)
    BY <1>1 DEF Updated
  <2>2. Target(new[u]) = Target(p[u].desired)
    BY <2>1, SameButTarget
  <2>3. /\ p[u].desired.kind = rows[u].kind
        /\ p[u].desired.external = rows[u].external
        /\ Target(p[u].desired) = Target(rows[u])
    BY <1>1, GoalsStay
  <2> QED
    BY <2>1, <2>2, <2>3 DEF SameBut
<1>2. CASE u \notin D
  BY <1>2 DEF Updated
<1> QED
  BY <1>1, <1>2

LEMMA UpdatedOwners ==
  ASSUME NEW p, NEW shown, NEW rows, Ready(p, shown, rows), SoundRows(rows),
         NEW D \in SUBSET DOMAIN p, NEW new, Updated(new, rows, p, D)
  PROVE  PhysicalOwner(new)
<1> DEFINE Alike(x, y) == x.kind = y.kind /\ Target(x) = Target(y)
           Owners(x, y) ==
             \/ x.external /\ y.external
             \/ /\ x.kind = "role" /\ Target(x)[1] \in RoleWrite
                /\ x.external \/ y.external
<1>1. TargetOwnership(rows, p)
  BY ReadyFacts
<1>2. PhysicalOwner(rows)
  BY DEF SoundRows, Checkpoint, Still
<1>3. ASSUME NEW u \in D
      PROVE  /\ u \in Desired(p) /\ Target(new[u]) = Target(p[u].desired)
             /\ new[u].kind = p[u].desired.kind
  <2>1. SameBut(new[u], p[u].desired) /\ p[u].desired # Gone
    BY <1>3, EveryGoalIsARow DEF Updated
  <2>2. Target(new[u]) = Target(p[u].desired)
    BY <2>1, SameButTarget
  <2> QED
    BY <1>3, <2>1, <2>2 DEF Desired, SameBut
<1>4. ASSUME NEW u \in D, NEW v \in D, u # v
      PROVE  ~Alike(new[u], new[v])
  BY <1>1, <1>3, <1>4 DEF TargetOwnership
<1>5. ASSUME NEW u \in D, NEW v \in DOMAIN rows, v \notin D, Alike(new[u], new[v])
      PROVE  new[u].kind = "role" /\ Target(new[u])[1] \in RoleWrite /\ new[v].external
  <2>1. new[v] = rows[v]
    BY <1>5 DEF Updated
  <2>2. CASE rows[v].external
    <3>1. v \in External(rows)
      BY <2>2 DEF External
    <3>2. /\ p[u].desired.kind = rows[v].kind
          /\ Target(p[u].desired) = Target(rows[v])
      BY <1>3, <1>5, <2>1
    <3>3. /\ rows[v].kind = "role" /\ Target(rows[u]) = Target(rows[v])
          /\ Target(rows[u])[1] \in RoleWrite
      BY <1>1, <1>3, <3>1, <3>2 DEF TargetOwnership
    <3> QED
      BY <1>3, <2>1, <2>2, <3>2, <3>3
  <2>3. CASE ~rows[v].external
    <3>1. v \in DOMAIN p
      BY <2>3, ReadyFacts
    <3>2. /\ v \in Desired(p) /\ p[v].desired.kind = rows[v].kind
          /\ Target(p[v].desired) = Target(rows[v])
      BY <3>1, EveryGoalIsARow, GoalsStay DEF Desired
    <3>3. u # v /\ p[u].desired.kind = p[v].desired.kind
            /\ Target(p[u].desired) = Target(p[v].desired)
      BY <1>3, <1>5, <2>1, <3>2
    <3> QED
      BY <1>1, <1>3, <3>2, <3>3 DEF TargetOwnership
  <2> QED
    BY <2>2, <2>3
<1>6. ASSUME NEW u \in DOMAIN new, NEW v \in DOMAIN new, u # v, Alike(new[u], new[v])
      PROVE  Owners(new[u], new[v])
  <2>1. /\ u \in D \/ u \in DOMAIN rows
        /\ v \in D \/ v \in DOMAIN rows
    BY DEF Updated
  <2>2. CASE u \notin D /\ v \notin D
    <3>1. new[u] = rows[u] /\ new[v] = rows[v] /\ u \in DOMAIN rows /\ v \in DOMAIN rows
      BY <2>1, <2>2 DEF Updated
    <3> QED
      BY <1>2, <1>6, <3>1 DEF PhysicalOwner
  <2>3. CASE u \in D /\ v \notin D
    BY <1>5, <1>6, <2>1, <2>3
  <2>4. CASE u \notin D /\ v \in D
    <3>1. Alike(new[v], new[u])
      BY <1>6
    <3>2. new[v].kind = "role" /\ Target(new[v])[1] \in RoleWrite /\ new[u].external
      BY <1>5, <2>1, <2>4, <3>1
    <3> QED
      BY <1>6, <3>2
  <2>5. CASE u \in D /\ v \in D
    BY <1>4, <1>6, <2>5
  <2> QED
    BY <2>2, <2>3, <2>4, <2>5
<1> QED
  BY <1>6 DEF PhysicalOwner

LEMMA UpdatedReferences ==
  ASSUME NEW p, NEW shown, NEW rows, Ready(p, shown, rows), SoundRows(rows),
         NEW D \in SUBSET DOMAIN p, NEW new, Updated(new, rows, p, D)
  PROVE  References(new, TRUE)
<1>1. References(Remaining(rows, p), FALSE)
  BY ReadyFacts
<1>2. References(rows, TRUE)
  BY DEF SoundRows, Checkpoint, Still
<1>3. DOMAIN new = DOMAIN rows \cup D
  BY DEF Updated
<1>4. ASSUME NEW q \in DOMAIN rows, rows[q].kind = "provider"
      PROVE  q \in DOMAIN new /\ new[q].kind = "provider"
  BY <1>3, <1>4, UpdatedRow
<1>5. ASSUME NEW q \in DOMAIN Remaining(rows, p), Remaining(rows, p)[q].kind = "provider"
      PROVE  q \in DOMAIN rows /\ rows[q].kind = "provider"
  <2>1. CASE q \in Desired(p)
    <3>1. q \in DOMAIN p /\ p[q].desired.kind = "provider"
      BY <1>5, <2>1 DEF Remaining, Desired
    <3> QED
      BY <3>1, ProvidersAreThere, GoalsStay
  <2>2. CASE q \notin Desired(p)
    BY <1>5, <2>2 DEF Remaining, External
  <2> QED
    BY <2>1, <2>2
<1>6. ASSUME NEW u \in DOMAIN new
      PROVE  IF new[u].kind = "provider"
             THEN \/ new[u].inputs.pins = "hardened"
                  \/ TRUE /\ new[u].inputs.pins = "legacy"
             ELSE /\ new[u].provider \in DOMAIN new
                  /\ new[new[u].provider].kind = "provider"
  <2>1. CASE u \in D
    <3>1. SameBut(new[u], p[u].desired) /\ u \in Desired(p)
      BY <2>1, EveryGoalIsARow DEF Updated, Desired
    <3>2. u \in DOMAIN Remaining(rows, p) /\ Remaining(rows, p)[u] = p[u].desired
      BY <3>1 DEF Remaining
    <3>3. CASE new[u].kind = "provider"
      BY <1>1, <3>1, <3>2, <3>3 DEF References, SameBut
    <3>4. CASE new[u].kind # "provider"
      <4>1. /\ new[u].provider \in DOMAIN Remaining(rows, p)
            /\ Remaining(rows, p)[new[u].provider].kind = "provider"
        BY <1>1, <3>1, <3>2, <3>4 DEF References, SameBut
      <4> QED
        BY <1>4, <1>5, <3>4, <4>1
    <3> QED
      BY <3>3, <3>4
  <2>2. CASE u \notin D
    <3>1. u \in DOMAIN rows /\ new[u] = rows[u]
      BY <1>3, <2>2 DEF Updated
    <3> QED
      BY <1>2, <1>4, <3>1 DEF References
  <2> QED
    BY <2>1, <2>2
<1> QED
  BY <1>6 DEF References

LEMMA UpdatedSound ==
  ASSUME NEW p, NEW shown, NEW rows, Ready(p, shown, rows), SoundRows(rows),
         NEW D \in SUBSET DOMAIN p, NEW new, Updated(new, rows, p, D),
         \A u \in D : /\ RowShape(new[u])
                      /\ new[u].kind = "provider" => new[u].outputs = new[u].inputs
  PROVE  SoundRows(new)
<1>1. DOMAIN new \subseteq Urn
  BY DEF Updated, SoundRows, Ready, Made
<1>2. ASSUME NEW u \in DOMAIN new
      PROVE  /\ RowShape(new[u])
             /\ new[u].kind = "provider" => new[u].outputs = new[u].inputs
             /\ InputShape(new[u]) /\ Listed(new[u])
  <2>1. CASE u \in D
    <3>1. Operation(Prior(rows, u), p[u].desired, p[u].ops) /\ p[u].desired # Gone
      BY <2>1, ReadyFacts, EveryGoalIsARow
    <3>2. InputShape(p[u].desired) /\ Listed(p[u].desired)
      BY <3>1 DEF Operation
    <3>3. SameBut(new[u], p[u].desired)
      BY <2>1 DEF Updated
    <3> QED
      BY <2>1, <3>2, <3>3, SameButTarget
  <2>2. CASE u \notin D
    <3>1. u \in DOMAIN rows /\ new[u] = rows[u]
      BY <2>2 DEF Updated
    <3>2. /\ RowShape(rows[u])
          /\ rows[u].kind = "provider" => rows[u].outputs = rows[u].inputs
      BY <3>1 DEF SoundRows
    <3>3. InputShape(rows[u]) /\ Listed(rows[u])
      BY <3>1 DEF SoundRows, Checkpoint, Still
    <3> QED
      BY <3>1, <3>2, <3>3
  <2> QED
    BY <2>1, <2>2
<1>3. PhysicalOwner(new) /\ References(new, TRUE)
  BY UpdatedOwners, UpdatedReferences
<1>4. Checkpoint(Still(new))
  BY <1>2, <1>3 DEF Checkpoint, Still
<1> QED
  BY <1>1, <1>2, <1>4 DEF SoundRows

LEMMA UpRows ==
  ASSUME NEW shown, Ready(worker.plan, shown, checkpoint.rows),
         SoundRows(checkpoint.rows), NEW D \in SUBSET DOMAIN worker.plan, NEW roles
  PROVE  SoundRows(RowsAfter(D, roles)) /\ DOMAIN RowsAfter(D, roles) =
                                            DOMAIN checkpoint.rows \cup D
<1> DEFINE p == worker.plan
           rows == checkpoint.rows
           new == RowsAfter(D, roles)
<1>1. \A u \in D : p[u].desired # Gone /\ RowShape(p[u].desired)
  BY EveryGoalIsARow
<1>2. DOMAIN new = DOMAIN rows \cup D
  BY <1>1 DEF RowsAfter
<1>3. ASSUME NEW u \in D
      PROVE  /\ SameBut(new[u], p[u].desired) /\ RowShape(new[u])
             /\ new[u].kind = "provider" => new[u].outputs = new[u].inputs
  <2> DEFINE d == p[u].desired
             out == Outputs(d, roles)
  <2>1. new[u] = [d EXCEPT !.outputs = out]
    BY <1>1, <1>2 DEF RowsAfter
  <2>2. d.kind = "provider" => out = d.inputs
    BY DEF Outputs
  <2>3. RowShape(d)
    BY <1>1
  <2> HIDE DEF d, out, new
  <2>4. SameBut(new[u], d) /\ RowShape(new[u]) /\ new[u].outputs = out
    BY <2>1, <2>3 DEF SameBut, RowShape
  <2> QED
    BY <2>2, <2>4 DEF d, SameBut
<1>4. \A u \in DOMAIN rows \ D : new[u] = rows[u]
  BY DEF RowsAfter
<1>5. Updated(new, rows, p, D)
  BY <1>2, <1>3, <1>4 DEF Updated
<1> HIDE DEF new
<1> QED
  BY <1>2, <1>3, <1>5, UpdatedSound DEF new
-----------------------------------------------------------------------------
(***************************************************************************)
(* What may be in a saved plan: what is wanted, what there is, and what a  *)
(* program may have written over it.                                       *)
(***************************************************************************)
LEMMA GoalShape ==
  ASSUME NEW rows, SoundRows(rows), NEW u
  PROVE  Goal(Prior(rows, u)) = Gone \/ RowShape(Goal(Prior(rows, u)))
<1>1. CASE u \in DOMAIN rows
  <2> DEFINE row == rows[u]
  <2>1. RowShape(row) /\ row # Gone /\ Prior(rows, u) = row
    BY <1>1, RowIsNotGone DEF SoundRows, Prior
  <2> HIDE DEF row
  <2>2. RowShape([row EXCEPT !.outputs = Gone])
    BY <2>1 DEF RowShape
  <2> QED
    BY <2>1, <2>2 DEF Goal
<1>2. CASE u \notin DOMAIN rows
  BY <1>2 DEF Goal, Prior
<1> QED
  BY <1>1, <1>2

LEMMA WishShape ==
  ASSUME NEW rows, SoundRows(rows), NEW wish \in Wishes(rows), NEW u \in DOMAIN wish
  PROVE  u \in Urn /\ (wish[u] = Gone \/ RowShape(wish[u]))
<1>1. PICK e \in Edits :
        wish = [v \in Urn \ External(rows) |->
                  IF v \in DOMAIN e THEN e[v] ELSE Goal(Prior(rows, v))]
  BY DEF Wishes
<1>2. \A v \in DOMAIN e : v \in Urn /\ e[v] \in Wanted[v]
  BY DEF Edits, Choices
<1>3. \A v \in Urn : \A row \in Wanted[v] : row = Gone \/ RowShape(row)
  BY OperatorConstants DEF OperatorConstants, Urn
<1>4. u \in Urn /\ ((wish[u] = e[u] /\ u \in DOMAIN e) \/ wish[u] = Goal(Prior(rows, u)))
  BY <1>1
<1> QED
  BY <1>2, <1>3, <1>4, GoalShape

LEMMA FileShape ==
  ASSUME NEW rows, SoundRows(rows), NEW inputs, NEW goals \in Planned(rows, inputs),
         NEW plan \in Files(goals), NEW u \in DOMAIN plan
  PROVE  u \in Urn /\ (plan[u].desired = Gone \/ RowShape(plan[u].desired))
<1>1. PICK f \in Forgeries :
        plan = [v \in (DOMAIN goals \ DOMAIN f) \cup {v \in DOMAIN f : f[v] # None} |->
                  IF v \in DOMAIN f THEN f[v] ELSE goals[v]]
  BY DEF Files
<1>2. \A v \in DOMAIN f : v \in Urn /\ f[v] \in Forgery[v] \cup {None}
  BY DEF Forgeries, Choices
<1>3. CASE u \in DOMAIN f
  <2>1. plan[u] = f[u] /\ u \in Urn /\ f[u] \in Forgery[u]
    BY <1>1, <1>2, <1>3
  <2> QED
    BY <2>1, OperatorConstants DEF OperatorConstants, Urn
<1>4. CASE u \notin DOMAIN f
  <2>1. u \in DOMAIN goals /\ plan[u] = goals[u]
    BY <1>1, <1>4
  <2>2. PICK w \in Wishes(rows) : goals = Goals(rows, w, inputs)
    BY DEF Planned
  <2>3. u \in DOMAIN w /\ goals[u].desired = w[u]
    BY <2>1, <2>2 DEF Goals
  <2> QED
    BY <2>1, <2>3, WishShape
<1> QED
  BY <1>3, <1>4

\* Two rows that are printed alike are about the same thing.
LEMMA PrintedTarget ==
  ASSUME NEW x, NEW y, x # Gone, Printed(x) = Printed(y), InputShape(x),
         x.kind \in {"attachment", "inline"}
  PROVE  Target(x) = Target(y)
<1> DEFINE print(row) == [urn |-> row.urn, ownership |-> Ownership(row),
                          inputs |-> Project(row.inputs)]
<1>1. Printed(x) = print(x)
  BY DEF Printed
<1>2. y # Gone
  <2> SUFFICES ASSUME y = Gone
               PROVE  FALSE
    OBVIOUS
  <2>1. print(x) = Gone
    BY <1>1 DEF Printed
  <2>2. "urn" \in DOMAIN print(x) /\ "urn" \notin DOMAIN Gone
    BY DEF Gone
  <2> HIDE DEF print
  <2> QED
    BY <2>1, <2>2
<1>3. print(x) = print(y)
  BY <1>1, <1>2 DEF Printed
<1>4. Ownership(x) = Ownership(y) /\ Project(x.inputs) = Project(y.inputs)
  BY <1>3
<1>5. x.kind = y.kind
  BY <1>4 DEF Ownership
<1>6. ASSUME NEW k \in DOMAIN x.inputs, k # "value"
      PROVE  x.inputs[k] = y.inputs[k]
  <2>1. DOMAIN Project(x.inputs) = DOMAIN x.inputs
        /\ DOMAIN Project(y.inputs) = DOMAIN y.inputs
    BY DEF Project
  <2>2. k \in DOMAIN y.inputs
    BY <1>4, <2>1
  <2>3. /\ Project(x.inputs)[k] = x.inputs[k]
        /\ Project(y.inputs)[k] = y.inputs[k]
    BY <1>6, <2>2 DEF Project
  <2> QED
    BY <1>4, <2>3
<1>7. CASE x.kind = "attachment"
  <2>1. {"role", "policy"} \subseteq DOMAIN x.inputs
    BY <1>7 DEF InputShape, Identity
  <2>2. x.inputs.role = y.inputs.role /\ x.inputs.policy = y.inputs.policy
    BY <1>6, <2>1
  <2> QED
    BY <1>5, <1>7, <2>2 DEF Target
<1>8. CASE x.kind = "inline"
  <2>1. {"role", "name"} \subseteq DOMAIN x.inputs
    BY <1>8 DEF InputShape, Identity
  <2>2. x.inputs.role = y.inputs.role /\ x.inputs.name = y.inputs.name
    BY <1>6, <2>1
  <2> QED
    BY <1>5, <1>8, <2>2 DEF Target
<1> QED
  BY <1>7, <1>8

\* An update of the engine stays with its target, and so does one it has shown.
LEMMA EngineUpdates ==
  ASSUME NEW rows, NEW inputs, NEW goals \in Planned(rows, inputs),
         NEW u \in DOMAIN goals, u \in DOMAIN rows, goals[u].ops = Update
  PROVE  Target(goals[u].desired) = Target(rows[u])
<1>1. PICK w \in Wishes(rows) : goals = Goals(rows, w, inputs)
  BY DEF Planned
<1> DEFINE prior == Prior(rows, u)
           desired == w[u]
           i == inputs[u]
<1>2. /\ goals[u].desired = desired /\ prior = rows[u]
      /\ EngineOps(i, prior, desired) = Update
  BY <1>1 DEF Goals, Prior
<1> HIDE DEF prior, desired, i
<1>3. Target(prior) = Target(desired)
  BY <1>2 DEF EngineOps, Create, Delete, Same, Update
<1> QED
  BY <1>2, <1>3

LEMMA PlannedMade ==
  ASSUME NEW state, SoundRows(state.rows), NEW inputs,
         NEW goals \in Planned(state.rows, inputs), NEW plan \in Files(goals), NEW seen,
         ValidPlan(state, plan, Shown(state.rows, goals, seen))
  PROVE  Made(plan, state.rows)
<1> DEFINE rows == state.rows
<1>1. Match(plan, goals)
  BY PlannedMatches
<1>2. ASSUME NEW u \in DOMAIN plan
      PROVE  u \in Urn /\ (plan[u].desired = Gone \/ RowShape(plan[u].desired))
  BY FileShape
<1>3. ASSUME NEW u \in DOMAIN plan, u \in DOMAIN rows, plan[u].ops = Update,
             plan[u].desired.kind \in {"attachment", "inline"}
      PROVE  Target(plan[u].desired) = Target(rows[u])
  <2>1. u \in DOMAIN goals /\ SameGoal(plan[u], goals[u])
    BY <1>1, <1>3 DEF Match
  <2>2. Target(goals[u].desired) = Target(rows[u])
    BY <1>3, <2>1, EngineUpdates DEF SameGoal
  <2>3. plan[u].desired # Gone
    BY <1>3 DEF Gone
  <2>4. InputShape(plan[u].desired)
    <3>1. Operation(Prior(rows, u), plan[u].desired, plan[u].ops)
      BY <1>3, ValidPlanFacts
    <3> QED
      BY <2>3, <3>1 DEF Operation
  <2>5. Printed(plan[u].desired) = Printed(goals[u].desired)
    BY <2>1 DEF SameGoal
  <2>6. Target(plan[u].desired) = Target(goals[u].desired)
    BY <1>3, <2>3, <2>4, <2>5, PrintedTarget
  <2> QED
    BY <2>2, <2>6
<1> QED
  BY <1>2, <1>3 DEF Made
-----------------------------------------------------------------------------
(***************************************************************************)
(* A worker keeps to one set of rows until its update.                     *)
(***************************************************************************)
ReadOf(x, rows) == x.version >= 1 => x.rows = rows

Kept(w, rows) ==
  /\ ~(w.job = "apply" /\ w.step = 9) => ReadOf(w.read, rows) /\ ReadOf(w.before, rows)
  /\ w.job = "preview" /\ w.step >= 5 => Ready(w.plan, w.shown, rows)
  /\ w.job = "apply" /\ w.step <= 8 =>
       /\ Ready(w.sealed.bundle.plan, w.sealed.bundle.shown, rows)
       /\ w.step >= 5 => w.plan = w.sealed.bundle.plan
  /\ w.job = "drift" /\ w.step >= 4 => w.before.version >= 1
  /\ w.drifted = FALSE

\* The inductive invariant, beside the one of the versions.
RowsInv ==
  /\ SoundRows(checkpoint.rows)
  /\ \A r \in Role : RoleShape(live[r])
  /\ DOMAIN live = Role
  /\ worker # None => Kept(worker, checkpoint.rows)

\* A step that leaves the rows and the roles alone.
LEMMA SameRows ==
  ASSUME RowsInv, checkpoint'.rows = checkpoint.rows, live' = live,
         Kept(worker', checkpoint.rows)
  PROVE  RowsInv'
BY DEF RowsInv

\* A worker that moves on, and not to where it has a plan or has used it.
LEMMA MovedKept ==
  ASSUME NEW w, NEW x, NEW rows, Kept(w, rows), w.step \in Nat, x.job = w.job,
         \/ x.step = w.step
         \/ /\ x.step = w.step + 1
            /\ ~(w.job = "preview" /\ w.step = 4)
            /\ ~(w.job = "apply" /\ w.step \in {4, 8}),
         x.plan = w.plan, x.shown = w.shown, x.sealed = w.sealed,
         x.drifted = w.drifted,
         ~(x.job = "apply" /\ x.step = 9) =>
           ReadOf(x.read, rows) /\ ReadOf(x.before, rows),
         x.job = "drift" /\ x.step >= 4 => x.before.version >= 1
  PROVE  Kept(x, rows)
<1>1. x.job = "preview" /\ x.step >= 5 => w.step >= 5
  OBVIOUS
<1>2. x.job = "apply" /\ x.step <= 8 =>
        w.step <= 8 /\ (x.step >= 5 => w.step >= 5)
  OBVIOUS
<1> QED
  BY <1>1, <1>2 DEF Kept

LEMMA UnreadOf ==
  ASSUME NEW rows
  PROVE  ReadOf(Unread, rows)
BY DEF ReadOf, Unread

LEMMA FailedKept ==
  ASSUME NEW w, NEW c, NEW rows, WorkerInv(w, c), w.drifted = FALSE
  PROVE  Kept(Failed(w), rows)
<1>1. /\ Failed(w).job = "failed" /\ Failed(w).step = 1
      /\ Failed(w).read = Unread /\ Failed(w).before = Unread
      /\ Failed(w).drifted = FALSE
  BY DEF Failed, Enter, WorkerInv, Field
<1> HIDE DEF Failed
<1> QED
  BY <1>1, UnreadOf DEF Kept

LEMMA StartRows ==
  ASSUME Inv, RowsInv, Start
  PROVE  RowsInv'
<1>1. /\ Worker.job = "preview" /\ Worker.step = 1 /\ Worker.drifted = FALSE
      /\ Worker.read = Unread /\ Worker.before = Unread
  BY DEF Worker
<1>2. Kept(Worker, checkpoint.rows)
  BY <1>1, UnreadOf DEF Kept
<1> QED
  BY <1>2, SameRows DEF Start

LEMMA FailRows ==
  ASSUME Inv, RowsInv, Fail
  PROVE  RowsInv'
<1>1. Kept(Failed(worker), checkpoint.rows)
  BY FailedKept DEF Inv, RowsInv, Kept, Fail
<1> QED
  BY <1>1, SameRows DEF Fail

LEMMA EnrollRoleRows ==
  ASSUME Inv, RowsInv, NEW r \in RoleRead, EnrollRole(r)
  PROVE  RowsInv'
<1> DEFINE w == worker
           rows == checkpoint.rows
<1>1. /\ WorkerInv(w, checkpoint) /\ Kept(w, rows)
      /\ checkpoint' = checkpoint /\ live' = live
  BY DEF Inv, RowsInv, EnrollRole, At
<1>2. Program(w.job)[w.step] = "enroll"
  BY DEF EnrollRole, At
<1>3. \/ w.job = "preview" /\ w.step \in {1, 8}
      \/ w.job = "apply" /\ w.step \in {1, 5}
      \/ w.job = "drift" /\ w.step = 1
  BY <1>1, <1>2, AtPreview, AtApply, AtDrift, AtEnd DEF WorkerInv, Positioned
<1>4. /\ worker'.step \in {w.step, w.step + 1}
      /\ worker'.job = w.job /\ worker'.read = w.read /\ worker'.before = w.before
      /\ worker'.plan = w.plan /\ worker'.shown = w.shown
      /\ worker'.sealed = w.sealed /\ worker'.drifted = w.drifted
  <2>1. CASE worker' = [worker EXCEPT !.left = @ \ {r}]
    BY <1>1, <2>1 DEF WorkerInv, Field
  <2>2. CASE worker' = Next1(worker)
    BY <1>1, <2>2, Next1Fields DEF Field
  <2> QED
    BY <2>1, <2>2 DEF EnrollRole
<1>5. Kept(worker', rows)
  <2>1. ReadOf(w.read, rows) /\ ReadOf(w.before, rows)
    BY <1>1, <1>3 DEF Kept
  <2> QED
    BY <1>1, <1>3, <1>4, <2>1, MovedKept
<1> QED
  BY <1>1, <1>5, SameRows

LEMMA ReadHeadRows ==
  ASSUME Inv, RowsInv, ReadHead
  PROVE  RowsInv'
<1> DEFINE w == worker
           rows == checkpoint.rows
<1>1. /\ WorkerInv(w, checkpoint) /\ Kept(w, rows)
      /\ checkpoint' = checkpoint /\ live' = live
  BY DEF Inv, RowsInv, ReadHead, At
<1>2. Program(w.job)[w.step] = "head"
  BY DEF ReadHead, At
<1>3. \/ w.job = "preview" /\ w.step \in {2, 5, 9}
      \/ w.job = "apply" /\ w.step \in {2, 6}
      \/ w.job = "drift" /\ w.step \in {2, 5}
  BY <1>1, <1>2, AtPreview, AtApply, AtDrift, AtEnd DEF WorkerInv, Positioned
<1>4. /\ worker'.step = w.step + 1
      /\ worker'.job = w.job /\ worker'.read = checkpoint /\ worker'.before = w.before
      /\ worker'.plan = w.plan /\ worker'.shown = w.shown
      /\ worker'.sealed = w.sealed /\ worker'.drifted = w.drifted
  <2>1. worker' = [Next1(worker) EXCEPT !.read = checkpoint]
    BY DEF ReadHead
  <2> QED
    BY <1>1, <2>1, Next1Fields DEF Field
<1>5. ReadOf(worker'.read, rows) /\ ReadOf(worker'.before, rows)
  BY <1>1, <1>3, <1>4 DEF Kept, ReadOf
<1>6. worker'.job = "drift" /\ worker'.step >= 4 => worker'.before.version >= 1
  BY <1>1, <1>3, <1>4 DEF Kept
<1>7. Kept(worker', rows)
  BY <1>1, <1>3, <1>4, <1>5, <1>6, MovedKept
<1> QED
  BY <1>1, <1>7, SameRows

LEMMA ReadAgainRows ==
  ASSUME Inv, RowsInv, ReadAgain
  PROVE  RowsInv'
<1> DEFINE w == worker
           rows == checkpoint.rows
<1>1. /\ WorkerInv(w, checkpoint) /\ Kept(w, rows) /\ CheckpointForm(checkpoint)
      /\ checkpoint' = checkpoint /\ live' = live
  BY DEF Inv, RowsInv, ReadAgain, At
<1>2. Program(w.job)[w.step] = "again"
  BY DEF ReadAgain, At
<1>3. \/ w.job = "preview" /\ w.step \in {3, 6, 10}
      \/ w.job = "apply" /\ w.step \in {3, 7}
      \/ w.job = "drift" /\ w.step \in {3, 6}
  BY <1>1, <1>2, AtPreview, AtApply, AtDrift, AtEnd DEF WorkerInv, Positioned
<1>4. /\ worker'.step = w.step + 1
      /\ worker'.job = w.job /\ worker'.read = Unread /\ worker'.before = w.read
      /\ worker'.plan = w.plan /\ worker'.shown = w.shown
      /\ worker'.sealed = w.sealed /\ worker'.drifted = w.drifted
  <2>1. worker' = [Next1(worker) EXCEPT !.before = worker.read, !.read = Unread]
    BY DEF ReadAgain
  <2> QED
    BY <1>1, <2>1, Next1Fields DEF Field
<1>5. ReadOf(worker'.read, rows) /\ ReadOf(worker'.before, rows)
  BY <1>1, <1>3, <1>4, UnreadOf DEF Kept
<1>6. worker'.before.version >= 1
  BY <1>1, <1>4 DEF ReadAgain, CheckpointForm
<1>7. Kept(worker', rows)
  BY <1>1, <1>3, <1>4, <1>5, <1>6, MovedKept
<1> QED
  BY <1>1, <1>7, SameRows

\* What is accepted against the checkpoint the job has read.
LEMMA AcceptedReady ==
  ASSUME NEW plan, NEW shown, NEW state, NEW rows, Accepted(plan, shown, state),
         state.rows = rows, Made(plan, rows)
  PROVE  Ready(plan, shown, rows)
<1>1. ValidPlan(Still(rows), plan, shown)
  BY DEF Accepted, ValidPlan, Still, Checkpoint
<1> QED
  BY <1>1 DEF Ready, Accepted

LEMMA PulumiPreviewRows ==
  ASSUME Inv, RowsInv, PulumiPreview
  PROVE  RowsInv'
<1> DEFINE w == worker
           rows == checkpoint.rows
           inputs == [u \in Urn |->
                        IF u \in DOMAIN rows THEN rows[u].inputs ELSE Gone]
<1>1. /\ WorkerInv(w, checkpoint) /\ Kept(w, rows) /\ SoundRows(rows)
      /\ checkpoint' = checkpoint /\ live' = live
  BY DEF Inv, RowsInv, PulumiPreview, At
<1>2. w.job = "preview" /\ w.step = 4
  <2>1. Program(w.job)[w.step] = "pulumi"
    BY DEF PulumiPreview, At
  <2> QED
    BY <1>1, <2>1, AtPreview, AtApply, AtDrift, AtEnd DEF WorkerInv, Positioned
<1>3. PICK goals \in Planned(rows, inputs) :
        \E plan \in Files(goals) :
          /\ Accepted(plan, Shown(rows, goals, NotRefreshed), w.before)
          /\ worker' = [Next1(worker) EXCEPT
               !.plan = plan, !.shown = Shown(rows, goals, NotRefreshed),
               !.engine = [plan |-> goals, version |-> checkpoint.version]]
  BY DEF PulumiPreview
<1> DEFINE shown == Shown(rows, goals, NotRefreshed)
           engine == [plan |-> goals, version |-> checkpoint.version]
<1>4. PICK plan \in Files(goals) :
        /\ Accepted(plan, shown, w.before)
        /\ worker' = [Next1(worker) EXCEPT !.plan = plan, !.shown = shown,
                                           !.engine = engine]
  BY <1>3
<1> HIDE DEF inputs
<1>5. /\ worker'.step = 5 /\ worker'.job = "preview"
      /\ worker'.read = w.read /\ worker'.before = w.before
      /\ worker'.plan = plan /\ worker'.shown = shown
      /\ worker'.drifted = w.drifted
  <2> DEFINE N == Next1(worker)
  <2>1. worker' = [N EXCEPT !.plan = plan, !.shown = shown, !.engine = engine]
    BY <1>4
  <2>2. /\ N = [f \in Field |-> N[f]] /\ N.step = 5 /\ N.job = "preview"
        /\ N.read = w.read /\ N.before = w.before /\ N.drifted = w.drifted
    BY <1>1, <1>2, Next1Fields DEF Field
  <2> HIDE DEF N, shown, engine
  <2> QED
    BY <2>1, <2>2 DEF Field
<1>6. w.before.rows = rows
  BY <1>1, <1>2 DEF WorkerInv, Previewing, Kept, ReadOf
<1>7. Made(plan, rows)
  <2>1. ValidPlan(w.before, plan, shown)
    BY <1>4 DEF Accepted
  <2> QED
    BY <1>1, <1>3, <1>4, <1>6, <2>1, PlannedMade
<1> HIDE DEF shown, engine
<1>8. Ready(plan, shown, rows)
  BY <1>4, <1>6, <1>7, AcceptedReady
<1>9. Kept(worker', rows)
  BY <1>1, <1>2, <1>5, <1>8 DEF Kept
<1> QED
  BY <1>1, <1>9, SameRows

LEMMA ValidateRows ==
  ASSUME Inv, RowsInv, Validate
  PROVE  RowsInv'
<1> DEFINE w == worker
           rows == checkpoint.rows
<1>1. /\ WorkerInv(w, checkpoint) /\ Kept(w, rows)
      /\ checkpoint' = checkpoint /\ live' = live
  BY DEF Inv, RowsInv, Validate, At
<1>2. w.job = "preview" /\ w.step = 7
  <2>1. Program(w.job)[w.step] = "validate"
    BY DEF Validate, At
  <2> QED
    BY <1>1, <2>1, AtPreview, AtApply, AtDrift, AtEnd DEF WorkerInv, Positioned
<1>3. /\ worker'.step = 8 /\ worker'.job = "preview"
      /\ worker'.read = w.read /\ worker'.before = w.before
      /\ worker'.plan = w.plan /\ worker'.shown = w.shown
      /\ worker'.sealed = w.sealed /\ worker'.drifted = w.drifted
  BY <1>1, <1>2, Next1Fields DEF Field, Validate
<1>4. Kept(worker', rows)
  BY <1>1, <1>2, <1>3 DEF Kept
<1> QED
  BY <1>1, <1>4, SameRows

LEMMA SealRows ==
  ASSUME Inv, RowsInv, Seal
  PROVE  RowsInv'
<1> DEFINE w == worker
           rows == checkpoint.rows
<1>1. /\ WorkerInv(w, checkpoint) /\ Kept(w, rows)
      /\ checkpoint' = checkpoint /\ live' = live
  BY DEF Inv, RowsInv, Seal, At
<1>2. w.job = "preview" /\ w.step = 11
  <2>1. Program(w.job)[w.step] = "seal"
    BY DEF Seal, At
  <2> QED
    BY <1>1, <2>1, AtPreview, AtApply, AtDrift, AtEnd DEF WorkerInv, Positioned
<1>3. PICK job \in {"apply", "complete"} :
        worker' = [Enter(worker, job) EXCEPT
          !.sealed = [binding |-> Binding(worker.before), bundle |-> Bundle],
          !.plan = None, !.shown = None]
  BY DEF Seal
<1>4. /\ worker'.step = 1 /\ worker'.job = job
      /\ worker'.read = Unread /\ worker'.before = Unread
      /\ worker'.sealed = [binding |-> Binding(worker.before), bundle |-> Bundle]
      /\ worker'.drifted = w.drifted
  BY <1>1, <1>3 DEF WorkerInv, Field, Enter
<1>5. /\ worker'.sealed.bundle.plan = w.plan
      /\ worker'.sealed.bundle.shown = w.shown
  BY <1>4 DEF Bundle
<1>6. Kept(worker', rows)
  BY <1>1, <1>2, <1>4, <1>5, UnreadOf DEF Kept
<1> QED
  BY <1>1, <1>6, SameRows

LEMMA OpenRows ==
  ASSUME Inv, RowsInv, Open
  PROVE  RowsInv'
<1> DEFINE w == worker
           rows == checkpoint.rows
<1>1. /\ WorkerInv(w, checkpoint) /\ Kept(w, rows)
      /\ checkpoint' = checkpoint /\ live' = live
  BY DEF Inv, RowsInv, Open, Opened, At
<1>2. w.job = "apply" /\ w.step = 4
  <2>1. Program(w.job)[w.step] = "open"
    BY DEF Open, At
  <2> QED
    BY <1>1, <2>1, AtPreview, AtApply, AtDrift, AtEnd DEF WorkerInv, Positioned
<1>3. worker' = [Next1(worker) EXCEPT !.plan = w.sealed.bundle.plan]
  BY DEF Open, Opened
<1>4. /\ worker'.step = 5 /\ worker'.job = "apply"
      /\ worker'.read = w.read /\ worker'.before = w.before
      /\ worker'.plan = w.sealed.bundle.plan /\ worker'.sealed = w.sealed
      /\ worker'.drifted = w.drifted
  BY <1>1, <1>2, <1>3, Next1Fields DEF Field
<1>5. Kept(worker', rows)
  BY <1>1, <1>2, <1>4 DEF Kept
<1> QED
  BY <1>1, <1>5, SameRows

\* What an update finds: the plan that was sealed, for the rows that are there.
LEMMA UpReady ==
  ASSUME Inv, RowsInv, Up
  PROVE  /\ worker.job = "apply" /\ worker.step = 8
         /\ \E shown : Ready(worker.plan, shown, checkpoint.rows)
<1> DEFINE w == worker
<1>1. WorkerInv(w, checkpoint) /\ Kept(w, checkpoint.rows)
  BY DEF Inv, RowsInv, Up, At
<1>2. w.job = "apply" /\ w.step = 8
  <2>1. Program(w.job)[w.step] = "up"
    BY DEF Up, At
  <2> QED
    BY <1>1, <2>1, AtPreview, AtApply, AtDrift, AtEnd DEF WorkerInv, Positioned
<1> QED
  BY <1>1, <1>2 DEF Kept

\* An update, complete or not, as a change of rows and roles.
LEMMA UpChange ==
  ASSUME Inv, Up
  PROVE  \E D \in SUBSET ChangedUrns(worker.plan) :
           live' = Reached(D) /\ checkpoint'.rows = RowsAfter(D, Reached(D))
<1>1. PICK D \in SUBSET ChangedUrns(worker.plan) :
        /\ live' = Reached(D)
        /\ \/ checkpoint' = [checkpoint EXCEPT !.version = @ + 1,
                                               !.rows = RowsAfter(D, Reached(D))]
           \/ \E pending \in BOOLEAN :
                checkpoint' = [checkpoint EXCEPT !.version = @ + 1,
                                !.rows = RowsAfter(D, Reached(D)), !.pending = pending]
  BY Zenon DEF Up
<1> DEFINE new == RowsAfter(D, Reached(D))
<1>2. \/ checkpoint' = [checkpoint EXCEPT !.version = @ + 1, !.rows = new]
      \/ \E pending : checkpoint' = [checkpoint EXCEPT !.version = @ + 1, !.rows = new,
                                                       !.pending = pending]
  BY <1>1
<1> HIDE DEF new
<1>3. checkpoint'.rows = new
  <2>1. PICK v, p, r, q : checkpoint = [version |-> v, provider |-> p, rows |-> r,
                                         pending |-> q]
    BY DEF Inv, CheckpointForm
  <2> QED
    BY <1>2, <2>1
<1> QED
  BY <1>1, <1>3 DEF new

\* The goals of D that attach to a role, and the rows of D that did.
Attachings(D, r) ==
  {u \in D : LET goal == worker.plan[u].desired
             IN  goal # Gone /\ goal.kind = "attachment" /\ goal.inputs.role = r}
Detachings(D, r) ==
  {u \in D : LET old == Prior(checkpoint.rows, u)
             IN  old # Gone /\ old.kind = "attachment" /\ old.inputs.role = r}

\* The attachments of a role are replaced by a goal, or goals and rows of single
\* ones account for the difference.
Replaced(D, r) ==
  \E u \in D : /\ worker.plan[u].desired # Gone
               /\ worker.plan[u].desired.kind = "exclusive"
               /\ worker.plan[u].desired.inputs.role = r
               /\ Reached(D)[r].attached = worker.plan[u].desired.inputs.policies
Merged(D, r) ==
  LET new == Reached(D)[r].attached
      old == live[r].attached
  IN  /\ \A x \in new \ old : \E u \in Attachings(D, r) :
                              worker.plan[u].desired.inputs.policy = x
      /\ \A x \in old \ new : \E u \in Detachings(D, r) :
                              Prior(checkpoint.rows, u).inputs.policy = x
      /\ new = old \/ Attachings(D, r) # {} \/ Detachings(D, r) # {}

\* What an update makes of a role: what its goals say of it, or what it was.
LEMMA ReachedRole ==
  ASSUME NEW D, NEW r \in Role, RoleShape(live[r])
  PROVE  LET new     == Reached(D)[r]
             goal(u) == worker.plan[u].desired
         IN  /\ RoleShape(new)
             /\ \/ new.boundary = live[r].boundary
                \/ \E u \in D : /\ goal(u) # Gone /\ goal(u).kind = "role"
                                /\ goal(u).inputs.name = r
                                /\ new.boundary = goal(u).inputs.boundary
             /\ \/ new.trust = live[r].trust
                \/ \E u \in D : /\ goal(u) # Gone /\ goal(u).kind = "role"
                                /\ goal(u).inputs.name = r
                                /\ new.trust = goal(u).inputs.trust
             /\ Replaced(D, r) \/ Merged(D, r)
<1> DEFINE goal(u) == worker.plan[u].desired
           of(kind) == {u \in D : goal(u) # Gone /\ goal(u).kind = kind
                                   /\ goal(u).inputs[IF kind = "role" THEN "name" ELSE "role"] = r}
           old(u)  == Prior(checkpoint.rows, u)
           dropped == {old(u).inputs.policy :
                         u \in {u \in D : old(u) # Gone /\ old(u).kind = "attachment"
                                            /\ old(u).inputs.role = r}}
           added == {goal(u).inputs.policy : u \in of("attachment")}
           set(a, k, S) == IF S = {} THEN a ELSE goal(CHOOSE u \in S : TRUE).inputs[k]
           b == set(live[r].boundary, "boundary", of("role"))
           t == set(live[r].trust, "trust", of("role"))
           base == (live[r].attached \ dropped) \cup added
           a == set(base, "policies", of("exclusive"))
           new == Reached(D)[r]
<1>1. new = [live[r] EXCEPT !.boundary = b, !.trust = t, !.attached = a]
  BY DEF Reached
<1>2. b = live[r].boundary \/ \E u \in of("role") : b = goal(u).inputs.boundary
  OBVIOUS
<1>3. t = live[r].trust \/ \E u \in of("role") : t = goal(u).inputs.trust
  OBVIOUS
<1>4. a = base \/ \E u \in of("exclusive") : a = goal(u).inputs.policies
  OBVIOUS
<1>5. /\ \A x \in base \ live[r].attached : \E u \in of("attachment") :
           goal(u).inputs.policy = x
      /\ \A x \in live[r].attached \ base :
           \E u \in D : /\ old(u) # Gone /\ old(u).kind = "attachment"
                        /\ old(u).inputs.role = r /\ old(u).inputs.policy = x
      /\ \/ base = live[r].attached
         \/ \E u \in D : old(u) # Gone /\ old(u).kind = "attachment"
                           /\ old(u).inputs.role = r
         \/ \E u \in of("attachment") : TRUE
  OBVIOUS
<1>6. /\ \A u \in of("role") : /\ u \in D /\ goal(u) # Gone /\ goal(u).kind = "role"
                               /\ goal(u).inputs.name = r
      /\ \A u \in of("exclusive") : /\ u \in D /\ goal(u) # Gone
                                    /\ goal(u).kind = "exclusive"
                                    /\ goal(u).inputs.role = r
      /\ \A u \in of("attachment") : /\ u \in D /\ goal(u) # Gone
                                     /\ goal(u).kind = "attachment"
                                     /\ goal(u).inputs.role = r
  OBVIOUS
<1>7. RoleShape(new) /\ new.boundary = b /\ new.trust = t /\ new.attached = a
  <2> HIDE DEF new, b, t, a
  <2> QED
    BY <1>1 DEF RoleShape
<1>8. /\ Attachings(D, r) = of("attachment")
      /\ Detachings(D, r) = {u \in D : /\ old(u) # Gone /\ old(u).kind = "attachment"
                                      /\ old(u).inputs.role = r}
  BY DEF Attachings, Detachings
<1> HIDE DEF new, b, t, a, base, of, old
<1>9. \/ new.boundary = live[r].boundary
      \/ \E u \in D : /\ goal(u) # Gone /\ goal(u).kind = "role"
                      /\ goal(u).inputs.name = r
                      /\ new.boundary = goal(u).inputs.boundary
  BY <1>2, <1>6, <1>7
<1>10. \/ new.trust = live[r].trust
       \/ \E u \in D : /\ goal(u) # Gone /\ goal(u).kind = "role"
                       /\ goal(u).inputs.name = r
                       /\ new.trust = goal(u).inputs.trust
  BY <1>3, <1>6, <1>7
<1>11. CASE a = base
  <2>1. Merged(D, r)
    BY <1>5, <1>6, <1>7, <1>8, <1>11 DEF Merged, new, old
  <2> QED
    BY <1>7, <1>9, <1>10, <2>1 DEF new
<1>12. CASE \E u \in of("exclusive") : a = goal(u).inputs.policies
  <2>1. Replaced(D, r)
    BY <1>6, <1>7, <1>12 DEF Replaced, new
  <2> QED
    BY <1>7, <1>9, <1>10, <2>1 DEF new
<1> QED
  BY <1>4, <1>11, <1>12

LEMMA UpRowsInv ==
  ASSUME Inv, RowsInv, Up
  PROVE  RowsInv'
<1> DEFINE w == worker
           rows == checkpoint.rows
<1>1. /\ WorkerInv(w, checkpoint) /\ Kept(w, rows) /\ SoundRows(rows)
  BY DEF Inv, RowsInv, Up, At
<1>2. w.job = "apply" /\ w.step = 8 /\ \E shown : Ready(w.plan, shown, rows)
  BY UpReady
<1>3. PICK D \in SUBSET ChangedUrns(w.plan) :
        live' = Reached(D) /\ checkpoint'.rows = RowsAfter(D, Reached(D))
  BY UpChange
<1>4. SoundRows(checkpoint'.rows)
  <2>1. D \in SUBSET DOMAIN w.plan
    BY DEF ChangedUrns
  <2> QED
    BY <1>1, <1>2, <1>3, <2>1, UpRows
<1>5. DOMAIN live' = Role /\ \A r \in Role : RoleShape(live'[r])
  <2>1. DOMAIN Reached(D) = Role
    BY DEF Reached
  <2>2. \A r \in Role : RoleShape(Reached(D)[r])
    BY ReachedRole DEF RowsInv
  <2> QED
    BY <1>3, <2>1, <2>2
<1>6. Kept(worker', checkpoint'.rows)
  <2> DEFINE done == [plan |-> w.plan, version |-> checkpoint.version]
  <2>1. \/ worker' = [Next1(worker) EXCEPT !.applied = done]
        \/ worker' = [Failed(worker) EXCEPT !.applied = done]
    BY Zenon DEF Up
  <2> HIDE DEF done
  <2>2. CASE worker' = [Next1(worker) EXCEPT !.applied = done]
    <3>1. /\ worker'.job = "apply" /\ worker'.step = 9
          /\ worker'.drifted = w.drifted
      BY <1>1, <1>2, <2>2, Next1Fields DEF Field
    <3> QED
      BY <1>1, <3>1 DEF Kept
  <2>3. CASE worker' = [Failed(worker) EXCEPT !.applied = done]
    <3>1. /\ worker'.job = "failed" /\ worker'.step = 1
          /\ worker'.read = Unread /\ worker'.before = Unread
          /\ worker'.drifted = w.drifted
      BY <1>1, <2>3 DEF Failed, Enter, WorkerInv, Field
    <3> QED
      BY <1>1, <3>1, UnreadOf DEF Kept
  <2> QED
    BY <2>1, <2>2, <2>3
<1> QED
  BY <1>4, <1>5, <1>6 DEF RowsInv

LEMMA SameProviderRows ==
  ASSUME Inv, RowsInv, SameProvider
  PROVE  RowsInv'
<1> DEFINE w == worker
<1>1. /\ WorkerInv(w, checkpoint) /\ Kept(w, checkpoint.rows)
      /\ checkpoint' = checkpoint /\ live' = live
  BY DEF Inv, RowsInv, SameProvider, At
<1>2. /\ worker'.step = 1 /\ worker'.job = "drift"
      /\ worker'.read = Unread /\ worker'.before = Unread
      /\ worker'.drifted = w.drifted
  BY <1>1 DEF SameProvider, Enter, WorkerInv, Field
<1>3. Kept(worker', checkpoint.rows)
  BY <1>1, <1>2, UnreadOf DEF Kept
<1> QED
  BY <1>1, <1>3, SameRows

\* What a refresh reads of a row is something.
LEMMA SomethingIsRead ==
  ASSUME NEW row, NEW roles, InputShape(row)
  PROVE  Outputs(row, roles) # Gone
<1>1. CASE row.kind = "role"
  <2> DEFINE x == roles[row.inputs.name]
             out == [boundary |-> x.boundary, trust |-> x.trust, session |-> x.session]
  <2>1. Outputs(row, roles) = out
    BY <1>1 DEF Outputs
  <2>2. "boundary" \in DOMAIN out
    OBVIOUS
  <2>3. "boundary" \notin DOMAIN Gone
    BY DEF Gone
  <2> QED
    BY <2>1, <2>2, <2>3
<1>2. CASE row.kind = "exclusive"
  <2> DEFINE out == [policies |-> roles[row.inputs.role].attached]
  <2>1. Outputs(row, roles) = out
    BY <1>2 DEF Outputs
  <2>2. "policies" \in DOMAIN out /\ "policies" \notin DOMAIN Gone
    BY DEF Gone
  <2> QED
    BY <2>1, <2>2
<1>3. CASE row.kind \notin {"role", "exclusive"}
  <2>1. Outputs(row, roles) = row.inputs
    BY <1>3 DEF Outputs
  <2>2. "kind" \notin DOMAIN row.inputs
    BY DEF InputShape, Inputs
  <2>3. "kind" \in DOMAIN Gone
    BY DEF Gone
  <2> QED
    BY <2>1, <2>2, <2>3
<1> QED
  BY <1>1, <1>2, <1>3

\* A plan whose preview is compared with the checkpoint after a refresh: every
\* row has the outputs the refresh has read, as far as they are printed.
LEMMA NothingDrifted ==
  ASSUME NEW rows, SoundRows(rows), NEW roles, NEW goals, NEW seen,
         \A u \in DOMAIN rows : seen[u] = Outputs(rows[u], roles),
         NEW plan, NEW state, state.rows = rows,
         ValidPlan(state, plan, Shown(rows, goals, seen)), NEW u \in DOMAIN rows
  PROVE  Project(rows[u].outputs) = Project(Outputs(rows[u], roles))
<1> DEFINE shown == Shown(rows, goals, seen)
<1>1. /\ InputShape(rows[u]) /\ RowShape(rows[u])
      /\ rows[u].kind = "provider" => rows[u].outputs = rows[u].inputs
  BY DEF SoundRows, Checkpoint, Still
<1>2. u \in DOMAIN shown
  BY DEF ValidPlan, CompleteInventory
<1>3. shown[u].seen = Outputs(rows[u], roles)
  BY <1>2 DEF Shown
<1>4. Outputs(rows[u], roles) # Gone
  BY <1>1, SomethingIsRead
<1> HIDE DEF shown
<1>5. CASE u \notin DOMAIN plan
  <2>1. PreviewResource(shown[u], rows[u], rows[u], <<"read">>)
    BY <1>5 DEF ValidPlan, shown
  <2> QED
    BY <1>3, <1>4, <2>1 DEF PreviewResource
<1>6. CASE u \in DOMAIN plan
  <2> DEFINE d == plan[u].desired
  <2>1. Prior(rows, u) = rows[u] /\ rows[u] # Gone
    BY <1>1, RowIsNotGone DEF Prior
  <2>2. /\ Operation(Prior(rows, u), d, plan[u].ops)
        /\ \/ d # Gone /\ d.kind = "provider"
           \/ PreviewResource(shown[u], Prior(rows, u), d, plan[u].ops)
    BY <1>6, ValidPlanFacts DEF shown
  <2>3. CASE d # Gone /\ d.kind = "provider"
    <3>1. rows[u].kind = "provider"
      BY <2>1, <2>2, <2>3 DEF Operation, PreserveOwnership, Ownership
    <3> QED
      BY <1>1, <3>1 DEF Outputs
  <2>4. CASE PreviewResource(shown[u], Prior(rows, u), d, plan[u].ops)
    BY <1>3, <1>4, <2>1, <2>4 DEF PreviewResource
  <2> QED
    BY <2>2, <2>3, <2>4
<1> QED
  BY <1>5, <1>6

LEMMA RefreshRows ==
  ASSUME Inv, RowsInv, Refresh
  PROVE  RowsInv'
<1> DEFINE w == worker
           rows == checkpoint.rows
           inputs == [u \in Urn |->
                        IF u \in DOMAIN rows THEN Refreshed(rows[u], live) ELSE Gone]
           seen == [u \in Urn |->
                      IF u \in DOMAIN rows THEN Outputs(rows[u], live) ELSE Gone]
<1>1. /\ WorkerInv(w, checkpoint) /\ Kept(w, rows) /\ SoundRows(rows)
      /\ checkpoint' = checkpoint /\ live' = live
  BY DEF Inv, RowsInv, Refresh, At
<1>2. w.job = "drift" /\ w.step = 4
  <2>1. Program(w.job)[w.step] = "refresh"
    BY DEF Refresh, At
  <2> QED
    BY <1>1, <2>1, AtPreview, AtApply, AtDrift, AtEnd DEF WorkerInv, Positioned
<1>3. PICK goals, plan :
        LET shown == Shown(rows, goals, seen)
        IN  /\ ValidPlan(w.before, plan, shown)
            /\ worker' = [Next1(worker) EXCEPT !.plan = plan, !.shown = shown,
                                               !.drifted = Drifted(rows)]
  BY DEF Refresh
<1> DEFINE shown == Shown(rows, goals, seen)
           drifted == Drifted(rows)
<1>4. drifted = FALSE
  <2>1. \A u \in DOMAIN rows : seen[u] = Outputs(rows[u], live)
    BY <1>1 DEF SoundRows
  <2>2. w.before.rows = rows
    BY <1>1, <1>2 DEF Kept, ReadOf
  <2>3. ValidPlan(w.before, plan, Shown(rows, goals, seen))
    BY <1>3
  <2> HIDE DEF seen, inputs
  <2>4. \A u \in DOMAIN rows :
          Project(rows[u].outputs) = Project(Outputs(rows[u], live))
    BY <1>1, <2>1, <2>2, <2>3, NothingDrifted
  <2> QED
    BY <2>4 DEF Drifted
<1>5. worker' = [Next1(worker) EXCEPT !.plan = plan, !.shown = shown,
                                     !.drifted = drifted]
  BY <1>3
<1> HIDE DEF drifted, inputs, seen, shown
<1>6. /\ worker'.step = 5 /\ worker'.job = "drift"
      /\ worker'.read = w.read /\ worker'.before = w.before
      /\ worker'.drifted = FALSE
  <2> DEFINE N == Next1(worker)
  <2>1. worker' = [N EXCEPT !.plan = plan, !.shown = shown, !.drifted = FALSE]
    BY <1>4, <1>5
  <2>2. /\ N = [f \in Field |-> N[f]] /\ N.step = 5 /\ N.job = "drift"
        /\ N.read = w.read /\ N.before = w.before
    BY <1>1, <1>2, Next1Fields DEF Field
  <2> HIDE DEF N
  <2> QED
    BY <2>1, <2>2 DEF Field
<1>7. Kept(worker', rows)
  BY <1>1, <1>2, <1>6 DEF Kept
<1> QED
  BY <1>1, <1>7, SameRows

LEMMA CleanRows ==
  ASSUME Inv, RowsInv, Clean
  PROVE  RowsInv'
<1> DEFINE w == worker
<1>1. /\ WorkerInv(w, checkpoint) /\ Kept(w, checkpoint.rows)
      /\ checkpoint' = checkpoint /\ live' = live
  BY DEF Inv, RowsInv, Clean, At
<1>2. /\ worker'.step = 1 /\ worker'.job = "complete"
      /\ worker'.read = Unread /\ worker'.before = Unread
      /\ worker'.drifted = w.drifted
  BY <1>1 DEF Clean, Enter, WorkerInv, Field
<1>3. Kept(worker', checkpoint.rows)
  BY <1>1, <1>2, UnreadOf DEF Kept
<1> QED
  BY <1>1, <1>3, SameRows

LEMMA RewriteRows ==
  ASSUME Inv, RowsInv, Rewrite
  PROVE  RowsInv'
<1> DEFINE w == worker
<1>1. checkpoint'.rows = checkpoint.rows
  BY DEF Inv, CheckpointForm, Rewrite
<1>2. live' = live
  BY DEF Rewrite
<1>3. CASE At("up")
  <2>1. WorkerInv(w, checkpoint) /\ Kept(w, checkpoint.rows)
    BY <1>3 DEF Inv, RowsInv, At
  <2>2. worker' = [w EXCEPT !.late = TRUE]
    BY <1>3 DEF Rewrite
  <2>3. /\ worker'.job = w.job /\ worker'.step = w.step
        /\ worker'.read = w.read /\ worker'.before = w.before
        /\ worker'.plan = w.plan /\ worker'.shown = w.shown
        /\ worker'.sealed = w.sealed /\ worker'.drifted = w.drifted
    BY <2>1, <2>2 DEF WorkerInv, Field
  <2>4. Kept(worker', checkpoint.rows)
    BY <2>1, <2>3 DEF Kept
  <2> QED
    BY <1>1, <1>2, <2>4, SameRows
<1>4. CASE ~At("up")
  BY <1>1, <1>2, <1>4 DEF Rewrite, RowsInv
<1> QED
  BY <1>3, <1>4

LEMMA ChangeRoleRows ==
  ASSUME Inv, RowsInv, ChangeRole
  PROVE  RowsInv'
<1>1. checkpoint' = checkpoint /\ worker' = worker
  BY DEF ChangeRole
<1>2. PICK r \in Role : \E actual \in Outside[r] : live' = [live EXCEPT ![r] = actual]
  BY DEF ChangeRole
<1>3. \A actual \in Outside[r] : RoleShape(actual)
  BY OperatorConstants DEF OperatorConstants
<1>4. DOMAIN live' = Role /\ \A s \in Role : RoleShape(live'[s])
  BY <1>2, <1>3 DEF RowsInv
<1> QED
  BY <1>1, <1>4 DEF RowsInv

LEMMA RowsInvStep == Inv /\ RowsInv /\ [Next]_vars => RowsInv'
<1> SUFFICES ASSUME Inv, RowsInv, [Next]_vars
             PROVE  RowsInv'
  OBVIOUS
<1>1. CASE UNCHANGED vars
  BY <1>1 DEF RowsInv, vars
<1> QED
  BY <1>1, StartRows, FailRows, EnrollRoleRows, ReadHeadRows, ReadAgainRows,
     PulumiPreviewRows, ValidateRows, SealRows, OpenRows, UpRowsInv, SameProviderRows,
     RefreshRows, CleanRows, RewriteRows, ChangeRoleRows
  DEF Next

LEMMA RowsInvHolds == Spec => []RowsInv
<1>1. Init => RowsInv
  <2> SUFFICES ASSUME Init
               PROVE  RowsInv
    OBVIOUS
  <2>1. checkpoint.rows \in InitialRows /\ live = InitialLive /\ worker = None
    BY DEF Init
  <2>2. SoundRows(checkpoint.rows)
    BY <2>1, OperatorConstants DEF OperatorConstants, SoundRows, Still, Urn
  <2>3. DOMAIN live = Role /\ \A r \in Role : RoleShape(live[r])
    BY <2>1, OperatorConstants DEF OperatorConstants
  <2> QED
    BY <2>1, <2>2, <2>3 DEF RowsInv
<1> QED
  BY <1>1, RowsInvStep, InvHolds, PTL DEF Spec

\* Whatever is applied and wherever it stops, the checkpoint it leaves is one
\* the validator accepts, but for a pending operation.
THEOREM CheckpointsStayValid == Spec => []CheckpointStaysValid
<1>1. Inv /\ RowsInv => CheckpointStaysValid
  <2> SUFFICES ASSUME Inv, RowsInv
               PROVE  Checkpoint([checkpoint EXCEPT !.pending = FALSE])
    BY DEF CheckpointStaysValid
  <2> DEFINE c == [checkpoint EXCEPT !.pending = FALSE]
  <2>1. ~c.pending /\ c.rows = checkpoint.rows
    BY DEF Inv, CheckpointForm
  <2>2. Checkpoint(Still(checkpoint.rows))
    BY DEF RowsInv, SoundRows
  <2> HIDE DEF c
  <2>3. Checkpoint(c)
    BY <2>1, <2>2 DEF Checkpoint, Still
  <2> QED
    BY <2>3 DEF c
<1> QED
  BY <1>1, InvHolds, RowsInvHolds, PTL

\* Whatever a program wants and whatever others make of the roles meanwhile, a
\* worker that has looked for drift and gone on has seen none that is printed.
THEOREM DriftStopsAWorker == Spec => []DriftIsSeen
<1>1. RowsInv => DriftIsSeen
  BY DEF RowsInv, Kept, DriftIsSeen
<1> QED
  BY <1>1, RowsInvHolds, PTL
-----------------------------------------------------------------------------
(***************************************************************************)
(* What an update leaves of the enrolled roles.                            *)
(***************************************************************************)
\* A goal of an accepted plan obeys the catalog.
LEMMA GoalControls ==
  ASSUME NEW p, NEW shown, NEW rows, Ready(p, shown, rows), NEW u \in DOMAIN p
  PROVE  /\ Listed(p[u].desired) /\ ControlInvariants(p[u].desired)
         /\ p[u].desired.kind = "role" =>
              p[u].desired.inputs.trust \notin Rejected
<1>1. Operation(Prior(rows, u), p[u].desired, p[u].ops) /\ p[u].desired # Gone
  BY ReadyFacts, EveryGoalIsARow
<1>2. Listed(p[u].desired) /\ ControlInvariants(p[u].desired)
  BY <1>1 DEF Operation
<1>3. ASSUME p[u].desired.kind = "role"
      PROVE  p[u].desired.inputs.trust \notin Rejected
  <2>1. "trust" \in DOMAIN p[u].desired.inputs
    BY <1>2, <1>3 DEF ControlInvariants, IamDocuments, Has
  <2>2. u \in Desired(p)
    BY <1>1 DEF Desired
  <2> QED
    BY <2>1, <2>2 DEF Ready, IamAnalysis
<1> QED
  BY <1>2, <1>3

\* Policies are only attached and detached where the operator may change them.
LEMMA AttachmentsAreMutable ==
  ASSUME NEW p, NEW shown, NEW rows, Ready(p, shown, rows), SoundRows(rows),
         NEW u \in ChangedUrns(p)
  PROVE  /\ p[u].desired.kind = "attachment" =>
              /\ p[u].desired.inputs.role \in RoleWrite
              /\ p[u].desired.inputs.policy \in PolicyWrite
         /\ u \in DOMAIN rows /\ rows[u].kind = "attachment" =>
              rows[u].inputs.role \in RoleWrite /\ rows[u].inputs.policy \in PolicyWrite
<1>1. /\ u \in DOMAIN p /\ p[u].ops # Same
  BY DEF ChangedUrns
<1>2. Operation(Prior(rows, u), p[u].desired, p[u].ops) /\ p[u].desired # Gone
  BY <1>1, ReadyFacts, EveryGoalIsARow
<1>3. ChangedOperation(Prior(rows, u), p[u].desired, p[u].ops)
  BY <1>1, <1>2 DEF Operation
<1>4. ASSUME p[u].desired.kind = "attachment"
      PROVE  /\ Mutable(p[u].desired)
             /\ Prior(rows, u) # Gone => Mutable(Prior(rows, u))
  BY <1>2, <1>3, <1>4 DEF ChangedOperation
<1>5. ASSUME u \in DOMAIN rows, rows[u].kind = "attachment"
      PROVE  Mutable(rows[u])
  <2>1. Prior(rows, u) = rows[u] /\ rows[u] # Gone
    BY <1>5, RowIsNotGone DEF Prior, SoundRows
  <2>2. p[u].desired.kind = "attachment"
    BY <1>1, <1>5, GoalsStay
  <2> QED
    BY <1>4, <2>1, <2>2
<1> QED
  BY <1>4, <1>5 DEF Mutable

LEMMA RoleStaysEnrolled ==
  ASSUME NEW shown, Ready(worker.plan, shown, checkpoint.rows),
         SoundRows(checkpoint.rows), NEW D \in SUBSET ChangedUrns(worker.plan),
         NEW r \in RoleRead, RoleShape(live[r])
  PROVE  /\ Guarded(r, live[r]) => Guarded(r, Reached(D)[r])
         /\ Reached(D)[r].trust = live[r].trust \/ Reached(D)[r].trust \notin Rejected
<1> DEFINE p == worker.plan
           rows == checkpoint.rows
           new == Reached(D)[r]
           d(u) == p[u].desired
           Attaching(u) == u \in D /\ d(u).kind = "attachment" /\ d(u).inputs.role = r
           Detaching(u) == /\ u \in D /\ u \in DOMAIN rows
                           /\ rows[u].kind = "attachment" /\ rows[u].inputs.role = r
<1>1. /\ RoleShape(new) /\ r \in Role
      /\ \/ new.boundary = live[r].boundary
         \/ \E u \in D : /\ d(u).kind = "role" /\ d(u).inputs.name = r
                         /\ new.boundary = d(u).inputs.boundary
      /\ \/ new.trust = live[r].trust
         \/ \E u \in D : /\ d(u).kind = "role" /\ d(u).inputs.name = r
                         /\ new.trust = d(u).inputs.trust
  BY ReachedRole, CatalogAssumption DEF Catalog
<1>2. \/ \E u \in D : /\ d(u).kind = "exclusive" /\ d(u).inputs.role = r
                      /\ new.attached = d(u).inputs.policies
      \/ /\ \A x \in new.attached \ live[r].attached :
              \E u \in D : Attaching(u) /\ d(u).inputs.policy = x
         /\ \A x \in live[r].attached \ new.attached :
              \E u \in D : Detaching(u) /\ rows[u].inputs.policy = x
         /\ \/ new.attached = live[r].attached
            \/ \E u \in D : Detaching(u)
            \/ \E u \in D : Attaching(u)
  <2>1. CASE Replaced(D, r)
    BY <2>1 DEF Replaced
  <2>2. CASE Merged(D, r)
    <3>1. \A u \in Attachings(D, r) : u \in D /\ Attaching(u)
      BY DEF Attachings
    <3>2. \A u : Prior(rows, u) # Gone => u \in DOMAIN rows /\ Prior(rows, u) = rows[u]
      BY DEF Prior
    <3>3. \A u \in Detachings(D, r) :
            u \in D /\ Detaching(u) /\ Prior(rows, u) = rows[u]
      BY <3>2 DEF Detachings
    <3> HIDE DEF Attaching, Detaching
    <3> QED
      BY <2>2, <3>1, <3>3 DEF Merged
  <2>3. Replaced(D, r) \/ Merged(D, r)
    <3>1. r \in Role /\ RoleShape(live[r])
      BY <1>1
    <3> QED
      BY <3>1, ReachedRole
  <2> QED
    BY <2>1, <2>2, <2>3
<1>3. \A u \in D : u \in DOMAIN p /\ u \in ChangedUrns(p)
  BY DEF ChangedUrns
<1>4. \A u \in D : /\ Listed(d(u)) /\ ControlInvariants(d(u))
                   /\ d(u).kind = "role" => d(u).inputs.trust \notin Rejected
  BY <1>3, GoalControls
<1>5. \A u \in D : /\ Attaching(u) => r \in RoleWrite /\ d(u).inputs.policy \in PolicyWrite
                   /\ Detaching(u) => r \in RoleWrite /\ rows[u].inputs.policy \in PolicyWrite
  BY <1>3, AttachmentsAreMutable
<1> HIDE DEF new, d, Attaching, Detaching
<1>6. new.trust = live[r].trust \/ new.trust \notin Rejected
  BY <1>1, <1>4
<1>7. ASSUME Guarded(r, live[r])
      PROVE  Guarded(r, new)
  <2>1. new.boundary = Boundary[r]
    <3>1. live[r].boundary = Boundary[r]
      BY <1>7 DEF Guarded
    <3>2. \A u \in D : d(u).kind = "role" /\ d(u).inputs.name = r =>
                         d(u).inputs.boundary = Boundary[r]
      BY <1>4 DEF ControlInvariants, RoleGuards
    <3> QED
      BY <1>1, <3>1, <3>2
  <2>2. CASE \E u \in D : /\ d(u).kind = "exclusive" /\ d(u).inputs.role = r
                          /\ new.attached = d(u).inputs.policies
    <3>1. PICK u \in D : /\ d(u).kind = "exclusive" /\ d(u).inputs.role = r
                         /\ new.attached = d(u).inputs.policies
      BY <2>2
    <3>2. /\ r = ExclusiveRole
          /\ new.attached = Attached[r]
          /\ new.attached \ Guards[r] \subseteq PolicyWrite
      BY <1>4, <3>1 DEF Listed, ControlInvariants
    <3>3. r \in RoleWrite /\ Guards[r] \subseteq Attached[r]
      BY <3>2, CatalogAssumption DEF Catalog
    <3> QED
      BY <2>1, <3>2, <3>3 DEF Guarded
  <2>3. CASE /\ \A x \in new.attached \ live[r].attached :
                  \E u \in D : Attaching(u) /\ d(u).inputs.policy = x
             /\ \A x \in live[r].attached \ new.attached :
                  \E u \in D : Detaching(u) /\ rows[u].inputs.policy = x
             /\ \/ new.attached = live[r].attached
                \/ \E u \in D : Detaching(u)
                \/ \E u \in D : Attaching(u)
    <3>1. /\ new.attached \ live[r].attached \subseteq PolicyWrite
          /\ live[r].attached \ new.attached \subseteq PolicyWrite
      BY <1>5, <2>3
    <3>2. Guards[r] \cap PolicyWrite = {}
      BY CatalogAssumption DEF Catalog
    <3>3. CASE r \in RoleWrite
      <4>1. /\ Guards[r] \subseteq live[r].attached
            /\ live[r].attached \subseteq Guards[r] \cup PolicyWrite
        BY <1>7, <3>3 DEF Guarded
      <4>2. /\ Guards[r] \subseteq new.attached
            /\ new.attached \subseteq Guards[r] \cup PolicyWrite
        BY <3>1, <3>2, <4>1
      <4> QED
        BY <2>1, <3>3, <4>2 DEF Guarded
    <3>4. CASE r \notin RoleWrite
      <4>1. new.attached = Attached[r]
        BY <1>5, <1>7, <2>3, <3>4 DEF Guarded
      <4>2. ASSUME Frozen[r] # NotFrozen
            PROVE  new.trust = Frozen[r]
        <5>1. live[r].trust = Frozen[r]
          BY <1>7, <3>4, <4>2 DEF Guarded
        <5>2. \A u \in D : d(u).kind = "role" /\ d(u).inputs.name = r =>
                             d(u).inputs.trust = Frozen[r]
          BY <1>4, <4>2 DEF ControlInvariants, FrozenConfig, Target
        <5> QED
          BY <1>1, <5>1, <5>2
      <4> QED
        BY <2>1, <3>4, <4>1, <4>2 DEF Guarded
    <3> QED
      BY <3>3, <3>4
  <2> QED
    BY <1>2, <2>2, <2>3
<1> QED
  BY <1>6, <1>7 DEF new

\* Whatever a program wants and wherever an update stops, no row is dropped,
\* every role keeps its boundary and its guards and gets no other policy than it
\* may have, and no role gets a trust the analyzer rejects.
THEOREM OperatorsAreKept == Spec => OperatorsKeep
<1> DEFINE Kept1 ==
      checkpoint'.rows # checkpoint.rows =>
        /\ DOMAIN checkpoint.rows \subseteq DOMAIN checkpoint'.rows
        /\ \A r \in RoleRead :
             /\ Guarded(r, live[r]) => Guarded(r, live'[r])
             /\ live'[r].trust = live[r].trust \/ live'[r].trust \notin Rejected
<1>1. ASSUME Inv, RowsInv, Up
      PROVE  Kept1
  <2>1. PICK D \in SUBSET ChangedUrns(worker.plan) :
          live' = Reached(D) /\ checkpoint'.rows = RowsAfter(D, Reached(D))
    BY <1>1, UpChange
  <2>2. PICK shown : Ready(worker.plan, shown, checkpoint.rows)
    BY <1>1, UpReady
  <2>3. SoundRows(checkpoint.rows) /\ \A r \in RoleRead : RoleShape(live[r])
    BY <1>1, CatalogAssumption DEF RowsInv, Catalog
  <2>4. DOMAIN checkpoint.rows \subseteq DOMAIN checkpoint'.rows
    <3>1. D \in SUBSET DOMAIN worker.plan
      BY DEF ChangedUrns
    <3> QED
      BY <2>1, <2>2, <2>3, <3>1, UpRows
  <2>5. ASSUME NEW r \in RoleRead
        PROVE  /\ Guarded(r, live[r]) => Guarded(r, live'[r])
               /\ live'[r].trust = live[r].trust \/ live'[r].trust \notin Rejected
    BY <2>1, <2>2, <2>3, RoleStaysEnrolled
  <2> QED
    BY <2>4, <2>5
<1>2. ASSUME Inv, [Next]_vars, checkpoint'.rows # checkpoint.rows
      PROVE  Up
  <2>1. CASE Rewrite
    BY <1>2, <2>1 DEF Inv, CheckpointForm, Rewrite
  <2> QED
    BY <1>2, <2>1
    DEF Next, vars, Start, Fail, ReadHead, ReadAgain, PulumiPreview, Validate, Seal,
        Open, Opened, SameProvider, Refresh, Clean, ChangeRole, EnrollRole
<1>3. Inv /\ RowsInv /\ [Next]_vars => [Kept1]_vars
  BY <1>1, <1>2
<1> QED
  BY <1>3, InvHolds, RowsInvHolds, PTL DEF Spec, OperatorsKeep
=============================================================================
