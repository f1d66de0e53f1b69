--------------------------- MODULE SavedPlan_proofs ---------------------------
(***************************************************************************)
(* Proofs about the replay of saved plans, for any workers, stacks,        *)
(* commits, programs and policies, and any bounds: the stacks are updated  *)
(* in their order; an update starts from the checkpoint its plan was made  *)
(* on unless a person wrote the stack after it was verified; what it does  *)
(* to a resource was in the preview the gates read; and once it has done   *)
(* everything each bucket is encrypted.                                    *)
(*                                                                         *)
(* The last two follow a plan from its preview: the gates passed and the   *)
(* pack accepted what was known then, and until the worker starts over     *)
(* neither preview nor plan changes.  What was not known then meets the    *)
(* pack again in the update.                                               *)
(***************************************************************************)
EXTENDS SavedPlan, TLAPS

\* What the proofs need of the types: the variables are functions of the
\* workers and of the stacks, a worker is at a stack of the list, and what it
\* last reached is one of its jobs.
On(f, S) == f = [x \in S |-> f[x]]

Kept ==
  /\ On(checkpoint, Stack)
  /\ On(job, Worker) /\ On(binding, Worker) /\ On(completed, Worker)
  /\ reached \in [Worker -> {"plan", "gates", "apply", "drift"}]
  /\ On(manifest, Worker) /\ \A w \in Worker : On(manifest[w], Stack)
  /\ at \in [Worker -> DOMAIN Stacks]

Running(w) == job[w] \notin {"waiting", "success", "failure"}
Applying(w) == job[w] \in {"apply", "applyPrepares", "verified", "updating"}
Earlier(w) == {Stacks[i] : i \in 1..(at[w] - 1)}

\* The stacks before the one an update job is at have been updated.
OrderInv == \A w \in Worker : Applying(w) => Earlier(w) \subseteq completed[w]

\* Only the holder of the group runs.
GroupInv == \A w \in Worker : Running(w) => group = w

\* From its verification until the lock of the engine the identity is that of
\* the plan, and only a person has written the stack.
VerifiedInv ==
  \A w \in Worker : job[w] = "verified" =>
    /\ binding[w] = manifest[w][Here(w)]
    /\ \/ checkpoint[Here(w)].version = binding[w].version
       \/ checkpoint[Here(w)].by = "person"

Inv == Kept /\ OrderInv /\ GroupInv /\ VerifiedInv

-----------------------------------------------------------------------------
(* Steps of a worker touch nothing another one keeps.                      *)

StepOf(w) ==
  \/ Preview(w) \/ RerunFailed(w) \/ Select(w) \/ PrepareForPlan(w)
  \/ PrepareForUpdate(w) \/ PreviewStack(w) \/ PassGates(w) \/ Expire(w)
  \/ BeginUpdate(w) \/ CompleteUpdate(w) \/ StopUpdate(w) \/ LoseUpdate(w)
  \/ CheckDrift(w) \/ Fail(w)

Own(q) == <<job[q], at[q], binding[q], manifest[q], completed[q]>>

\* A worker that steps holds the group, or takes it when nobody has it.
LEMMA StepHolds ==
  ASSUME Kept, GroupInv, NEW w \in Worker, StepOf(w)
  PROVE  \A q \in Worker \ {w} : ~Running(q)
<1>1. Running(w) \/ group = None
  BY DEF StepOf, Running, Preview, RerunFailed, Select, PrepareForPlan, PrepareForUpdate,
         PreviewStack, PassGates, Expire, BeginUpdate, CompleteUpdate, StopUpdate, LoseUpdate,
         CheckDrift, Fail
<1> QED
  BY <1>1, PlanConstants DEF GroupInv

\* The stack a running worker is at is one of the list.
LEMMA ListedStacks ==
  ASSUME NEW i \in DOMAIN Stacks
  PROVE  Stacks[i] \in Stack
BY DEF Stack

LEMMA Places ==
  /\ 1 \in DOMAIN Stacks
  /\ \A i \in DOMAIN Stacks : i < Len(Stacks) => i + 1 \in DOMAIN Stacks
BY PlanConstants

LEMMA StepKept ==
  ASSUME Kept, NEW w \in Worker, StepOf(w)
  PROVE  Kept'
<1> USE DEF Kept, On
<1>1. CASE Preview(w)
  <2>1. On(job', Worker) /\ On(binding', Worker) /\ On(completed', Worker)
        /\ reached' \in [Worker -> {"plan", "gates", "apply", "drift"}]
    BY <1>1 DEF Preview, Starts, To, cloud
  <2>2. On(checkpoint', Stack)
    BY <1>1 DEF Preview, Starts, To, cloud
  <2>3. On(manifest', Worker) /\ \A q \in Worker : On(manifest'[q], Stack)
    BY <1>1 DEF Preview, Starts, To, cloud
  <2>4. at' \in [Worker -> DOMAIN Stacks]
    BY <1>1, Places DEF Preview, Starts, To, cloud
  <2> QED
    BY <2>1, <2>2, <2>3, <2>4
<1>2. CASE RerunFailed(w)
  <2>1. On(job', Worker) /\ On(binding', Worker) /\ On(completed', Worker)
        /\ reached' \in [Worker -> {"plan", "gates", "apply", "drift"}]
    BY <1>2 DEF RerunFailed, Starts, To, cloud, saved
  <2>2. On(checkpoint', Stack)
    BY <1>2 DEF RerunFailed, Starts, To, cloud, saved
  <2>3. On(manifest', Worker) /\ \A q \in Worker : On(manifest'[q], Stack)
    BY <1>2 DEF RerunFailed, Starts, To, cloud, saved
  <2>4. at' \in [Worker -> DOMAIN Stacks]
    BY <1>2, Places DEF RerunFailed, Starts, To, cloud, saved
  <2> QED
    BY <2>1, <2>2, <2>3, <2>4
<1>3. CASE Select(w)
  <2>1. On(job', Worker) /\ On(binding', Worker) /\ On(completed', Worker)
        /\ reached' \in [Worker -> {"plan", "gates", "apply", "drift"}]
    BY <1>3 DEF Select, To, cloud, saved
  <2>2. On(checkpoint', Stack)
    BY <1>3 DEF Select, To, cloud, saved
  <2>3. On(manifest', Worker) /\ \A q \in Worker : On(manifest'[q], Stack)
    BY <1>3 DEF Select, To, cloud, saved
  <2>4. at' \in [Worker -> DOMAIN Stacks]
    BY <1>3, Places DEF Select, To, cloud, saved
  <2> QED
    BY <2>1, <2>2, <2>3, <2>4
<1>4. CASE PrepareForPlan(w)
  <2>1. On(job', Worker) /\ On(binding', Worker) /\ On(completed', Worker)
        /\ reached' \in [Worker -> {"plan", "gates", "apply", "drift"}]
    BY <1>4 DEF PrepareForPlan, Prepared, To, cloud, saved
  <2>2. On(checkpoint', Stack)
    BY <1>4 DEF PrepareForPlan, Prepared, To, cloud, saved
  <2>3. On(manifest', Worker) /\ \A q \in Worker : On(manifest'[q], Stack)
    BY <1>4 DEF PrepareForPlan, Prepared, To, cloud, saved
  <2>4. at' \in [Worker -> DOMAIN Stacks]
    BY <1>4, Places DEF PrepareForPlan, Prepared, To, cloud, saved
  <2> QED
    BY <2>1, <2>2, <2>3, <2>4
<1>5. CASE PrepareForUpdate(w)
  <2>1. On(job', Worker) /\ On(binding', Worker) /\ On(completed', Worker)
        /\ reached' \in [Worker -> {"plan", "gates", "apply", "drift"}]
    BY <1>5 DEF PrepareForUpdate, Prepared, To, cloud, saved
  <2>2. On(checkpoint', Stack)
    BY <1>5 DEF PrepareForUpdate, Prepared, To, cloud, saved
  <2>3. On(manifest', Worker) /\ \A q \in Worker : On(manifest'[q], Stack)
    BY <1>5 DEF PrepareForUpdate, Prepared, To, cloud, saved
  <2>4. at' \in [Worker -> DOMAIN Stacks]
    BY <1>5, Places DEF PrepareForUpdate, Prepared, To, cloud, saved
  <2> QED
    BY <2>1, <2>2, <2>3, <2>4
<1>6. CASE PreviewStack(w)
  <2>1. On(job', Worker) /\ On(binding', Worker) /\ On(completed', Worker)
        /\ reached' \in [Worker -> {"plan", "gates", "apply", "drift"}]
    BY <1>6 DEF PreviewStack, SavePlan, BindPlan, NextStack, Starts, To, cloud
  <2>2. On(checkpoint', Stack)
    BY <1>6 DEF PreviewStack, SavePlan, BindPlan, NextStack, Starts, To, cloud
  <2>3. On(manifest', Worker) /\ \A q \in Worker : On(manifest'[q], Stack)
    <3>1. manifest' = [manifest EXCEPT ![w] =
                         [manifest[w] EXCEPT ![Here(w)] = binding[w]]]
      BY <1>6 DEF PreviewStack, BindPlan
    <3>2. On([manifest[w] EXCEPT ![Here(w)] = binding[w]], Stack)
      OBVIOUS
    <3> QED
      BY <3>1, <3>2
  <2>4. at' \in [Worker -> DOMAIN Stacks]
    BY <1>6, Places DEF PreviewStack, SavePlan, BindPlan, NextStack, Starts, To, cloud
  <2> QED
    BY <2>1, <2>2, <2>3, <2>4
<1>7. CASE PassGates(w)
  <2>1. On(job', Worker) /\ On(binding', Worker) /\ On(completed', Worker)
        /\ reached' \in [Worker -> {"plan", "gates", "apply", "drift"}]
    BY <1>7 DEF PassGates, Starts, To, cloud, saved
  <2>2. On(checkpoint', Stack)
    BY <1>7 DEF PassGates, Starts, To, cloud, saved
  <2>3. On(manifest', Worker) /\ \A q \in Worker : On(manifest'[q], Stack)
    BY <1>7 DEF PassGates, Starts, To, cloud, saved
  <2>4. at' \in [Worker -> DOMAIN Stacks]
    BY <1>7, Places DEF PassGates, Starts, To, cloud, saved
  <2> QED
    BY <2>1, <2>2, <2>3, <2>4
<1>8. CASE Expire(w)
  <2>1. On(job', Worker) /\ On(binding', Worker) /\ On(completed', Worker)
        /\ reached' \in [Worker -> {"plan", "gates", "apply", "drift"}]
    BY <1>8 DEF Expire, cloud, saved
  <2>2. On(checkpoint', Stack)
    BY <1>8 DEF Expire, cloud, saved
  <2>3. On(manifest', Worker) /\ \A q \in Worker : On(manifest'[q], Stack)
    BY <1>8 DEF Expire, cloud, saved
  <2>4. at' \in [Worker -> DOMAIN Stacks]
    BY <1>8, Places DEF Expire, cloud, saved
  <2> QED
    BY <2>1, <2>2, <2>3, <2>4
<1>9. CASE BeginUpdate(w)
  <2>1. On(job', Worker) /\ On(binding', Worker) /\ On(completed', Worker)
        /\ reached' \in [Worker -> {"plan", "gates", "apply", "drift"}]
    BY <1>9 DEF BeginUpdate, To, saved
  <2>2. On(checkpoint', Stack)
    BY <1>9 DEF BeginUpdate, To, saved
  <2>3. On(manifest', Worker) /\ \A q \in Worker : On(manifest'[q], Stack)
    BY <1>9 DEF BeginUpdate, To, saved
  <2>4. at' \in [Worker -> DOMAIN Stacks]
    BY <1>9, Places DEF BeginUpdate, To, saved
  <2> QED
    BY <2>1, <2>2, <2>3, <2>4
<1>10. CASE CompleteUpdate(w)
  <2>1. On(job', Worker) /\ On(binding', Worker) /\ On(completed', Worker)
        /\ reached' \in [Worker -> {"plan", "gates", "apply", "drift"}]
    BY <1>10 DEF CompleteUpdate, Written, NextStack, Starts, To, saved
  <2>2. On(checkpoint', Stack)
    BY <1>10 DEF CompleteUpdate, Written, NextStack, Starts, To, saved
  <2>3. On(manifest', Worker) /\ \A q \in Worker : On(manifest'[q], Stack)
    BY <1>10 DEF CompleteUpdate, Written, NextStack, Starts, To, saved
  <2>4. at' \in [Worker -> DOMAIN Stacks]
    BY <1>10, Places DEF CompleteUpdate, Written, NextStack, Starts, To, saved
  <2> QED
    BY <2>1, <2>2, <2>3, <2>4
<1>11. CASE StopUpdate(w)
  <2>1. On(job', Worker) /\ On(binding', Worker) /\ On(completed', Worker)
        /\ reached' \in [Worker -> {"plan", "gates", "apply", "drift"}]
    BY <1>11 DEF StopUpdate, Written, Ends, To, saved
  <2>2. On(checkpoint', Stack)
    BY <1>11 DEF StopUpdate, Written, Ends, To, saved
  <2>3. On(manifest', Worker) /\ \A q \in Worker : On(manifest'[q], Stack)
    BY <1>11 DEF StopUpdate, Written, Ends, To, saved
  <2>4. at' \in [Worker -> DOMAIN Stacks]
    BY <1>11, Places DEF StopUpdate, Written, Ends, To, saved
  <2> QED
    BY <2>1, <2>2, <2>3, <2>4
<1>12. CASE LoseUpdate(w)
  <2>1. On(job', Worker) /\ On(binding', Worker) /\ On(completed', Worker)
        /\ reached' \in [Worker -> {"plan", "gates", "apply", "drift"}]
    BY <1>12 DEF LoseUpdate, Written, Ends, To, saved
  <2>2. On(checkpoint', Stack)
    BY <1>12 DEF LoseUpdate, Written, Ends, To, saved
  <2>3. On(manifest', Worker) /\ \A q \in Worker : On(manifest'[q], Stack)
    BY <1>12 DEF LoseUpdate, Written, Ends, To, saved
  <2>4. at' \in [Worker -> DOMAIN Stacks]
    BY <1>12, Places DEF LoseUpdate, Written, Ends, To, saved
  <2> QED
    BY <2>1, <2>2, <2>3, <2>4
<1>13. CASE CheckDrift(w)
  <2>1. On(job', Worker) /\ On(binding', Worker) /\ On(completed', Worker)
        /\ reached' \in [Worker -> {"plan", "gates", "apply", "drift"}]
    BY <1>13 DEF CheckDrift, Ends, To, cloud, saved
  <2>2. On(checkpoint', Stack)
    BY <1>13 DEF CheckDrift, Ends, To, cloud, saved
  <2>3. On(manifest', Worker) /\ \A q \in Worker : On(manifest'[q], Stack)
    BY <1>13 DEF CheckDrift, Ends, To, cloud, saved
  <2>4. at' \in [Worker -> DOMAIN Stacks]
    BY <1>13, Places DEF CheckDrift, Ends, To, cloud, saved
  <2> QED
    BY <2>1, <2>2, <2>3, <2>4
<1>14. CASE Fail(w)
  <2>1. On(job', Worker) /\ On(binding', Worker) /\ On(completed', Worker)
        /\ reached' \in [Worker -> {"plan", "gates", "apply", "drift"}]
    BY <1>14 DEF Fail, Ends, To, cloud, saved
  <2>2. On(checkpoint', Stack)
    BY <1>14 DEF Fail, Ends, To, cloud, saved
  <2>3. On(manifest', Worker) /\ \A q \in Worker : On(manifest'[q], Stack)
    BY <1>14 DEF Fail, Ends, To, cloud, saved
  <2>4. at' \in [Worker -> DOMAIN Stacks]
    BY <1>14, Places DEF Fail, Ends, To, cloud, saved
  <2> QED
    BY <2>1, <2>2, <2>3, <2>4
<1> QED
  BY <1>1, <1>2, <1>3, <1>4, <1>5, <1>6, <1>7, <1>8, <1>9, <1>10, <1>11, <1>12, <1>13, <1>14 DEF StepOf

\* What is not its own a step leaves as it is.
LEMMA StepFrame ==
  ASSUME Kept, NEW w \in Worker, StepOf(w), NEW q \in Worker, q # w
  PROVE  UNCHANGED Own(q)
<1> USE DEF Kept, On, Own
<1>1. CASE Preview(w) \/ RerunFailed(w) \/ Select(w) \/ PrepareForPlan(w) \/ PrepareForUpdate(w)
  BY <1>1 DEF Preview, RerunFailed, Select, PrepareForPlan, PrepareForUpdate, Prepared, Starts,
              To, saved
<1>2. CASE PreviewStack(w) \/ PassGates(w) \/ Expire(w) \/ BeginUpdate(w) \/ CompleteUpdate(w)
  BY <1>2 DEF PreviewStack, PassGates, Expire, BeginUpdate, CompleteUpdate, SavePlan, BindPlan,
              NextStack, Starts, To, saved
<1>3. CASE StopUpdate(w) \/ LoseUpdate(w) \/ CheckDrift(w) \/ Fail(w)
  BY <1>3 DEF StopUpdate, LoseUpdate, CheckDrift, Fail, Ends, To, saved
<1> QED
  BY <1>1, <1>2, <1>3 DEF StepOf

\* People touch nothing a worker keeps, and sign what they write.
LEMMA PeopleFrame ==
  ASSUME Kept, People
  PROVE  /\ Kept' /\ UNCHANGED worker
         /\ \A s \in Stack : \/ checkpoint'[s] = checkpoint[s]
                             \/ checkpoint'[s].by = "person"
<1> USE DEF Kept, On
<1>1. ASSUME NEW s \in Stack,
             InitializeStack(s) \/ Repair(s) \/ \E c \in Commit : UpdateByHand(s, c)
      PROVE  /\ UNCHANGED <<key, worker>>
             /\ checkpoint' = [checkpoint EXCEPT ![s] =
                  [version |-> @.version + 1, pending |-> FALSE, by |-> "person"]]
  BY <1>1 DEF InitializeStack, Repair, UpdateByHand, Writes
<1>2. ASSUME NEW s \in Stack,
             InitializeStack(s) \/ Repair(s) \/ \E c \in Commit : UpdateByHand(s, c)
      PROVE  /\ Kept' /\ UNCHANGED worker
             /\ \A t \in Stack : \/ checkpoint'[t] = checkpoint[t]
                                 \/ checkpoint'[t].by = "person"
  BY <1>1, <1>2 DEF worker, saved
<1>3. CASE \E s \in Stack, u \in Urn : \E v \in VersionsOf(u) : ChangeInConsole(s, u, v)
  BY <1>3 DEF ChangeInConsole, worker, saved
<1>4. CASE RetargetKey
  BY <1>4 DEF RetargetKey, cloud, worker, saved
<1> QED
  BY <1>2, <1>3, <1>4 DEF People

-----------------------------------------------------------------------------
(* The invariant is kept.                                                  *)

\* A worker holds the group while it runs and gives it back when it ends.
LEMMA GroupKept ==
  ASSUME Kept, GroupInv, NEW w \in Worker, StepOf(w)
  PROVE  GroupInv'
<1>1. Running(w)' => group' = w
  <2> USE DEF Kept, On, GroupInv, Running
  <2>1. CASE Preview(w) \/ RerunFailed(w)
    BY <2>1 DEF Preview, RerunFailed
  <2>2. CASE Select(w) \/ PrepareForPlan(w) \/ PrepareForUpdate(w) \/ PreviewStack(w)
             \/ PassGates(w) \/ Expire(w) \/ BeginUpdate(w) \/ CompleteUpdate(w)
    BY <2>2 DEF Select, PrepareForPlan, PrepareForUpdate, PreviewStack, PassGates, Expire,
                BeginUpdate, CompleteUpdate
  <2>3. CASE StopUpdate(w) \/ LoseUpdate(w) \/ Fail(w)
    BY <2>3 DEF StopUpdate, LoseUpdate, Fail, Ends, To
  <2>4. CASE CheckDrift(w)
    BY <2>4 DEF CheckDrift, Ends, To
  <2> QED
    BY <2>1, <2>2, <2>3, <2>4 DEF StepOf
<1>2. ASSUME NEW q \in Worker, q # w PROVE Running(q)' => group' = q
  BY <1>2, StepHolds, StepFrame DEF Running, Own
<1> QED
  BY <1>1, <1>2 DEF GroupInv

\* An update that completes adds its stack before the next one is taken.
LEMMA OrderKept ==
  ASSUME Kept, OrderInv, NEW w \in Worker, StepOf(w)
  PROVE  OrderInv'
<1>1. Applying(w)' => Earlier(w)' \subseteq completed'[w]
  <2> USE DEF Kept, On
  <2>1. CASE Preview(w) \/ RerunFailed(w) \/ PassGates(w)
    <3>1. at'[w] = 1
      BY <2>1 DEF Preview, RerunFailed, PassGates, Starts
    <3> QED
      BY <3>1 DEF Earlier
  <2>2. CASE Select(w) \/ PrepareForUpdate(w) \/ Expire(w) \/ BeginUpdate(w)
    <3>1. Applying(w)' => Applying(w)
      BY <2>2 DEF Select, PrepareForUpdate, Expire, BeginUpdate, To, Applying
    <3>2. UNCHANGED <<at, completed>>
      BY <2>2 DEF Select, PrepareForUpdate, Expire, BeginUpdate
    <3> QED
      BY <3>1, <3>2 DEF OrderInv, Earlier
  <2>3. CASE PrepareForPlan(w) \/ StopUpdate(w) \/ LoseUpdate(w) \/ CheckDrift(w) \/ Fail(w)
    <3>1. ~Applying(w)'
      BY <2>3 DEF PrepareForPlan, StopUpdate, LoseUpdate, CheckDrift, Fail, Ends, To, Applying
    <3> QED
      BY <3>1
  <2>4. CASE PreviewStack(w)
    <3>1. ~Applying(w)'
      BY <2>4 DEF PreviewStack, NextStack, Starts, To, Applying
    <3> QED
      BY <3>1
  <2>5. CASE CompleteUpdate(w)
    <3>1. completed'[w] = completed[w] \cup {Stacks[at[w]]}
          /\ Earlier(w) \subseteq completed[w]
      BY <2>5 DEF CompleteUpdate, Here, OrderInv, Applying
    <3>2. at'[w] = at[w] + 1 \/ at'[w] = 1
      BY <2>5 DEF CompleteUpdate, NextStack, Starts
    <3>3. at[w] \in Nat \ {0}
      BY PlanConstants
    <3>4. CASE at'[w] = 1
      BY <3>4 DEF Earlier
    <3>5. CASE at'[w] = at[w] + 1
      <4>1. \A i \in 1..(at'[w] - 1) : i = at[w] \/ i \in 1..(at[w] - 1)
        BY <3>3, <3>5
      <4> QED
        BY <3>1, <4>1 DEF Earlier
    <3> QED
      BY <3>2, <3>4, <3>5
  <2> QED
    BY <2>1, <2>2, <2>3, <2>4, <2>5 DEF StepOf
<1>2. ASSUME NEW q \in Worker, q # w
      PROVE  Applying(q)' => Earlier(q)' \subseteq completed'[q]
  BY <1>2, StepFrame DEF OrderInv, Applying, Earlier, Own
<1> QED
  BY <1>1, <1>2 DEF OrderInv

\* The verification compares the identity with that of the plan; while the
\* worker is about to lock the stack no other worker writes it.
LEMMA VerifiedKept ==
  ASSUME Kept, GroupInv, VerifiedInv, NEW w \in Worker, StepOf(w)
  PROVE  VerifiedInv'
<1>1. CASE PrepareForUpdate(w)
  <2>1. /\ manifest'[w][Here(w)'] = binding'[w]
        /\ checkpoint'[Here(w)'].version = binding'[w].version
    BY <1>1 DEF PrepareForUpdate, Prepared, Identity, VersionNow, Here, saved, cloud, Kept, On
  <2> SUFFICES ASSUME NEW q \in Worker, q # w PROVE job'[q] # "verified"
    BY <2>1 DEF VerifiedInv, Here
  <2> QED
    BY StepHolds, StepFrame DEF Running, Own
<1>2. CASE ~PrepareForUpdate(w)
  <2>1. CASE Expire(w)
    BY <2>1 DEF Expire, VerifiedInv, Here, cloud, saved
  <2>2. CASE ~Expire(w)
    <3>1. job'[w] # "verified"
      <4> USE DEF Kept, On
      <4>1. CASE Preview(w) \/ RerunFailed(w) \/ Select(w) \/ PrepareForPlan(w)
        BY <4>1 DEF Preview, RerunFailed, Select, PrepareForPlan, Starts, To
      <4>2. CASE PreviewStack(w) \/ PassGates(w) \/ BeginUpdate(w) \/ CompleteUpdate(w)
        BY <4>2 DEF PreviewStack, PassGates, BeginUpdate, CompleteUpdate, NextStack, Starts, To
      <4>3. CASE StopUpdate(w) \/ LoseUpdate(w) \/ CheckDrift(w) \/ Fail(w)
        BY <4>3 DEF StopUpdate, LoseUpdate, CheckDrift, Fail, Ends, To
      <4> QED
        BY <1>2, <2>2, <4>1, <4>2, <4>3 DEF StepOf
    <3>2. \A q \in Worker \ {w} : job'[q] # "verified"
      BY StepHolds, StepFrame DEF Running, Own
    <3> QED
      BY <3>1, <3>2 DEF VerifiedInv
  <2> QED
    BY <2>1, <2>2
<1> QED
  BY <1>1, <1>2

LEMMA WorkerKeeps ==
  ASSUME Inv, NEW w \in Worker, StepOf(w)
  PROVE  Inv'
BY StepKept, GroupKept, OrderKept, VerifiedKept DEF Inv

\* People do not belong to the group, but they sign what they write.
LEMMA PeopleKeep ==
  ASSUME Inv, People
  PROVE  Inv'
<1> USE DEF Inv
<1>1. Kept' /\ UNCHANGED worker
  BY PeopleFrame
<1>2. GroupInv' /\ OrderInv'
  BY <1>1 DEF worker, GroupInv, OrderInv, Running, Applying, Earlier
<1>3. VerifiedInv'
  <2> SUFFICES ASSUME NEW w \in Worker, job[w] = "verified"
               PROVE  \/ checkpoint'[Here(w)].version = binding[w].version
                      \/ checkpoint'[Here(w)].by = "person"
    BY <1>1 DEF worker, saved, VerifiedInv, Here
  <2>1. Here(w) \in Stack
    BY ListedStacks DEF Kept, Here
  <2>2. checkpoint'[Here(w)] = checkpoint[Here(w)] \/ checkpoint'[Here(w)].by = "person"
    BY <2>1, PeopleFrame
  <2> QED
    BY <2>2 DEF VerifiedInv
<1> QED
  BY <1>1, <1>2, <1>3

LEMMA InitInv == Init => Inv
<1> SUFFICES ASSUME Init PROVE Inv
  OBVIOUS
<1>1. Kept
  BY Places DEF Init, Kept, On
<1>2. \A w \in Worker : ~Running(w) /\ ~Applying(w) /\ job[w] # "verified"
  BY DEF Init, Running, Applying
<1> QED
  BY <1>1, <1>2 DEF Inv, OrderInv, GroupInv, VerifiedInv

LEMMA Invariance == Spec => []Inv
<1>1. Inv /\ [Next]_vars => Inv'
  <2> SUFFICES ASSUME Inv, [Next]_vars PROVE Inv'
    OBVIOUS
  <2>1. CASE UNCHANGED vars
    BY <2>1
    DEF vars, Inv, Kept, On, OrderInv, GroupInv, VerifiedInv, Running, Applying, Earlier, Here
  <2>2. CASE Next
    BY <2>2, WorkerKeeps, PeopleKeep DEF Next, StepOf
  <2> QED
    BY <2>1, <2>2
<1> QED
  BY <1>1, InitInv, PTL DEF Spec

-----------------------------------------------------------------------------
(* The theorems.                                                           *)

\* The saved plans of a worker are applied in the order of its stacks, over all
\* its attempts: a stack waits until those before it are applied in full.
THEOREM StacksUpdatedInOrder == Spec => EarlierStacksFirst
<1>1. Inv /\ [Next]_vars =>
        [\A w \in Worker : (job[w] = "verified" /\ job'[w] = "updating") =>
           {Stacks[i] : i \in 1..(at[w] - 1)} \subseteq completed[w]]_vars
  BY DEF Inv, OrderInv, Applying, Earlier
<1> QED
  BY <1>1, Invariance, PTL DEF Spec, EarlierStacksFirst

\* No worker and no earlier attempt writes a stack between its plan and its
\* update; a person can, but only after the identity of the stack was verified.
THEOREM UpdatesStartAsPlanned == Spec => StartsFromPlannedCheckpoint
<1>1. Inv /\ [Next]_vars =>
        [\A w \in Worker : (job[w] = "verified" /\ job'[w] = "updating") =>
           \/ checkpoint[Here(w)].version = manifest[w][Here(w)].version
           \/ /\ checkpoint[Here(w)].by = "person"
              /\ binding[w].version = manifest[w][Here(w)].version]_vars
  BY DEF Inv, VerifiedInv
<1> QED
  BY <1>1, Invariance, PTL DEF Spec, StartsFromPlannedCheckpoint
-----------------------------------------------------------------------------
(* What the gates have read, and what of it an update does.                *)

IsStep(st) ==
  \E u \in Urn : \E old, new \in VersionsOf(u) : old # new /\ st = Step(u, old, new)

LiveInv ==
  /\ On(live, Stack)
  /\ \A s \in Stack : On(live[s], Urn) /\ \A u \in Urn : live[s][u] \in VersionsOf(u)

\* The plans hold what the previews have shown.
Recorded(w) ==
  /\ On(preview[w], Stack) /\ On(plan[w], Stack)
  /\ \A s \in Stack : /\ plan[w][s] = Goals(preview[w][s])
                      /\ \A st \in preview[w][s] : IsStep(st)
  /\ \A st \in update[w] : IsStep(st)

Planning(w) == job[w] \in {"plan", "planPrepares", "previewing"}

\* The job of a worker is the last one its run has reached.
Phase(w) ==
  /\ Planning(w) => reached[w] = "plan"
  /\ job[w] = "gates" => reached[w] = "gates"
  /\ Applying(w) => reached[w] = "apply"
  /\ job[w] = "drift" => reached[w] = "drift"

Gated(w) ==
  reached[w] \in {"apply", "drift"} =>
    LET previews == {preview[w][s] : s \in Stack}
    IN  DestructiveGate(previews) /\ IamGate(previews)

\* The pack has accepted what was known of the stack.
Previewed(c, s) == \E resources : PackAccepts(Shown(resources, Program[c][s]))

AllPreviewed(w) ==
  /\ reached[w] # "plan" => \A s \in Stack : Previewed(source[w], s)
  /\ Planning(w) => \A s \in Earlier(w) : Previewed(source[w], s)

Sound(w) == Recorded(w) /\ Phase(w) /\ Gated(w) /\ AllPreviewed(w)

ReviewInv ==
  /\ LiveInv
  /\ On(preview, Worker) /\ On(plan, Worker) /\ On(update, Worker)
  /\ source \in [Worker -> Commit]
  /\ \A w \in Worker : Sound(w)

\* What Sound speaks of.
Trace(q) == <<job[q], at[q], reached[q], source[q], preview[q], plan[q], update[q]>>

LEMMA SoundFrame ==
  ASSUME NEW q \in Worker, Sound(q), UNCHANGED Trace(q)
  PROVE  Sound(q)'
<1> USE DEF Trace
<1>1. Recorded(q)'
  BY DEF Sound, Recorded
<1>2. Phase(q)' /\ Gated(q)' /\ AllPreviewed(q)'
  BY DEF Sound, Phase, Gated, AllPreviewed, Applying, Planning, Earlier
<1> QED
  BY <1>1, <1>2 DEF Sound

LEMMA TraceFrame ==
  ASSUME Kept, ReviewInv, NEW w \in Worker, StepOf(w), NEW q \in Worker, q # w
  PROVE  UNCHANGED Trace(q)
<1> USE DEF Kept, ReviewInv, On, Trace
<1>1. CASE Preview(w) \/ RerunFailed(w) \/ Select(w) \/ PrepareForPlan(w) \/ PrepareForUpdate(w)
  BY <1>1 DEF Preview, RerunFailed, Select, PrepareForPlan, PrepareForUpdate, Prepared, Starts,
              To, saved
<1>2. CASE PreviewStack(w) \/ PassGates(w) \/ Expire(w) \/ BeginUpdate(w) \/ CompleteUpdate(w)
  BY <1>2 DEF PreviewStack, PassGates, Expire, BeginUpdate, CompleteUpdate, SavePlan, BindPlan,
              NextStack, Starts, To, saved
<1>3. CASE StopUpdate(w) \/ LoseUpdate(w) \/ CheckDrift(w) \/ Fail(w)
  BY <1>3 DEF StopUpdate, LoseUpdate, CheckDrift, Fail, Ends, To, saved
<1> QED
  BY <1>1, <1>2, <1>3 DEF StepOf

\* The variables stay functions.
LEMMA ReviewShape ==
  ASSUME Kept, ReviewInv, NEW w \in Worker, StepOf(w)
  PROVE  /\ On(preview', Worker) /\ On(plan', Worker) /\ On(update', Worker)
         /\ source' = source
<1> USE DEF ReviewInv, On
<1>1. CASE Preview(w) \/ RerunFailed(w) \/ Select(w) \/ PrepareForPlan(w) \/ PrepareForUpdate(w)
  BY <1>1 DEF Preview, RerunFailed, Select, PrepareForPlan, PrepareForUpdate, saved
<1>2. CASE PreviewStack(w)
  BY <1>2 DEF PreviewStack, SavePlan
<1>3. CASE PassGates(w) \/ Expire(w) \/ BeginUpdate(w) \/ CompleteUpdate(w)
  BY <1>3 DEF PassGates, Expire, BeginUpdate, CompleteUpdate, saved
<1>4. CASE StopUpdate(w) \/ LoseUpdate(w) \/ CheckDrift(w) \/ Fail(w)
  BY <1>4 DEF StopUpdate, LoseUpdate, CheckDrift, Fail, saved
<1> QED
  BY <1>1, <1>2, <1>3, <1>4 DEF StepOf

\* The steps between what is there and what a commit wants.
LEMMA StepsAreSteps ==
  ASSUME LiveInv, NEW s \in Stack, NEW c \in Commit
  PROVE  \A st \in Steps(live[s], Program[c][s]) : IsStep(st)
<1> SUFFICES ASSUME NEW u \in Changed(live[s], Program[c][s])
             PROVE  IsStep(Step(u, live[s][u], Program[c][s][u]))
  BY DEF Steps
<1>1. u \in Urn /\ live[s][u] # Program[c][s][u]
  BY DEF Changed
<1>2. live[s][u] \in VersionsOf(u) /\ Program[c][s][u] \in VersionsOf(u)
  BY <1>1, ProgramConstants DEF LiveInv
<1> QED
  BY <1>1, <1>2 DEF IsStep

\* An update, however it ends, does steps it may do.
LEMMA Performed ==
  ASSUME NEW w \in Worker, CompleteUpdate(w) \/ StopUpdate(w) \/ LoseUpdate(w)
  PROVE  /\ \E steps \in SUBSET Performable(w) : Perform(w, steps)
         /\ update' = [update EXCEPT ![w] = {}] /\ UNCHANGED <<preview, plan>>
<1>1. Performable(w) \subseteq update[w]
  BY DEF Performable
<1>2. CASE CompleteUpdate(w)
  BY <1>1, <1>2 DEF CompleteUpdate, saved
<1>3. CASE StopUpdate(w)
  BY <1>3 DEF StopUpdate, saved
<1>4. CASE LoseUpdate(w)
  BY <1>4 DEF LoseUpdate, saved
<1> QED
  BY <1>2, <1>3, <1>4

\* What is at a resource after an update was there, or a step has put it there.
LEMMA PerformedAt ==
  ASSUME Kept, LiveInv, NEW w \in Worker, NEW steps \in SUBSET Performable(w),
         Perform(w, steps)
  PROVE  /\ On(live', Stack)
         /\ \A s \in Stack : On(live'[s], Urn)
         /\ \A s \in Stack, u \in Urn :
              \/ live'[s][u] = live[s][u]
              \/ s = Here(w) /\ \E st \in steps : st.urn = u /\ st.to = live'[s][u]
<1> DEFINE target(u) == (CHOOSE st \in steps : st.urn = u).to
           old == live[Here(w)]
           new == [u \in Urn |-> IF \E st \in steps : st.urn = u THEN target(u) ELSE old[u]]
<1>1. live' = [live EXCEPT ![Here(w)] = new]
  BY DEF Perform
<1>2. \A u \in Urn : \/ new[u] = old[u]
                     \/ \E st \in steps : st.urn = u /\ st.to = new[u]
  <2> SUFFICES ASSUME NEW u \in Urn, \E st \in steps : st.urn = u
               PROVE  \E st \in steps : st.urn = u /\ st.to = new[u]
    OBVIOUS
  <2> DEFINE st1 == CHOOSE st \in steps : st.urn = u
  <2>1. st1 \in steps /\ st1.urn = u
    OBVIOUS
  <2>2. new[u] = st1.to
    OBVIOUS
  <2> QED
    BY <2>1, <2>2
<1>3. On(new, Urn)
  BY DEF On
<1>4. Here(w) \in Stack
  BY ListedStacks DEF Kept, Here
<1> HIDE DEF new
<1> QED
  BY <1>1, <1>2, <1>3, <1>4 DEF LiveInv, On

LEMMA LiveKept ==
  ASSUME Kept, ReviewInv, NEW w \in Worker, StepOf(w)
  PROVE  LiveInv'
<1>1. CASE CompleteUpdate(w) \/ StopUpdate(w) \/ LoseUpdate(w)
  <2>1. PICK steps \in SUBSET Performable(w) : Perform(w, steps)
    BY <1>1, Performed
  <2>2. \A st \in steps : IsStep(st)
    BY DEF Performable, ReviewInv, Sound, Recorded
  <2>3. \A st \in steps : st.to \in VersionsOf(st.urn)
    <3> SUFFICES ASSUME NEW st \in steps
                 PROVE  st.to \in VersionsOf(st.urn)
      OBVIOUS
    <3>1. PICK u \in Urn : \E old, new \in VersionsOf(u) : st = Step(u, old, new)
      BY <2>2 DEF IsStep
    <3>2. PICK old, new \in VersionsOf(u) : st = Step(u, old, new)
      BY <3>1
    <3> QED
      BY <3>2 DEF Step
  <2> QED
    BY <2>1, <2>3, PerformedAt DEF ReviewInv, LiveInv
<1>2. CASE live' = live
  BY <1>2 DEF ReviewInv, LiveInv
<1>3. CASE Preview(w) \/ RerunFailed(w) \/ Select(w) \/ PrepareForPlan(w)
            \/ PrepareForUpdate(w) \/ PreviewStack(w) \/ PassGates(w) \/ Expire(w)
  BY <1>2, <1>3 DEF Preview, RerunFailed, Select, PrepareForPlan, PrepareForUpdate,
                    PreviewStack, PassGates, Expire, cloud
<1>4. CASE BeginUpdate(w) \/ CheckDrift(w) \/ Fail(w)
  BY <1>2, <1>4 DEF BeginUpdate, CheckDrift, Fail, cloud
<1> QED
  BY <1>1, <1>3, <1>4 DEF StepOf

LEMMA RecordedKept ==
  ASSUME Kept, ReviewInv, NEW w \in Worker, StepOf(w)
  PROVE  Recorded(w)'
<1> USE DEF On
<1>1. Recorded(w) /\ LiveInv /\ Here(w) \in Stack /\ source[w] \in Commit
  BY ListedStacks DEF ReviewInv, Sound, Kept, Here
<1>2. \A st \in Steps(live[Here(w)], Goal(w)) : IsStep(st)
  BY <1>1, StepsAreSteps DEF Goal
<1>3. CASE Preview(w)
  <2>1. /\ preview'[w] = [s \in Stack |-> {}] /\ plan'[w] = [s \in Stack |-> {}]
        /\ update' = update
    BY <1>3 DEF Preview, ReviewInv
  <2> QED
    BY <1>1, <2>1 DEF Recorded, Goals
<1>4. CASE PreviewStack(w)
  <2> DEFINE steps == Steps(live[Here(w)], Goal(w))
  <2>1. /\ preview'[w] = [preview[w] EXCEPT ![Here(w)] = steps]
        /\ plan'[w] = [plan[w] EXCEPT ![Here(w)] = Goals(steps)]
        /\ update' = update
    BY <1>4 DEF PreviewStack, SavePlan, ReviewInv
  <2> HIDE DEF steps
  <2>2. \A st \in steps : IsStep(st)
    BY <1>2 DEF steps
  <2> QED
    BY <1>1, <2>1, <2>2 DEF Recorded
<1>5. CASE BeginUpdate(w)
  <2>1. /\ UNCHANGED <<preview, plan>>
        /\ update'[w] = Steps(live[Here(w)], Goal(w))
    BY <1>5 DEF BeginUpdate, saved, ReviewInv
  <2> QED
    BY <1>1, <1>2, <2>1 DEF Recorded
<1>6. CASE CompleteUpdate(w) \/ StopUpdate(w) \/ LoseUpdate(w)
  <2>1. UNCHANGED <<preview, plan>> /\ update'[w] = {}
    BY <1>6, Performed DEF ReviewInv
  <2> QED
    BY <1>1, <2>1 DEF Recorded
<1>7. CASE RerunFailed(w) \/ Select(w) \/ PrepareForPlan(w) \/ PrepareForUpdate(w)
            \/ PassGates(w) \/ Expire(w) \/ CheckDrift(w) \/ Fail(w)
  <2>1. UNCHANGED <<preview, plan, update>>
    BY <1>7 DEF RerunFailed, Select, PrepareForPlan, PrepareForUpdate, PassGates, Expire,
                CheckDrift, Fail, saved
  <2> QED
    BY <1>1, <2>1 DEF Recorded
<1> QED
  BY <1>3, <1>4, <1>5, <1>6, <1>7 DEF StepOf

LEMMA PhaseKept ==
  ASSUME Kept, ReviewInv, NEW w \in Worker, StepOf(w)
  PROVE  Phase(w)'
<1> USE DEF Kept, On, Phase, Planning, Applying
<1>1. Phase(w)
  BY DEF ReviewInv, Sound
<1>2. CASE Preview(w) \/ RerunFailed(w)
  BY <1>2 DEF Preview, RerunFailed, Starts, To
<1>3. CASE Select(w) \/ PrepareForPlan(w) \/ PrepareForUpdate(w) \/ Expire(w)
            \/ BeginUpdate(w)
  BY <1>1, <1>3 DEF Select, PrepareForPlan, PrepareForUpdate, Prepared, Expire,
                    BeginUpdate, To
<1>4. CASE PreviewStack(w) \/ PassGates(w) \/ CompleteUpdate(w)
  <2>1. CASE job'[w] = reached'[w]
    BY <2>1, StepKept
  <2>2. CASE PreviewStack(w) /\ job'[w] = "plan" /\ reached' = reached
    BY <1>1, <2>2 DEF PreviewStack
  <2>3. CASE CompleteUpdate(w) /\ job'[w] = "apply" /\ reached' = reached
    BY <1>1, <2>3 DEF CompleteUpdate
  <2>4. CASE PassGates(w)
    BY <2>1, <2>4 DEF PassGates, Starts, To
  <2>5. CASE PreviewStack(w)
    BY <2>1, <2>2, <2>5 DEF PreviewStack, NextStack, Starts, To
  <2>6. CASE CompleteUpdate(w)
    BY <2>1, <2>3, <2>6 DEF CompleteUpdate, NextStack, Starts, To
  <2> QED
    BY <1>4, <2>4, <2>5, <2>6
<1>5. CASE StopUpdate(w) \/ LoseUpdate(w) \/ Fail(w)
  BY <1>5 DEF StopUpdate, LoseUpdate, Fail, Ends, To
<1>6. CASE CheckDrift(w)
  BY <1>1, <1>6 DEF CheckDrift, Ends, To
<1> QED
  BY <1>2, <1>3, <1>4, <1>5, <1>6 DEF StepOf

\* Only a preview changes what the gates have read, and then they read again.
LEMMA GatedKept ==
  ASSUME Kept, ReviewInv, NEW w \in Worker, StepOf(w)
  PROVE  Gated(w)'
<1> USE DEF Kept, On
<1>1. Gated(w) /\ Phase(w)
  BY DEF ReviewInv, Sound
<1>2. CASE Preview(w)
  <2>1. reached'[w] = "plan"
    BY <1>2 DEF Preview, Starts
  <2> QED
    BY <2>1 DEF Gated
<1>3. CASE PreviewStack(w)
  <2>1. reached[w] = "plan"
    BY <1>1, <1>3 DEF PreviewStack, Phase, Planning
  <2>2. reached'[w] \in {"plan", "gates"}
    BY <1>3, <2>1 DEF PreviewStack, NextStack, Starts
  <2> QED
    BY <2>2 DEF Gated
<1>4. CASE PassGates(w)
  <2> DEFINE previews == {preview[w][s] : s \in Stack}
  <2>1. preview' = preview /\ DestructiveGate(previews) /\ IamGate(previews)
    BY <1>4 DEF PassGates, saved
  <2> QED
    BY <2>1 DEF Gated
<1>5. CASE CompleteUpdate(w)
  <2>1. preview' = preview /\ reached[w] = "apply"
    BY <1>1, <1>5 DEF CompleteUpdate, saved, Phase, Applying
  <2> QED
    BY <1>1, <2>1 DEF Gated
<1>6. CASE RerunFailed(w)
  <2>1. preview' = preview /\ reached' = reached
    BY <1>6 DEF RerunFailed, Starts, saved
  <2> QED
    BY <1>1, <2>1 DEF Gated
<1>7. CASE Select(w) \/ PrepareForPlan(w) \/ PrepareForUpdate(w) \/ Expire(w)
            \/ BeginUpdate(w)
  <2>1. preview' = preview /\ reached' = reached
    BY <1>7 DEF Select, PrepareForPlan, PrepareForUpdate, Expire, BeginUpdate, saved
  <2> QED
    BY <1>1, <2>1 DEF Gated
<1>8. CASE StopUpdate(w) \/ LoseUpdate(w) \/ CheckDrift(w) \/ Fail(w)
  <2>1. preview' = preview /\ reached' = reached
    BY <1>8 DEF StopUpdate, LoseUpdate, CheckDrift, Fail, saved
  <2> QED
    BY <1>1, <2>1 DEF Gated
<1> QED
  BY <1>2, <1>3, <1>4, <1>5, <1>6, <1>7, <1>8 DEF StepOf

\* A run that has left its plan job has previewed every stack.
LEMMA AllPreviewedKept ==
  ASSUME Kept, ReviewInv, NEW w \in Worker, StepOf(w)
  PROVE  AllPreviewed(w)'
<1> USE DEF Kept, On
<1>1. AllPreviewed(w) /\ Phase(w) /\ source' = source
  BY ReviewShape DEF ReviewInv, Sound
<1>2. CASE Preview(w)
  <2>1. reached'[w] = "plan" /\ at'[w] = 1
    BY <1>2 DEF Preview, Starts
  <2> QED
    BY <2>1 DEF AllPreviewed, Earlier
<1>3. CASE PreviewStack(w)
  <2>1. Previewed(source[w], Here(w))
    BY <1>3 DEF PreviewStack, Previewed, Goal
  <2>2. Planning(w) /\ reached[w] = "plan"
    BY <1>1, <1>3 DEF PreviewStack, Phase, Planning
  <2>3. at[w] \in Nat \ {0} /\ at[w] \in 1..Len(Stacks) /\ Len(Stacks) \in Nat
    BY PlanConstants
  <2>4. \A i \in 1..at[w] : Previewed(source[w], Stacks[i])
    <3> SUFFICES ASSUME NEW i \in 1..at[w]
                 PROVE  Previewed(source[w], Stacks[i])
      OBVIOUS
    <3>1. CASE i = at[w]
      BY <2>1, <3>1 DEF Here
    <3>2. CASE i # at[w]
      <4>1. i \in 1..(at[w] - 1)
        BY <2>3, <3>2
      <4>2. Stacks[i] \in Earlier(w)
        BY <4>1 DEF Earlier
      <4> QED
        BY <1>1, <2>2, <4>2 DEF AllPreviewed
    <3> QED
      BY <3>1, <3>2
  <2>5. CASE at[w] < Len(Stacks)
    <3>1. at'[w] = at[w] + 1 /\ reached'[w] = "plan"
      BY <1>3, <2>2, <2>5 DEF PreviewStack, NextStack
    <3>2. \A i \in 1..(at'[w] - 1) : i \in 1..at[w]
      BY <2>3, <3>1
    <3>3. \A s \in Earlier(w)' : Previewed(source[w], s)
      BY <2>4, <3>2 DEF Earlier
    <3> QED
      BY <1>1, <3>1, <3>3 DEF AllPreviewed
  <2>6. CASE ~(at[w] < Len(Stacks))
    <3>1. job'[w] = "gates"
      BY <1>3, <2>6 DEF PreviewStack, NextStack, Starts, To
    <3>2. \A i \in DOMAIN Stacks : i \in 1..at[w]
      BY <2>3, <2>6, PlanConstants
    <3>3. \A s \in Stack : Previewed(source[w], s)
      BY <2>4, <3>2 DEF Stack
    <3> QED
      BY <1>1, <3>1, <3>3 DEF AllPreviewed, Planning
  <2> QED
    BY <2>5, <2>6
<1>4. CASE PassGates(w) \/ CompleteUpdate(w)
  <2>1. reached[w] # "plan"
    BY <1>1, <1>4 DEF PassGates, CompleteUpdate, Phase, Applying
  <2>2. ~Planning(w)'
    BY <1>4 DEF PassGates, CompleteUpdate, NextStack, Starts, To, Planning
  <2> QED
    BY <1>1, <2>1, <2>2 DEF AllPreviewed
<1>5. CASE RerunFailed(w)
  <2>1. reached[w] # "plan" /\ job'[w] = reached[w]
    BY <1>5 DEF RerunFailed, Starts, To
  <2> QED
    BY <1>1, <2>1 DEF AllPreviewed, Planning
<1>6. CASE Select(w) \/ PrepareForPlan(w) \/ PrepareForUpdate(w) \/ Expire(w)
            \/ BeginUpdate(w)
  <2>1. reached' = reached /\ at' = at /\ (Planning(w)' => Planning(w))
    BY <1>6 DEF Select, PrepareForPlan, PrepareForUpdate, Prepared, Expire, BeginUpdate,
                Planning, To
  <2> QED
    BY <1>1, <2>1 DEF AllPreviewed, Earlier
<1>7. CASE StopUpdate(w) \/ LoseUpdate(w) \/ Fail(w)
  <2>1. reached' = reached /\ ~Planning(w)'
    BY <1>7 DEF StopUpdate, LoseUpdate, Fail, Ends, To, Planning
  <2> QED
    BY <1>1, <2>1 DEF AllPreviewed
<1>8. CASE CheckDrift(w)
  <2>1. reached' = reached /\ ~Planning(w)'
    BY <1>8 DEF CheckDrift, Ends, To, Planning
  <2> QED
    BY <1>1, <2>1 DEF AllPreviewed
<1> QED
  BY <1>2, <1>3, <1>4, <1>5, <1>6, <1>7, <1>8 DEF StepOf

LEMMA WorkerReviews ==
  ASSUME Kept, ReviewInv, NEW w \in Worker, StepOf(w)
  PROVE  ReviewInv'
<1>1. Sound(w)'
  BY RecordedKept, PhaseKept, GatedKept, AllPreviewedKept DEF Sound
<1>2. ASSUME NEW q \in Worker, q # w
      PROVE  Sound(q)'
  BY <1>2, TraceFrame, SoundFrame DEF ReviewInv
<1> QED
  BY <1>1, <1>2, LiveKept, ReviewShape DEF ReviewInv

\* What people change of a stack are its versions.
LEMMA PeopleReview ==
  ASSUME Kept, ReviewInv, People
  PROVE  ReviewInv'
<1>1. UNCHANGED worker
  BY PeopleFrame
<1>2. LiveInv'
  <2> USE DEF LiveInv, On
  <2>1. LiveInv
    BY DEF ReviewInv
  <2>2. CASE live' = live
    BY <2>1, <2>2
  <2>3. ASSUME NEW s \in Stack, NEW c \in Commit, UpdateByHand(s, c)
        PROVE  LiveInv'
    <3>1. live' = [live EXCEPT ![s] = Program[c][s]]
      BY <2>3 DEF UpdateByHand
    <3>2. /\ On(Program[c][s], Urn)
          /\ \A u \in Urn : Program[c][s][u] \in VersionsOf(u)
      BY PlanConstants, ProgramConstants DEF PlanConstants
    <3> QED
      BY <2>1, <3>1, <3>2
  <2>4. ASSUME NEW s \in Stack, NEW u \in Urn, NEW v \in VersionsOf(u),
               ChangeInConsole(s, u, v)
        PROVE  LiveInv'
    <3> DEFINE new == [live[s] EXCEPT ![u] = v]
    <3>1. live' = [live EXCEPT ![s] = new]
      BY <2>4 DEF ChangeInConsole
    <3>2. On(new, Urn) /\ \A x \in Urn : new[x] \in VersionsOf(x)
      BY <2>1
    <3> HIDE DEF new
    <3> QED
      BY <2>1, <3>1, <3>2
  <2>5. CASE (\E s \in Stack : InitializeStack(s) \/ Repair(s)) \/ RetargetKey
    BY <2>2, <2>5 DEF InitializeStack, Repair, RetargetKey, cloud
  <2> QED
    BY <2>3, <2>4, <2>5 DEF People
<1>3. \A q \in Worker : Sound(q)'
  BY <1>1, SoundFrame DEF ReviewInv, Trace, worker, saved
<1> QED
  BY <1>1, <1>2, <1>3 DEF ReviewInv, worker, saved

LEMMA InitReview == Init => ReviewInv
<1> SUFFICES ASSUME Init PROVE ReviewInv
  OBVIOUS
<1>1. LiveInv
  BY PlanConstants, ProgramConstants DEF Init, PlanConstants, LiveInv, On
<1>2. source \in [Worker -> Commit] /\ On(preview, Worker) /\ On(plan, Worker)
        /\ On(update, Worker)
  BY DEF Init, On
<1>3. ASSUME NEW w \in Worker
      PROVE  Sound(w)
  <2>1. Recorded(w)
    BY DEF Init, Recorded, On, Goals
  <2>2. Phase(w) /\ Gated(w) /\ AllPreviewed(w)
    BY DEF Init, Phase, Gated, AllPreviewed, Planning, Applying
  <2> QED
    BY <2>1, <2>2 DEF Sound
<1> QED
  BY <1>1, <1>2, <1>3 DEF ReviewInv

LEMMA ReviewInvariance == Spec => []ReviewInv
<1>1. Inv /\ ReviewInv /\ [Next]_vars => ReviewInv'
  <2> SUFFICES ASSUME Inv, ReviewInv, [Next]_vars PROVE ReviewInv'
    OBVIOUS
  <2>1. CASE UNCHANGED vars
    <3>1. \A q \in Worker : Sound(q)'
      BY <2>1, SoundFrame DEF ReviewInv, Trace, vars
    <3> QED
      BY <2>1, <3>1 DEF vars, ReviewInv, LiveInv, On
  <2>2. CASE Next
    BY <2>2, WorkerReviews, PeopleReview DEF Inv, Next, StepOf
  <2> QED
    BY <2>1, <2>2
<1> QED
  BY <1>1, InitReview, Invariance, PTL DEF Spec

-----------------------------------------------------------------------------
(* A worker that is no longer updating has done steps of its plan.         *)

LEMMA EndOfUpdate ==
  ASSUME Inv, ReviewInv, [Next]_vars, NEW w \in Worker, Ended(w)
  PROVE  \E steps \in SUBSET Performable(w) : Perform(w, steps)
<1> USE DEF Ended
<1>1. CASE UNCHANGED vars
  BY <1>1 DEF vars
<1>2. CASE People
  BY <1>2, PeopleFrame DEF Inv, worker
<1>3. ASSUME NEW q \in Worker, q # w, StepOf(q)
      PROVE  FALSE
  BY <1>3, StepFrame DEF Inv, Own
<1>4. CASE StepOf(w)
  <2>1. CompleteUpdate(w) \/ StopUpdate(w) \/ LoseUpdate(w)
    BY <1>4 DEF StepOf, Preview, RerunFailed, Select, PrepareForPlan, PrepareForUpdate,
                PreviewStack, PassGates, Expire, BeginUpdate, CheckDrift, Fail
  <2> QED
    BY <2>1, Performed
<1> QED
  BY <1>1, <1>2, <1>3, <1>4 DEF Next, StepOf

\* The type of a step is that of every version of its resource.
LEMMA StepType ==
  ASSUME NEW st, IsStep(st), NEW other, IsStep(other), st.urn = other.urn
  PROVE  st.type = other.type
<1>1. PICK u \in Urn : \E old, new \in VersionsOf(u) : old # new /\ st = Step(u, old, new)
  BY DEF IsStep
<1>2. PICK v \in Urn : \E old, new \in VersionsOf(v) : old # new /\ other = Step(v, old, new)
  BY DEF IsStep
<1>3. u = v
  BY <1>1, <1>2 DEF Step
<1>4. PICK x \in VersionsOf(u) : x # None /\ st.type = Inputs[x].type
  BY <1>1 DEF Step
<1>5. PICK y \in VersionsOf(u) : y # None /\ other.type = Inputs[y].type
  BY <1>2, <1>3 DEF Step
<1>6. /\ x \in DOMAIN Inputs /\ y \in DOMAIN Inputs
      /\ Inputs[x].urn = u /\ Inputs[y].urn = u
  BY <1>4, <1>5 DEF VersionsOf
<1> QED
  BY <1>4, <1>5, <1>6, ProgramConstants

\* Whatever an update has done was in the preview the gates have read, and in
\* no way of those the gates and the pack refuse.
THEOREM WorkersDoWhatWasReviewed == Spec => UpdatesAreReviewed
<1> DEFINE Fine(w, s, u) ==
      \E st \in update[w] :
        /\ st.urn = u /\ st.to = live'[s][u]
        /\ Goals({st}) \subseteq Goals(preview[w][s])
        /\ st.op \in {"delete", "replace"} => st.type \notin CriticalTypes
        /\ st.to # None => Harmless(st.to)
<1>1. ASSUME Inv, ReviewInv, [Next]_vars, NEW w \in Worker, NEW s \in Stack, NEW u \in Urn,
             BuiltBy(w, s, u)
      PROVE  Fine(w, s, u)
  <2>1. Ended(w) /\ s = Here(w) /\ live'[s][u] # live[s][u]
    BY <1>1 DEF BuiltBy
  <2>2. PICK steps \in SUBSET Performable(w) : Perform(w, steps)
    BY <1>1, <2>1, EndOfUpdate
  <2>3. PICK st \in steps : st.urn = u /\ st.to = live'[s][u]
    BY <1>1, <2>1, <2>2, PerformedAt DEF Inv, ReviewInv
  <2>4. /\ st \in update[w] /\ Goals({st}) \subseteq plan[w][s]
        /\ st.to # None => ResourceAccepted(Inputs[st.to])
    BY <2>1 DEF Performable, Planned
  <2>5. Sound(w) /\ job[w] = "updating"
    BY <1>1, <2>1 DEF ReviewInv, Ended
  <2>6. Goals({st}) \subseteq Goals(preview[w][s])
    BY <2>4, <2>5 DEF Sound, Recorded
  <2>7. PICK seen \in preview[w][s] : seen.urn = st.urn /\ seen.op = st.op /\ seen.to = st.to
    <3> DEFINE goal == [urn |-> st.urn, op |-> st.op, to |-> st.to]
    <3>1. goal \in Goals(preview[w][s])
      BY <2>6 DEF Goals
    <3> QED
      BY <3>1 DEF Goals
  <2>8. IsStep(st) /\ IsStep(seen)
    BY <2>4, <2>5 DEF Sound, Recorded
  <2>9. DestructiveSteps(preview[w][s]) = {}
    <3> DEFINE previews == {preview[w][t] : t \in Stack}
    <3>1. DestructiveGate(previews)
      BY <2>5 DEF Sound, Phase, Applying, Gated
    <3>2. preview[w][s] \in previews
      OBVIOUS
    <3> HIDE DEF previews
    <3> QED
      BY <3>1, <3>2 DEF DestructiveGate
  <2>10. st.op \in {"delete", "replace"} => st.type \notin CriticalTypes
    BY <2>7, <2>8, <2>9, StepType DEF DestructiveSteps, DestructiveOps
  <2>11. st.to # None => Harmless(st.to)
    BY <2>4 DEF ResourceAccepted, Harmless
  <2> QED
    BY <2>3, <2>4, <2>6, <2>10, <2>11
<1>2. Inv /\ ReviewInv /\ [Next]_vars =>
        [\A w \in Worker, s \in Stack, u \in Urn : BuiltBy(w, s, u) => Fine(w, s, u)]_vars
  BY <1>1
<1> QED
  BY <1>2, Invariance, ReviewInvariance, PTL DEF Spec, UpdatesAreReviewed

\* What the pack sees of a bucket, or of what speaks for it, is so: an input it
\* knows is the one it will have, and it takes nothing it does not know.
LEMMA KnownIsSo ==
  ASSUME NEW old, NEW v \in DOMAIN Inputs
  PROVE  LET k == Known(old, v)
         IN  /\ k.type = Inputs[v].type /\ k.urn = Inputs[v].urn
             /\ k.bucketUrns = Inputs[v].bucketUrns
             /\ k.name # Unknown => k.name = Inputs[v].name
             /\ k.owner # Unknown => k.owner = Inputs[v].owner
             /\ Encrypts(k) => Encrypts(Inputs[v])
<1>1. /\ {"urn", "type", "name", "owner", "bucketUrns", "encryption"} \subseteq DOMAIN Inputs[v]
      /\ Late[v] \cap {"urn", "type", "bucketUrns"} = {}
  BY ProgramConstants
<1>2. ASSUME NEW f \in {"urn", "type", "name", "owner", "bucketUrns", "encryption"}
      PROVE  /\ Known(old, v)[f] # Unknown => Known(old, v)[f] = Inputs[v][f]
             /\ f \notin Late[v] => Known(old, v)[f] = Inputs[v][f]
  BY <1>1 DEF Known
<1>3. Encrypts(Known(old, v)) => Known(old, v).encryption # Unknown
  BY DEF Encrypts, Unknown
<1> QED
  BY <1>1, <1>2, <1>3 DEF Encrypts

\* A bucket the pack has let pass in a preview is encrypted in the stack.
LEMMA PreviewedIsEncrypted ==
  ASSUME NEW c \in Commit, NEW s \in Stack, Previewed(c, s),
         NEW b \in Deployed(Program[c][s]), b.type = "bucket"
  PROVE  \/ Encrypts(b)
         \/ \E e \in Deployed(Program[c][s]) :
              e.type = "bucketEncryption" /\ Encrypts(e) /\ e.owner = b.name
<1> DEFINE goal == Program[c][s]
<1>1. PICK resources : PackAccepts(Shown(resources, goal))
  BY DEF Previewed
<1> DEFINE stack == Shown(resources, goal)
<1>2. \A u \in Wanted(goal) : goal[u] \in DOMAIN Inputs /\ u \in Urn
  BY ProgramConstants DEF Wanted, VersionsOf
<1>3. PICK u \in Wanted(goal) : b = Inputs[goal[u]]
  BY DEF Deployed
<1> DEFINE k == Known(resources[u], goal[u])
<1>4. k \in stack
  BY DEF Shown
<1>5. /\ k.type = "bucket" /\ k.urn = b.urn
      /\ k.name # Unknown => k.name = b.name
      /\ Encrypts(k) => Encrypts(b)
  BY <1>2, <1>3, KnownIsSo
<1>6. Encrypts(k) \/ EncryptedByAnother(stack, k)
  BY <1>1, <1>4, <1>5 DEF PackAccepts, StackAccepted, EncryptionHolds
<1>7. ASSUME EncryptedByAnother(stack, k)
      PROVE  \E e \in Deployed(goal) :
               e.type = "bucketEncryption" /\ Encrypts(e) /\ e.owner = b.name
  <2>1. PICK x \in Wanted(goal) :
          LET l == Known(resources[x], goal[x])
          IN  l.type = "bucketEncryption" /\ Encrypts(l) /\ Names(l, k)
    BY <1>7 DEF EncryptedByAnother, Shown
  <2> DEFINE l == Known(resources[x], goal[x])
             e == Inputs[goal[x]]
  <2>2. /\ e \in Deployed(goal) /\ e.type = "bucketEncryption" /\ Encrypts(e)
        /\ l.bucketUrns = e.bucketUrns
        /\ l.owner # Unknown => l.owner = e.owner
    BY <1>2, <2>1, KnownIsSo DEF Deployed
  <2>3. CASE k.urn \in l.bucketUrns
    <3>1. b.urn \in e.bucketUrns
      BY <1>5, <2>2, <2>3
    <3> QED
      BY <2>2, <3>1, ProgramConstants
  <2>4. CASE ConcreteName(k.name) /\ l.owner = k.name
    BY <1>5, <2>2, <2>4 DEF ConcreteName
  <2> QED
    BY <2>1, <2>3, <2>4 DEF Names
<1> QED
  BY <1>5, <1>6, <1>7

\* An update that is through has left every bucket of the program encrypted,
\* although the rules that say so were asked before the names were known.
THEOREM AppliedIsProtected == Spec => ProtectedWhenApplied
<1> DEFINE Protected(w) ==
      LET all == Deployed(Goal(w))
      IN \A b \in all : b.type = "bucket" =>
           \/ Encrypts(b)
           \/ \E e \in all :
                e.type = "bucketEncryption" /\ Encrypts(e) /\ e.owner = b.name
<1>1. ASSUME Inv, ReviewInv, NEW w \in Worker, Ended(w)
      PROVE  Protected(w)
  <2>1. Here(w) \in Stack /\ source[w] \in Commit
    BY <1>1, ListedStacks DEF Inv, Kept, Here, ReviewInv
  <2>2. Previewed(source[w], Here(w))
    BY <1>1, <2>1 DEF ReviewInv, Sound, Phase, Applying, AllPreviewed, Ended
  <2> QED
    BY <2>1, <2>2, PreviewedIsEncrypted DEF Goal
<1>2. Inv /\ ReviewInv /\ [Next]_vars =>
        [\A w \in Worker : (Ended(w) /\ live'[Here(w)] = Goal(w)) => Protected(w)]_vars
  BY <1>1
<1> QED
  BY <1>2, Invariance, ReviewInvariance, PTL DEF Spec, ProtectedWhenApplied
=============================================================================
