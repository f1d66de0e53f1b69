------------------------ MODULE ReviewedSource_proofs ------------------------
(***************************************************************************)
(* Theorems about the previews of reviewed source, for any number of       *)
(* signals, re-runs, heads, revisions of main and changes of the facts.    *)
(*                                                                         *)
(* Every action changes one attempt, in one of a few ways; the invariants  *)
(* are shown to survive each way, rather than each action.                 *)
(***************************************************************************)
EXTENDS ReviewedSource, TLAPS

-----------------------------------------------------------------------------
(* Types, and the ways in which an attempt changes. *)

LEMMA ItemStep ==
  ASSUME NEW v \in Item, NEW s \in Place
  PROVE  [v EXCEPT !.step = s] \in Item
BY DEF Item

LEMMA ItemJob ==
  ASSUME NEW v \in Item, NEW n \in 1..4
  PROVE  [v EXCEPT !.job = n] \in Item
BY DEF Item

LEMMA ItemPassed ==
  ASSUME NEW v \in Item, NEW n \in 0..3
  PROVE  [v EXCEPT !.passed = n] \in Item
BY DEF Item

LEMMA ItemReviews ==
  ASSUME NEW v \in Item, NEW l \in Seq(Review)
  PROVE  [v EXCEPT !.reviews = l] \in Item
BY DEF Item

LEMMA ItemSound ==
  ASSUME NEW v \in Item, NEW b \in BOOLEAN
  PROVE  [v EXCEPT !.sound = b] \in Item
BY DEF Item

LEMMA ItemVerdict ==
  ASSUME NEW v \in Item, NEW x \in {"pending", "success", "failure"}
  PROVE  [v EXCEPT !.verdict = x] \in Item
BY DEF Item

LEMMA ItemPosted ==
  ASSUME NEW v \in Item, NEW n \in 0..3
  PROVE  [v EXCEPT !.posted = n] \in Item
BY DEF Item

LEMMA ItemFlags ==
  ASSUME NEW v \in Item, NEW b \in BOOLEAN
  PROVE  /\ [v EXCEPT !.announced = TRUE] \in Item
         /\ [v EXCEPT !.cancelled = TRUE] \in Item
         /\ [v EXCEPT !.lost = TRUE] \in Item
         /\ [v EXCEPT !.resumed = b] \in Item
         /\ [v EXCEPT !.steady = b] \in Item
BY DEF Item

LEMMA ItemOrigin ==
  ASSUME NEW v \in Item, NEW n \in Nat, NEW h \in HeadSha
  PROVE  /\ [v EXCEPT !.first = n] \in Item
         /\ [v EXCEPT !.head = h] \in Item
         /\ [v EXCEPT !.sha = n] \in Item
BY DEF Item

\* What no step of an attempt changes, but its announcement.
Same(v, w) ==
  /\ w.head = v.head /\ w.sha = v.sha /\ w.cancelled = v.cancelled
  /\ w.announced = v.announced /\ w.resumed = v.resumed /\ w.steady = v.steady

\* The attempt goes on to another place of its job.
Went(v, w, s) ==
  /\ Same(v, w) /\ w.step = s /\ w.job = v.job /\ w.lost = v.lost
  /\ w.reviews = v.reviews /\ w.sound = v.sound
  /\ w.verdict = v.verdict /\ w.posted = v.posted

\* Its job is over, and the next one begins.
Passed(v, w) ==
  /\ Same(v, w) /\ w.lost = v.lost
  /\ \/ w.step = "main1" /\ w.job \in {2, 3, 4}
     \/ w.step = "boundary" /\ w.job = 4

\* It is about to publish the verdict x.
Publishes(v, w, x) ==
  /\ Same(v, w) /\ w.job = v.job /\ w.lost = v.lost
  /\ w.step = "identity" /\ w.verdict = x /\ w.posted = 0

LEMMA WentEffect ==
  ASSUME NEW v \in Item, NEW s \in Place
  PROVE  [v EXCEPT !.step = s] \in Item /\ Went(v, [v EXCEPT !.step = s], s)
<1>1. Went(v, [v EXCEPT !.step = s], s)
  BY DEF Item, Went, Same
<1> QED
  BY <1>1, ItemStep

\* What an attempt has read of the reviews is gone.
LEMMA ForgetEffect ==
  ASSUME NEW v \in Item
  PROVE  LET w == [v EXCEPT !.reviews = <<>>, !.sound = FALSE]
         IN  /\ w \in Item /\ Same(v, w) /\ w.step = v.step /\ w.job = v.job
             /\ w.lost = v.lost /\ w.posted = v.posted /\ w.verdict = v.verdict
             /\ w.passed = v.passed
<1> DEFINE a == [v EXCEPT !.reviews = <<>>]
           w == [a EXCEPT !.sound = FALSE]
<1>1. a \in Item
  <2>1. <<>> \in Seq(Review)
    OBVIOUS
  <2> QED
    BY <2>1, ItemReviews
<1>2. /\ Same(v, a) /\ a.step = v.step /\ a.job = v.job /\ a.lost = v.lost
      /\ a.posted = v.posted /\ a.verdict = v.verdict /\ a.passed = v.passed
  BY DEF Item, Same
<1> HIDE DEF a
<1>3. w \in Item
  BY <1>1, ItemSound
<1>4. /\ Same(a, w) /\ w.step = a.step /\ w.job = a.job /\ w.lost = a.lost
      /\ w.posted = a.posted /\ w.verdict = a.verdict /\ w.passed = a.passed
  BY <1>1 DEF Item, Same
<1>5. w = [v EXCEPT !.reviews = <<>>, !.sound = FALSE]
  BY DEF a
<1> HIDE DEF w
<1> QED
  BY <1>2, <1>3, <1>4, <1>5 DEF Same

LEMMA PublishingEffect ==
  ASSUME NEW r \in Attempt, attempt[r] \in Item,
         NEW x \in {"pending", "success", "failure"}
  PROVE  Publishing(r, x) \in Item /\ Publishes(attempt[r], Publishing(r, x), x)
<1> DEFINE f == [attempt[r] EXCEPT !.reviews = <<>>, !.sound = FALSE]
           a == [f EXCEPT !.step = "identity"]
           b == [a EXCEPT !.verdict = x]
           c == [b EXCEPT !.posted = 0]
<1>1. f \in Item /\ Same(attempt[r], f) /\ f.job = attempt[r].job /\ f.lost = attempt[r].lost
  BY ForgetEffect
<1>2. Publishing(r, x) = c
  BY DEF Publishing
<1> HIDE DEF f
<1>3. a \in Item /\ Went(f, a, "identity")
  BY <1>1, WentEffect DEF Place
<1> HIDE DEF a
<1>4. b \in Item
  BY <1>3, ItemVerdict
<1>5. Same(a, b) /\ b.step = a.step /\ b.job = a.job /\ b.lost = a.lost /\ b.verdict = x
  BY <1>3 DEF Item, Same
<1> HIDE DEF b
<1>6. c \in Item
  <2>1. 0 \in 0..3
    OBVIOUS
  <2> QED
    BY <1>4, <2>1, ItemPosted
<1>7. Same(b, c) /\ c.step = b.step /\ c.job = b.job /\ c.lost = b.lost /\ c.verdict = x
      /\ c.posted = 0
  BY <1>4, <1>5 DEF Item, Same
<1> HIDE DEF c
<1> QED
  BY <1>1, <1>2, <1>3, <1>5, <1>6, <1>7 DEF Publishes, Went, Same

LEMMA AfterJobEffect ==
  ASSUME NEW r \in Attempt, attempt[r] \in Item, NEW ok \in BOOLEAN,
         attempt[r].job < 4 \/ ~ok
  PROVE  AfterJob(r, ok) \in Item /\ Passed(attempt[r], AfterJob(r, ok))
<1> DEFINE i == attempt[r]
           n == IF ok /\ i.job < 3 THEN i.job + 1 ELSE 4
           p == IF ok THEN i.job ELSE i.passed
           f == [i EXCEPT !.reviews = <<>>, !.sound = FALSE]
           a == [f EXCEPT !.step = Entry(n)]
           b == [a EXCEPT !.job = n]
           c == [b EXCEPT !.passed = p]
<1>1. f \in Item /\ Same(i, f) /\ f.lost = i.lost
  BY ForgetEffect
<1>2. n \in 1..4 /\ p \in 0..3
      /\ ((Entry(n) = "main1" /\ n \in {2, 3}) \/ (Entry(n) = "boundary" /\ n = 4))
  <2>1. i.job \in 1..4 /\ i.passed \in 0..3
    BY DEF Item
  <2> HIDE DEF i
  <2> QED
    BY <2>1 DEF Entry, i
<1>3. AfterJob(r, ok) = c
  BY DEF AfterJob
<1> HIDE DEF n, p, f
<1>4. a \in Item /\ Went(f, a, Entry(n))
  BY <1>1, <1>2, WentEffect DEF Place
<1> HIDE DEF a
<1>5. b \in Item
  BY <1>2, <1>4, ItemJob
<1>6. Same(a, b) /\ b.step = a.step /\ b.job = n /\ b.lost = a.lost
  BY <1>4 DEF Item, Same
<1> HIDE DEF b
<1>7. c \in Item
  BY <1>2, <1>5, ItemPassed
<1>8. Same(b, c) /\ c.step = b.step /\ c.job = b.job /\ c.lost = b.lost
  BY <1>5 DEF Item, Same
<1> HIDE DEF c, i
<1> QED
  BY <1>1, <1>2, <1>3, <1>4, <1>6, <1>7, <1>8 DEF Passed, Went, Same, i

\* A refusal that nothing catches ends the attempt; any other marks the head or
\* fails the job.
LEMMA RefusedEffect ==
  ASSUME NEW r \in Attempt, attempt[r] \in Item
  PROVE  /\ Refused(r) \in Item
         /\ \/ /\ attempt[r].step \in Uncaught
               /\ Went(attempt[r], Refused(r), "ended")
            \/ /\ attempt[r].step \notin Uncaught
               /\ \/ Publishes(attempt[r], Refused(r), "failure")
                  \/ attempt[r].job \in {2, 3} /\ Passed(attempt[r], Refused(r))
<1>1. CASE attempt[r].step \in Uncaught
  <2>1. Refused(r) = [attempt[r] EXCEPT !.step = "ended"]
    BY <1>1 DEF Refused
  <2> QED
    BY <1>1, <2>1, WentEffect DEF Place
<1>2. CASE attempt[r].step \notin Uncaught
  <2>1. CASE Job(r) \in {"admission", "publish"}
    <3>1. Refused(r) = Publishing(r, "failure")
      BY <1>2, <2>1 DEF Refused
    <3> QED
      BY <1>2, <3>1, PublishingEffect
  <2>2. CASE Job(r) \notin {"admission", "publish"}
    <3>1. Refused(r) = AfterJob(r, FALSE)
      BY <1>2, <2>2 DEF Refused
    <3>2. attempt[r].job \in {2, 3}
      BY <2>2 DEF Job, Jobs, Item
    <3> QED
      BY <1>2, <3>1, <3>2, AfterJobEffect
  <2> QED
    BY <2>1, <2>2
<1> QED
  BY <1>1, <1>2

\* The ways in which a step of attempt r changes it: v becomes w.
Quiet == {"signal", "main1", "pull1", "reviews1", "permission", "reviews2", "pull2",
          "main2", "execute"}
Early == {"resolve", "announce1", "announce2"}

\* It has been admitted, or announces itself as one that is to be.
Known(v) == v.announced \/ v.resumed

Refuses(v, w) ==
  \/ v.step \in Uncaught /\ Went(v, w, "ended")
  \/ /\ v.step \notin Uncaught
     /\ Publishes(v, w, "failure") \/ (v.job \in {2, 3} /\ Passed(v, w))

\* Where a read leads that does not refuse.
Onward(v, s) ==
  CASE v.step = "boundary"    -> s = "environment"
    [] v.step = "environment" -> s = IF v.job = 1 THEN "resolve" ELSE "main1"
    [] v.step = "identity"    -> s = "post"
    [] v.step = "resolve"     -> s = "announce1"
    [] v.step = "announce1"   -> s = "announce2"
    [] v.step = "signal"      -> s = "main1"
    [] v.step = "main1"       -> s = "pull1"
    [] v.step = "pull1"       -> s = "reviews1"
    [] v.step = "permission"  -> s = "reviews2"
    [] v.step = "reviews2"    -> s = "pull2"
    [] v.step = "pull2"       -> s = "main2"
    [] OTHER                  -> FALSE

\* One read of facts that change nothing but the place of the attempt.
Reads(r) ==
  \/ ReadBoundary(r) \/ ReadEnvironment(r) \/ ReadIdentity(r) \/ ResolveSignal(r)
  \/ ReadAnnounce1(r) \/ CheckSignal(r) \/ ReadMain1(r) \/ ReadPull1(r)
  \/ ReadPermission(r) \/ ReadReviews2(r) \/ ReadPull2(r)

\* What a read that goes on has found.
Found(r) ==
  /\ attempt[r].step \in {"boundary", "announce1", "main1"} => MainTrusted(r)
  /\ attempt[r].step = "permission" =>
       Approved(attempt[r].reviews, attempt[r].head, facts.right)
  /\ attempt[r].step = "reviews2" => facts.reviews = attempt[r].reviews

\* Why one refuses that ends an attempt which has announced itself.
Cause(r) ==
  /\ attempt[r].step = "boundary" => ~MainTrusted(r)
  /\ attempt[r].step \in {"environment", "identity"} => ~AsAudited(facts)

\* A read leads the attempt onward, with what it has found, or refuses.
ReadEffect(r) ==
  \E w \in Item :
    /\ attempt' = [attempt EXCEPT ![r] = w]
    /\ \/ Found(r) /\ \E s \in Place : Onward(attempt[r], s) /\ Went(attempt[r], w, s)
       \/ Refuses(attempt[r], w) /\ Cause(r)
    /\ UNCHANGED <<facts, events, statuses, acts>>

LEMMA ForwardRead ==
  ASSUME TypeOK, NEW r \in Attempt, NEW s \in Place, Onward(attempt[r], s), Found(r),
         attempt' = [attempt EXCEPT ![r] = [attempt[r] EXCEPT !.step = s]],
         UNCHANGED <<facts, events, statuses, acts>>
  PROVE  ReadEffect(r)
<1>1. attempt[r] \in Item
  BY DEF TypeOK
<1> QED
  BY <1>1, WentEffect DEF ReadEffect

LEMMA RefusedRead ==
  ASSUME TypeOK, NEW r \in Attempt, attempt' = [attempt EXCEPT ![r] = Refused(r)],
         Cause(r), UNCHANGED <<facts, events, statuses, acts>>
  PROVE  ReadEffect(r)
<1>1. attempt[r] \in Item
  BY DEF TypeOK
<1>2. Refused(r) \in Item /\ Refuses(attempt[r], Refused(r))
  BY <1>1, RefusedEffect DEF Refuses
<1> QED
  BY <1>2 DEF ReadEffect

\* A check goes on to the next place or refuses.
LEMMA CheckEffect ==
  ASSUME TypeOK, NEW r \in Attempt, NEW step \in Place, NEW ok \in BOOLEAN, NEW next \in Place,
         Check(r, step, ok, next), Onward(attempt[r], next), ok => Found(r), ok \/ Cause(r)
  PROVE  ReadEffect(r)
<1>1. CASE ok
  BY <1>1, ForwardRead DEF Check
<1>2. CASE ~ok
  BY <1>2, RefusedRead DEF Check
<1> QED
  BY <1>1, <1>2

LEMMA ReadsEffect ==
  ASSUME TypeOK, NEW r \in Attempt, Reads(r)
  PROVE  ReadEffect(r)
<1> USE DEF Place, Onward, Found, Cause
<1>1. CASE ReadBoundary(r)
  <2>1. attempt[r].step = "boundary" /\ Check(r, "boundary", MainTrusted(r), "environment")
    BY <1>1 DEF ReadBoundary, Check
  <2>2. MainTrusted(r) \in BOOLEAN
    BY DEF MainTrusted
  <2> QED
    BY <2>1, <2>2, CheckEffect
<1>2. CASE ReadEnvironment(r)
  <2>1. /\ attempt[r].step = "environment"
        /\ Check(r, "environment", facts.environment,
                 IF Job(r) = "admission" THEN "resolve" ELSE "main1")
    BY <1>2 DEF ReadEnvironment, Check
  <2>2. attempt[r].job \in 1..4 /\ facts.environment \in BOOLEAN
    BY DEF TypeOK, Item, Facts
  <2>3. (Job(r) = "admission") <=> attempt[r].job = 1
    BY <2>2 DEF Job, Jobs
  <2>4. ~facts.environment => Cause(r)
    BY <2>1 DEF AsAudited
  <2>5. Found(r)
    BY <2>1
  <2>6. CASE attempt[r].job = 1
    <3>1. Check(r, "environment", facts.environment, "resolve") /\ Onward(attempt[r], "resolve")
      BY <2>1, <2>3, <2>6
    <3> QED
      BY <2>2, <2>4, <2>5, <3>1, CheckEffect
  <2>7. CASE attempt[r].job # 1
    <3>1. Check(r, "environment", facts.environment, "main1") /\ Onward(attempt[r], "main1")
      BY <2>1, <2>3, <2>7
    <3> QED
      BY <2>2, <2>4, <2>5, <3>1, CheckEffect
  <2> QED
    BY <2>6, <2>7
<1>3. CASE ReadIdentity(r)
  <2>1. attempt[r].step = "identity" /\ Check(r, "identity", facts.ruleset, "post")
    BY <1>3 DEF ReadIdentity, Check
  <2>2. facts.ruleset \in BOOLEAN
    BY DEF TypeOK, Facts
  <2>3. ~facts.ruleset => Cause(r)
    BY <2>1 DEF AsAudited
  <2> QED
    BY <2>1, <2>2, <2>3, CheckEffect
<1>4. CASE ResolveSignal(r)
  BY <1>4, ForwardRead, RefusedRead DEF ResolveSignal, Check
<1>5. CASE ReadAnnounce1(r)
  BY <1>5, ForwardRead, RefusedRead DEF ReadAnnounce1, Check
<1>6. CASE CheckSignal(r)
  BY <1>6, ForwardRead, RefusedRead DEF CheckSignal, Check
<1>7. CASE ReadMain1(r)
  BY <1>7, ForwardRead, RefusedRead DEF ReadMain1, Check
<1>8. CASE ReadPull1(r)
  BY <1>8, ForwardRead, RefusedRead DEF ReadPull1, Check
<1>9. CASE ReadPermission(r)
  BY <1>9, ForwardRead, RefusedRead DEF ReadPermission, Check
<1>10. CASE ReadReviews2(r)
  BY <1>10, ForwardRead, RefusedRead DEF ReadReviews2, Check
<1>11. CASE ReadPull2(r)
  BY <1>11, ForwardRead, RefusedRead DEF ReadPull2, Check
<1> QED
  BY <1>1, <1>2, <1>3, <1>4, <1>5, <1>6, <1>7, <1>8, <1>9, <1>10, <1>11 DEF Reads

\* An attempt that was not resumed is in its first job until it has announced
\* itself; a resumed one is beyond that job and announces nothing.
Sane(v) ==
  /\ v.job # 1 \/ v.step \in Quiet => Known(v)
  /\ v.resumed => v.job # 1 /\ ~v.announced
  /\ v.step \in {"identity", "post"} =>
       v.posted < 3 /\ (Known(v) <=> v.verdict # "pending")
  /\ v.step = "identity" => v.posted = 0
  /\ v.step \in {"unsent", "waiting"} => ~v.announced
  /\ v.step \in Early \cup {"unsent"} => v.job = 1 /\ ~v.announced
  /\ v.step \in {"boundary", "environment"} /\ v.job = 1 => ~v.announced
  /\ v.step = "execute" => v.job \in {2, 3}

SaneInv == \A r \in Attempt : Sane(attempt[r])

\* The attempt is told to stop or lost before it publishes.
Dies(v, w) ==
  /\ v.step \notin {"unsent", "ended"}
  /\ v.cancelled \/ (w.lost /\ v.step # "waiting")
  /\ Same(v, w) /\ w.step = "ended" /\ w.job = v.job

\* It has read the reviews, and what the facts f allow.
Examines(f, v, w) ==
  /\ v.step = "reviews1"
  /\ Same(v, w) /\ w.job = v.job /\ w.lost = v.lost
  /\ w.step = "permission" /\ w.reviews = f.reviews /\ w.sound = Allows(f, v)

\* The first place of an attempt that begins.
Starts(v, w) ==
  \/ v.job \in {1, 4} /\ Went(v, w, "boundary")
  \/ v.job \in {2, 3} /\ Went(v, w, "main1")

\* All it does between its posts, v being the attempt before and w after a step.
Moves(r, v, w) ==
  \/ Found(r) /\ \E s \in Place : Onward(v, s) /\ Went(v, w, s)
  \/ v.step \in Quiet \cup Uncaught /\ Refuses(v, w) /\ Cause(r)
  \/ v.step = "waiting" /\ Starts(v, w) /\ \A q \in Attempt : q < r => ~Active(q)
  \/ Dies(v, w)
  \/ Known(v) /\ v.step \notin {"unsent", "waiting", "ended"} /\ Passed(v, w)
  \/ v.step = "announce2" /\ Publishes(v, w, "pending")
  \/ Examines(facts, v, w)
  \/ v.step = "main2" /\ \E x \in {"success", "failure"} : Publishes(v, w, x)
  \/ v.step = "main2" /\ v.job \in {2, 3} /\ Went(v, w, "execute")

Work(r) ==
  \/ Begin(r) \/ Stop(r) \/ Lose(r) \/ Reads(r) \/ ReadAnnounce2(r) \/ ReadReviews1(r)
  \/ ReadMain2(r) \/ Execute(r)

MovesFrame(r) ==
  /\ \E w \in Item : attempt' = [attempt EXCEPT ![r] = w] /\ Moves(r, attempt[r], w)
  /\ UNCHANGED <<facts, events, statuses>>

LEMMA WorkEffect ==
  ASSUME TypeOK, SaneInv, NEW r \in Attempt, Work(r)
  PROVE  MovesFrame(r)
<1>1. attempt[r] \in Item /\ Sane(attempt[r])
  BY DEF TypeOK, SaneInv
<1>2. attempt[r].job \in 1..4 /\ (Job(r) = "admission" <=> attempt[r].job = 1)
      /\ (Job(r) = "publish" <=> attempt[r].job = 4)
  BY <1>1 DEF Item, Job, Jobs
<1>3. CASE Begin(r)
  <2> DEFINE s == Entry(attempt[r].job)
             w == [attempt[r] EXCEPT !.step = s]
  <2>1. /\ attempt[r].step = "waiting" /\ attempt' = [attempt EXCEPT ![r] = w]
        /\ \A q \in Attempt : q < r => ~Active(q)
        /\ UNCHANGED <<facts, events, statuses>>
    BY <1>3 DEF Begin, Goto
  <2>2. s \in Place
    BY DEF Entry, Place
  <2>3. w \in Item /\ Went(attempt[r], w, s)
    BY <1>1, <2>2, WentEffect
  <2> HIDE DEF w
  <2>4. Starts(attempt[r], w)
    BY <1>2, <2>3 DEF Starts, Entry
  <2> QED
    BY <2>1, <2>3, <2>4 DEF MovesFrame, Moves
<1>4. CASE Stop(r)
  <2>1. /\ attempt[r].cancelled /\ attempt[r].step \notin {"unsent", "ended"}
        /\ attempt[r].step = "waiting" \/ attempt[r].job # 4
        /\ UNCHANGED <<facts, events, statuses, acts>>
    BY <1>2, <1>4 DEF Stop, Active
  <2>2. CASE attempt[r].step = "waiting" \/ attempt[r].job = 1
    <3> DEFINE w == [attempt[r] EXCEPT !.step = "ended"]
    <3>1. attempt' = [attempt EXCEPT ![r] = w]
      BY <1>2, <1>4, <2>2 DEF Stop
    <3>2. w \in Item /\ Went(attempt[r], w, "ended")
      BY <1>1, WentEffect DEF Place
    <3> HIDE DEF w
    <3> QED
      BY <2>1, <3>1, <3>2 DEF MovesFrame, Moves, Dies, Went
  <2>3. CASE ~(attempt[r].step = "waiting" \/ attempt[r].job = 1)
    <3>1. attempt' = [attempt EXCEPT ![r] = AfterJob(r, FALSE)]
      BY <1>2, <1>4, <2>3 DEF Stop
    <3>2. AfterJob(r, FALSE) \in Item /\ Passed(attempt[r], AfterJob(r, FALSE))
      BY <1>1, AfterJobEffect
    <3> QED
      BY <1>1, <2>1, <2>3, <3>1, <3>2 DEF MovesFrame, Moves, Sane
  <2> QED
    BY <2>2, <2>3
<1>5. CASE Lose(r)
  <2>1. attempt[r].step \notin {"unsent", "waiting", "ended"}
        /\ UNCHANGED <<facts, events, statuses, acts>>
    BY <1>5 DEF Lose, Active
  <2>2. CASE attempt[r].job \in {1, 4}
    <3> DEFINE u == [attempt[r] EXCEPT !.step = "ended"]
               w == [u EXCEPT !.lost = TRUE]
    <3>1. attempt' = [attempt EXCEPT ![r] = w]
      BY <1>2, <1>5, <2>2 DEF Lose
    <3>2. u \in Item /\ Went(attempt[r], u, "ended")
      BY <1>1, WentEffect DEF Place
    <3> HIDE DEF u
    <3>3. w \in Item
      BY <3>2, ItemFlags
    <3>4. Same(u, w) /\ w.step = "ended" /\ w.job = u.job /\ w.lost
      BY <3>2 DEF Item, Same, Went
    <3> HIDE DEF w
    <3> QED
      BY <2>1, <3>1, <3>2, <3>3, <3>4 DEF MovesFrame, Moves, Dies, Went, Same
  <2>3. CASE attempt[r].job \notin {1, 4}
    <3>1. attempt' = [attempt EXCEPT ![r] = AfterJob(r, FALSE)]
      BY <1>2, <1>5, <2>3 DEF Lose
    <3>2. AfterJob(r, FALSE) \in Item /\ Passed(attempt[r], AfterJob(r, FALSE))
      BY <1>1, AfterJobEffect
    <3> QED
      BY <1>1, <2>1, <2>3, <3>1, <3>2 DEF MovesFrame, Moves, Sane
  <2> QED
    BY <2>2, <2>3
<1>6. CASE Reads(r)
  <2>1. attempt[r].step \in Quiet \cup Uncaught
    BY <1>6 DEF Reads, ReadBoundary, ReadEnvironment, ReadIdentity, ResolveSignal, ReadAnnounce1,
                CheckSignal, ReadMain1, ReadPull1, ReadPermission, ReadReviews2, ReadPull2,
                Check, Quiet, Uncaught
  <2> QED
    BY <1>6, <2>1, ReadsEffect DEF ReadEffect, MovesFrame, Moves
<1>7. CASE ReadAnnounce2(r)
  <2>1. attempt[r].step = "announce2" /\ UNCHANGED <<facts, events, statuses, acts>>
    BY <1>7 DEF ReadAnnounce2
  <2>2. CASE PullLive(r)
    <3>1. attempt' = [attempt EXCEPT ![r] = Publishing(r, "pending")]
      BY <1>7, <2>2 DEF ReadAnnounce2
    <3>2. Publishing(r, "pending") \in Item
          /\ Publishes(attempt[r], Publishing(r, "pending"), "pending")
      BY <1>1, PublishingEffect
    <3> QED
      BY <1>1, <2>1, <3>1, <3>2 DEF MovesFrame, Moves
  <2>3. CASE ~PullLive(r)
    <3>1. attempt' = [attempt EXCEPT ![r] = Refused(r)]
      BY <1>7, <2>3 DEF ReadAnnounce2
    <3>2. Refused(r) \in Item /\ Refuses(attempt[r], Refused(r)) /\ Cause(r)
      BY <1>1, <2>1, RefusedEffect DEF Refuses, Cause
    <3> QED
      BY <1>1, <2>1, <3>1, <3>2 DEF MovesFrame, Moves, Uncaught
  <2> QED
    BY <2>2, <2>3
<1>8. CASE ReadReviews1(r)
  <2>1. attempt[r].step = "reviews1" /\ UNCHANGED <<facts, events, statuses, acts>>
    BY <1>8 DEF ReadReviews1
  <2>2. CASE attempt' = [attempt EXCEPT ![r] = Refused(r)]
    <3>1. Refused(r) \in Item /\ Refuses(attempt[r], Refused(r)) /\ Cause(r)
      BY <1>1, <2>1, RefusedEffect DEF Refuses, Cause
    <3> QED
      BY <1>1, <2>1, <2>2, <3>1 DEF MovesFrame, Moves, Quiet
  <2>3. CASE attempt' # [attempt EXCEPT ![r] = Refused(r)]
    <3> DEFINE a == [attempt[r] EXCEPT !.step = "permission"]
               b == [a EXCEPT !.reviews = facts.reviews]
               c == [b EXCEPT !.sound = Allows(facts, attempt[r])]
    <3>1. attempt' = [attempt EXCEPT ![r] = c]
      BY <1>8, <2>3 DEF ReadReviews1
    <3>2. a \in Item /\ Went(attempt[r], a, "permission")
      BY <1>1, WentEffect DEF Place
    <3> HIDE DEF a
    <3>3. b \in Item
      BY <3>2, ItemReviews DEF TypeOK, Facts
    <3>4. Same(a, b) /\ b.step = a.step /\ b.job = a.job /\ b.lost = a.lost
          /\ b.reviews = facts.reviews
      BY <3>2 DEF Item, Same
    <3> HIDE DEF b
    <3>5. Allows(facts, attempt[r]) \in BOOLEAN
      BY DEF Allows
    <3>6. c \in Item
      BY <3>3, <3>5, ItemSound
    <3>7. Same(b, c) /\ c.step = b.step /\ c.job = b.job /\ c.lost = b.lost
          /\ c.reviews = b.reviews /\ c.sound = Allows(facts, attempt[r])
      BY <3>3 DEF Item, Same
    <3> HIDE DEF c
    <3>8. Examines(facts, attempt[r], c)
      BY <2>1, <3>2, <3>4, <3>7 DEF Examines, Went, Same
    <3> QED
      BY <2>1, <3>1, <3>6, <3>8 DEF MovesFrame, Moves
  <2> QED
    BY <2>2, <2>3
<1>9. CASE ReadMain2(r)
  <2>1. /\ attempt[r].step = "main2" /\ UNCHANGED <<facts, events, statuses>>
        /\ Known(attempt[r])
    BY <1>1, <1>9 DEF ReadMain2, Sane, Quiet
  <2>2. CASE ~MainTrusted(r)
    <3>1. attempt' = [attempt EXCEPT ![r] = Refused(r)]
      BY <1>9, <2>2 DEF ReadMain2
    <3>2. Refused(r) \in Item /\ Refuses(attempt[r], Refused(r)) /\ Cause(r)
      BY <1>1, <2>1, RefusedEffect DEF Refuses, Cause
    <3> QED
      BY <2>1, <3>1, <3>2 DEF MovesFrame, Moves, Quiet
  <2>3. CASE MainTrusted(r) /\ Job(r) = "admission"
    <3>1. attempt' = [attempt EXCEPT ![r] = AfterJob(r, TRUE)]
      BY <1>9, <2>3 DEF ReadMain2
    <3>2. AfterJob(r, TRUE) \in Item /\ Passed(attempt[r], AfterJob(r, TRUE))
      <4>1. attempt[r].job < 4
        BY <1>2, <2>3
      <4> QED
        BY <1>1, <4>1, AfterJobEffect
    <3> QED
      BY <1>1, <2>1, <3>1, <3>2 DEF MovesFrame, Moves
  <2>4. CASE MainTrusted(r) /\ Job(r) = "publish"
    <3>1. attempt' = [attempt EXCEPT ![r] = Publishing(r, Outcome(attempt[r]))]
      BY <1>9, <2>4 DEF ReadMain2
    <3>2. PICK x \in {"success", "failure"} : x = Outcome(attempt[r])
      BY DEF Outcome
    <3>3. Publishing(r, x) \in Item /\ Publishes(attempt[r], Publishing(r, x), x)
      BY <1>1, PublishingEffect
    <3> QED
      BY <1>1, <2>1, <3>1, <3>2, <3>3 DEF MovesFrame, Moves
  <2>5. CASE MainTrusted(r) /\ Job(r) \notin {"admission", "publish"}
    <3>1. attempt' = [attempt EXCEPT ![r] = [attempt[r] EXCEPT !.step = "execute"]]
      BY <1>9, <2>5 DEF ReadMain2
    <3>2. attempt[r].job \in {2, 3}
      BY <1>2, <2>5
    <3> QED
      BY <1>1, <2>1, <3>1, <3>2, WentEffect DEF MovesFrame, Moves, Place
  <2> QED
    BY <2>2, <2>3, <2>4, <2>5
<1>10. CASE Execute(r)
  <2>1. PICK ok \in BOOLEAN : attempt' = [attempt EXCEPT ![r] = AfterJob(r, ok)]
    BY <1>10 DEF Execute
  <2>2. /\ attempt[r].step = "execute" /\ Known(attempt[r]) /\ attempt[r].job \in {2, 3}
        /\ UNCHANGED <<facts, events, statuses, acts>>
    BY <1>1, <1>10 DEF Execute, Sane, Quiet
  <2>3. AfterJob(r, ok) \in Item /\ Passed(attempt[r], AfterJob(r, ok))
    BY <1>1, <2>2, AfterJobEffect
  <2> QED
    BY <1>1, <2>1, <2>2, <2>3 DEF MovesFrame, Moves
<1> QED
  BY <1>3, <1>4, <1>5, <1>6, <1>7, <1>8, <1>9, <1>10 DEF Work

\* Over without having been told to stop.
Done(v) == v.resumed /\ v.step = "ended" /\ ~v.cancelled

\* An attempt that may post, or has posted, is the newest.
Begun(v) == v.announced \/ v.step \notin {"unsent", "waiting", "ended"} \/ Done(v)

LEMMA MoveFacts ==
  ASSUME NEW r \in Attempt, NEW v \in Item, NEW w \in Item, v = attempt[r], Sane(v),
         Moves(r, v, w)
  PROVE  /\ Same(v, w)
         /\ v.step \notin {"unsent", "ended"} /\ w.step \notin {"unsent", "waiting"}
         /\ w.step = "post" => w.posted = 0
         /\ w.step = "ended" =>
              w.cancelled \/ w.lost \/ ~Known(w) \/ facts.main # w.sha \/ ~AsAudited(facts)
         /\ Begun(w) => Begun(v) \/ \A q \in Attempt : q < r => ~Active(q)
         /\ Sane(w)
<1> USE DEF Same, Begun, Done, Sane, Quiet, Early, Known
<1>1. CASE Found(r) /\ \E s \in Place : Onward(v, s) /\ Went(v, w, s)
  BY <1>1 DEF Onward, Went
<1>2. CASE v.step \in Quiet \cup Uncaught /\ Refuses(v, w) /\ Cause(r)
  <2>1. CASE v.step \in Uncaught /\ Went(v, w, "ended")
    BY <1>2, <2>1 DEF Went, MainTrusted, Cause, Uncaught
  <2>2. CASE v.step \in Quiet /\ Publishes(v, w, "failure")
    BY <2>2 DEF Publishes
  <2>3. CASE v.step \in Quiet /\ Passed(v, w)
    BY <2>3 DEF Passed
  <2> QED
    BY <1>2, <2>1, <2>2, <2>3 DEF Refuses
<1>3. CASE v.step = "waiting" /\ Starts(v, w) /\ \A q \in Attempt : q < r => ~Active(q)
  BY <1>3 DEF Starts, Went
<1>4. CASE Dies(v, w)
  BY <1>4 DEF Dies
<1>5. CASE Known(v) /\ v.step \notin {"unsent", "waiting", "ended"} /\ Passed(v, w)
  BY <1>5 DEF Passed
<1>6. CASE v.step = "announce2" /\ Publishes(v, w, "pending")
  BY <1>6 DEF Publishes
<1>7. CASE Examines(facts, v, w)
  BY <1>7 DEF Examines
<1>8. CASE v.step = "main2" /\ \E x \in {"success", "failure"} : Publishes(v, w, x)
  BY <1>8 DEF Publishes
<1>9. CASE v.step = "main2" /\ v.job \in {2, 3} /\ Went(v, w, "execute")
  BY <1>9 DEF Went
<1> QED
  BY <1>1, <1>2, <1>3, <1>4, <1>5, <1>6, <1>7, <1>8, <1>9 DEF Moves

-----------------------------------------------------------------------------
(* The statuses. *)

Order ==
  \A r \in Attempt : \A q \in Attempt : q < r =>
    /\ Started(r) => Started(q)
    /\ Begun(attempt[r]) => Ended(q)

\* A status is that of an attempt at this head; a verdict that of one which was
\* admitted or has announced itself.
Signed ==
  \A h \in HeadSha, c \in Context :
    LET s == statuses[h][c]
    IN  s.state # "none" =>
          /\ s.attempt \in Attempt
          /\ Started(s.attempt)
          /\ attempt[s.attempt].head = h
          /\ s.state # "pending" => Known(attempt[s.attempt])

\* A context an attempt has written shows that attempt or a later one.
Newest ==
  \A r \in Attempt : \A c \in Context :
    attempt[r].announced \/ (attempt[r].step = "post" /\ c <= attempt[r].posted) =>
      statuses[attempt[r].head][c].attempt >= r

\* The status s is the verdict of attempt r, or of a later one.
Answers(s, r) == s.attempt > r \/ (s.attempt = r /\ s.state # "pending")

\* An attempt that had to give its verdict, and that nothing kept from it.
Concluded(r) ==
  /\ Ended(r) /\ Known(attempt[r])
  /\ ~attempt[r].cancelled /\ ~attempt[r].lost
  /\ MainTrusted(r) /\ attempt[r].steady

\* An attempt that publishes its verdict overwrites one context after the other.
Given ==
  \A r \in Attempt : \A c \in Context :
    \/ attempt[r].step = "post" /\ attempt[r].verdict # "pending" /\ c <= attempt[r].posted
    \/ Concluded(r)
    => Answers(statuses[attempt[r].head][c], r)

Trusted == \A r \in Attempt : attempt[r].sha <= facts.main

Steady == \A r \in Attempt : Active(r) /\ attempt[r].steady => AsAudited(facts)

StatusInv == SaneInv /\ Order /\ Signed /\ Newest /\ Given /\ Trusted /\ Steady

LEMMA WorkKeepsStatuses ==
  ASSUME TypeOK, StatusInv, NEW r \in Attempt, Work(r)
  PROVE  attempt' \in [Attempt -> Item] /\ StatusInv'
<1> USE DEF StatusInv
<1>1. PICK w \in Item : attempt' = [attempt EXCEPT ![r] = w] /\ Moves(r, attempt[r], w)
  BY WorkEffect DEF MovesFrame
<1>2. UNCHANGED <<facts, events, statuses>>
  BY WorkEffect DEF MovesFrame
<1>3. PICK v \in Item : v = attempt[r]
  BY DEF TypeOK
<1>4. /\ Same(v, w)
      /\ v.step \notin {"unsent", "ended"} /\ w.step \notin {"unsent", "waiting"}
      /\ w.step = "post" => w.posted = 0
      /\ w.step = "ended" =>
           w.cancelled \/ w.lost \/ ~Known(w) \/ facts.main # w.sha \/ ~AsAudited(facts)
      /\ Begun(w) => Begun(v) \/ \A q \in Attempt : q < r => ~Active(q)
      /\ Sane(w)
  BY <1>1, <1>3, MoveFacts DEF SaneInv
<1>5. attempt' \in [Attempt -> Item] /\ attempt'[r] = w
      /\ \A q \in Attempt : q # r => attempt'[q] = attempt[q]
  BY <1>1 DEF TypeOK
<1>6. SaneInv'
  BY <1>4, <1>5 DEF SaneInv, Sane, Known
<1>7. Order'
  <2> SUFFICES ASSUME NEW p \in Attempt, NEW q \in Attempt, q < p
               PROVE  /\ attempt'[p].step # "unsent" => attempt'[q].step # "unsent"
                      /\ Begun(attempt'[p]) => attempt'[q].step = "ended"
    BY DEF Order, Begun, Done, Started, Ended
  <2>1. p # q
    BY AttemptAssumption
  <2>2. CASE p = r
    <3>1. attempt'[q] = attempt[q] /\ attempt[q].step # "unsent"
      BY <1>3, <1>4, <1>5, <2>1, <2>2 DEF Order, Started
    <3>2. Begun(v) => attempt[q].step = "ended"
      BY <1>3, <2>2 DEF Order, Ended
    <3>3. ~Active(q) => attempt[q].step = "ended"
      BY <3>1 DEF Active
    <3> QED
      BY <1>4, <1>5, <2>2, <3>1, <3>2, <3>3
  <2>3. CASE p # r
    <3>1. attempt'[p] = attempt[p]
      BY <1>5, <2>3
    <3>2. CASE q = r
      BY <1>3, <1>4, <1>5, <3>1, <3>2 DEF Order, Started, Ended
    <3>3. CASE q # r
      BY <1>5, <3>1, <3>3 DEF Order, Started, Ended
    <3> QED
      BY <3>2, <3>3
  <2> QED
    BY <2>2, <2>3
<1>8. Signed'
  <2> SUFFICES ASSUME NEW h \in HeadSha, NEW c \in Context,
                      statuses[h][c].state # "none"
               PROVE  LET s == statuses[h][c]
                      IN  /\ s.attempt \in Attempt
                          /\ attempt'[s.attempt].step # "unsent"
                          /\ attempt'[s.attempt].head = h
                          /\ s.state # "pending" => Known(attempt'[s.attempt])
    BY <1>2 DEF Signed, Started, Known
  <2> QED
    BY <1>3, <1>4, <1>5 DEF Signed, Same, Started, Known
<1>9. Newest'
  <2> SUFFICES ASSUME NEW p \in Attempt, NEW c \in Context,
                      \/ attempt'[p].announced
                      \/ attempt'[p].step = "post" /\ c <= attempt'[p].posted
               PROVE  statuses[attempt'[p].head][c].attempt >= p
    BY <1>2 DEF Newest
  <2>1. ~(w.step = "post" /\ c <= w.posted)
    BY <1>4 DEF Context
  <2> QED
    BY <1>3, <1>4, <1>5, <2>1 DEF Newest, Same
<1>10. Given'
  <2> SUFFICES ASSUME NEW p \in Attempt, NEW c \in Context,
                      \/ /\ attempt'[p].step = "post" /\ attempt'[p].verdict # "pending"
                         /\ c <= attempt'[p].posted
                      \/ /\ attempt'[p].step = "ended" /\ Known(attempt'[p])
                         /\ ~attempt'[p].cancelled /\ ~attempt'[p].lost
                         /\ facts.main = attempt'[p].sha /\ attempt'[p].steady
               PROVE  Answers(statuses[attempt'[p].head][c], p)
    BY <1>2 DEF Given, Answers, Concluded, Ended, MainTrusted, Known
  <2>1. ~(w.step = "post" /\ c <= w.posted)
    BY <1>4 DEF Context
  <2>2. w.step = "ended" /\ w.steady => AsAudited(facts)
    BY <1>3, <1>4 DEF Steady, Active, Same
  <2>3. p # r
    BY <1>4, <1>5, <2>1, <2>2
  <2> QED
    BY <1>5, <2>3 DEF Given, Concluded, Ended, MainTrusted
<1>11. Trusted'
  BY <1>2, <1>3, <1>4, <1>5 DEF Trusted, Same
<1>12. Steady'
  BY <1>2, <1>3, <1>4, <1>5 DEF Steady, Same, Active, AsAudited
<1> QED
  BY <1>5, <1>6, <1>7, <1>8, <1>9, <1>10, <1>11, <1>12

\* The attempt v becomes w by the post of its context c.
Posts(v, w, c) ==
  /\ w.head = v.head /\ w.sha = v.sha /\ w.cancelled = v.cancelled /\ w.lost = v.lost
  /\ w.resumed = v.resumed /\ w.steady = v.steady
  /\ w.job = v.job /\ w.verdict = v.verdict /\ c = v.posted + 1 /\ w.posted = c
  /\ \/ c < 3 /\ w.step = "post" /\ w.announced = v.announced
     \/ c = 3 /\ w.step = "signal" /\ w.announced /\ w.verdict = "pending"
     \/ c = 3 /\ w.step = "ended" /\ w.announced = v.announced /\ w.verdict # "pending"

LEMMA PostEffect ==
  ASSUME TypeOK, SaneInv, NEW r \in Attempt, PostStatus(r)
  PROVE  \E w \in Item, c \in Context :
           /\ attempt' = [attempt EXCEPT ![r] = w] /\ Posts(attempt[r], w, c)
           /\ statuses' = [statuses EXCEPT ![attempt[r].head][c] =
                             [state |-> attempt[r].verdict, attempt |-> r]]
<1>1. PICK v \in Item : v = attempt[r] /\ Sane(v)
  BY DEF TypeOK, SaneInv
<1>2. v.step = "post" /\ v.posted < 3
  BY <1>1 DEF PostStatus, Sane
<1>3. PICK c \in Context : c = v.posted + 1
  BY <1>1, <1>2 DEF Item, Context
<1>4. statuses' = [statuses EXCEPT ![v.head][c] = [state |-> v.verdict, attempt |-> r]]
  BY <1>1, <1>3 DEF PostStatus
<1> DEFINE a == [v EXCEPT !.posted = c]
<1>5. a \in Item
  <2>1. c \in 0..3
    BY DEF Context
  <2> QED
    BY <1>1, <2>1, ItemPosted
<1>6. /\ Same(v, a) /\ a.lost = v.lost /\ a.job = v.job /\ a.verdict = v.verdict
      /\ a.posted = c /\ a.step = v.step
  BY <1>1 DEF Item, Same
<1>7. CASE c < 3
  <2>1. attempt' = [attempt EXCEPT ![r] = a]
    <3>1. attempt[r].posted + 1 = c /\ c # 3
      BY <1>1, <1>3, <1>7 DEF Context
    <3>2. attempt' = [attempt EXCEPT ![r] = [attempt[r] EXCEPT !.posted = attempt[r].posted + 1]]
      BY <3>1 DEF PostStatus
    <3> QED
      BY <1>1, <3>1, <3>2
  <2> HIDE DEF a
  <2>2. Posts(v, a, c)
    BY <1>2, <1>3, <1>6, <1>7 DEF Posts, Same
  <2> QED
    BY <1>1, <1>4, <1>5, <2>1, <2>2
<1>8. CASE c = 3 /\ v.verdict = "pending"
  <2> DEFINE s == [v EXCEPT !.step = "signal"]
             b == [s EXCEPT !.posted = 3]
             d == [b EXCEPT !.announced = TRUE]
  <2>1. attempt' = [attempt EXCEPT ![r] = d]
    BY <1>1, <1>3, <1>8 DEF PostStatus, AfterPosts
  <2>2. s \in Item /\ Went(v, s, "signal")
    BY WentEffect DEF Place
  <2> HIDE DEF s
  <2>3. b \in Item
    <3>1. 3 \in 0..3
      OBVIOUS
    <3> QED
      BY <2>2, <3>1, ItemPosted
  <2>4. Same(s, b) /\ b.step = s.step /\ b.job = s.job /\ b.lost = s.lost
        /\ b.verdict = s.verdict /\ b.posted = 3
    BY <2>2 DEF Item, Same
  <2> HIDE DEF b
  <2>5. d \in Item
    BY <2>3, ItemFlags
  <2>6. d.step = b.step /\ d.job = b.job /\ d.lost = b.lost /\ d.verdict = b.verdict
        /\ d.posted = b.posted /\ d.announced /\ d.head = b.head /\ d.sha = b.sha
        /\ d.cancelled = b.cancelled /\ d.resumed = b.resumed /\ d.steady = b.steady
    BY <2>3 DEF Item
  <2> HIDE DEF d
  <2>7. Posts(v, d, c)
    BY <1>3, <1>8, <2>2, <2>4, <2>6 DEF Posts, Went, Same
  <2> QED
    BY <1>1, <1>4, <2>1, <2>5, <2>7
<1>9. CASE c = 3 /\ v.verdict # "pending"
  <2> DEFINE s == [v EXCEPT !.step = "ended"]
             b == [s EXCEPT !.posted = 3]
  <2>1. attempt' = [attempt EXCEPT ![r] = b]
    BY <1>1, <1>3, <1>9 DEF PostStatus, AfterPosts
  <2>2. s \in Item /\ Went(v, s, "ended")
    BY WentEffect DEF Place
  <2> HIDE DEF s
  <2>3. b \in Item
    <3>1. 3 \in 0..3
      OBVIOUS
    <3> QED
      BY <2>2, <3>1, ItemPosted
  <2>4. Same(s, b) /\ b.step = s.step /\ b.job = s.job /\ b.lost = s.lost
        /\ b.verdict = s.verdict /\ b.posted = 3
    BY <2>2 DEF Item, Same
  <2> HIDE DEF b
  <2>5. Posts(v, b, c)
    BY <1>3, <1>9, <2>2, <2>4 DEF Posts, Went, Same
  <2> QED
    BY <1>1, <1>4, <2>1, <2>3, <2>5
<1> QED
  BY <1>7, <1>8, <1>9 DEF Context

LEMMA PostKeepsStatuses ==
  ASSUME TypeOK, StatusInv, NEW r \in Attempt, PostStatus(r)
  PROVE  TypeOK' /\ StatusInv'
<1> USE DEF StatusInv, Started, Ended, Known, Done
<1>1. PICK v \in Item : v = attempt[r] /\ Sane(v)
  BY DEF TypeOK, SaneInv
<1>2. PICK w \in Item, c \in Context :
        /\ attempt' = [attempt EXCEPT ![r] = w] /\ Posts(attempt[r], w, c)
        /\ statuses' = [statuses EXCEPT ![attempt[r].head][c] =
                          [state |-> attempt[r].verdict, attempt |-> r]]
  BY PostEffect
<1> USE DEF Posts
<1>3. v.step = "post" /\ UNCHANGED <<facts, events, acts>>
  BY <1>1 DEF PostStatus
<1>4. attempt' \in [Attempt -> Item] /\ attempt'[r] = w
      /\ \A q \in Attempt : q # r => attempt'[q] = attempt[q]
  BY <1>2 DEF TypeOK
<1>5. /\ v.head \in HeadSha /\ v.verdict \in {"pending", "success", "failure"}
      /\ v.posted \in Nat /\ c \in Nat
  BY DEF Item, Context
<1>6. \A h \in HeadSha, d \in Context :
        statuses'[h][d] = IF h = v.head /\ d = c THEN [state |-> v.verdict, attempt |-> r]
                          ELSE statuses[h][d]
  BY <1>1, <1>2 DEF TypeOK
<1>7. statuses' \in [HeadSha -> [Context -> Status]]
  BY <1>1, <1>2, <1>5 DEF TypeOK, Status
<1>8. TypeOK'
  BY <1>3, <1>4, <1>7 DEF TypeOK
<1>9. SaneInv'
  BY <1>1, <1>2, <1>3, <1>4 DEF SaneInv, Sane, Quiet, Early
<1>10. Begun(v) /\ \A q \in Attempt : q < r => attempt[q].step = "ended"
  BY <1>1, <1>3 DEF Order, Begun
<1>11. \A q \in Attempt : Begun(attempt[q]) => ~(r < q)
  BY <1>1, <1>3 DEF Order
<1>12. Order'
  BY <1>1, <1>2, <1>3, <1>4, <1>10, <1>11 DEF Order, Begun
<1>13. Signed'
  <2> SUFFICES ASSUME NEW h \in HeadSha, NEW d \in Context, statuses'[h][d].state # "none"
               PROVE  LET s == statuses'[h][d]
                      IN  /\ s.attempt \in Attempt
                          /\ attempt'[s.attempt].step # "unsent"
                          /\ attempt'[s.attempt].head = h
                          /\ s.state # "pending" => Known(attempt'[s.attempt])
    BY DEF Signed
  <2>1. CASE h = v.head /\ d = c
    <3>1. statuses'[h][d] = [state |-> v.verdict, attempt |-> r]
      BY <1>6, <2>1
    <3>2. v.verdict # "pending" => Known(w)
      BY <1>1, <1>2, <1>3 DEF Sane
    <3> QED
      BY <1>1, <1>2, <1>4, <2>1, <3>1, <3>2
  <2>2. CASE ~(h = v.head /\ d = c)
    <3>1. statuses'[h][d] = statuses[h][d]
      BY <1>6, <2>2
    <3>2. Known(v) => Known(w)
      BY <1>1, <1>2
    <3> QED
      BY <1>1, <1>2, <1>3, <1>4, <3>1, <3>2 DEF Signed
  <2> QED
    BY <2>1, <2>2
<1>14. Newest'
  <2> SUFFICES ASSUME NEW p \in Attempt, NEW d \in Context,
                      \/ attempt'[p].announced
                      \/ attempt'[p].step = "post" /\ d <= attempt'[p].posted
               PROVE  statuses'[attempt'[p].head][d].attempt >= p
    BY DEF Newest
  <2>1. attempt'[p].head \in HeadSha
    BY <1>4 DEF Item
  <2>2. CASE p # r
    <3>1. attempt'[p] = attempt[p] /\ Begun(attempt[p])
      BY <1>4, <2>2 DEF Begun
    <3>2. p <= r
      BY <1>11, <3>1, AttemptAssumption
    <3>3. statuses[attempt[p].head][d].attempt >= p
      BY <3>1 DEF Newest
    <3> QED
      BY <1>6, <2>1, <3>1, <3>2, <3>3
  <2>3. CASE p = r /\ d = c
    BY <1>1, <1>2, <1>4, <1>6, <2>1, <2>3, AttemptAssumption
  <2>4. CASE p = r /\ d # c
    <3>1. v.announced \/ d <= v.posted
      BY <1>1, <1>2, <1>4, <1>5, <2>4 DEF Context
    <3>2. statuses[v.head][d].attempt >= r
      BY <1>1, <1>3, <3>1 DEF Newest
    <3> QED
      BY <1>1, <1>2, <1>4, <1>6, <2>1, <2>4, <3>2
  <2> QED
    BY <2>2, <2>3, <2>4
<1>15. Given'
  <2> SUFFICES ASSUME NEW p \in Attempt, NEW d \in Context,
                      \/ /\ attempt'[p].step = "post" /\ attempt'[p].verdict # "pending"
                         /\ d <= attempt'[p].posted
                      \/ /\ attempt'[p].step = "ended" /\ Known(attempt'[p])
                         /\ ~attempt'[p].cancelled /\ ~attempt'[p].lost
                         /\ facts.main = attempt'[p].sha /\ attempt'[p].steady
               PROVE  Answers(statuses'[attempt'[p].head][d], p)
    BY <1>3 DEF Given, Answers, Concluded, MainTrusted
  <2>1. attempt'[p].head \in HeadSha
    BY <1>4 DEF Item
  <2>2. CASE p # r
    <3>1. attempt'[p] = attempt[p] /\ Answers(statuses[attempt[p].head][d], p)
      BY <1>4, <2>2 DEF Given, Concluded, MainTrusted
    <3>2. Begun(attempt[p])
      BY <2>2, <3>1 DEF Begun
    <3>3. p < r
      BY <1>11, <2>2, <3>2, AttemptAssumption
    <3> QED
      BY <1>6, <2>1, <3>1, <3>3 DEF Answers
  <2>3. CASE p = r
    <3>1. v.verdict # "pending"
      BY <1>1, <1>2, <1>4, <2>3
    <3>2. d # c => d <= v.posted
      BY <1>1, <1>2, <1>4, <1>5, <2>3 DEF Context
    <3>3. d # c => Answers(statuses[v.head][d], r)
      BY <1>1, <1>3, <3>1, <3>2 DEF Given
    <3> QED
      BY <1>1, <1>2, <1>4, <1>6, <2>1, <2>3, <3>1, <3>3 DEF Answers
  <2> QED
    BY <2>2, <2>3
<1>16. Trusted'
  BY <1>1, <1>2, <1>3, <1>4 DEF Trusted
<1>17. Steady'
  BY <1>1, <1>2, <1>3, <1>4 DEF Steady, Active, AsAudited
<1> QED
  BY <1>8, <1>9, <1>12, <1>13, <1>14, <1>15, <1>16, <1>17

\* What is told to stop keeps everything else.
Kept(v, w) ==
  /\ w.head = v.head /\ w.sha = v.sha /\ w.lost = v.lost /\ w.resumed = v.resumed
  /\ w.announced = v.announced /\ w.step = v.step /\ w.job = v.job
  /\ w.verdict = v.verdict /\ w.posted = v.posted /\ w.reviews = v.reviews

LEMMA CancelEffect ==
  ASSUME NEW v \in Item
  PROVE  LET w == [v EXCEPT !.cancelled = TRUE]
         IN  w \in Item /\ Kept(v, w) /\ w.cancelled /\ w.sound = v.sound /\ w.steady = v.steady
<1>1. [v EXCEPT !.cancelled = TRUE] \in Item
  BY ItemFlags
<1> QED
  BY <1>1 DEF Item, Kept

\* The older attempts under way are told to stop; nothing else of them changes.
LEMMA JoinsEffect ==
  ASSUME TypeOK, NEW r \in Attempt, NEW v \in Item, Joins(r, v)
  PROVE  /\ attempt' \in [Attempt -> Item] /\ events' \in Nat
         /\ UNCHANGED <<facts, statuses, acts>>
         /\ attempt[r].step = "unsent" /\ \A q \in Attempt : q < r => Started(q)
         /\ attempt'[r].step = "waiting" /\ attempt'[r].sha = v.sha
         /\ attempt'[r].job = v.job /\ attempt'[r].announced = v.announced
         /\ attempt'[r].resumed = v.resumed /\ attempt'[r].steady = AsAudited(facts)
         /\ \A q \in Attempt : q # r =>
              /\ Kept(attempt[q], attempt'[q]) /\ attempt'[q].sound = attempt[q].sound
              /\ attempt'[q].steady = attempt[q].steady
              /\ attempt[q].cancelled => attempt'[q].cancelled
              /\ ~Active(q) => attempt'[q].cancelled = attempt[q].cancelled
<1>1. attempt' = [q \in Attempt |->
        IF q = r THEN [v EXCEPT !.step = "waiting", !.steady = AsAudited(facts)]
        ELSE IF Active(q) THEN [attempt[q] EXCEPT !.cancelled = TRUE] ELSE attempt[q]]
  BY DEF Joins
<1>2. /\ attempt'[r] \in Item /\ attempt'[r].step = "waiting" /\ attempt'[r].sha = v.sha
      /\ attempt'[r].job = v.job /\ attempt'[r].announced = v.announced
      /\ attempt'[r].resumed = v.resumed /\ attempt'[r].steady = AsAudited(facts)
  <2> DEFINE a == [v EXCEPT !.step = "waiting"]
             b == [a EXCEPT !.steady = AsAudited(facts)]
  <2>1. attempt'[r] = b
    BY <1>1
  <2>2. a \in Item /\ Went(v, a, "waiting")
    BY WentEffect DEF Place
  <2>3. AsAudited(facts) \in BOOLEAN
    BY DEF AsAudited, TypeOK, Facts
  <2> HIDE DEF a
  <2>4. b \in Item
    BY <2>2, <2>3, ItemFlags
  <2>5. /\ b.step = a.step /\ b.sha = a.sha /\ b.job = a.job /\ b.announced = a.announced
        /\ b.resumed = a.resumed /\ b.steady = AsAudited(facts)
    BY <2>2 DEF Item
  <2> HIDE DEF b
  <2> QED
    BY <2>1, <2>2, <2>4, <2>5 DEF Went, Same
<1>3. ASSUME NEW q \in Attempt, q # r
      PROVE  /\ attempt'[q] \in Item /\ Kept(attempt[q], attempt'[q])
             /\ attempt'[q].sound = attempt[q].sound /\ attempt'[q].steady = attempt[q].steady
             /\ attempt[q].cancelled => attempt'[q].cancelled
             /\ ~Active(q) => attempt'[q].cancelled = attempt[q].cancelled
  <2>1. PICK u \in Item : u = attempt[q]
    BY DEF TypeOK
  <2> DEFINE w == [u EXCEPT !.cancelled = TRUE]
  <2>2. attempt'[q] = IF Active(q) THEN w ELSE u
    BY <1>1, <1>3, <2>1
  <2>3. w \in Item /\ Kept(u, w) /\ w.cancelled /\ w.sound = u.sound /\ w.steady = u.steady
    BY CancelEffect
  <2> HIDE DEF w
  <2> QED
    BY <2>1, <2>2, <2>3 DEF Kept
<1>4. DOMAIN attempt' = Attempt /\ attempt' = [q \in Attempt |-> attempt'[q]]
  BY <1>1
<1>5. attempt' \in [Attempt -> Item]
  BY <1>2, <1>3, <1>4
<1>6. /\ events' \in Nat /\ UNCHANGED <<facts, statuses, acts>>
      /\ attempt[r].step = "unsent" /\ \A q \in Attempt : q < r => Started(q)
  BY DEF Joins, TypeOK, Started
<1> QED
  BY <1>2, <1>3, <1>5, <1>6

\* An attempt that joins the group: of a new run, or of one that is over.
Fresh(v) ==
  /\ v \in Item /\ ~v.announced /\ v.sha <= facts.main
  /\ v.resumed <=> v.job # 1

LEMMA JoinsKeepsStatuses ==
  ASSUME TypeOK, StatusInv, NEW r \in Attempt, NEW v \in Item, Fresh(v), Joins(r, v)
  PROVE  TypeOK' /\ StatusInv'
<1> USE DEF StatusInv, Started, Ended, Known, Done
<1>1. /\ attempt' \in [Attempt -> Item] /\ events' \in Nat
      /\ UNCHANGED <<facts, statuses, acts>>
      /\ attempt[r].step = "unsent" /\ \A q \in Attempt : q < r => attempt[q].step # "unsent"
      /\ attempt'[r].step = "waiting" /\ attempt'[r].sha = v.sha
      /\ attempt'[r].job = v.job /\ attempt'[r].announced = v.announced
      /\ attempt'[r].resumed = v.resumed /\ attempt'[r].steady = AsAudited(facts)
  BY JoinsEffect
<1>2. \A q \in Attempt : q # r =>
        /\ Kept(attempt[q], attempt'[q]) /\ attempt'[q].steady = attempt[q].steady
        /\ attempt[q].cancelled => attempt'[q].cancelled
        /\ ~Active(q) => attempt'[q].cancelled = attempt[q].cancelled
  BY JoinsEffect
<1>3. TypeOK'
  BY <1>1 DEF TypeOK
<1>4. SaneInv'
  BY <1>1, <1>2 DEF SaneInv, Sane, Quiet, Early, Kept, Fresh
<1>5. Order'
  <2> SUFFICES ASSUME NEW p \in Attempt, NEW q \in Attempt, q < p
               PROVE  /\ attempt'[p].step # "unsent" => attempt'[q].step # "unsent"
                      /\ Begun(attempt'[p]) => attempt'[q].step = "ended"
    BY DEF Order, Begun
  <2>1. p # q
    BY AttemptAssumption
  <2>2. CASE p = r
    <3>1. attempt'[q].step = attempt[q].step /\ attempt[q].step # "unsent"
      BY <1>1, <1>2, <2>1, <2>2 DEF Kept
    <3>2. ~Begun(attempt'[r])
      BY <1>1 DEF Begun, Fresh
    <3> QED
      BY <2>2, <3>1, <3>2
  <2>3. CASE p # r
    <3>1. attempt'[p].step = attempt[p].step /\ (Begun(attempt'[p]) => Begun(attempt[p]))
      BY <1>2, <2>3 DEF Begun, Kept
    <3>2. CASE q = r
      BY <1>1, <3>1, <3>2 DEF Order
    <3>3. CASE q # r
      BY <1>2, <3>1, <3>3 DEF Order, Kept
    <3> QED
      BY <3>2, <3>3
  <2> QED
    BY <2>2, <2>3
<1>6. Signed'
  <2> SUFFICES ASSUME NEW h \in HeadSha, NEW c \in Context, statuses[h][c].state # "none"
               PROVE  LET s == statuses[h][c]
                      IN  /\ s.attempt \in Attempt
                          /\ attempt'[s.attempt].step # "unsent"
                          /\ attempt'[s.attempt].head = h
                          /\ s.state # "pending" => Known(attempt'[s.attempt])
    BY <1>1 DEF Signed
  <2> QED
    BY <1>1, <1>2 DEF Signed, Kept
<1>7. Newest'
  BY <1>1, <1>2 DEF Newest, Kept, Fresh
<1>8. Given'
  <2> SUFFICES ASSUME NEW p \in Attempt, NEW c \in Context,
                      \/ /\ attempt'[p].step = "post" /\ attempt'[p].verdict # "pending"
                         /\ c <= attempt'[p].posted
                      \/ /\ attempt'[p].step = "ended" /\ Known(attempt'[p])
                         /\ ~attempt'[p].cancelled /\ ~attempt'[p].lost
                         /\ facts.main = attempt'[p].sha /\ attempt'[p].steady
               PROVE  Answers(statuses[attempt'[p].head][c], p)
    BY <1>1 DEF Given, Answers, Concluded, MainTrusted
  <2>1. p # r
    BY <1>1
  <2>2. Kept(attempt[p], attempt'[p]) /\ attempt'[p].steady = attempt[p].steady
        /\ (attempt[p].cancelled => attempt'[p].cancelled)
    BY <1>2, <2>1
  <2> QED
    BY <2>2 DEF Given, Concluded, MainTrusted, Kept
<1>9. Trusted'
  BY <1>1, <1>2 DEF Trusted, Kept, Fresh
<1>10. Steady'
  BY <1>1, <1>2 DEF Steady, Kept, Active, AsAudited
<1> QED
  BY <1>3, <1>4, <1>5, <1>6, <1>7, <1>8, <1>9, <1>10

LEMMA IdleIsItem == Idle \in Item /\ Idle.job = 1 /\ Idle.announced = FALSE
                    /\ Idle.resumed = FALSE
BY HeadAssumption DEF Idle, Item, Place

\* A signal, and a re-run of an attempt that is over, let a fresh one join.
StartsAttempt(r) == Signal(r) \/ \E q \in Attempt, job \in 1..4 : Rerun(r, q, job)

LEMMA StartEffect ==
  ASSUME TypeOK, Trusted, NEW r \in Attempt, StartsAttempt(r)
  PROVE  \E v \in Item : Fresh(v) /\ Joins(r, v)
<1> USE IdleIsItem
<1>1. CASE Signal(r)
  <2> DEFINE a == [Idle EXCEPT !.first = r]
             b == [a EXCEPT !.head = facts.head]
             c == [b EXCEPT !.sha = facts.main]
  <2>1. facts.head \in HeadSha /\ facts.main \in Nat /\ r \in Nat
    BY AttemptAssumption DEF TypeOK, Facts
  <2>2. Joins(r, c)
    BY <1>1 DEF Signal
  <2>3. a \in Item
    BY <2>1, ItemOrigin
  <2>4. a.job = 1 /\ a.announced = FALSE /\ a.resumed = FALSE
    BY DEF Idle
  <2> HIDE DEF a
  <2>5. b \in Item
    BY <2>1, <2>3, ItemOrigin
  <2>6. b.job = a.job /\ b.announced = a.announced /\ b.resumed = a.resumed
    BY <2>3 DEF Item
  <2> HIDE DEF b
  <2>7. c \in Item
    BY <2>1, <2>5, ItemOrigin
  <2>8. c.job = b.job /\ c.announced = b.announced /\ c.resumed = b.resumed
        /\ c.sha = facts.main
    BY <2>5 DEF Item
  <2> HIDE DEF c
  <2> QED
    BY <2>1, <2>2, <2>4, <2>6, <2>7, <2>8 DEF Fresh
<1>2. ASSUME NEW q \in Attempt, NEW job \in 1..4, Rerun(r, q, job)
      PROVE  \E v \in Item : Fresh(v) /\ Joins(r, v)
  <2>1. PICK u \in Item : u = attempt[q]
    BY DEF TypeOK
  <2>2. PICK n \in 0..3 : n = IF job = 4 THEN u.passed ELSE job - 1
    BY DEF Item
  <2>3. PICK m \in BOOLEAN : m = (job # 1)
    OBVIOUS
  <2> DEFINE a == [Idle EXCEPT !.job = job]
             b == [a EXCEPT !.first = u.first]
             c == [b EXCEPT !.resumed = m]
             d == [c EXCEPT !.head = u.head]
             e == [d EXCEPT !.sha = u.sha]
             g == [e EXCEPT !.passed = n]
  <2>4. Joins(r, g)
    BY <1>2, <2>1, <2>2, <2>3 DEF Rerun
  <2>5. u.first \in Nat /\ u.head \in HeadSha /\ u.sha \in Nat /\ u.sha <= facts.main
    BY <2>1 DEF Item, Trusted
  <2>6. a \in Item
    BY ItemJob
  <2>7. a.job = job /\ a.announced = FALSE
    BY DEF Idle
  <2> HIDE DEF a
  <2>8. b \in Item
    BY <2>5, <2>6, ItemOrigin
  <2>9. b.job = a.job /\ b.announced = a.announced
    BY <2>6 DEF Item
  <2> HIDE DEF b
  <2>10. c \in Item
    BY <2>8, ItemFlags
  <2>11. c.job = b.job /\ c.announced = b.announced /\ c.resumed = m
    BY <2>8 DEF Item
  <2> HIDE DEF c
  <2>12. d \in Item
    BY <2>5, <2>10, ItemOrigin
  <2>13. d.job = c.job /\ d.announced = c.announced /\ d.resumed = c.resumed
    BY <2>10 DEF Item
  <2> HIDE DEF d
  <2>14. e \in Item
    BY <2>5, <2>12, ItemOrigin
  <2>15. e.job = d.job /\ e.announced = d.announced /\ e.resumed = d.resumed /\ e.sha = u.sha
    BY <2>12 DEF Item
  <2> HIDE DEF e
  <2>16. g \in Item
    BY <2>14, ItemPassed
  <2>17. g.job = e.job /\ g.announced = e.announced /\ g.resumed = e.resumed /\ g.sha = e.sha
    BY <2>14 DEF Item
  <2> HIDE DEF g
  <2>18. Fresh(g)
    BY <2>3, <2>5, <2>7, <2>9, <2>11, <2>13, <2>15, <2>16, <2>17 DEF Fresh
  <2> QED
    BY <2>4, <2>16, <2>18
<1> QED
  BY <1>1, <1>2 DEF StartsAttempt

-----------------------------------------------------------------------------
(* What people change. *)

\* The reviews only grow, or one of them is dismissed.
Revised(a, b) ==
  \/ b = a
  \/ \E x \in Review : b = Append(a, x)
  \/ \E i \in 1..Len(a) :
       /\ a[i].state # "DISMISSED"
       /\ b \in Seq(Review) /\ Len(b) = Len(a) /\ b[i].state = "DISMISSED"
       /\ \A j \in 1..Len(a) : j # i => b[j] = a[j]

People ==
  \/ SubmitReview \/ DismissReview \/ ChangePull \/ ChangeRight \/ AdvanceMain
  \/ ChangePublisher

LEMMA PeopleEffect ==
  ASSUME TypeOK, People
  PROVE  \E f \in Facts : Show(f) /\ facts.main <= f.main /\ Revised(facts.reviews, f.reviews)
<1> USE DEF Facts, Revised
<1>1. facts \in Facts /\ facts.reviews \in Seq(Review) /\ facts.head \in HeadSha
      /\ facts.main \in Nat
  BY DEF TypeOK
<1>2. CASE SubmitReview
  <2>1. PICK u \in User, s \in {"APPROVED", "CHANGES_REQUESTED"} :
          Show([facts EXCEPT !.reviews =
                  Append(facts.reviews, [user |-> u, state |-> s, commit |-> facts.head])])
    BY <1>2 DEF SubmitReview
  <2> DEFINE x == [user |-> u, state |-> s, commit |-> facts.head]
             f == [facts EXCEPT !.reviews = Append(facts.reviews, x)]
  <2>2. x \in Review
    BY <1>1 DEF Review, Decision
  <2> HIDE DEF x
  <2>3. Append(facts.reviews, x) \in Seq(Review)
    BY <1>1, <2>2
  <2>4. f \in Facts /\ f.main = facts.main /\ f.reviews = Append(facts.reviews, x)
    BY <1>1, <2>3
  <2>5. Show(f)
    BY <2>1 DEF x
  <2> HIDE DEF f
  <2> QED
    BY <1>1, <2>2, <2>4, <2>5
<1>3. CASE DismissReview
  <2>1. PICK i \in DOMAIN facts.reviews :
          /\ facts.reviews[i].state # "DISMISSED"
          /\ Show([facts EXCEPT !.reviews[i].state = "DISMISSED"])
    BY <1>3 DEF DismissReview
  <2> DEFINE x == [facts.reviews[i] EXCEPT !.state = "DISMISSED"]
             l == [facts.reviews EXCEPT ![i] = x]
             f == [facts EXCEPT !.reviews = l]
  <2>2. i \in 1..Len(facts.reviews) /\ facts.reviews[i] \in Review
    BY <1>1
  <2>3. x \in Review /\ x.state = "DISMISSED"
    BY <2>2 DEF Review, Decision
  <2>4. Show(f)
    BY <2>1
  <2> HIDE DEF x
  <2>5. /\ l \in Seq(Review) /\ Len(l) = Len(facts.reviews) /\ l[i] = x
        /\ \A j \in 1..Len(facts.reviews) : j # i => l[j] = facts.reviews[j]
    BY <1>1, <2>2, <2>3
  <2> HIDE DEF l
  <2>6. f \in Facts /\ f.main = facts.main /\ f.reviews = l
    BY <1>1, <2>5
  <2> HIDE DEF f
  <2>7. Revised(facts.reviews, l)
    BY <2>1, <2>2, <2>3, <2>5
  <2> QED
    BY <1>1, <2>4, <2>6, <2>7
<1>4. CASE ChangePull
  <2>1. \/ \E h \in HeadSha : Show([facts EXCEPT !.head = h])
        \/ Show([facts EXCEPT !.open = ~facts.open])
    BY <1>4 DEF ChangePull
  <2>2. ASSUME NEW h \in HeadSha, Show([facts EXCEPT !.head = h])
        PROVE  \E f \in Facts : Show(f) /\ facts.main <= f.main /\ f.reviews = facts.reviews
    <3>1. /\ [facts EXCEPT !.head = h] \in Facts
          /\ [facts EXCEPT !.head = h].main = facts.main
          /\ [facts EXCEPT !.head = h].reviews = facts.reviews
      BY <1>1
    <3> QED
      BY <1>1, <2>2, <3>1
  <2>3. ASSUME Show([facts EXCEPT !.open = ~facts.open])
        PROVE  \E f \in Facts : Show(f) /\ facts.main <= f.main /\ f.reviews = facts.reviews
    <3>1. /\ [facts EXCEPT !.open = ~facts.open] \in Facts
          /\ [facts EXCEPT !.open = ~facts.open].main = facts.main
          /\ [facts EXCEPT !.open = ~facts.open].reviews = facts.reviews
      BY <1>1
    <3> QED
      BY <1>1, <2>3, <3>1
  <2> QED
    BY <2>1, <2>2, <2>3
<1>5. CASE ChangeRight
  <2>1. Show([facts EXCEPT !.right = ~facts.right])
    BY <1>5 DEF ChangeRight
  <2>2. /\ [facts EXCEPT !.right = ~facts.right] \in Facts
        /\ [facts EXCEPT !.right = ~facts.right].main = facts.main
        /\ [facts EXCEPT !.right = ~facts.right].reviews = facts.reviews
    BY <1>1
  <2> QED
    BY <1>1, <2>1, <2>2
<1>6. CASE AdvanceMain
  BY <1>1, <1>6 DEF AdvanceMain
<1>7. CASE ChangePublisher
  <2>1. \/ Show([facts EXCEPT !.environment = ~facts.environment])
        \/ Show([facts EXCEPT !.ruleset = ~facts.ruleset])
    BY <1>7 DEF ChangePublisher
  <2>2. /\ [facts EXCEPT !.environment = ~facts.environment] \in Facts
        /\ [facts EXCEPT !.environment = ~facts.environment].main = facts.main
        /\ [facts EXCEPT !.environment = ~facts.environment].reviews = facts.reviews
    BY <1>1
  <2>3. /\ [facts EXCEPT !.ruleset = ~facts.ruleset] \in Facts
        /\ [facts EXCEPT !.ruleset = ~facts.ruleset].main = facts.main
        /\ [facts EXCEPT !.ruleset = ~facts.ruleset].reviews = facts.reviews
    BY <1>1
  <2> QED
    BY <1>1, <2>1, <2>2, <2>3
<1> QED
  BY <1>2, <1>3, <1>4, <1>5, <1>6, <1>7 DEF People

LEMMA ShowEffect ==
  ASSUME TypeOK, NEW f \in Facts, Show(f)
  PROVE  /\ attempt' \in [Attempt -> Item] /\ facts' = f /\ events' \in Nat
         /\ UNCHANGED <<statuses, acts>>
         /\ \A q \in Attempt :
              /\ Kept(attempt[q], attempt'[q])
              /\ attempt'[q].cancelled = attempt[q].cancelled
              /\ attempt'[q].steady = (attempt[q].steady /\ (Active(q) => AsAudited(f)))
              /\ attempt'[q].sound = (attempt[q].sound \/ (Reading(q) /\ Allows(f, attempt[q])))
<1>5. events' = events + 1
  BY DEF Show
<1>1. /\ facts' = f /\ UNCHANGED <<statuses, acts>>
      /\ attempt' = [q \in Attempt |->
           [attempt[q] EXCEPT
              !.sound = attempt[q].sound \/ (Reading(q) /\ Allows(f, attempt[q])),
              !.steady = attempt[q].steady /\ (Active(q) => AsAudited(f))]]
  BY DEF Show
<1>2. ASSUME NEW q \in Attempt
      PROVE  /\ attempt'[q] \in Item /\ Kept(attempt[q], attempt'[q])
             /\ attempt'[q].cancelled = attempt[q].cancelled
             /\ attempt'[q].steady = (attempt[q].steady /\ (Active(q) => AsAudited(f)))
             /\ attempt'[q].sound = (attempt[q].sound \/ (Reading(q) /\ Allows(f, attempt[q])))
  <2>1. PICK v \in Item : v = attempt[q]
    BY DEF TypeOK
  <2>2. PICK b \in BOOLEAN : b = (v.sound \/ (Reading(q) /\ Allows(f, v)))
    OBVIOUS
  <2>3. PICK t \in BOOLEAN : t = (v.steady /\ (Active(q) => AsAudited(f)))
    OBVIOUS
  <2> DEFINE a == [v EXCEPT !.sound = b]
             w == [a EXCEPT !.steady = t]
  <2>4. attempt'[q] = w
    BY <1>1, <2>1, <2>2, <2>3
  <2>5. a \in Item
    BY <2>2, ItemSound
  <2>6. Kept(v, a) /\ a.cancelled = v.cancelled /\ a.sound = b
    BY DEF Item, Kept
  <2> HIDE DEF a
  <2>7. w \in Item
    BY <2>3, <2>5, ItemFlags
  <2>8. Kept(a, w) /\ w.cancelled = a.cancelled /\ w.sound = a.sound /\ w.steady = t
    BY <2>5 DEF Item, Kept
  <2> HIDE DEF w
  <2>9. Kept(v, w)
    BY <2>6, <2>8 DEF Kept
  <2> QED
    BY <2>1, <2>2, <2>3, <2>4, <2>6, <2>7, <2>8, <2>9
<1>3. attempt' \in [Attempt -> Item]
  BY <1>1, <1>2
<1>4. events' \in Nat
  BY <1>5 DEF TypeOK
<1> QED
  BY <1>1, <1>2, <1>3, <1>4

LEMMA PeopleKeepStatuses ==
  ASSUME TypeOK, StatusInv, People
  PROVE  TypeOK' /\ StatusInv'
<1> USE DEF StatusInv, Started, Ended, Known, Done
<1>1. PICK f \in Facts : Show(f) /\ facts.main <= f.main
  BY PeopleEffect
<1>2. /\ attempt' \in [Attempt -> Item] /\ facts' = f /\ events' \in Nat
      /\ UNCHANGED <<statuses, acts>>
  BY <1>1, ShowEffect
<1>3. \A q \in Attempt :
        /\ Kept(attempt[q], attempt'[q]) /\ attempt'[q].cancelled = attempt[q].cancelled
        /\ attempt'[q].steady = (attempt[q].steady /\ (Active(q) => AsAudited(f)))
  BY <1>1, ShowEffect
<1>4. TypeOK'
  BY <1>2 DEF TypeOK
<1>5. SaneInv' /\ Order'
  BY <1>2, <1>3 DEF SaneInv, Sane, Quiet, Early, Order, Begun, Kept
<1>6. Signed' /\ Newest'
  BY <1>2, <1>3 DEF Signed, Newest, Kept
<1>7. facts.main \in Nat /\ f.main \in Nat /\ \A q \in Attempt : attempt[q].sha \in Nat
  BY DEF TypeOK, Facts, Item
<1>8. Trusted'
  BY <1>1, <1>2, <1>3, <1>7 DEF Trusted, Kept
<1>9. \A q \in Attempt : facts'.main = attempt'[q].sha => facts.main = attempt[q].sha
  BY <1>1, <1>2, <1>3, <1>7 DEF Trusted, Kept
<1>10. Given'
  <2> SUFFICES ASSUME NEW q \in Attempt, NEW c \in Context,
                      \/ /\ attempt'[q].step = "post" /\ attempt'[q].verdict # "pending"
                         /\ c <= attempt'[q].posted
                      \/ Concluded(q)'
               PROVE  Answers(statuses'[attempt'[q].head][c], q)
    BY DEF Given, Answers
  <2>1. Concluded(q)' => Concluded(q)
    BY <1>3, <1>9 DEF Concluded, MainTrusted, Kept
  <2>2. attempt'[q].head = attempt[q].head /\ attempt'[q].step = attempt[q].step
        /\ attempt'[q].verdict = attempt[q].verdict /\ attempt'[q].posted = attempt[q].posted
    BY <1>3 DEF Kept
  <2>3. Answers(statuses[attempt[q].head][c], q)
    BY <2>1, <2>2 DEF Given
  <2> QED
    BY <1>2, <2>2, <2>3
<1>11. Steady'
  BY <1>2, <1>3 DEF Steady, Kept, Active, AsAudited
<1> QED
  BY <1>4, <1>5, <1>6, <1>8, <1>10, <1>11

-----------------------------------------------------------------------------
(* The reviews. *)

Watching == {"permission", "reviews2", "pull2", "main2"}

\* b is what has become of the reviews a.
Prior(a, b) ==
  /\ Len(a) <= Len(b)
  /\ \A i \in 1..Len(a) : b[i] = a[i] \/ b[i].state = "DISMISSED"

\* A run that has read the reviews knows of a moment that allowed it, unless
\* what it is still to read will refuse it: main has moved, or the reviews are
\* no longer those it has read, and neither comes back.
Watched(f, v) ==
  v.step \in Watching =>
    /\ Prior(v.reviews, f.reviews)
    /\ Allows(f, v) => v.sound
    /\ v.step = "reviews2" => v.sound \/ f.main # v.sha \/ f.reviews # v.reviews
    /\ v.step \in {"pull2", "main2"} => v.sound \/ f.main # v.sha

WatchInv == \A r \in Attempt : Watched(facts, attempt[r])

LEMMA PriorIsKept ==
  ASSUME NEW a \in Seq(Review), NEW b \in Seq(Review), NEW c \in Seq(Review),
         Prior(a, b), Revised(b, c)
  PROVE  Prior(a, c) /\ (c = a => b = a)
<1> USE DEF Prior
<1>1. Len(a) \in Nat /\ Len(b) \in Nat /\ Len(c) \in Nat
  OBVIOUS
<1>2. CASE c = b
  BY <1>2
<1>3. CASE \E x \in Review : c = Append(b, x)
  <2>1. Len(c) = Len(b) + 1 /\ \A i \in 1..Len(b) : c[i] = b[i]
    BY <1>3
  <2> QED
    BY <1>1, <2>1
<1>4. CASE \E i \in 1..Len(b) :
             /\ b[i].state # "DISMISSED"
             /\ c \in Seq(Review) /\ Len(c) = Len(b) /\ c[i].state = "DISMISSED"
             /\ \A j \in 1..Len(b) : j # i => c[j] = b[j]
  <2>1. PICK i \in 1..Len(b) :
             /\ b[i].state # "DISMISSED" /\ Len(c) = Len(b) /\ c[i].state = "DISMISSED"
             /\ \A j \in 1..Len(b) : j # i => c[j] = b[j]
    BY <1>4
  <2>2. \A j \in 1..Len(a) : c[j] = a[j] \/ c[j].state = "DISMISSED"
    BY <1>1, <2>1
  <2>3. c # a
    BY <1>1, <2>1
  <2> QED
    BY <2>1, <2>2, <2>3
<1> QED
  BY <1>2, <1>3, <1>4 DEF Revised

LEMMA MoveWatched ==
  ASSUME TypeOK, Trusted, NEW r \in Attempt, NEW v \in Item, NEW w \in Item, v = attempt[r],
         Watched(facts, v), Moves(r, v, w)
  PROVE  Watched(facts, w)
<1>1. CASE Examines(facts, v, w)
  <2>1. Prior(w.reviews, facts.reviews)
    BY <1>1 DEF Examines, Prior, TypeOK, Facts
  <2>2. w.step = "permission" /\ (Allows(facts, w) => w.sound)
    BY <1>1 DEF Examines, Same, Allows
  <2> QED
    BY <2>1, <2>2 DEF Watched
<1>2. CASE Found(r) /\ \E s \in Watching : Onward(v, s) /\ Went(v, w, s)
  <2>1. v.step \in Watching /\ (Allows(facts, w) <=> Allows(facts, v))
        /\ w.reviews = v.reviews /\ w.sound = v.sound /\ w.sha = v.sha
    BY <1>2 DEF Onward, Watching, Went, Same, Allows
  <2>2. w.step = "reviews2" => w.sound \/ facts.main # w.sha \/ facts.reviews # w.reviews
    BY <1>2, <2>1 DEF Found, Onward, Went, Watched, Watching, Allows
  <2>3. w.step \in {"pull2", "main2"} => w.sound \/ facts.main # w.sha
    BY <1>2, <2>1 DEF Found, Onward, Went, Watched, Watching
  <2> QED
    BY <2>1, <2>2, <2>3 DEF Watched
<1>3. CASE w.step \notin Watching
  BY <1>3 DEF Watched
<1>4. \/ Found(r) /\ \E s \in Place : Onward(v, s) /\ Went(v, w, s)
      \/ Examines(facts, v, w)
      \/ w.step \in {"boundary", "main1", "ended", "identity", "execute"}
  <2>1. Starts(v, w) => w.step \in {"boundary", "main1"}
    BY DEF Starts, Went
  <2>2. Passed(v, w) => w.step \in {"boundary", "main1"}
    BY DEF Passed
  <2>3. Refuses(v, w) => w.step \in {"boundary", "main1", "ended", "identity"}
    BY <2>2 DEF Refuses, Went, Publishes
  <2>4. /\ Dies(v, w) => w.step = "ended"
        /\ \A x : Publishes(v, w, x) => w.step = "identity"
        /\ Went(v, w, "execute") => w.step = "execute"
    BY DEF Dies, Publishes, Went
  <2> QED
    BY <2>1, <2>2, <2>3, <2>4 DEF Moves
<1>5. ASSUME Found(r), NEW s \in Place, Onward(v, s), Went(v, w, s)
      PROVE  Watched(facts, w)
  <2>1. w.step = s
    BY <1>5 DEF Went
  <2> QED
    BY <1>2, <1>3, <1>5, <2>1
<1> QED
  BY <1>1, <1>3, <1>4, <1>5 DEF Watching

LEMMA WorkActs ==
  ASSUME TypeOK, NEW r \in Attempt, Work(r)
  PROVE  \/ UNCHANGED acts
         \/ /\ attempt[r].step = "main2" /\ facts.main = attempt[r].sha
            /\ acts' = acts \cup {attempt[r].sound}
BY DEF Work, Begin, Stop, Lose, Reads, ReadBoundary, ReadEnvironment, ReadIdentity, ResolveSignal, ReadAnnounce1, CheckSignal,
       ReadMain1, ReadPull1, ReadPermission, ReadReviews2, ReadPull2, Check, ReadAnnounce2,
       ReadReviews1, ReadMain2, Execute, MainTrusted

Inv == TypeOK /\ StatusInv /\ WatchInv /\ ReviewedAtOneMoment

LEMMA WorkKeeps ==
  ASSUME Inv, NEW r \in Attempt, Work(r)
  PROVE  Inv'
<1> USE DEF Inv
<1>1. PICK w \in Item : attempt' = [attempt EXCEPT ![r] = w] /\ Moves(r, attempt[r], w)
  BY WorkEffect DEF MovesFrame, StatusInv
<1>2. UNCHANGED <<facts, events, statuses>>
  BY WorkEffect DEF MovesFrame, StatusInv
<1>3. attempt' \in [Attempt -> Item] /\ StatusInv'
  BY WorkKeepsStatuses
<1>4. PICK v \in Item : v = attempt[r]
  BY DEF TypeOK
<1>5. WatchInv'
  <2>1. Watched(facts, w)
    BY <1>1, <1>4, MoveWatched DEF WatchInv, StatusInv
  <2> SUFFICES ASSUME NEW q \in Attempt PROVE Watched(facts, attempt'[q])
    BY <1>2 DEF WatchInv, Watched, Allows
  <2> QED
    BY <1>1, <2>1 DEF WatchInv, TypeOK
<1>6. TypeOK' /\ ReviewedAtOneMoment'
  <2>1. CASE UNCHANGED acts
    BY <1>2, <1>3, <2>1 DEF TypeOK, ReviewedAtOneMoment
  <2>2. CASE /\ attempt[r].step = "main2" /\ facts.main = attempt[r].sha
             /\ acts' = acts \cup {attempt[r].sound}
    <3>1. v.sound /\ v.sound \in BOOLEAN
      BY <1>4, <2>2 DEF WatchInv, Watched, Watching, Item
    <3>2. acts' = acts \cup {v.sound}
      BY <1>4, <2>2
    <3> QED
      BY <1>2, <1>3, <3>1, <3>2 DEF TypeOK, ReviewedAtOneMoment
  <2> QED
    BY <2>1, <2>2, WorkActs
<1> QED
  BY <1>3, <1>5, <1>6

LEMMA OthersKeep ==
  ASSUME Inv, (\E r \in Attempt : StartsAttempt(r) \/ PostStatus(r)) \/ People
  PROVE  Inv'
<1> USE DEF Inv
<1>1. ASSUME NEW r \in Attempt, StartsAttempt(r) PROVE Inv'
  <2>1. PICK v \in Item : Fresh(v) /\ Joins(r, v)
    BY <1>1, StartEffect DEF StatusInv
  <2>2. TypeOK' /\ StatusInv'
    BY <2>1, JoinsKeepsStatuses
  <2>3. UNCHANGED <<facts, acts>>
    BY <2>1, JoinsEffect
  <2>4. WatchInv'
    <3> SUFFICES ASSUME NEW q \in Attempt PROVE Watched(facts, attempt'[q])
      BY <2>3 DEF WatchInv, Watched, Allows
    <3>1. CASE q = r
      <4>1. attempt'[r].step = "waiting"
        BY <2>1, JoinsEffect
      <4> QED
        BY <3>1, <4>1 DEF Watched, Watching
    <3>2. CASE q # r
      <4>1. Kept(attempt[q], attempt'[q]) /\ attempt'[q].sound = attempt[q].sound
        BY <2>1, <3>2, JoinsEffect
      <4>2. Watched(facts, attempt[q])
        BY DEF WatchInv
      <4> QED
        BY <4>1, <4>2 DEF Watched, Allows, Kept
    <3> QED
      BY <3>1, <3>2
  <2> QED
    BY <2>2, <2>3, <2>4 DEF ReviewedAtOneMoment
<1>2. ASSUME NEW r \in Attempt, PostStatus(r) PROVE Inv'
  <2>1. TypeOK' /\ StatusInv'
    BY <1>2, PostKeepsStatuses
  <2>2. UNCHANGED <<facts, acts>>
    BY <1>2 DEF PostStatus
  <2>3. PICK w \in Item, c \in Context : attempt' = [attempt EXCEPT ![r] = w] /\ Posts(attempt[r], w, c)
    BY <1>2, PostEffect DEF StatusInv
  <2>4. WatchInv'
    <3>1. Watched(facts, w)
      BY <2>3 DEF Watched, Watching, Posts
    <3> SUFFICES ASSUME NEW q \in Attempt PROVE Watched(facts, attempt'[q])
      BY <2>2 DEF WatchInv, Watched, Allows
    <3> QED
      BY <2>3, <3>1 DEF WatchInv, TypeOK
  <2> QED
    BY <2>1, <2>2, <2>4 DEF ReviewedAtOneMoment
<1>3. ASSUME People PROVE Inv'
  <2>1. TypeOK' /\ StatusInv'
    BY <1>3, PeopleKeepStatuses
  <2>2. PICK f \in Facts : Show(f) /\ facts.main <= f.main /\ Revised(facts.reviews, f.reviews)
    BY <1>3, PeopleEffect
  <2>3. facts' = f /\ UNCHANGED acts
    BY <2>2, ShowEffect
  <2>4. WatchInv'
    <3> SUFFICES ASSUME NEW q \in Attempt PROVE Watched(f, attempt'[q])
      BY <2>3 DEF WatchInv, Watched, Allows
    <3>1. PICK v \in Item : v = attempt[q]
      BY DEF TypeOK
    <3>2. PICK w \in Item : w = attempt'[q]
      BY <2>1 DEF TypeOK
    <3>3. /\ w.head = v.head /\ w.sha = v.sha /\ w.step = v.step /\ w.reviews = v.reviews
          /\ w.sound = (v.sound \/ (Reading(q) /\ Allows(f, v)))
      BY <2>2, <3>1, <3>2, ShowEffect DEF Kept
    <3>4. SUFFICES ASSUME v.step \in Watching PROVE Watched(f, w)
      BY <3>2, <3>3 DEF Watched
    <3>5. Watched(facts, v) /\ v.sha <= facts.main
      BY <3>1 DEF WatchInv, StatusInv, Trusted
    <3>6. Prior(v.reviews, f.reviews) /\ (f.reviews = v.reviews => facts.reviews = v.reviews)
      BY <2>2, <3>4, <3>5, PriorIsKept DEF Watched, TypeOK, Facts, Item
    <3>7. f.main = v.sha => facts.main = v.sha
      BY <2>2, <3>5 DEF TypeOK, Facts, Item
    <3>8. Allows(f, w) => w.sound
      BY <3>1, <3>3, <3>4 DEF Allows, Reading, Watching
    <3>9. v.sound => w.sound
      BY <3>3
    <3> QED
      BY <3>3, <3>4, <3>5, <3>6, <3>7, <3>8, <3>9 DEF Watched
  <2> QED
    BY <2>1, <2>3, <2>4 DEF ReviewedAtOneMoment
<1> QED
  BY <1>1, <1>2, <1>3

LEMMA InitInv == Init => Inv
<1> SUFFICES ASSUME Init PROVE Inv
  OBVIOUS
<1>1. Idle \in Item /\ Idle.step = "unsent" /\ Idle.job = 1 /\ Idle.announced = FALSE
      /\ Idle.sha = 0 /\ Idle.resumed = FALSE
  BY IdleIsItem DEF Idle
<1>2. attempt = [r \in Attempt |-> Idle] /\ acts = {}
  BY DEF Init
<1>3. facts \in Facts /\ facts.main = 0
  <2>1. [user |-> "reviewer", state |-> "APPROVED", commit |-> InitialHead] \in Review
    BY HeadAssumption DEF Review, User, Decision
  <2>2. <<[user |-> "reviewer", state |-> "APPROVED", commit |-> InitialHead]>> \in Seq(Review)
    BY <2>1
  <2> QED
    BY <2>2, HeadAssumption DEF Init, Facts
<1>4. statuses \in [HeadSha -> [Context -> Status]]
      /\ \A h \in HeadSha, c \in Context : statuses[h][c].state = "none"
  BY DEF Init, NoStatus, Status
<1>5. TypeOK
  BY <1>1, <1>2, <1>3, <1>4 DEF TypeOK, Init
<1>6. StatusInv
  BY <1>1, <1>2, <1>3, <1>4
  DEF StatusInv, SaneInv, Sane, Quiet, Early, Order, Begun, Done, Started, Ended, Signed, Newest,
      Given, Concluded, Trusted, Steady, Active, Known
<1>7. WatchInv /\ ReviewedAtOneMoment
  BY <1>1, <1>2 DEF WatchInv, Watched, Watching, ReviewedAtOneMoment
<1> QED
  BY <1>5, <1>6, <1>7 DEF Inv

LEMMA Invariance == Spec => []Inv
<1>1. Inv /\ [Next]_vars => Inv'
  <2> SUFFICES ASSUME Inv, [Next]_vars PROVE Inv'
    OBVIOUS
  <2>1. ASSUME NEW r \in Attempt, Admission(r) PROVE Work(r)
    BY <2>1 DEF Admission, Work, Reads
  <2>2. CASE UNCHANGED vars
    BY <2>2
    DEF vars, Inv, TypeOK, StatusInv, SaneInv, Sane, Order, Signed, Newest, Given, Trusted,
        Steady, WatchInv, Watched, Allows, ReviewedAtOneMoment, Started, Ended, Active, Concluded,
        MainTrusted, AsAudited
  <2>3. CASE Next
    BY <2>1, <2>3, WorkKeeps, OthersKeep DEF Next, Work, People, StartsAttempt
  <2> QED
    BY <2>2, <2>3
<1> QED
  BY <1>1, InitInv, PTL DEF Spec

-----------------------------------------------------------------------------
(* The theorems. *)

\* The facts, the attempts and the statuses are what GitHub and the jobs keep.
THEOREM ReviewTypeCorrect == Spec => []TypeOK
<1>1. Inv => TypeOK
  BY DEF Inv
<1> QED
  BY <1>1, Invariance, PTL

\* Reading main and the reviews twice around the right of the reviewer finds a
\* moment at which those three agreed, in whatever order people review, dismiss
\* and merge meanwhile, and from whichever job a run is started again.
THEOREM CredentialsAreReviewed == Spec => []ReviewedAtOneMoment
<1>1. Inv => ReviewedAtOneMoment
  BY DEF Inv
<1> QED
  BY <1>1, Invariance, PTL

\* No attempt writes over a later one that has announced itself, for any number
\* of signals, re-runs and heads.
THEOREM LaterAttemptsReplaceEarlier == Spec => []NewestRunSpeaks
<1>1. Inv => NewestRunSpeaks
  BY DEF Inv, StatusInv, Newest, NewestRunSpeaks
<1> QED
  BY <1>1, Invariance, PTL

\* The three contexts the ruleset requires only succeed together by one attempt,
\* where none of them is due to one that was resumed after its admission.
THEOREM SuccessIsOfOneAttempt == Spec => []OneRunSucceeds
<1>1. Inv => OneRunSucceeds
  <2> SUFFICES ASSUME Inv, NEW h \in HeadSha,
                      \A c \in Context :
                        /\ statuses[h][c].state = "success"
                        /\ ~attempt[statuses[h][c].attempt].resumed,
                      NEW c \in Context, NEW d \in Context
               PROVE  statuses[h][c].attempt = statuses[h][d].attempt
    BY DEF OneRunSucceeds
  <2>1. \A e \in Context :
          /\ statuses[h][e].attempt \in Attempt
          /\ attempt[statuses[h][e].attempt].announced
          /\ attempt[statuses[h][e].attempt].head = h
    BY DEF Inv, StatusInv, Signed, Known
  <2>2. /\ statuses[h][c].attempt >= statuses[h][d].attempt
        /\ statuses[h][d].attempt >= statuses[h][c].attempt
    BY <2>1 DEF Inv, StatusInv, Newest
  <2>3. statuses[h][c].attempt \in Nat /\ statuses[h][d].attempt \in Nat
    BY <2>1, AttemptAssumption
  <2> QED
    BY <2>2, <2>3
<1> QED
  BY <1>1, Invariance, PTL

\* What announced itself, and what was resumed to give a verdict that another
\* attempt owed, gives it in all contexts if nothing keeps it from doing so.
THEOREM AttemptsConclude == Spec => []VerdictIsGiven
<1>1. Inv => VerdictIsGiven
  BY DEF Inv, StatusInv, Given, Answers, Concluded, Known, VerdictIsGiven
<1> QED
  BY <1>1, Invariance, PTL
=============================================================================
