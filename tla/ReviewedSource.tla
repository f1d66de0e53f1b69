--------------------------- MODULE ReviewedSource ---------------------------
(***************************************************************************)
(* The preview of a pull request whose source has been reviewed            *)
(* (reviewed-pr-preview.yml, reviewed_source_admission.py): a signal of    *)
(* another workflow starts a run on the default branch, which announces    *)
(* itself as pending, admits the head, executes the preview and the gates  *)
(* with credentials, and publishes three statuses the ruleset of main      *)
(* requires.  Every job admits the head anew, by a sequence of reads.      *)
(*                                                                         *)
(* Between any two reads or posts reviews are submitted and dismissed,     *)
(* rights withdrawn, heads pushed, main moves, and the environment of the  *)
(* publisher or the pinned ruleset changes.  A newer signal cancels the    *)
(* run of the branch, but a job with always() still runs.                  *)
(*                                                                         *)
(* A run that is over may be started again, as a whole or from one of its  *)
(* jobs: a new attempt, at the revision of the run and with the results of *)
(* the attempt before it.  Nothing here looks at the number of an attempt. *)
(***************************************************************************)
EXTENDS Naturals, Sequences, SequencesExt

CONSTANTS
  HeadSha,       \* head commits of the branch
  InitialHead,
  Tampered,      \* heads that change the configuration of the bot
  Attempt,       \* attempts of runs, numbered in the order they start
  MaxMain,       \* bound of the model: commits of main
  MaxEvents      \* bound of the model: attempts and changes of what they read

ASSUME AttemptAssumption == Attempt \subseteq Nat \ {0}
ASSUME HeadAssumption == InitialHead \in HeadSha /\ Tampered \subseteq HeadSha
ASSUME BoundAssumption == MaxMain \in Nat /\ MaxEvents \in Nat

User    == {"author", "reviewer", "bot"}
Decision == {"APPROVED", "CHANGES_REQUESTED", "DISMISSED"}
Review  == [user: User, state: Decision, commit: HeadSha]
Context == 1..3    \* preview, destructive diff gate, IAM validation
Jobs    == <<"admission", "preview", "gates", "publish">>
Facts   == [main: Nat, head: HeadSha, open: BOOLEAN, reviews: Seq(Review),
            right: BOOLEAN, environment: BOOLEAN, ruleset: BOOLEAN]
Place   == {"unsent", "waiting", "boundary", "environment", "resolve", "announce1",
            "announce2", "identity", "post", "signal", "main1", "pull1", "reviews1",
            "permission", "reviews2", "pull2", "main2", "execute", "ended"}
Item    == [step: Place, job: 1..4, first: Nat, resumed: BOOLEAN,
            head: HeadSha, sha: Nat, passed: 0..3,
            reviews: Seq(Review), sound: BOOLEAN,
            verdict: {"pending", "success", "failure"}, posted: 0..3,
            announced: BOOLEAN, cancelled: BOOLEAN, lost: BOOLEAN, steady: BOOLEAN]
Status  == [state: {"none", "pending", "success", "failure"}, attempt: Attempt \cup {0}]
NoStatus == [state |-> "none", attempt |-> 0]

VARIABLES
  facts,      \* what GitHub shows now
  events,     \* bound of the model: attempts so far and changes of the facts
  attempt,    \* each attempt
  statuses,   \* the statuses of each head
  acts        \* history: whether each admission, and what was done in its name,
              \* was sound

vars == <<facts, events, attempt, statuses, acts>>

\* An attempt: its place, the first attempt of its run and whether it was
\* resumed after the admission, the head of its signal, the revision of main it
\* runs at, how many jobs have passed one after the other, the reviews it has
\* read, the verdict it is posting and how far.  "sound" and
\* "steady" are history: since the job began to read the reviews there was a
\* moment at which they, the rights and main all allowed it; and while the
\* attempt ran its publisher was always as audited.
Idle ==
  [step |-> "unsent", job |-> 1, first |-> 0, resumed |-> FALSE, head |-> InitialHead,
   sha |-> 0, passed |-> 0, reviews |-> <<>>, sound |-> FALSE,
   verdict |-> "pending", posted |-> 0, announced |-> FALSE, cancelled |-> FALSE,
   lost |-> FALSE, steady |-> FALSE]

Init ==
  /\ \E right \in BOOLEAN :
       facts = [main |-> 0, head |-> InitialHead, open |-> TRUE, right |-> right,
                environment |-> TRUE, ruleset |-> TRUE,
                reviews |-> <<[user |-> "reviewer", state |-> "APPROVED",
                               commit |-> InitialHead]>>]
  /\ events = 0
  /\ attempt = [r \in Attempt |-> Idle]
  /\ statuses = [h \in HeadSha |-> [c \in Context |-> NoStatus]]
  /\ acts = {}
-----------------------------------------------------------------------------
(***************************************************************************)
(* The reviews.                                                            *)
(***************************************************************************)
Indices(reviews, u) == {i \in DOMAIN reviews : reviews[i].user = u}

\* The latest decision of each reviewer; comments decide nothing.
Latest(reviews) ==
  {reviews[i] : i \in {j \in DOMAIN reviews :
                         \A k \in Indices(reviews, reviews[j].user) : k <= j}}

Blocked(reviews) == \E v \in Latest(reviews) : v.state = "CHANGES_REQUESTED"

\* Approvals of the head by somebody other than its author; that of the bot
\* counts only if the head leaves the configuration of the bot alone.
Eligible(reviews, h) ==
  {v \in Latest(reviews) :
     /\ v.state = "APPROVED"
     /\ v.commit = h
     /\ v.user # "author"
     /\ v.user = "bot" => h \notin Tampered}

Approved(reviews, h, right) ==
  /\ ~Blocked(reviews)
  /\ \E v \in Eligible(reviews, h) : v.user = "reviewer" => right

\* What an admission of attempt i is meant to establish of the facts f; that its
\* pull request is open at this head it asks before and after, of other moments.
Allows(f, i) == f.main = i.sha /\ Approved(f.reviews, i.head, f.right)
-----------------------------------------------------------------------------
(***************************************************************************)
(* The signals, the re-runs and the concurrency group of the branch.       *)
(***************************************************************************)
Started(r) == attempt[r].step # "unsent"
Ended(r)   == attempt[r].step = "ended"
Active(r)  == attempt[r].step \notin {"unsent", "ended"}

Goto(r, s) == attempt' = [attempt EXCEPT ![r].step = s]

\* The publisher is what the owner has audited.
AsAudited(f) == f.environment /\ f.ruleset

\* Attempt r, as v, joins the group: those before it are told to stop.
Joins(r, v) ==
  /\ events < MaxEvents
  /\ events' = events + 1
  /\ ~Started(r)
  /\ \A q \in Attempt : q < r => Started(q)
  /\ attempt' = [q \in Attempt |->
       IF q = r THEN [v EXCEPT !.step = "waiting", !.steady = AsAudited(facts)]
       ELSE IF Active(q) THEN [attempt[q] EXCEPT !.cancelled = TRUE] ELSE attempt[q]]
  /\ UNCHANGED <<facts, statuses, acts>>

\* A guardrail run or a review event of a head completed.
Signal(r) ==
  Joins(r, [Idle EXCEPT !.first = r, !.head = facts.head, !.sha = facts.main])

\* The jobs from which attempt v can be started again: the results of those
\* before are kept, and publishing needs no more than the admission.
CanResume(v, job) == v.passed >= IF job = 4 THEN 1 ELSE job - 1

\* The last attempt q of a run is over, and somebody starts it again from a job.
Rerun(r, q, job) ==
  LET v == attempt[q]
  IN  /\ Ended(q)
      /\ \A p \in Attempt : Started(p) /\ attempt[p].first = v.first => p <= q
      /\ CanResume(v, job)
      /\ Joins(r, [Idle EXCEPT !.job = job, !.first = v.first, !.resumed = job # 1,
                               !.head = v.head, !.sha = v.sha,
                               !.passed = IF job = 4 THEN v.passed ELSE job - 1])

Job(r) == Jobs[attempt[r].job]

\* Where a job begins: those that publish look at the publisher first.
Entry(job) == IF job \in {1, 4} THEN "boundary" ELSE "main1"

\* Mutant: the attempt does not wait for those it has cancelled.
BeginAtOnce(r) ==
  /\ attempt[r].step = "waiting"
  /\ ~attempt[r].cancelled
  /\ Goto(r, Entry(attempt[r].job))
  /\ UNCHANGED <<facts, events, statuses, acts>>

\* An attempt starts when those it has cancelled are over.
Begin(r) ==
  /\ attempt[r].step = "waiting"
  /\ ~attempt[r].cancelled
  /\ \A q \in Attempt : q < r => ~Active(q)
  /\ Goto(r, Entry(attempt[r].job))
  /\ UNCHANGED <<facts, events, statuses, acts>>

\* The next job after a job that went well or failed: the publication follows
\* in any case once the head was admitted.  What a job has read is gone with it.
AfterJob(r, ok) ==
  LET i    == attempt[r]
      next == IF ok /\ i.job < 3 THEN i.job + 1 ELSE 4
  IN  [i EXCEPT !.reviews = <<>>, !.sound = FALSE, !.step = Entry(next), !.job = next,
                !.passed = IF ok THEN i.job ELSE @]

\* A cancelled attempt stops, except for the job that publishes once it runs.
Stop(r) ==
  /\ attempt[r].cancelled
  /\ Active(r)
  /\ attempt[r].step = "waiting" \/ Job(r) # "publish"
  /\ attempt' = [attempt EXCEPT ![r] =
       IF @.step = "waiting" \/ Job(r) = "admission" THEN [@ EXCEPT !.step = "ended"]
       ELSE AfterJob(r, FALSE)]
  /\ UNCHANGED <<facts, events, statuses, acts>>

\* The machine of a job is lost.
Lose(r) ==
  /\ Active(r)
  /\ attempt[r].step # "waiting"
  /\ attempt' = [attempt EXCEPT ![r] =
       IF Job(r) \in {"admission", "publish"}
       THEN [@ EXCEPT !.step = "ended", !.lost = TRUE] ELSE AfterJob(r, FALSE)]
  /\ UNCHANGED <<facts, events, statuses, acts>>
-----------------------------------------------------------------------------
(***************************************************************************)
(* The statuses.                                                           *)
(***************************************************************************)
\* The reviews have served their purpose.
Publishing(r, v) ==
  [attempt[r] EXCEPT !.step = "identity", !.verdict = v, !.posted = 0,
                     !.reviews = <<>>, !.sound = FALSE]

\* Where an attempt goes when its three statuses are posted.
AfterPosts(r) ==
  IF attempt[r].verdict = "pending"
  THEN [attempt[r] EXCEPT !.step = "signal", !.posted = 3, !.announced = TRUE]
  ELSE [attempt[r] EXCEPT !.step = "ended", !.posted = 3]

PostStatus(r) ==
  /\ attempt[r].step = "post"
  /\ LET c == attempt[r].posted + 1
     IN  /\ statuses' = [statuses EXCEPT ![attempt[r].head][c] =
                           [state |-> attempt[r].verdict, attempt |-> r]]
         /\ attempt' = [attempt EXCEPT ![r] =
              IF c = 3 THEN AfterPosts(r) ELSE [@ EXCEPT !.posted = c]]
  /\ UNCHANGED <<facts, events, acts>>
-----------------------------------------------------------------------------
(***************************************************************************)
(* The admission, one read at a time.                                      *)
(***************************************************************************)
MainTrusted(r) == facts.main = attempt[r].sha
PullLive(r)    == facts.open /\ facts.head = attempt[r].head

\* Mutant: a refusal ends the attempt and leaves the statuses alone.
RefusedSilently(r) ==
  IF Job(r) \in {"admission", "publish"} THEN [attempt[r] EXCEPT !.step = "ended"]
  ELSE AfterJob(r, FALSE)

\* The reads whose refusal nothing catches: those before the announcement, and
\* those that ask whether the publisher is what was audited.
Uncaught == {"boundary", "environment", "resolve", "announce1", "announce2", "identity"}

\* A read that refuses: the attempt ends, or the head is marked as failed by the
\* jobs that publish; the other jobs fail.
Refused(r) ==
  IF attempt[r].step \in Uncaught THEN [attempt[r] EXCEPT !.step = "ended"]
  ELSE IF Job(r) \in {"admission", "publish"} THEN Publishing(r, "failure")
  ELSE AfterJob(r, FALSE)

Check(r, step, ok, next) ==
  /\ attempt[r].step = step
  /\ attempt' = [attempt EXCEPT ![r] = IF ok THEN [@ EXCEPT !.step = next] ELSE Refused(r)]
  /\ UNCHANGED <<facts, events, statuses, acts>>

\* Both jobs that publish look at main and at the environment that holds the
\* key before they ask for their token.
ReadBoundary(r) == Check(r, "boundary", MainTrusted(r), "environment")

ReadEnvironment(r) ==
  Check(r, "environment", facts.environment,
        IF Job(r) = "admission" THEN "resolve" ELSE "main1")

\* Each publication asks for the identity of the App and the ruleset as pinned.
ReadIdentity(r) == Check(r, "identity", facts.ruleset, "post")

\* The run that gave the signal is over, unless somebody has started it again,
\* and names the one open pull request of its head.
ResolveSignal(r) ==
  \E terminal \in BOOLEAN : Check(r, "resolve", terminal /\ PullLive(r), "announce1")

ReadAnnounce1(r) == Check(r, "announce1", MainTrusted(r), "announce2")

\* Mutant: the attempt does not announce itself as pending.
AnnounceNothing(r) == Check(r, "announce2", PullLive(r), "signal")

\* The attempt announces itself: the statuses of earlier ones are gone.
ReadAnnounce2(r) ==
  /\ attempt[r].step = "announce2"
  /\ attempt' = [attempt EXCEPT ![r] =
       IF PullLive(r) THEN Publishing(r, "pending") ELSE Refused(r)]
  /\ UNCHANGED <<facts, events, statuses, acts>>

\* Its conclusion, read together with its end, is looked at only now.
CheckSignal(r) == \E success \in BOOLEAN : Check(r, "signal", success, "main1")

ReadMain1(r)   == Check(r, "main1", MainTrusted(r), "pull1")
ReadPull1(r)   == Check(r, "pull1", PullLive(r), "reviews1")

ReadReviews1(r) ==
  /\ attempt[r].step = "reviews1"
  /\ attempt' = [attempt EXCEPT ![r] =
       IF ~Blocked(facts.reviews) /\ Eligible(facts.reviews, attempt[r].head) # {}
       THEN [@ EXCEPT !.step = "permission", !.reviews = facts.reviews,
                      !.sound = Allows(facts, attempt[r])]
       ELSE Refused(r)]
  /\ UNCHANGED <<facts, events, statuses, acts>>

ReadPermission(r) ==
  Check(r, "permission", Approved(attempt[r].reviews, attempt[r].head, facts.right),
        "reviews2")

\* Mutant: the reviews are not compared.
ReadReviewsAgain(r) == Check(r, "reviews2", TRUE, "pull2")

\* Nothing was submitted, edited or dismissed since the first reading.
ReadReviews2(r) ==
  Check(r, "reviews2", facts.reviews = attempt[r].reviews, "pull2")

ReadPull2(r) == Check(r, "pull2", PullLive(r), "main2")

\* The result of the three jobs before the publication.
Outcome(v) == IF v.passed = 3 THEN "success" ELSE "failure"

\* The head is admitted; what the job does now it does in its name.
ReadMain2(r) ==
  /\ attempt[r].step = "main2"
  /\ IF MainTrusted(r)
     THEN /\ attempt' = [attempt EXCEPT ![r] =
               CASE Job(r) = "admission" -> AfterJob(r, TRUE)
                 [] Job(r) = "publish"   -> Publishing(r, Outcome(attempt[r]))
                 [] OTHER                -> [@ EXCEPT !.step = "execute"]]
          /\ acts' = acts \cup {attempt[r].sound}
     ELSE /\ attempt' = [attempt EXCEPT ![r] = Refused(r)]
          /\ UNCHANGED acts
  /\ UNCHANGED <<facts, events, statuses>>

\* The preview and the gates run the admitted source, and may find something.
Execute(r) ==
  /\ attempt[r].step = "execute"
  /\ \E ok \in BOOLEAN : attempt' = [attempt EXCEPT ![r] = AfterJob(r, ok)]
  /\ UNCHANGED <<facts, events, statuses, acts>>
-----------------------------------------------------------------------------
(***************************************************************************)
(* What people change meanwhile.                                           *)
(***************************************************************************)
Reading(r) == attempt[r].step \in {"permission", "reviews2", "pull2", "main2"}

Show(f) ==
  /\ events < MaxEvents
  /\ events' = events + 1
  /\ facts' = f
  /\ attempt' = [r \in Attempt |->
       [attempt[r] EXCEPT !.sound = @ \/ (Reading(r) /\ Allows(f, attempt[r])),
                          !.steady = @ /\ (Active(r) => AsAudited(f))]]
  /\ UNCHANGED <<statuses, acts>>

SubmitReview ==
  \E u \in User, s \in {"APPROVED", "CHANGES_REQUESTED"} :
    Show([facts EXCEPT !.reviews =
            Append(@, [user |-> u, state |-> s, commit |-> facts.head])])

DismissReview ==
  \E i \in DOMAIN facts.reviews :
    /\ facts.reviews[i].state # "DISMISSED"
    /\ Show([facts EXCEPT !.reviews[i].state = "DISMISSED"])

ChangePull ==
  \/ \E h \in HeadSha \ {facts.head} : Show([facts EXCEPT !.head = h])
  \/ Show([facts EXCEPT !.open = ~@])

ChangeRight   == Show([facts EXCEPT !.right = ~@])
AdvanceMain   == facts.main < MaxMain /\ Show([facts EXCEPT !.main = @ + 1])

\* An owner changes the environment of the publisher, the App, or the ruleset.
ChangePublisher ==
  \/ Show([facts EXCEPT !.environment = ~@])
  \/ Show([facts EXCEPT !.ruleset = ~@])

Admission(r) ==
  \/ ReadBoundary(r) \/ ReadEnvironment(r) \/ ReadIdentity(r)
  \/ ResolveSignal(r) \/ ReadAnnounce1(r) \/ ReadAnnounce2(r)
  \/ CheckSignal(r) \/ ReadMain1(r) \/ ReadPull1(r) \/ ReadReviews1(r)
  \/ ReadPermission(r) \/ ReadReviews2(r) \/ ReadPull2(r) \/ ReadMain2(r)

Next ==
  \/ \E r \in Attempt :
       \/ Signal(r) \/ Begin(r) \/ Stop(r) \/ Lose(r) \/ PostStatus(r)
       \/ Admission(r) \/ Execute(r)
       \/ \E q \in Attempt, job \in 1..4 : Rerun(r, q, job)
  \/ SubmitReview \/ DismissReview \/ ChangePull \/ ChangeRight \/ AdvanceMain
  \/ ChangePublisher

Spec == Init /\ [][Next]_vars
-----------------------------------------------------------------------------
(***************************************************************************)
(* Properties.                                                             *)
(***************************************************************************)
TypeOK ==
  /\ facts \in Facts
  /\ events \in Nat
  /\ attempt \in [Attempt -> Item]
  /\ statuses \in [HeadSha -> [Context -> Status]]
  /\ acts \subseteq BOOLEAN

\* Whatever runs with credentials or publishes a verdict does so for a head
\* that at one moment of its admission was approved by an independent reviewer
\* with rights, with nobody asking for changes, while main was the trusted one.
ReviewedAtOneMoment == \A sound \in acts : sound

\* Once an attempt has announced itself on a head, no verdict of an attempt that
\* started before it shows there any more, also not of one it has cancelled.  An
\* attempt counts by when it starts: one that resumes an older run may well put
\* the outcome of that run in the place of a newer one.
NewestRunSpeaks ==
  \A r \in Attempt :
    attempt[r].announced =>
      \A c \in Context : statuses[attempt[r].head][c].attempt >= r

\* A head never collects its three successes from different attempts, unless one
\* of those was resumed after its admission: then it has announced nothing.
OneRunSucceeds ==
  \A h \in HeadSha :
    (\A c \in Context :
       /\ statuses[h][c].state = "success"
       /\ ~attempt[statuses[h][c].attempt].resumed) =>
      \A c, d \in Context : statuses[h][c].attempt = statuses[h][d].attempt

\* An attempt that announced itself, or was resumed to give the verdict another
\* one still owed, has answered in all contexts once it is over, unless it was
\* cancelled, its machine was lost, main moved or its publisher was disturbed.
VerdictIsGiven ==
  \A r \in Attempt :
    /\ Ended(r)
    /\ attempt[r].announced \/ attempt[r].resumed
    /\ ~attempt[r].cancelled /\ ~attempt[r].lost
    /\ MainTrusted(r) /\ attempt[r].steady
    => \A c \in Context :
         LET s == statuses[attempt[r].head][c]
         IN  s.attempt > r \/ (s.attempt = r /\ s.state # "pending")
=============================================================================
