-------------------------- MODULE TrustedEvidence --------------------------
(***************************************************************************)
(* The trusted publisher of the Well-Architected evidence                  *)
(* (trusted-well-architected.yml, publish_well_architected.py): a run on   *)
(* main takes the approval an operator has protected, collects every check *)
(* with a read-only role, and in a second job with the key of the App      *)
(* reads the checks of GitHub again and posts one status on the approved   *)
(* head.  The facts it reads change between any two of its requests, also  *)
(* between those of one check, and every call may fail: that of a check    *)
(* leaves the check without an answer, any other ends the run.             *)
(***************************************************************************)
EXTENDS WellArchitectedEvidence

CONSTANTS
  Run,            \* runs of the workflow, each dispatched at most once
  Approval,       \* the approvals an operator may protect, by their digest
  World,          \* the worlds a behaviour may start in
  Alternatives,   \* for each fact of the world, the values it may change to
  Request,        \* bound of the model: the requests there is an answer to
  Replies,        \* for some of them, the answers that may become theirs
  ResultAge,      \* ten minutes: how old a collected result may be
  MaxClock,       \* bound of the model: ticks
  MaxChanges      \* bound of the model: changes of the facts

ASSUME RunAssumption == IsFiniteSet(Run)
ASSUME BoundAssumption == {ResultAge, MaxClock, MaxChanges} \subseteq Nat
\* The rows of a review are a list: the collector turns anything else away
\* (_question_matrix_score_blockers, _structured_evidence_control_blockers).
ASSUME ReviewAssumption ==
  \A a \in DOMAIN Approval :
    LET review == Approval[a].bundle
    IN /\ review.matrix.rows \in Seq(Range(review.matrix.rows))
       /\ review.controls.rows \in Seq(Range(review.controls.rows))
ASSUME ApprovalAssumption ==
  /\ "none" \notin DOMAIN Approval
  /\ \A w \in World : "approval" \in DOMAIN w /\ w.approval \in DOMAIN Approval
  /\ "approval" \in DOMAIN Alternatives => Alternatives["approval"] \subseteq DOMAIN Approval

VARIABLES
  world,      \* what GitHub, AWS and the protected variables show now: the
              \* pull request, the approval, and an answer to every request
  clock,
  changes,    \* bound of the model: how often the facts have changed
  run,        \* each run
  status      \* the newest evidence status of each head

vars == <<world, clock, changes, run, status>>

Heads == {w.head : w \in World} \cup Alternatives.head
Steps == {"idle", "waiting", "prepare", "context", "verify", "own", "collect", "record",
          "current", "accept", "ownAgain", "refresh", "expiry", "pull", "post",
          "posted", "stopped"}
Over  == {"idle", "waiting", "posted", "stopped"}
Collecting == {"own", "collect"}
Publishing == {"accept", "ownAgain", "refresh"}
Reread == {"expiry", "pull", "post"}
Collected == {"current", "accept", "ownAgain", "refresh", "expiry", "pull", "post"}
None  == "none"

\* A run: the revision of main it was dispatched at, the approval it has read,
\* its own earlier status as read, how far it is in the list of checks, the
\* answers to the check under way, the rows of the report, each with the
\* answers it rests on, and the time they were complete.  The rest is history:
\* what could be found in the course of the collecting job, and of the
\* publishing job, up to the last request of each, request by request;
\* "confirmed" tells whether the approval was the
\* protected one at some moment after all was collected, and "valid" whether
\* it was in force, and whether the pull request was open at its head, at some
\* moment after the last check was read.
Nothing == <<>>
Dormant ==
  [step |-> "idle", source |-> None, approval |-> None, own |-> None,
   place |-> 1, view |-> Nothing, rows |-> Nothing, collected |-> 0, state |-> None,
   collecting |-> {}, publishing |-> {}, confirmed |-> FALSE, valid |-> {}]

Init ==
  /\ world \in World
  /\ clock = 0
  /\ changes = world.settled
  /\ run = [r \in Run |-> Dormant]
  /\ \E state \in {None, "failure"} : status = [h \in Heads |-> state]

-----------------------------------------------------------------------------
(* What a check finds.                                                     *)

\* Whether the check named c passes on the answers v, for the evidence that
\* approval a names.
Holds(c, a, v) ==
  LET evidence == Approval[a].bundle
      now      == v[<<"clock">>]
  IN Answered(v) /\
  CASE c = "github_pr_checks"                 -> PullRequestChecks(v)
    [] c = "github_pr_local_state"            -> LocalState([clean |-> TRUE, head |-> Approval[a].head], v)
    [] c = "github_review_threads"            -> ReviewThreads(v)
    [] c = "github_branch_protection"         -> BranchProtection(v)
    [] c = "github_dependabot_alerts"         -> DependabotAlerts(v)
    [] c = "github_production_environment"    -> ProductionEnvironment(v)
    [] c = "aws_identity"                     -> TRUE
    [] c = "aws_iam_account_access"           -> AccountAccess(v, evidence.attestation)
    [] c = "aws_cost_controls"                -> CostControls(v)
    [] c = "aws_sns_alert_route"              -> AlertRoute(v, evidence.observation)
    [] c = "aws_cloudtrail_management_events" -> ManagementEvents(v)
    [] c = "aws_restore_jobs"                 -> RestoreJobs(v, 2 * MaxReviewAge)
    [] c = "restore_drill_evidence"           -> RestoreDrill(evidence.drill, evidence.owner, now)
    [] c = "repository_fanout"                -> RepositoryFanout(Approval[a].catalogs)
    [] c = "question_matrix_evidence"         -> QuestionMatrix(evidence.matrix, now)
    [] c = "external_control_evidence"        -> ExternalControls(evidence.controls, now)

CheckSet == {Checks[i] : i \in 1..Len(Checks)}
GitHubSet == {GitHubChecks[i] : i \in 1..Len(GitHubChecks)}

OwnEntry(state) ==
  [name |-> "Test Account Evidence", kind |-> "StatusContext", done |-> TRUE,
   outcome |-> IF state = "success" THEN "SUCCESS" ELSE "FAILURE"]

OwnEntries(state) == IF state = None THEN {} ELSE {OwnEntry(state)}

\* Mutant: the earlier verdict of this very producer counts like any other.
EntriesWithOwn(r) == world.entries[world.head] \cup OwnEntries(status[world.head])

\* Once an earlier status was found, the entries are read again for the
\* approved head and exactly that status is taken out; otherwise they are
\* those of the head the pull request has.
EntriesRead(r) ==
  IF run[r].own = None
  THEN world.entries[world.head] \cup OwnEntries(status[world.head])
  ELSE world.entries[Approval[run[r].approval].head]

\* What a request other than that is answered; an answer that is about the pull
\* request is about the head it has then.
Answer(q, w, now) ==
  CASE q = <<"head">>  -> w.head
    [] q = <<"clock">> -> now
    [] q \in {<<"pull">>, <<"promotion">>} /\ w.answers[q] # Unanswered ->
         [head |-> w.head, content |-> w.answers[q]]
    [] OTHER           -> w.answers[q]

Found(r, q) == IF q = <<"entries">> THEN EntriesRead(r) ELSE Answer(q, world, clock)

\* The entries of a head that are no verdict of the producer on the approved
\* one.
EntriesOf(h, a, w, st) ==
  w.entries[h] \cup IF h = Approval[a].head THEN {} ELSE OwnEntries(st[h])

AllRequests == Request \cup {<<"head">>, <<"entries">>, <<"clock">>}

\* What the requests of a run of approval a can find in the world w, with the
\* statuses st.
Shown(a, w, now, st) ==
  {<<q, Answer(q, w, now)>> : q \in AllRequests \ {<<"entries">>}}
    \cup {<<<<"entries">>, EntriesOf(h, a, w, st)>> : h \in {w.head, Approval[a].head}}

InForce(a, now) == Approval[a].issued <= now /\ now < Approval[a].expires
OnTarget(a, w) == w.open /\ w.head = Approval[a].head
Validity(a, w, now) ==
  (IF InForce(a, now) THEN {"inForce"} ELSE {}) \cup (IF OnTarget(a, w) THEN {"onTarget"} ELSE {})

-----------------------------------------------------------------------------
(* The facts change, and time passes.                                      *)

\* The history every run under way keeps of the facts w at time now.
Observed(w, now) ==
  [r \in Run |->
     IF run[r].step \in Over \/ run[r].approval = None THEN run[r]
     ELSE [run[r] EXCEPT
             !.collecting = IF run[r].step \in Collecting THEN @ \cup Shown(run[r].approval, w, now, status)
                             ELSE @,
             !.publishing = IF run[r].step \in Publishing THEN @ \cup Shown(run[r].approval, w, now, status)
                             ELSE @,
             !.confirmed = @ \/ (run[r].step \in Collected /\ w.digest = run[r].approval),
             !.valid = IF run[r].step \in Reread THEN @ \cup Validity(run[r].approval, w, now) ELSE @]]

Change ==
  /\ changes < MaxChanges
  /\ \/ \E fact \in DOMAIN Alternatives : \E value \in Alternatives[fact] \ {world[fact]} :
          world' = [world EXCEPT ![fact] = value]
     \/ \E q \in DOMAIN Replies : \E answer \in Replies[q] \ {world.answers[q]} :
          world' = [world EXCEPT !.answers[q] = answer]
  /\ run' = Observed(world', clock)
  /\ changes' = changes + 1
  /\ UNCHANGED <<clock, status>>

Tick ==
  /\ clock < MaxClock
  /\ clock' = clock + 1
  /\ run' = Observed(world, clock + 1)
  /\ UNCHANGED <<world, changes, status>>

-----------------------------------------------------------------------------
(* A run.                                                                  *)

Goes(r, step) == run' = [run EXCEPT ![r].step = step]
Still == UNCHANGED <<world, clock, changes>>

\* A run that waits for the group is displaced by a newer one.
Dispatch(r) ==
  /\ run[r].step = "idle"
  /\ run' = [q \in Run |->
               IF q = r THEN [run[r] EXCEPT !.step = "waiting", !.source = world.main]
               ELSE IF run[q].step = "waiting" THEN [Dormant EXCEPT !.step = "stopped"]
               ELSE run[q]]
  /\ Still /\ UNCHANGED status

Begin(r) ==
  /\ run[r].step = "waiting"
  /\ \A q \in Run : run[q].step \in Over
  /\ Goes(r, "prepare")
  /\ Still /\ UNCHANGED status

\* The protected variables are two, and the second is the digest of the
\* first; the approval must be of the source this run executes.
Prepare(r) ==
  /\ run[r].step = "prepare"
  /\ world.approval = world.digest
  /\ InForce(world.approval, clock)
  /\ Approval[world.approval].transport = "github-artifact"
  /\ Approval[world.approval].source = run[r].source
  /\ run' = [run EXCEPT ![r].step = "context", ![r].approval = world.approval]
  /\ Still /\ UNCHANGED status

Context(r, here, next) ==
  /\ run[r].step = here
  /\ OnTarget(run[r].approval, world)
  /\ Goes(r, next)
  /\ Still /\ UNCHANGED status

\* The second job authenticates all of it again before it has credentials.
Verify(r) ==
  /\ run[r].step = "verify"
  /\ InForce(run[r].approval, clock) /\ OnTarget(run[r].approval, world)
  /\ run' = [run EXCEPT ![r].step = "own", ![r].collecting = Shown(run[r].approval, world, clock, status)]
  /\ Still /\ UNCHANGED status

OwnStatus(r, here, next) ==
  /\ run[r].step = here
  /\ run' = [run EXCEPT ![r].step = next, ![r].own = status[Approval[run[r].approval].head],
                        ![r].place = 1]
  /\ Still /\ UNCHANGED status

With(f, x, value) == [y \in DOMAIN f \cup {x} |-> IF y = x THEN value ELSE f[y]]

\* The status that is to be taken out must still be the one that was read.
Readable(r, q) ==
  q = <<"entries">> /\ run[r].own # None => status[Approval[run[r].approval].head] = run[r].own

\* The next request of the check under way.  With its last one the check is
\* concluded: its row has the answers it rests on.
Ask(r, list, next) ==
  LET i     == run[r]
      c     == list[i.place]
      q     == Open(c, i.view)[1]
      found == With(i.view, q, Found(r, q))
      last  == i.place = Len(list)
  IN /\ q \in AllRequests /\ Readable(r, q)
     /\ IF Open(c, found) # <<>>
        THEN run' = [run EXCEPT ![r].view = found]
        ELSE run' = [run EXCEPT ![r].view = Nothing,
                                ![r].rows = With(@, c, found),
                                ![r].place = @ + 1,
                                ![r].step = IF last THEN next ELSE @,
                                ![r].valid = IF last /\ next = "expiry"
                                             THEN Validity(i.approval, world, clock) ELSE @]

Collect(r) ==
  /\ run[r].step = "collect"
  /\ Ask(r, Checks, "record")
  /\ Still /\ UNCHANGED status

Record(r) ==
  /\ run[r].step = "record"
  /\ run' = [run EXCEPT ![r].step = "current", ![r].collected = clock,
                        ![r].confirmed = (world.digest = run[r].approval)]
  /\ Still /\ UNCHANGED status

\* Mutant: the job that publishes goes by the approval the run began with.
CurrentAsPrepared(r) ==
  /\ run[r].step = "current"
  /\ InForce(run[r].approval, clock) /\ OnTarget(run[r].approval, world)
  /\ run' = [run EXCEPT ![r].step = "accept", ![r].publishing = Shown(run[r].approval, world, clock, status)]
  /\ Still /\ UNCHANGED status

\* The job that publishes compares the digest protected now before anything.
Current(r) ==
  /\ run[r].step = "current"
  /\ world.digest = run[r].approval
  /\ InForce(run[r].approval, clock) /\ OnTarget(run[r].approval, world)
  /\ run' = [run EXCEPT ![r].step = "accept", ![r].publishing = Shown(run[r].approval, world, clock, status)]
  /\ Still /\ UNCHANGED status

Accept(r) ==
  /\ run[r].step = "accept"
  /\ clock - run[r].collected <= ResultAge
  /\ Goes(r, "ownAgain")
  /\ Still /\ UNCHANGED status

\* Mutant: a check of GitHub that passed when it was collected is not read
\* again.
RefreshFailed(r) ==
  LET i == run[r]
      c == GitHubChecks[i.place]
  IN /\ i.step = "refresh"
     /\ IF Holds(c, i.approval, i.rows[c])
        THEN run' = [run EXCEPT ![r].place = @ + 1,
                                ![r].step = IF i.place = Len(GitHubChecks) THEN "expiry" ELSE @,
                                ![r].valid = IF i.place = Len(GitHubChecks)
                                             THEN Validity(i.approval, world, clock) ELSE @]
        ELSE Ask(r, GitHubChecks, "expiry")
     /\ Still /\ UNCHANGED status

\* Each check of GitHub is read again and takes the place of its row; the
\* blockers and scores of the report are computed anew.
Refresh(r) ==
  /\ run[r].step = "refresh"
  /\ Ask(r, GitHubChecks, "expiry")
  /\ Still /\ UNCHANGED status

Expiry(r) ==
  /\ run[r].step = "expiry"
  /\ InForce(run[r].approval, clock)
  /\ Goes(r, "pull")
  /\ Still /\ UNCHANGED status

Passed(i) == {c \in CheckSet : Holds(c, i.approval, i.rows[c])}

Verdict(i) == IF Passed(i) = CheckSet THEN "success" ELSE "failure"

\* Of the run only the verdict and what it was approved for is left.
Post(r) ==
  /\ run[r].step = "post"
  /\ status' = [status EXCEPT ![Approval[run[r].approval].head] = Verdict(run[r])]
  /\ run' = [run EXCEPT ![r] = [Dormant EXCEPT !.step = "posted", !.state = Verdict(run[r]),
                                               !.approval = run[r].approval,
                                               !.confirmed = run[r].confirmed,
                                               !.valid = run[r].valid]]
  /\ Still

\* A requirement is not met, a call is lost or a job ends early: nothing of
\* the run is left.
Stop(r) ==
  /\ run[r].step \notin Over
  /\ run' = [run EXCEPT ![r] = [Dormant EXCEPT !.step = "stopped"]]
  /\ Still /\ UNCHANGED status

RunStep(r) ==
  \/ Dispatch(r)
  \/ Begin(r)
  \/ Prepare(r)
  \/ Context(r, "context", "verify")
  \/ Verify(r)
  \/ OwnStatus(r, "own", "collect")
  \/ Collect(r)
  \/ Record(r)
  \/ Current(r)
  \/ Accept(r)
  \/ OwnStatus(r, "ownAgain", "refresh")
  \/ Refresh(r)
  \/ Expiry(r)
  \/ Context(r, "pull", "post")
  \/ Post(r)
  \/ Stop(r)

Next == Change \/ Tick \/ \E r \in Run : RunStep(r)

Spec == Init /\ [][Next]_vars

-----------------------------------------------------------------------------
(* Properties.                                                             *)

Publishes(r, verdict) == run[r].state # verdict /\ run'[r].state = verdict

\* The row of a check rests on the job that is to read it: all its requests
\* were made, and each was answered as it stood at some moment of that job.
Rests(row, c, shown) ==
  Open(c, row) = <<>> /\ \A q \in DOMAIN row : <<q, row[q]>> \in shown

RestsOn(i, c) ==
  Rests(i.rows[c], c, IF c \in GitHubSet THEN i.publishing ELSE i.collecting)

\* A success is never put together from a past that is over: every request its
\* checks rest on was answered as it stood at some moment of the job that
\* counts, those of GitHub since the publishing job began, although the facts
\* change between the requests.  A check of several requests need not have held
\* at any one moment (post, fresh_github).
SuccessMeansHeld ==
  [][\A r \in Run : Publishes(r, "success") =>
       \A c \in CheckSet : RestsOn(run[r], c) /\ Holds(c, run[r].approval, run[r].rows[c])]_vars

\* A failure has a cause other than the producer's own earlier verdict: some
\* check does not pass on what its requests found in the job that counts, and
\* the producer's status of the approved head is not among that, so that a
\* failure, once its cause is gone, does not keep itself alive
\* (self_status_runner, refresh_github_rows).
FailureHasCause ==
  [][\A r \in Run : Publishes(r, "failure") =>
       \E c \in CheckSet : RestsOn(run[r], c) /\ ~Holds(c, run[r].approval, run[r].rows[c])]_vars

\* What is published was approved when it was published, not only when the
\* run began: the approval was still the protected one after the collection,
\* and after the last check was read it was in force and the pull request was
\* open at its head, though not always both at one moment (the digest test of
\* the publish job, post).
VerdictIsApproved ==
  \A r \in Run : run[r].state # None => run[r].confirmed /\ run[r].valid = {"inForce", "onTarget"}

\* A success rests on a complete review: every question is answered by one row
\* with the full score, every control by one row that passed, no summary stands
\* for rows that are not there, and the checks that pass give every pillar its
\* full final score (_structured_evidence_check, well_architected_scores).
SuccessIsComplete ==
  [][\A r \in Run : Publishes(r, "success") =>
       LET matrix   == Approval[run[r].approval].bundle.matrix
           controls == Approval[run[r].approval].bundle.controls
           Once(rows, id) == Cardinality({i \in 1..Len(rows) : rows[i].id = id}) = 1
       IN /\ \A q \in Question : Once(matrix.rows, q)
          /\ \A i \in 1..Len(matrix.rows) : matrix.rows[i].score = 5
          /\ \A c \in Control : Once(controls.rows, c)
          /\ \A i \in 1..Len(controls.rows) : controls.rows[i].status = "passed"
          /\ \A p \in DOMAIN PillarChecks : Scores(Passed(run[r]))[p] = 500]_vars
=============================================================================
