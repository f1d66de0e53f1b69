------------------------ MODULE PromotionPublication ------------------------
(***************************************************************************)
(* The writers of the "Infrastructure Promotion" status of one head: the   *)
(* publish_promotion jobs of command runs (deployment_promotion_emitter)   *)
(* and the scope reports of pull requests (deployment_promotion_scope).    *)
(*                                                                         *)
(* A publisher records a deployment and its outcome for each account and   *)
(* then posts the status; a reporter posts what it finds recorded.  Every  *)
(* write is authorised anew, sent once and read back.  A request may be    *)
(* lost, its answer may be lost, and it may arrive after it was given up.  *)
(* The jobs of one pull request share a concurrency group; two pull        *)
(* requests can have the same head and then write one status.              *)
(***************************************************************************)
EXTENDS Naturals, Sequences

CONSTANTS
  Publisher,  \* publish_promotion jobs, one for each command run
  Reporter,   \* runs of the scope workflow
  PR,         \* pull requests with this head
  PullOf,     \* the pull request of each job
  NoRun,      \* the run of a pending status
  Slow        \* jobs whose requests may arrive after they were given up

Job == Publisher \cup Reporter
Account == {"test", "prod"}

ASSUME JobAssumption == Publisher \cap Reporter = {} /\ NoRun \notin Publisher
ASSUME PullOfAssumption == PullOf \in [Job -> PR]
ASSUME SlowAssumption == Slow \subseteq Job

\* Requests that write: a deployment and its success status, and the status
\* of the head, with its pull request and the run it promotes.
Request ==
  ({"deployment", "outcome"} \X Publisher \X Account)
    \cup ({"status"} \X PR \X (Publisher \cup {NoRun}))

\* "check" is the second look at all deployments; "confirm" the authorisation
\* after the last write.
Active == {"look", "authorize", "send", "readback", "check", "confirm"}
Ended  == {"succeeded", "failed", "displaced"}
Pc     == {"idle", "queued"} \cup Active \cup Ended

VARIABLES
  deployments,  \* deployments of the head, oldest first: run and account
  outcomes,     \* deployments with a success status
  statuses,     \* promotion statuses of the head: pull request and run
  inflight,     \* requests given up that may still arrive
  pc,           \* where each job is
  at,           \* index of the write each job is at
  answer,       \* id of the status a job was told it wrote, 0 for none
  intent,       \* what a reporter found: the run that promotes, or NoRun
  conclusion,   \* conclusion of the run of each publisher
  valid         \* whether the evidence of a run can be rebuilt now

store == <<deployments, outcomes, statuses>>
jobs  == <<pc, at, answer, intent>>
world == <<conclusion, valid>>
vars  == <<store, inflight, jobs, world>>

Init ==
  /\ deployments = <<>>
  /\ outcomes = {}
  /\ statuses = <<>>
  /\ inflight = {}
  /\ pc = [j \in Job |-> "idle"]
  /\ at = [j \in Job |-> 1]
  /\ answer = [j \in Job |-> 0]
  /\ intent = [j \in Job |-> NoRun]
  /\ conclusion = [q \in Publisher |-> "running"]
  /\ valid = [q \in Publisher |-> TRUE]

-----------------------------------------------------------------------------
(* The store and what the scripts read in it. *)

Found(q, a) == {i \in DOMAIN deployments : deployments[i] = <<q, a>>}

Exactly1(S) == \E x \in S : S = {x}

\* _find_deployment, _latest: what a write is to be read back as.
Visible(m) ==
  CASE m[1] = "deployment" -> Exactly1(Found(m[2], m[3]))
    [] m[1] = "outcome"    -> <<m[2], m[3]>> \in outcomes
    [] m[1] = "status"     -> /\ statuses # <<>>
                              /\ statuses[Len(statuses)] = <<m[2], m[3]>>

\* The effect of a request that reaches GitHub.
Arrive(m) ==
  /\ deployments' = IF m[1] = "deployment"
                    THEN Append(deployments, <<m[2], m[3]>>) ELSE deployments
  /\ outcomes' = IF m[1] = "outcome"
                 THEN outcomes \cup {<<m[2], m[3]>>} ELSE outcomes
  /\ statuses' = IF m[1] = "status"
                 THEN Append(statuses, <<m[2], m[3]>>) ELSE statuses

\* Both accounts of a run are deployed, and published as such.
Complete(q) ==
  \A a \in Account : Exactly1(Found(q, a)) /\ <<q, a>> \in outcomes

\* _verified_candidate: the run ended well and its evidence is still current.
Candidate(p, q) ==
  PullOf[q] = p /\ conclusion[q] = "success" /\ valid[q] /\ Complete(q)

\* verify_current_promotion: the newest verified candidate, or pending.
IsCurrent(p, run) ==
  IF run = NoRun THEN \A q \in Publisher : ~ Candidate(p, q)
  ELSE /\ Candidate(p, run)
       /\ \E i \in Found(run, "prod") : \A q \in Publisher :
            Candidate(p, q) => \A k \in Found(q, "prod") : k <= i

\* Mutant of Work: the status is posted before the outcome of PROD.
WorkStatusEarly(j) ==
  IF j \in Publisher
  THEN << <<"deployment", j, "test">>, <<"outcome", j, "test">>,
          <<"deployment", j, "prod">>, <<"status", PullOf[j], j>>,
          <<"outcome", j, "prod">> >>
  ELSE << <<"status", PullOf[j], intent[j]>> >>

\* The writes of a job, in order.
Work(j) ==
  IF j \in Publisher
  THEN << <<"deployment", j, "test">>, <<"outcome", j, "test">>,
          <<"deployment", j, "prod">>, <<"outcome", j, "prod">>,
          <<"status", PullOf[j], j>> >>
  ELSE << <<"status", PullOf[j], intent[j]>> >>

Write(j) == Work(j)[at[j]]

\* The authorisation that precedes every write.
Authorized(j) ==
  IF j \in Publisher THEN valid[j] ELSE IsCurrent(PullOf[j], intent[j])

\* Proceed to the next write; before the status, look at all records again.
Advance(j) ==
  /\ pc' = [pc EXCEPT ![j] =
       IF at[j] = Len(Work(j)) THEN "confirm"
       ELSE IF at[j] + 1 = Len(Work(j)) THEN "check" ELSE "look"]
  /\ at' = [at EXCEPT ![j] = IF @ < Len(Work(j)) THEN @ + 1 ELSE @]

Goto(j, state) == pc' = [pc EXCEPT ![j] = state]

-----------------------------------------------------------------------------
(* The jobs. *)

\* A job joins the group of its pull request, displacing a pending one.
Join(j) ==
  /\ pc[j] = "idle"
  /\ j \in Publisher => conclusion[j] = "running"
  /\ pc' = [k \in Job |->
       IF k = j THEN "queued"
       ELSE IF pc[k] = "queued" /\ PullOf[k] = PullOf[j] THEN "displaced"
       ELSE pc[k]]
  /\ UNCHANGED <<store, inflight, at, answer, intent, world>>

\* Mutant of GroupFree: each workflow has a group of its own.
OwnGroupFree(j) ==
  \A k \in (IF j \in Publisher THEN Publisher ELSE Reporter) :
    PullOf[k] = PullOf[j] => pc[k] \notin Active

GroupFree(j) == \A k \in Job : PullOf[k] = PullOf[j] => pc[k] \notin Active

\* revalidate_publication, or verify_current_promotion and its repetition.
Begin(j) ==
  /\ pc[j] = "queued"
  /\ GroupFree(j)
  /\ IF j \in Publisher THEN valid[j] /\ UNCHANGED intent
     ELSE \E run \in Publisher \cup {NoRun} :
            IsCurrent(PullOf[j], run) /\ intent' = [intent EXCEPT ![j] = run]
  /\ Goto(j, "look")
  /\ UNCHANGED <<store, inflight, at, answer, world>>

\* Nothing is sent when the write is already there; two deployments of one
\* run and account are ambiguous.
Look(j) ==
  /\ pc[j] = "look"
  /\ Write(j)[1] = "deployment" =>
       \A i, k \in Found(Write(j)[2], Write(j)[3]) : i = k
  /\ IF Visible(Write(j)) THEN Advance(j)
     ELSE Goto(j, "authorize") /\ UNCHANGED at
  /\ UNCHANGED <<store, inflight, answer, intent, world>>

Authorize(j) ==
  /\ pc[j] = "authorize"
  /\ Authorized(j)
  /\ Goto(j, "send")
  /\ UNCHANGED <<store, inflight, at, answer, intent, world>>

\* _post_once: answered, arrived without an answer, lost, or given up.
Send(j) ==
  /\ pc[j] = "send"
  /\ Goto(j, "readback")
  /\ \/ /\ Arrive(Write(j)) /\ UNCHANGED inflight
        /\ answer' = [answer EXCEPT ![j] = Len(statuses')]
     \/ /\ Arrive(Write(j)) /\ UNCHANGED inflight
        /\ answer' = [answer EXCEPT ![j] = 0]
     \/ /\ UNCHANGED <<store, inflight>>
        /\ answer' = [answer EXCEPT ![j] = 0]
     \/ /\ j \in Slow
        /\ inflight' = inflight \cup {Write(j)}
        /\ answer' = [answer EXCEPT ![j] = 0]
        /\ UNCHANGED store
  /\ UNCHANGED <<at, intent, world>>

Deliver(m) ==
  /\ m \in inflight
  /\ inflight' = inflight \ {m}
  /\ Arrive(m)
  /\ UNCHANGED <<jobs, world>>

\* Mutants of Readback: a write without an error needs no readback; a write
\* that is not found is sent again.
TrustingReadback(j) ==
  /\ pc[j] = "readback"
  /\ Advance(j)
  /\ UNCHANGED <<store, inflight, answer, intent, world>>

RetryingReadback(j) ==
  /\ pc[j] = "readback"
  /\ IF Visible(Write(j)) THEN Advance(j)
     ELSE Goto(j, "send") /\ UNCHANGED at
  /\ UNCHANGED <<store, inflight, answer, intent, world>>

\* The write must be there, and the status must be the one the job wrote.
Readback(j) ==
  /\ pc[j] = "readback"
  /\ Visible(Write(j))
  /\ Write(j)[1] = "status" => answer[j] \in {0, Len(statuses)}
  /\ Advance(j)
  /\ UNCHANGED <<store, inflight, answer, intent, world>>

\* Before the status: everything is authorised and read once more.
Check(j) ==
  /\ pc[j] = "check"
  /\ Authorized(j)
  /\ \A k \in 1..(at[j] - 1) : Visible(Work(j)[k])
  /\ Goto(j, "look")
  /\ UNCHANGED <<store, inflight, at, answer, intent, world>>

\* Only a publisher authorises again after its last write.
Confirm(j) ==
  /\ pc[j] = "confirm"
  /\ j \in Publisher => Authorized(j)
  /\ Goto(j, "succeeded")
  /\ UNCHANGED <<store, inflight, at, answer, intent, world>>

\* A check fails, an environment is not approved, a job is cancelled or dies.
Fail(j) ==
  /\ pc[j] \in {"queued"} \cup Active
  /\ Goto(j, "failed")
  /\ UNCHANGED <<store, inflight, at, answer, intent, world>>

\* The command run ends some time after its publisher.
Conclude(q) ==
  /\ conclusion[q] = "running"
  /\ pc[q] \in Ended
  /\ \E c \in {"success", "failure"} :
       /\ c = "success" => pc[q] = "succeeded"
       /\ conclusion' = [conclusion EXCEPT ![q] = c]
  /\ UNCHANGED <<store, inflight, jobs, valid>>

\* The request or the evidence of the run stops, or begins again, to be
\* current: the pull request changes, a review is dismissed or restored.
ChangeEvidence(q) ==
  /\ valid' = [valid EXCEPT ![q] = ~ @]
  /\ UNCHANGED <<store, inflight, jobs, conclusion>>

Step(j) ==
  \/ Join(j) \/ Begin(j) \/ Look(j) \/ Authorize(j) \/ Send(j)
  \/ Readback(j) \/ Check(j) \/ Confirm(j) \/ Fail(j)

Next ==
  \/ \E j \in Job : Step(j)
  \/ \E m \in inflight : Deliver(m)
  \/ \E q \in Publisher : Conclude(q) \/ ChangeEvidence(q)

Spec == Init /\ [][Next]_vars

-----------------------------------------------------------------------------
(* Properties. *)

\* The store and the jobs have the values the API and the scripts give them.
TypeOK ==
  /\ deployments \in Seq(Publisher \X Account)
  /\ outcomes \subseteq Publisher \X Account
  /\ statuses \in Seq(PR \X (Publisher \cup {NoRun}))
  /\ inflight \subseteq Request
  /\ pc \in [Job -> Pc]
  /\ at \in [Job -> 1..5]
  /\ answer \in [Job -> Nat]
  /\ intent \in [Job -> Publisher \cup {NoRun}]
  /\ conclusion \in [Publisher -> {"running", "success", "failure"}]
  /\ valid \in [Publisher -> BOOLEAN]

\* A run never creates a second deployment record of an account, although
\* the answer to the first request may be lost or late (_post_once).
NoDuplicateDeployment ==
  \A q \in Publisher, a \in Account : \A i, k \in Found(q, a) : i = k

\* A job that ends well has its status on the head: posted by itself, or found
\* there.  Requests fail silently; only the readback tells (_ensure_status).
SuccessIsPublished ==
  \A j \in Job : pc[j] = "succeeded" =>
    \E i \in DOMAIN statuses :
      statuses[i] = <<PullOf[j], IF j \in Publisher THEN j ELSE intent[j]>>

\* While a job reads back the status it was told it wrote, no other job of its
\* pull request writes one, unless a request of a job that has failed lingers:
\* the publisher and the scope report share a group (_ensure_status).
WriterUndisturbed ==
  \A j \in Job :
    /\ pc[j] = "readback"
    /\ Write(j)[1] = "status"
    /\ answer[j] # 0
    => \A i \in (answer[j] + 1)..Len(statuses) :
         statuses[i][1] = PullOf[j] =>
           \E k \in Job : PullOf[k] = PullOf[j] /\ pc[k] = "failed"

\* The head is announced as promoted by a run only when the run has recorded
\* both accounts, whatever is lost, late or repeated.
Aggregate ==
  INSTANCE PromotionStatus WITH
    recorded <- [q \in Publisher |->
                   {a \in Account : Found(q, a) # {} /\ <<q, a>> \in outcomes}],
    verdict  <- IF statuses = <<>> THEN <<NoRun, NoRun>>
                ELSE statuses[Len(statuses)]
ImplementsStatus == Aggregate!Spec
=============================================================================
