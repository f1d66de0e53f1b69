----------------------------- MODULE AlertTriage -----------------------------
(***************************************************************************)
(* The consumers of the operations alert queue: the installed workflow     *)
(* (operations-alert-triage.yml), the staged one that is to replace it     *)
(* (operations-alert-triage-v2.yml, with operations_alert_triage.py), and  *)
(* the backfill (operations-alert-backfill.yml), which writes the same     *)
(* canonical issues as the staged consumer.                                *)
(*                                                                         *)
(* The queue delivers a message until it is deleted with a receipt; each   *)
(* receive gives a new receipt and hides the message for a while.  Issues  *)
(* are found through a search index that lags behind.  A run may fail, be  *)
(* cancelled or time out between any two steps.                            *)
(***************************************************************************)
EXTENDS Naturals, Sequences, FiniteSets

CONSTANTS
  Message,      \* messages of the queue
  Event,        \* alerts a message can carry
  Stream,       \* alert streams, told apart by their fingerprint
  TriageRun,    \* runs of the workflows
  Workflow,     \* the workflow of each run
  Target,       \* the stream of each backfill
  Unmarked,     \* the stream of an issue without a fingerprint marker
  PageSize,     \* messages of one receive, 10 in the code
  MaxPages,     \* receives of an installed run, 50 in the code
  MaxReceipt    \* bound of the model: receives of one message

ASSUME WorkflowAssumption ==
  Workflow \in [TriageRun -> {"installed", "staged", "backfill"}]
ASSUME StreamAssumption ==
  Target \in [TriageRun -> Stream] /\ Unmarked \notin Stream
ASSUME BoundAssumption ==
  PageSize \in Nat /\ MaxPages \in Nat /\ MaxReceipt \in Nat

\* What the classification reads of an alert: whether the envelopes parse, the
\* source, the type, the identity of the envelope and of the job, the values
\* of state and status, and statusMessage.
ASSUME EventAssumption ==
  Event \subseteq
    [stream: Stream, parses: BOOLEAN, source: {"backup", "other"},
     type: {"job", "other", "invalid"}, envelope: BOOLEAN, job: BOOLEAN,
     states: SUBSET {"FAILED", "COMPLETED", "RUNNING", "invalid"},
     text: {"none", "some", "invalid"}]

Working == {"receive", "search", "write", "audit", "acknowledge"}
Over    == {"succeeded", "failed", "displaced"}

VARIABLES
  queue,    \* each message: unsent, visible, hidden or deleted
  event,    \* alert each message carries
  receipt,  \* number of the latest receipt of each message, 0 for none
  issues,   \* issues in the order of their numbers: stream, and whether open
  index,    \* issues the search reports as open
  pc,       \* where each run is
  batch,    \* receipts each run holds: message and number
  pages,    \* receives of each run
  todo,     \* streams each run has yet to write
  found,    \* what the last search of a run found: a stream and its issues
  acks,     \* receipts each run has yet to delete
  writes,   \* what was written: run, stream and receipts
  blind     \* history: streams for which a search missed an open issue

sqs        == <<queue, event, receipt>>
tracker    == <<issues, index, writes>>
work       == <<batch, pages, todo, found, acks>>
triageVars == <<sqs, tracker, pc, work, blind>>

TriageInit ==
  /\ queue = [m \in Message |-> "unsent"]
  /\ event \in [Message -> Event]
  /\ receipt = [m \in Message |-> 0]
  /\ issues = <<>>
  /\ index = {}
  /\ pc = [r \in TriageRun |-> "idle"]
  /\ batch = [r \in TriageRun |-> {}]
  /\ pages = [r \in TriageRun |-> 0]
  /\ todo = [r \in TriageRun |-> IF Workflow[r] = "backfill" THEN {Target[r]} ELSE {}]
  /\ found = [r \in TriageRun |-> <<Unmarked, {}>>]
  /\ acks = [r \in TriageRun |-> {}]
  /\ writes = {}
  /\ blind = {}

Goto(r, state) == pc' = [pc EXCEPT ![r] = state]

-----------------------------------------------------------------------------
(* Classification of an alert (message_disposition). *)

\* state and status must agree when both are there.
DetailDisposition(e) ==
  CASE "invalid" \in e.states \/ e.text = "invalid"   -> "quarantine"
    [] e.states = {"FAILED"}                          -> "actionable"
    [] e.states = {"COMPLETED"} /\ e.text = "none"    -> "benign"
    [] e.states = {"COMPLETED"} /\ e.text = "some"    -> "actionable"
    [] OTHER                                          -> "quarantine"

Disposition(e) ==
  CASE ~ e.parses                          -> "quarantine"
    [] e.parses /\ e.source = "other"      -> "actionable"
    [] e.parses /\ e.source = "backup" ->
         CASE e.type = "invalid"           -> "quarantine"
           [] e.type = "other"             -> "actionable"
           [] e.type = "job" /\ e.envelope /\ e.job -> DetailDisposition(e)
           [] OTHER                        -> "quarantine"

With(receipts, disposition) ==
  {x \in receipts : Disposition(event[x[1]]) = disposition}

StreamsOf(receipts) == {event[x[1]].stream : x \in receipts}

-----------------------------------------------------------------------------
(* The concurrency group of the three workflows. *)

Join(r) ==
  /\ pc[r] = "idle"
  /\ pc' = [k \in TriageRun |->
       IF k = r THEN "queued"
       ELSE IF pc[k] = "queued" THEN "displaced" ELSE pc[k]]
  /\ UNCHANGED <<sqs, tracker, work, blind>>

\* Mutant of GroupFree: the name of the group is repeated with a difference.
OwnGroupFree(r) ==
  \A k \in TriageRun :
    (Workflow[k] = "backfill") = (Workflow[r] = "backfill") => pc[k] \notin Working

GroupFree(r) == \A k \in TriageRun : pc[k] \notin Working

TakeGroup(r) ==
  /\ pc[r] = "queued"
  /\ GroupFree(r)
  /\ Goto(r, IF Workflow[r] = "backfill" THEN "search" ELSE "receive")
  /\ UNCHANGED <<sqs, tracker, work, blind>>

\* A run fails, is cancelled or times out.
Fail(r) ==
  /\ pc[r] \in {"queued"} \cup Working
  /\ Goto(r, "failed")
  /\ UNCHANGED <<sqs, tracker, work, blind>>

-----------------------------------------------------------------------------
(* Receiving. *)

Visible == {m \in Message : queue[m] = "visible"}

\* A receive of S hides its messages and gives each a new receipt.
Take(r, S) ==
  /\ Cardinality(S) <= PageSize
  /\ \A m \in S : receipt[m] < MaxReceipt
  /\ queue' = [m \in Message |-> IF m \in S THEN "hidden" ELSE queue[m]]
  /\ receipt' = [m \in Message |-> IF m \in S THEN receipt[m] + 1 ELSE receipt[m]]
  /\ batch' = [batch EXCEPT ![r] = @ \cup {<<m, receipt[m] + 1>> : m \in S}]
  /\ pages' = [pages EXCEPT ![r] = @ + 1]

\* The installed workflow receives pages until one is empty.
ReceivePage(r) ==
  /\ Workflow[r] = "installed" /\ pc[r] = "receive"
  /\ pages[r] < MaxPages
  /\ \E S \in SUBSET Visible : S # {} /\ Take(r, S)
  /\ UNCHANGED <<event, tracker, pc, todo, found, acks, blind>>

\* Mutant of StopReceiving: messages are acknowledged as they are received.
StopReceivingEarly(r) ==
  /\ Workflow[r] = "installed" /\ pc[r] = "receive"
  /\ acks' = [acks EXCEPT ![r] = batch[r]]
  /\ Goto(r, IF batch[r] = {} THEN "succeeded" ELSE "acknowledge")
  /\ UNCHANGED <<sqs, tracker, batch, pages, todo, found, blind>>

StopReceiving(r) ==
  /\ Workflow[r] = "installed" /\ pc[r] = "receive"
  /\ Goto(r, IF batch[r] = {} THEN "succeeded" ELSE "write")
  /\ UNCHANGED <<sqs, tracker, work, blind>>

\* The staged workflow receives once, and classifies what it got.
ReceiveBatch(r) ==
  /\ Workflow[r] = "staged" /\ pc[r] = "receive"
  /\ \E S \in SUBSET Visible :
       /\ Take(r, S)
       /\ todo' = [todo EXCEPT ![r] = StreamsOf(With(batch'[r], "actionable"))]
       /\ Goto(r, IF S = {} THEN "succeeded"
                  ELSE IF todo'[r] = {} THEN "audit" ELSE "search")
  /\ UNCHANGED <<event, tracker, found, acks, blind>>

-----------------------------------------------------------------------------
(* Writing issues. *)

OpenIssues(s) == {i \in DOMAIN issues : issues[i].stream = s /\ issues[i].open}
Matches(s)    == {i \in index : issues[i].stream = s}

\* Search for the canonical issue of the next stream.
Search(r) ==
  /\ pc[r] = "search"
  /\ \E s \in todo[r] :
       /\ Cardinality(Matches(s)) <= 1
       /\ found' = [found EXCEPT ![r] = <<s, Matches(s)>>]
       /\ blind' = IF OpenIssues(s) \subseteq index THEN blind ELSE blind \cup {s}
  /\ Goto(r, "write")
  /\ UNCHANGED <<sqs, tracker, batch, pages, todo, acks>>

\* Receipts of the stream: actionable alerts of a staged run, none of a
\* backfill, which writes a representative event.
Group(r, s) == {x \in With(batch[r], "actionable") : event[x[1]].stream = s}

\* Comment the issue that was found, or create one; an answer that is lost is a
\* failure after this step.
WriteCanonical(r) ==
  LET s == found[r][1] IN
  /\ Workflow[r] # "installed" /\ pc[r] = "write"
  /\ issues' = IF found[r][2] # {} THEN issues
               ELSE Append(issues, [stream |-> s, open |-> TRUE])
  /\ writes' = writes \cup {[run |-> r, stream |-> s, receipts |-> Group(r, s)]}
  /\ todo' = [todo EXCEPT ![r] = @ \ {s}]
  /\ Goto(r, IF todo'[r] # {} THEN "search"
             ELSE IF Workflow[r] = "staged" THEN "audit" ELSE "succeeded")
  /\ UNCHANGED <<sqs, index, batch, pages, found, acks, blind>>

\* The installed workflow creates one issue for all it received.
WriteUnmarked(r) ==
  /\ Workflow[r] = "installed" /\ pc[r] = "write"
  /\ issues' = Append(issues, [stream |-> Unmarked, open |-> TRUE])
  /\ writes' = writes \cup
       {[run |-> r, stream |-> Unmarked, receipts |-> batch[r]]}
  /\ acks' = [acks EXCEPT ![r] = batch[r]]
  /\ Goto(r, "acknowledge")
  /\ UNCHANGED <<sqs, index, batch, pages, todo, found, blind>>

-----------------------------------------------------------------------------
(* Acknowledging. *)

\* The audit is uploaded; quarantined receipts are not acknowledged.
Audit(r) ==
  /\ pc[r] = "audit"
  /\ acks' = [acks EXCEPT ![r] = batch[r] \ With(batch[r], "quarantine")]
  /\ Goto(r, "acknowledge")
  /\ UNCHANGED <<sqs, tracker, batch, pages, todo, found, blind>>

\* Mutant of Acknowledge: a delete that fails is passed over.
AcknowledgeRegardless(r) ==
  /\ pc[r] = "acknowledge"
  /\ \E x \in acks[r] :
       /\ acks' = [acks EXCEPT ![r] = @ \ {x}]
       /\ \E deleted \in BOOLEAN :
            queue' = IF deleted THEN [queue EXCEPT ![x[1]] = "deleted"] ELSE queue
  /\ UNCHANGED <<event, receipt, tracker, pc, batch, pages, todo, found, blind>>

\* A delete with the latest receipt removes the message; with an older one it
\* succeeds and may remove nothing.
Acknowledge(r) ==
  /\ pc[r] = "acknowledge"
  /\ \E x \in acks[r] :
       /\ acks' = [acks EXCEPT ![r] = @ \ {x}]
       /\ \/ queue' = [queue EXCEPT ![x[1]] = "deleted"]
          \/ x[2] < receipt[x[1]] /\ UNCHANGED queue
  /\ UNCHANGED <<event, receipt, tracker, pc, batch, pages, todo, found, blind>>

\* A staged run that quarantined a message ends as a failure.
Finish(r) ==
  /\ pc[r] = "acknowledge"
  /\ acks[r] = {}
  /\ Goto(r, IF Workflow[r] = "staged" /\ With(batch[r], "quarantine") # {}
             THEN "failed" ELSE "succeeded")
  /\ UNCHANGED <<sqs, tracker, work, blind>>

-----------------------------------------------------------------------------
(* Surroundings. *)

Publish(m) ==
  /\ queue[m] = "unsent"
  /\ queue' = [queue EXCEPT ![m] = "visible"]
  /\ UNCHANGED <<event, receipt, tracker, pc, work, blind>>

\* The visibility timeout ends.
Reappear(m) ==
  /\ queue[m] = "hidden"
  /\ receipt[m] < MaxReceipt
  /\ queue' = [queue EXCEPT ![m] = "visible"]
  /\ UNCHANGED <<event, receipt, tracker, pc, work, blind>>

\* Somebody, or the reconcile workflow, closes an issue; the search index
\* catches up.
Close(i) ==
  /\ issues[i].open
  /\ issues' = [issues EXCEPT ![i].open = FALSE]
  /\ UNCHANGED <<sqs, index, writes, pc, work, blind>>

Refresh(i) ==
  /\ index' = IF issues[i].open THEN index \cup {i} ELSE index \ {i}
  /\ index' # index
  /\ UNCHANGED <<sqs, issues, writes, pc, work, blind>>

TriageStep(r) ==
  \/ Join(r) \/ TakeGroup(r) \/ Fail(r)
  \/ ReceivePage(r) \/ StopReceiving(r) \/ ReceiveBatch(r)
  \/ Search(r) \/ WriteCanonical(r) \/ WriteUnmarked(r)
  \/ Audit(r) \/ Acknowledge(r) \/ Finish(r)

TriageNext ==
  \/ \E r \in TriageRun : TriageStep(r)
  \/ \E m \in Message : Publish(m) \/ Reappear(m)
  \/ \E i \in DOMAIN issues : Close(i) \/ Refresh(i)

TriageSpec == TriageInit /\ [][TriageNext]_triageVars

-----------------------------------------------------------------------------
(* Properties. *)

Receipts == Message \X (1..MaxReceipt)

\* The queue, the issues and the runs have the values the services and the
\* workflows give them.
TypeOK ==
  /\ queue \in [Message -> {"unsent", "visible", "hidden", "deleted"}]
  /\ event \in [Message -> Event]
  /\ receipt \in [Message -> 0..MaxReceipt]
  /\ issues \in Seq([stream: Stream \cup {Unmarked}, open: BOOLEAN])
  /\ index \subseteq DOMAIN issues
  /\ pc \in [TriageRun -> {"idle", "queued"} \cup Working \cup Over]
  /\ batch \in [TriageRun -> SUBSET Receipts]
  /\ pages \in [TriageRun -> Nat]
  /\ todo \in [TriageRun -> SUBSET Stream]
  /\ found \in [TriageRun -> (Stream \cup {Unmarked}) \X SUBSET DOMAIN issues]
  /\ acks \in [TriageRun -> SUBSET Receipts]
  /\ writes \subseteq
       [run: TriageRun, stream: Stream \cup {Unmarked}, receipts: SUBSET Receipts]
  /\ blind \subseteq Stream

\* A completed backup without a warning: the one alert nobody needs to see
\* (docs/alert-routing-evidence.md).
Harmless(e) ==
  /\ e.parses /\ e.source = "backup" /\ e.type = "job" /\ e.envelope /\ e.job
  /\ e.states = {"COMPLETED"}
  /\ e.text = "none"

Recorded(m) == \E w \in writes : \E x \in w.receipts : x[1] = m

\* No alert is lost: a message is deleted only when an issue shows it, or when
\* it is harmless, whatever fails between the receive and the deletion.
DeletedIsRecorded ==
  \A m \in Message :
    queue[m] = "deleted" => Recorded(m) \/ Harmless(event[m])

\* A stream has one open canonical issue, unless a search missed one because
\* the index lagged behind: staged runs and backfills never create two.
OneOpenIssue ==
  \A s \in Stream \ blind : \A i, k \in OpenIssues(s) : i = k

\* An occurrence is written again only when a run failed after it was written:
\* of the runs that wrote a message, at most one has not failed.
RepeatedAfterFailure ==
  \A v, w \in writes :
    /\ v.run # w.run
    /\ \E x \in v.receipts, y \in w.receipts : x[1] = y[1]
    => pc[v.run] = "failed" \/ pc[w.run] = "failed"

\* The number of messages an issue states is that of the messages it lists
\* ("The operations alert queue contains %s message(s)").
CountsMessagesOnce ==
  \A w \in writes : \A x, y \in w.receipts : x[1] = y[1] => x = y
=============================================================================
