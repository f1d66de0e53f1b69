-------------------------- MODULE CommandAdmission --------------------------
(***************************************************************************)
(* From a "/pulumi" comment to an admitted deployment contract: the intake *)
(* (pulumi-pr-commands.yml, pulumi_pr_comment.py), the dispatch, and the   *)
(* preflight of the command runner (deployment_controller_runtime.accept   *)
(* with pulumi_command_preflight.py), one read of GitHub at a time.        *)
(* DeploymentGraph takes the whole preflight as three steps and continues  *)
(* with what happens once a contract exists.                               *)
(*                                                                         *)
(* Between any two reads people push, retarget or close the pull request,  *)
(* edit the comment, lose their rights, and main moves.  Anybody who may   *)
(* write to the repository may dispatch any request.                       *)
(***************************************************************************)
EXTENDS ScopeSelection, Sequences, SequencesExt

CONSTANTS
  Pull,          \* pull requests of the repository
  HeadSha, BaseSha,    \* their head commits, and the commits of main
  InitialHead,   \* the first head of each pull request
  InitialBase,   \* the first commit of main
  Comment,       \* comments
  PullOf,        \* the pull request of each comment
  Operation,     \* commands: action and target account
  Author,        \* people; "owner" is the sole approver of applies
  Said,          \* comments people write: an author and a command
  None,
  IntakeAge,     \* 300 seconds
  CommandAge,    \* 900 seconds
  MaxClock,      \* bound of the model: the clock
  MaxChanges,    \* bound of the model: changes of the facts the runs read
  MaxDispatch    \* bound of the model: dispatched requests

ASSUME AdmissionAssumption ==
  /\ HeadSha \subseteq Commit /\ BaseSha \subseteq Commit
  /\ InitialHead \in [Pull -> HeadSha] /\ InitialBase \in BaseSha
  /\ PullOf \in [Comment -> Pull]
  /\ Said \subseteq Author \X Operation
  /\ Operation \subseteq [action: {"plan", "up"}, target: {"test", "prod"}]
  /\ {IntakeAge, CommandAge, MaxClock, MaxChanges, MaxDispatch} \subseteq Nat

Facts   == [head: HeadSha, base: BaseSha, open: BOOLEAN, main: BOOLEAN]
Request == [pull: Pull, head: HeadSha, comment: Comment, operation: Operation]
Remark  == [author: Author, said: Operation, says: Operation, created: Nat,
            edited: BOOLEAN]
Intake  == [step: {"parse", "send", "done"}, attempt: 1..2, started: Nat,
            request: Request \cup {None}]
Reading == {"run", "artifact", "comment", "before", "compare", "after", "permission",
            "environments", "list", "claim", "persist", "jobs"}
Record  == [filename: Path, status: {"renamed", "added", "removed", "modified"},
            previous: SUBSET Path]
Activity == [step: Reading, request: Request, started: Nat, base: BaseSha \cup {None},
             records: SUBSET Record, read: Nat, now: Nat]

ASSUME NoneAssumption ==
  None \notin Request \cup Remark \cup Intake \cup Activity

VARIABLES
  clock,
  changes,     \* number of changes so far
  facts,       \* each pull request: the facts GitHub showed, the last is now
  rights,      \* people who may write
  protected,   \* whether the environments have their protection
  comment,     \* each comment, or None
  intake,      \* the intake run of each comment, or None
  recorded,    \* history: requests an intake run has recorded
  sent,        \* number of dispatches so far
  waiting,     \* the request that waits for the group of each pull request
  active,      \* the run that holds the group, or None
  claims,      \* claim statuses: a head and a comment
  admitted     \* contracts of the runs that were admitted

world == <<clock, changes, facts, rights, protected, comment>>
queue == <<intake, recorded, sent, waiting>>
vars  == <<world, queue, active, claims, admitted>>

Now(p) == Last(facts[p])

Init ==
  /\ clock = 0
  /\ changes = 0
  /\ facts = [p \in Pull |-> <<[head |-> InitialHead[p], base |-> InitialBase,
                               open |-> TRUE, main |-> TRUE]>>]
  /\ rights = Author
  /\ protected = TRUE
  /\ comment = [c \in Comment |-> None]
  /\ intake = [c \in Comment |-> None]
  /\ recorded = {}
  /\ sent = 0
  /\ waiting = [p \in Pull |-> None]
  /\ active = [p \in Pull |-> None]
  /\ claims = {}
  /\ admitted = {}
-----------------------------------------------------------------------------
(***************************************************************************)
(* Comments, the intake and the dispatch.                                  *)
(***************************************************************************)
Post(c) ==
  /\ comment[c] = None
  /\ \E s \in Said :
       comment' = [comment EXCEPT ![c] =
         [author |-> s[1], said |-> s[2], says |-> s[2], created |-> clock,
          edited |-> FALSE]]
  /\ UNCHANGED <<clock, changes, facts, rights, protected, queue, active, claims,
                 admitted>>

\* Whether the intake takes the command: the approver may not request applies.
AuthorIsAuthorized(a, o) == o.action = "up" => a # "owner"

\* The run carries the comment of its event, which no edit changes.
StartIntake(c) ==
  /\ comment[c] # None
  /\ intake[c] = None
  /\ Now(PullOf[c]).open
  /\ intake' = [intake EXCEPT ![c] =
       [step |-> "parse", attempt |-> 1, started |-> clock, request |-> None]]
  /\ UNCHANGED <<world, recorded, sent, waiting, active, claims, admitted>>

\* A re-run keeps the start of the run and overwrites its artifact.
RerunIntake(c) ==
  /\ intake[c] # None
  /\ intake[c].attempt = 1
  /\ intake[c].step = "done"
  /\ intake' = [intake EXCEPT ![c].step = "parse", ![c].attempt = 2]
  /\ UNCHANGED <<world, recorded, sent, waiting, active, claims, admitted>>

RecordRequest(c) ==
  /\ intake[c] # None
  /\ intake[c].step = "parse"
  /\ AuthorIsAuthorized(comment[c].author, comment[c].said)
  /\ LET f == Now(PullOf[c])
         r == [pull |-> PullOf[c], head |-> f.head, comment |-> c,
               operation |-> comment[c].said]
     IN  /\ f.open
         /\ intake' = [intake EXCEPT ![c].step = "send", ![c].request = r]
         /\ recorded' = recorded \cup {r}
  /\ UNCHANGED <<world, sent, waiting, active, claims, admitted>>

\* The newest request takes the place of one that waits for the group.
Enqueue(r) ==
  /\ sent < MaxDispatch
  /\ sent' = sent + 1
  /\ waiting' = [waiting EXCEPT ![r.pull] = r]

SendRequest(c) ==
  /\ intake[c] # None
  /\ intake[c].step = "send"
  /\ Enqueue(intake[c].request)
  /\ intake' = [intake EXCEPT ![c].step = "done"]
  /\ UNCHANGED <<world, recorded, active, claims, admitted>>

ForeignDispatch ==
  /\ \E r \in Request : Enqueue(r)
  /\ UNCHANGED <<world, intake, recorded, active, claims, admitted>>
-----------------------------------------------------------------------------
(***************************************************************************)
(* The preflight of a run.                                                 *)
(***************************************************************************)
At(p, s) == active[p] # None /\ active[p].step = s
Goto(p, s) == active' = [active EXCEPT ![p].step = s]

StartRun(p) ==
  /\ active[p] = None
  /\ waiting[p] # None
  /\ active' = [active EXCEPT ![p] =
       [step |-> "run", request |-> waiting[p], started |-> clock,
        base |-> None, records |-> {}, read |-> 0, now |-> 0]]
  /\ waiting' = [waiting EXCEPT ![p] = None]
  /\ UNCHANGED <<world, intake, recorded, sent, claims, admitted>>

\* The run that recorded the request, in its first attempt.
ReadRun(p) ==
  /\ At(p, "run")
  /\ LET i == intake[active[p].request.comment]
     IN  i # None /\ i.attempt = 1
  /\ Goto(p, "artifact")
  /\ UNCHANGED <<world, queue, claims, admitted>>

\* Mutant: the artifact is read, and compared with nothing.
ReadAnyArtifact(p) ==
  /\ At(p, "artifact")
  /\ intake[active[p].request.comment].request # None
  /\ Goto(p, "comment")
  /\ UNCHANGED <<world, queue, claims, admitted>>

\* The artifact of the run is the request.
ReadArtifact(p) ==
  /\ At(p, "artifact")
  /\ intake[active[p].request.comment].request = active[p].request
  /\ Goto(p, "comment")
  /\ UNCHANGED <<world, queue, claims, admitted>>

\* The comment is of this pull request, unedited, of the age of its intake,
\* and says what is requested.
ReadComment(p) ==
  /\ At(p, "comment")
  /\ LET r == active[p].request
         c == comment[r.comment]
         age == intake[r.comment].started - c.created
     IN  /\ PullOf[r.comment] = p
         /\ ~c.edited
         /\ 0 <= age /\ age <= IntakeAge
         /\ c.says = r.operation
  /\ Goto(p, "before")
  /\ UNCHANGED <<world, queue, claims, admitted>>

ReadBefore(p) ==
  /\ At(p, "before")
  /\ Now(p).head = active[p].request.head
  /\ Now(p).main
  /\ active' = [active EXCEPT ![p].step = "compare", ![p].base = Now(p).base]
  /\ UNCHANGED <<world, queue, claims, admitted>>

\* The changed files of the pull request, as many as GitHub counted.
ReadComparison(p) ==
  /\ At(p, "compare")
  /\ LET b == active[p].base
         h == active[p].request.head
     IN  \E l \in Listings(b, h) :
           /\ Cardinality(l) = Cardinality(Compare(b, h))
           /\ active' = [active EXCEPT ![p].step = "after", ![p].records = l,
                                       ![p].read = Len(facts[p])]
  /\ UNCHANGED <<world, queue, claims, admitted>>

\* Mutant: the base is not compared with that of the listing.
ReadAfterSameHead(p) ==
  /\ At(p, "after")
  /\ Now(p).head = active[p].request.head
  /\ Now(p).main
  /\ Now(p).open
  /\ active' = [active EXCEPT ![p].step = "permission", ![p].now = clock]
  /\ UNCHANGED <<world, queue, claims, admitted>>

\* The pull request again: nothing moved meanwhile.  The age of the comment is
\* that of this moment, and the state of the pull request too.
ReadAfter(p) ==
  /\ At(p, "after")
  /\ Now(p).head = active[p].request.head
  /\ Now(p).base = active[p].base
  /\ Now(p).main
  /\ Now(p).open
  /\ active' = [active EXCEPT ![p].step = "permission", ![p].now = clock]
  /\ UNCHANGED <<world, queue, claims, admitted>>

\* Mutant: the age of the command is that at its intake.
ReadPermissionAtIntake(p) ==
  /\ At(p, "permission")
  /\ LET r == active[p].request
         c == comment[r.comment]
         age == intake[r.comment].started - c.created
     IN  /\ c.author \in rights
         /\ AuthorIsAuthorized(c.author, r.operation)
         /\ 0 <= age /\ age <= CommandAge
         /\ SelectScopes(active[p].records, active[p].base, r.head,
                         Cardinality(Compare(active[p].base, r.head))) # {}
  /\ Goto(p, "environments")
  /\ UNCHANGED <<world, queue, claims, admitted>>

\* The right of the author, and the validation of all that was read.
ReadPermission(p) ==
  /\ At(p, "permission")
  /\ LET r == active[p].request
         c == comment[r.comment]
         age == active[p].now - c.created
     IN  /\ c.author \in rights
         /\ AuthorIsAuthorized(c.author, r.operation)
         /\ 0 <= age /\ age <= CommandAge
         /\ SelectScopes(active[p].records, active[p].base, r.head,
                         Cardinality(Compare(active[p].base, r.head))) # {}
  /\ Goto(p, "environments")
  /\ UNCHANGED <<world, queue, claims, admitted>>

ReadEnvironments(p) ==
  /\ At(p, "environments")
  /\ protected
  /\ Goto(p, "list")
  /\ UNCHANGED <<world, queue, claims, admitted>>

Claim(r) == <<r.head, r.comment>>

\* Mutant: the claims are not listed.
ListNoClaims(p) ==
  /\ At(p, "list")
  /\ Goto(p, "claim")
  /\ UNCHANGED <<world, queue, claims, admitted>>

ListClaims(p) ==
  /\ At(p, "list")
  /\ Claim(active[p].request) \notin claims
  /\ Goto(p, "claim")
  /\ UNCHANGED <<world, queue, claims, admitted>>

\* The claim is posted; the run does not always learn that it was.
PostClaim(p) ==
  /\ At(p, "claim")
  /\ claims' = claims \cup {Claim(active[p].request)}
  /\ \/ Goto(p, "persist")
     \/ active' = [active EXCEPT ![p] = None]
  /\ UNCHANGED <<world, queue, admitted>>

Contract(p) ==
  LET r == active[p].request
      count == Cardinality(Compare(active[p].base, r.head))
  IN  {[request |-> r, base |-> active[p].base, selection |-> s,
        started |-> active[p].started, read |-> active[p].read,
        number |-> Cardinality(admitted)] :
         s \in SelectScopes(active[p].records, active[p].base, r.head, count)}

\* The contract is written and the jobs of the run may start.
Accept(p) ==
  /\ At(p, "persist")
  /\ admitted' = admitted \cup Contract(p)
  /\ Goto(p, "jobs")
  /\ UNCHANGED <<world, queue, claims>>

\* A run ends after its jobs, with a check that fails, or by a crash.
EndRun(p) ==
  /\ active[p] # None
  /\ active' = [active EXCEPT ![p] = None]
  /\ UNCHANGED <<world, queue, claims, admitted>>
-----------------------------------------------------------------------------
(***************************************************************************)
(* What people and other workflows change meanwhile.                       *)
(***************************************************************************)
Changed == changes < MaxChanges /\ changes' = changes + 1

Show(p, f) == facts' = [facts EXCEPT ![p] = Append(@, f)]

ChangePull(p) ==
  /\ Changed
  /\ \/ \E h \in HeadSha \ {Now(p).head} : Show(p, [Now(p) EXCEPT !.head = h])
     \/ Show(p, [Now(p) EXCEPT !.open = ~@])
     \/ Show(p, [Now(p) EXCEPT !.main = ~@])
  /\ UNCHANGED <<clock, rights, protected, comment>>

AdvanceMain ==
  /\ Changed
  /\ \E b \in BaseSha :
       /\ \E p \in Pull : Now(p).base # b
       /\ facts' = [p \in Pull |-> Append(facts[p], [Now(p) EXCEPT !.base = b])]
  /\ UNCHANGED <<clock, rights, protected, comment>>

EditComment(c) ==
  /\ Changed
  /\ comment[c] # None
  /\ \E o \in Operation :
       comment' = [comment EXCEPT ![c].says = o, ![c].edited = TRUE]
  /\ UNCHANGED <<clock, facts, rights, protected>>

Withdraw ==
  /\ Changed
  /\ \/ \E a \in rights : rights' = rights \ {a} /\ UNCHANGED protected
     \/ protected /\ protected' = FALSE /\ UNCHANGED rights
  /\ UNCHANGED <<clock, facts, comment>>

Tick ==
  /\ clock < MaxClock
  /\ clock' = clock + 1
  /\ UNCHANGED <<changes, facts, rights, protected, comment>>

Environment ==
  /\ \/ \E p \in Pull : ChangePull(p)
     \/ AdvanceMain
     \/ \E c \in Comment : EditComment(c)
     \/ Withdraw
     \/ Tick
  /\ UNCHANGED <<queue, active, claims, admitted>>

Preflight(p) ==
  \/ StartRun(p) \/ ReadRun(p) \/ ReadArtifact(p) \/ ReadComment(p)
  \/ ReadBefore(p) \/ ReadComparison(p) \/ ReadAfter(p) \/ ReadPermission(p)
  \/ ReadEnvironments(p) \/ ListClaims(p) \/ PostClaim(p) \/ Accept(p)
  \/ EndRun(p)

Next ==
  \/ \E c \in Comment :
       \/ Post(c) \/ StartIntake(c) \/ RerunIntake(c) \/ RecordRequest(c)
       \/ SendRequest(c)
  \/ ForeignDispatch
  \/ \E p \in Pull : Preflight(p)
  \/ Environment

Spec == Init /\ [][Next]_vars
-----------------------------------------------------------------------------
(***************************************************************************)
(* Properties.                                                             *)
(***************************************************************************)
TypeOK ==
  /\ {clock, changes, sent} \subseteq Nat
  /\ facts \in [Pull -> Seq(Facts)] /\ \A p \in Pull : facts[p] # <<>>
  /\ rights \subseteq Author
  /\ protected \in BOOLEAN
  /\ comment \in [Comment -> Remark \cup {None}]
  /\ intake \in [Comment -> Intake \cup {None}]
  /\ recorded \subseteq Request
  /\ waiting \in [Pull -> Request \cup {None}]
  /\ active \in [Pull -> Activity \cup {None}]
  /\ claims \subseteq HeadSha \X Comment

\* A comment admits at most one run for a head, whoever dispatches it how often
\* and under whatever pull request or command.
ConsumedOnce ==
  \A a, b \in admitted : Claim(a.request) = Claim(b.request) => a = b

\* What is admitted is what an intake run recorded for the comment: the command
\* the author gave, on the pull request of the comment, by somebody who may
\* request it.
AdmitsTheComment ==
  \A a \in admitted :
    LET r == a.request
        c == comment[r.comment]
    IN  /\ r \in recorded
        /\ r.operation = c.said
        /\ r.pull = PullOf[r.comment]
        /\ AuthorIsAuthorized(c.author, c.said)

\* The facts of the contract held at one moment, no earlier than the listing of
\* the files: the pull request was open, on its way to main at that base, with
\* that head.  A preflight does not mix two revisions.
AdmittedAtOneMoment ==
  \A a \in admitted :
    \E i \in a.read..Len(facts[a.request.pull]) :
      facts[a.request.pull][i] =
        [head |-> a.request.head, base |-> a.base, open |-> TRUE, main |-> TRUE]

\* Every stack and validation that a changed path asks for is selected, also
\* for a path that was renamed away or removed; what nobody has classified or
\* GitHub does not list completely is not admitted.
SelectionCovers ==
  \A a \in admitted :
    \A p \in Touched(a.base, a.request.head) :
      /\ Classified(p)
      /\ \/ PathStacks(ClassOf[p]) \subseteq a.selection.stacks
         \/ /\ p = TrustPath
            /\ <<a.base, a.request.head>> = <<TrustBase, TrustHead>>
            /\ "governance" \in a.selection.stacks
      /\ p # TrustPath =>
           PathValidations(ClassOf[p]) \subseteq a.selection.validations

\* Whoever reads a contract, every worker among them, recomputes its selection
\* from its paths, taken as plain modifications (_validate_contract); every
\* admitted contract passes.
SelectionIsCanonical ==
  \A a \in admitted :
    LET plain == {[filename |-> p, status |-> "modified", previous |-> {}] :
                    p \in a.selection.paths}
    IN  SelectScopes(plain, a.base, a.request.head,
                     Cardinality(a.selection.paths)) = {a.selection}

\* A run that waited for its group until the command had expired is not
\* admitted, however long before that it was dispatched.
ExpiredIsRefused ==
  \A a \in admitted :
    a.started - comment[a.request.comment].created <= CommandAge
=============================================================================
