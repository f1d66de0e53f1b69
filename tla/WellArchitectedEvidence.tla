---------------------- MODULE WellArchitectedEvidence ----------------------
(***************************************************************************)
(* The checks of the Well-Architected collector: the requests each makes,  *)
(* one after another, to GitHub and to the AWS account, and what it        *)
(* concludes from their answers v and from the evidence of the owners.  A  *)
(* check passes exactly when the source has no blocker for it.  A number   *)
(* of days or minutes is a number of ticks of one clock; texts that are    *)
(* only required to be present, and the wording of blockers, are left out. *)
(***************************************************************************)
EXTENDS Integers, Sequences, FiniteSets, SequencesExt, FiniteSetsExt, Functions

CONSTANTS
  Question,        \* the questions of the framework
  PillarOf,        \* the pillar of each question
  Control,         \* the external controls that must be attested
  MaxReviewAge,    \* STRUCTURED_EVIDENCE_MAX_AGE_DAYS
  ClockGrace,      \* how far ahead of this clock a review may be dated
  RequiredStatusChecks,
  FanoutLimit,     \* the threshold of each kind of resource
  ThreadPages,     \* how many pages of review threads are read
  Unanswered       \* a request that fails or is answered with nonsense

ASSUME QuestionAssumption == IsFiniteSet(Question) /\ PillarOf \in [Question -> STRING]
ASSUME EvidenceBounds == {MaxReviewAge, ClockGrace, FanoutLimit, ThreadPages} \subseteq Nat

Has(v, q) == q \in DOMAIN v /\ v[q] # Unanswered
When(condition, requests) == IF condition THEN requests ELSE <<>>

-----------------------------------------------------------------------------
(* GitHub: the pull request, its threads, the branch, the environment.     *)

\* Two views of the pull request, its files, and the promotion of the head
\* that the first of them showed.
PullRequests(v) ==
  <<<<"pull">>>> \o When(Has(v, <<"pull">>), <<<<"entries">>>>)
    \o When(Has(v, <<"entries">>), <<<<"files">>, <<"promotion">>>>)

\* A page is asked for when the one before says that there are more.
ThreadRequests(v) ==
  LET Reached(i) == \A j \in 1..(i - 1) : Has(v, <<"threads", j>>) /\ v[<<"threads", j>>].more
  IN [i \in 1..Cardinality({j \in 1..ThreadPages : Reached(j)}) |-> <<"threads", i>>]

\* The classic protection, the list of the rulesets and then each of them.
Rulesets(v) ==
  IF Has(v, <<"rulesets">>) /\ v[<<"rulesets">>].complete THEN v[<<"rulesets">>].ids ELSE <<>>

BranchRequests(v) ==
  <<<<"classic">>, <<"rulesets">>>> \o [i \in 1..Len(Rulesets(v)) |-> <<"ruleset", Rulesets(v)[i]>>]

EnvironmentRequests(v) ==
  <<<<"environment">>>> \o When(Has(v, <<"environment">>), <<<<"policies">>>>)

AllowedSkipped == {"Evidence (Unprivileged)", "Preview (Unprivileged)",
                   "IAM Validation (Unprivileged)"}
Covered == [CodeQL |-> {"CodeQL (actions)", "CodeQL (python)"}]

Succeeded(e) == e.kind = "CheckRun" /\ e.done /\ e.outcome = "SUCCESS"

EntryPassed(e) ==
  \/ e.kind = "StatusContext" /\ e.outcome = "SUCCESS"
  \/ Succeeded(e)
  \/ /\ e.kind = "CheckRun" /\ e.done
     /\ e.outcome = "SKIPPED" /\ e.name \in AllowedSkipped

CoveredAggregate(e, entries) ==
  /\ e.kind = "CheckRun" /\ e.done
  /\ e.name \in DOMAIN Covered /\ e.outcome \in {"NEUTRAL", "SKIPPED"}
  /\ \A name \in Covered[e.name] : \E f \in entries : f.name = name /\ Succeeded(f)

Failing(entries) ==
  {e \in entries : ~EntryPassed(e) /\ ~CoveredAggregate(e, entries)}

\* The entries are those left once the producers of this very verdict have
\* been taken out; the promotion must be that of the head of the first view.
PullRequestChecks(v) ==
  LET pull    == v[<<"pull">>].content
      failing == Failing(v[<<"entries">>])
  IN /\ \/ pull.merge = "CLEAN"
        \/ pull.merge \in {"BLOCKED", "UNSTABLE"} /\ pull.mergeable /\ failing = {}
     /\ pull.review = "APPROVED"
     /\ failing = {}
     /\ v[<<"promotion">>].content /\ v[<<"promotion">>].head = v[<<"pull">>].head

Blocks(thread) == ~thread.resolved /\ ~thread.outdated /\ ~thread.advisory

\* More pages than are read are unknown, and unknown blocks.
ReviewThreads(v) ==
  LET pages == {i \in 1..ThreadPages : <<"threads", i>> \in DOMAIN v}
  IN /\ \A i \in pages : ~\E thread \in v[<<"threads", i>>].threads : Blocks(thread)
     /\ \E i \in pages : ~v[<<"threads", i>>].more

NoProtection == [contexts |-> {}, reviews |-> FALSE, issued |-> FALSE]

\* A classic protection that cannot be read is none.
Classic(v) == IF Has(v, <<"classic">>) THEN v[<<"classic">>] ELSE NoProtection

ActiveRulesets(v) ==
  {r \in {v[<<"ruleset", id>>] : id \in Range(Rulesets(v))} : r.active}

RequiredContexts(v) ==
  Classic(v).contexts \cup UNION {r.contexts : r \in ActiveRulesets(v)}

Promotion == {"Infrastructure Promotion", "Governance Promotion"}

\* What the classic protection and each ruleset that covers the branch say of
\* the promotion: nothing, or whether they require it of the App as they must.
\* A ruleset whose branches cannot be told counts as one that does not.
ClassicPromotion(classic) ==
  IF classic.contexts \cap Promotion = {} THEN {}
  ELSE {classic.issued /\ "Governance Promotion" \notin classic.contexts}

RulesetPromotion(r) ==
  CASE r.refs = "malformed" -> {FALSE}
    [] r.refs = "other" \/ r.contexts \cap Promotion = {} -> {}
    [] OTHER -> {~r.excludes /\ ~r.bypass /\ r.strict /\ r.issued}

PromotionRequirements(v) ==
  ClassicPromotion(Classic(v)) \cup UNION {RulesetPromotion(r) : r \in ActiveRulesets(v)}

BranchProtection(v) ==
  /\ v[<<"rulesets">>].complete
  /\ RequiredStatusChecks \subseteq RequiredContexts(v) /\ RequiredContexts(v) # {}
  /\ Classic(v).reviews \/ \E r \in ActiveRulesets(v) : r.reviews
  /\ PromotionRequirements(v) = {TRUE}

ProductionEnvironment(v) ==
  LET p == v[<<"environment">>]
  IN /\ p.reviewers = <<p.expected>>
     /\ p.preventSelfReview
     /\ v[<<"policies">>] = <<"main">>
     /\ ~p.adminsBypass

\* The trusted collector is given no exception: every open alert of a blocking
\* severity in the manifest blocks.
DependabotAlerts(v) ==
  ~\E a \in v[<<"alerts">>] : a.open /\ a.manifest = "uv.lock"
                              /\ a.severity \in {"critical", "high"}

LocalState(l, v) == l.clean /\ l.head = v[<<"head">>]

-----------------------------------------------------------------------------
(* AWS: the account, its users and keys, its alert route and its trail.    *)

Users(v) == IF Has(v, <<"users">>) THEN v[<<"users">>] ELSE <<>>

\* Whether a user has a password, and the devices of one who has.
ConsoleRequests(v) ==
  LET both == [i \in 1..(2 * Len(Users(v))) |->
                 <<IF i % 2 = 1 THEN "profile" ELSE "devices", Users(v)[(i + 1) \div 2]>>]
  IN SelectSeq(both, LAMBDA q : q[1] = "devices" => Has(v, <<"profile", q[2]>>)
                                                   /\ v[<<"profile", q[2]>>])

\* The account, its users, the keys of each and then the console of each.
AccountRequests(v) ==
  <<<<"summary">>>> \o When(Has(v, <<"summary">>),
    <<<<"users">>>> \o [i \in 1..Len(Users(v)) |-> <<"keys", Users(v)[i]>>]
      \o ConsoleRequests(v) \o <<<<"clock">>>>)

KeysOf(v, state) ==
  {k \in UNION {v[<<"keys", u>>] : u \in Range(Users(v))} : k.status = state}

Stale(k) == k.status = "Active" /\ k.old

\* What the account reports and what the users add up to.
IamAggregates(v) ==
  [summary    |-> v[<<"summary">>].counted,
   discovered |-> Len(Users(v)),
   mfa        |-> v[<<"summary">>].rootMfa,
   rootKeys   |-> v[<<"summary">>].rootKeys,
   active     |-> Cardinality(KeysOf(v, "Active")),
   inactive   |-> Cardinality(KeysOf(v, "Inactive")),
   withActive |-> Cardinality({u \in Range(Users(v)) :
                                 \E k \in v[<<"keys", u>>] : k.status = "Active"}),
   stale      |-> Cardinality({k \in KeysOf(v, "Active") : Stale(k)})]

\* Reviewed not later than the grace of the clock allows, and not too long ago.
NotInFuture(reviewed, now) == reviewed <= now + ClockGrace
Fresh(reviewed, now) == NotInFuture(reviewed, now) /\ now - reviewed <= MaxReviewAge

AttestationHolds(a, v) ==
  /\ Fresh(a.reviewed, v[<<"clock">>]) /\ v[<<"clock">>] < a.expires
  /\ a.approval \in {"approved", "approved_exception", "accepted_risk", "technical_review"}
  /\ IF a.approval = "technical_review"
     THEN a.human = "not_assessed" /\ a.keys = "no_active_keys" /\ a.boundary = "boundary_verified"
     ELSE a.human # "not_assessed"
  /\ a.keys = "no_active_keys" => IamAggregates(v).active = 0
  /\ a.account = IamAggregates(v)

\* A user with a password needs a device.
ConsoleProtected(v, u) == v[<<"profile", u>>] => v[<<"devices", u>>]

\* An attestation can speak for active keys and for nothing else here: a user
\* with a console and no device blocks whatever it says.
AccountAccess(v, a) ==
  /\ AttestationHolds(a, v)
  /\ v[<<"summary">>].rootMfa = 1 /\ v[<<"summary">>].rootKeys = 0
  /\ Len(Users(v)) = v[<<"summary">>].counted
  /\ \A u \in Range(Users(v)) : ConsoleProtected(v, u)

CostControls(v) == v[<<"budgets">>] >= 1 /\ v[<<"monitors">>] >= 1

\* The queue of the first subscription that has one.
RouteQueue(v) ==
  LET queues == SelectSeq(IF Has(v, <<"subscriptions">>) THEN v[<<"subscriptions">>] ELSE <<>>,
                          LAMBDA s : s.protocol = "sqs" /\ s.queue # "none")
  IN IF queues = <<>> THEN "none" ELSE queues[1].queue

RouteRequests(v) ==
  <<<<"topic">>, <<"subscriptions">>>> \o When(RouteQueue(v) # "none", <<<<"queue", RouteQueue(v)>>>>)
    \o <<<<"clock">>>>

RouteFields(v) ==
  [encrypted |-> v[<<"topic">>], count |-> Len(v[<<"subscriptions">>]),
   protocols |-> {s.protocol : s \in Range(v[<<"subscriptions">>])},
   queue |-> RouteQueue(v), retention |-> v[<<"queue", RouteQueue(v)>>]]

AlertRoute(v, o) ==
  /\ v[<<"topic">>]
  /\ RouteQueue(v) # "none"
  /\ Fresh(o.reviewed, v[<<"clock">>]) /\ v[<<"clock">>] < o.expires
  /\ o.decision \in {"accepted", "approved", "approved_exception", "accepted_risk"}
  /\ o.route = RouteFields(v)

ManagementEvents(v) ==
  LET t == v[<<"trail">>]
  IN /\ t.multiRegion /\ t.globalEvents /\ t.validated /\ t.encrypted
     /\ v[<<"logging">>]
     /\ \E s \in v[<<"selectors">>] : s.management /\ s.kind = "All"

RestoreJobs(v, window) ==
  \E j \in v[<<"jobs">>] : j.status = "COMPLETED" /\ v[<<"clock">>] - j.created < window

\* The drill has no age limit; what the owner of recovery signed expires.
RestoreDrill(drill, owner, now) ==
  /\ drill.result = "passed" /\ drill.cleanup
  /\ NotInFuture(owner.reviewed, now) /\ now < owner.expires
  /\ owner.approval \in {"approved", "approved_exception", "accepted_risk"}
  /\ owner.drill = drill

-----------------------------------------------------------------------------
(* The catalogs of the repository.                                         *)

DefaultEnvironments == 2

\* Zero stands for an entry that does not say.
Environments(repository) ==
  IF repository.environments = 0 THEN DefaultEnvironments ELSE repository.environments

\* Every kind of resource grows with the environments, so the threshold that
\* is met first is the one that counts.
FanoutOf(catalog) ==
  Cardinality(UNION {{i} \X (1..Environments(catalog.repositories[i])) :
                       i \in 1..Len(catalog.repositories)})

CatalogValid(catalog) ==
  catalog.schema /\ \A i, j \in 1..Len(catalog.repositories) :
    catalog.repositories[i].name = catalog.repositories[j].name => i = j

\* Examples and the catalog of generated services are no evidence.
RepositoryFanout(catalogs) ==
  LET evidence == {c \in catalogs : c.kind = "deployment"}
  IN /\ evidence # {}
     /\ \A c \in evidence : CatalogValid(c) /\ FanoutOf(c) <= FanoutLimit

-----------------------------------------------------------------------------
(* The question matrix: rows, and a summary its owner declares of them.    *)

\* A row whose id carries blanks names its question once stripped, but is not
\* the id the pillars are looked up by; an empty id names none.
Named(matrix) == {i \in 1..Len(matrix.rows) : matrix.rows[i].id # "none"}
Exact(row)    == row.id \in Question /\ ~row.padded
Score(row)    == row.score \in 1..5
Unresolved(matrix) == {i \in 1..Len(matrix.rows) : matrix.rows[i].status # "passed"}

\* Mutant: two rows of one question go unnoticed when all questions have one.
MatrixAnyIds(matrix) == {matrix.rows[i].id : i \in Named(matrix)} = Question

MatrixIds(matrix) ==
  LET ids == {matrix.rows[i].id : i \in Named(matrix)}
  IN /\ Cardinality(Named(matrix)) = Cardinality(ids)
     /\ ids = Question

MatrixRows(matrix) ==
  \A i \in 1..Len(matrix.rows) :
    LET row == matrix.rows[i]
    IN /\ Exact(row) => row.pillar = PillarOf[row.id]
       /\ Score(row)
       /\ row.status \in {"passed", "unresolved"}
       /\ (row.status = "passed") <=> (row.score = 5)
       /\ row.status # "passed" => row.refs

PillarRows(matrix, pillar) ==
  {i \in 1..Len(matrix.rows) :
     matrix.rows[i].id \in Question /\ PillarOf[matrix.rows[i].id] = pillar}

\* Averages leave out padded ids and impossible scores, and are compared by
\* the sum of the scores they stand for.
ScoredRows(matrix, pillar) ==
  {i \in PillarRows(matrix, pillar) : Exact(matrix.rows[i]) /\ Score(matrix.rows[i])}

ScoreSum(matrix, pillar) ==
  Cardinality(UNION {{i} \X (1..matrix.rows[i].score) : i \in ScoredRows(matrix, pillar)})

\* Fields of the summary that may be absent are taken as declared.
MatrixSummary(matrix) ==
  /\ matrix.count = Len(matrix.rows)
  /\ matrix.unresolved = Cardinality(Unresolved(matrix))
  /\ matrix.unresolvedIds = {matrix.rows[i].id : i \in Unresolved(matrix) \cap Named(matrix)}
                              \cap Question
  /\ LET pillars == Range(PillarOf)
     IN /\ \A p \in pillars :
             matrix.pillarUnresolved[p] = Cardinality(PillarRows(matrix, p) \cap Unresolved(matrix))
        /\ (\A p \in pillars : ScoredRows(matrix, p) # {})
             => \A p \in pillars : matrix.sums[p] = ScoreSum(matrix, p)

SourceVerified(matrix, now) ==
  /\ Fresh(matrix.checked, now)
  /\ matrix.sourceCounts = [p \in Range(PillarOf) |->
                              Cardinality({q \in Question : PillarOf[q] = p})]
  /\ matrix.sourceListed

QuestionMatrix(matrix, now) ==
  /\ Fresh(matrix.reviewed, now)
  /\ matrix.count >= Cardinality(Question) /\ matrix.unresolved = 0
  /\ SourceVerified(matrix, now)
  /\ MatrixIds(matrix) /\ MatrixRows(matrix) /\ MatrixSummary(matrix)

ControlRows(controls) ==
  \A i \in 1..Len(controls.rows) :
    LET row == controls.rows[i]
    IN /\ row.id \in Control
       /\ \A j \in 1..Len(controls.rows) : controls.rows[j].id = row.id => i = j
       /\ row.status \in {"passed", "unresolved"}
       /\ row.evidence
       /\ row.status # "passed" => row.reason

ExternalControls(controls, now) ==
  LET unresolved == {i \in 1..Len(controls.rows) : controls.rows[i].status # "passed"}
  IN /\ Fresh(controls.reviewed, now)
     /\ controls.count >= Cardinality(Control) /\ controls.unresolved = 0
     /\ Control \subseteq {controls.rows[i].id : i \in 1..Len(controls.rows)}
     /\ ControlRows(controls)
     /\ controls.count = Len(controls.rows)
     /\ controls.unresolved = Cardinality(unresolved)
     /\ controls.unresolvedIds = {controls.rows[i].id : i \in unresolved}

-----------------------------------------------------------------------------
(* The report: which rows passed, and the scores they give.                *)

GitHubChecks == <<"github_pr_checks", "github_review_threads", "github_branch_protection",
                  "github_production_environment", "github_dependabot_alerts">>
Checks == <<"github_pr_checks", "github_pr_local_state", "github_review_threads",
            "github_branch_protection", "github_dependabot_alerts",
            "github_production_environment", "aws_identity", "aws_iam_account_access",
            "aws_cost_controls", "aws_sns_alert_route", "aws_cloudtrail_management_events",
            "aws_restore_jobs", "restore_drill_evidence", "repository_fanout",
            "question_matrix_evidence", "external_control_evidence">>

\* The requests of a check in their order, as far as the answers so far tell.
Requests(c, v) ==
  CASE c = "github_pr_checks"                 -> PullRequests(v)
    [] c = "github_pr_local_state"            -> <<<<"head">>>>
    [] c = "github_review_threads"            -> ThreadRequests(v)
    [] c = "github_branch_protection"         -> BranchRequests(v)
    [] c = "github_dependabot_alerts"         -> <<<<"alerts">>>>
    [] c = "github_production_environment"    -> EnvironmentRequests(v)
    [] c = "aws_identity"                     -> <<<<"identity">>>>
    [] c = "aws_iam_account_access"           -> AccountRequests(v)
    [] c = "aws_cost_controls"                -> <<<<"budgets">>, <<"monitors">>>>
    [] c = "aws_sns_alert_route"              -> RouteRequests(v)
    [] c = "aws_cloudtrail_management_events" -> <<<<"trail">>, <<"logging">>, <<"selectors">>>>
    [] c = "aws_restore_jobs"                 -> <<<<"clock">>, <<"jobs">>>>
    [] OTHER                                  -> <<<<"clock">>>>

Open(c, v) == SelectSeq(Requests(c, v), LAMBDA q : q \notin DOMAIN v)

\* One request that is not answered and the check does not pass; only the
\* classic protection of the branch need not be there.
Answered(v) == \A q \in DOMAIN v : q = <<"classic">> \/ v[q] # Unanswered

ReadinessGates == {"question_matrix_evidence", "external_control_evidence"}

PillarChecks ==
  [Operations  |-> {"github_pr_checks", "github_pr_local_state", "github_review_threads",
                    "github_branch_protection", "github_production_environment",
                    "aws_sns_alert_route", "aws_cloudtrail_management_events"},
   Security    |-> {"github_pr_checks", "github_pr_local_state", "github_review_threads",
                    "github_branch_protection", "github_dependabot_alerts", "aws_identity",
                    "aws_iam_account_access", "aws_cloudtrail_management_events"},
   Reliability |-> {"github_pr_checks", "github_pr_local_state", "github_production_environment",
                    "aws_sns_alert_route", "restore_drill_evidence", "repository_fanout"},
   Performance |-> {"repository_fanout"},
   Cost        |-> {"aws_cost_controls", "repository_fanout"},
   Sustainability |-> {"repository_fanout"}]

\* The proxy score of a pillar in hundredths, and the final score, which stays
\* under four until both gates pass.
ProxyScore(passed, pillar) ==
  (500 * Cardinality(PillarChecks[pillar] \cap passed)) \div Cardinality(PillarChecks[pillar])

Scores(passed) ==
  [p \in DOMAIN PillarChecks |->
     IF ReadinessGates \subseteq passed THEN ProxyScore(passed, p)
     ELSE Min({400, ProxyScore(passed, p)})]
=============================================================================
