------------------------- MODULE MCTrustedEvidence -------------------------
(* A pull request, evidence of its owners of which each piece may be        *)
(* deficient in one way, and facts that change while they are read.        *)
EXTENDS TrustedEvidence

CONSTANTS h1, h2

RunSymmetry == Permutations(Run)

MCPillarOf == [q1 |-> "Security", q2 |-> "Cost"]

Entry(name, kind, outcome) ==
  [name |-> name, kind |-> kind, done |-> TRUE, outcome |-> outcome]
GoodEntries ==
  {Entry("tests", "StatusContext", "SUCCESS"), Entry("CodeQL", "CheckRun", "NEUTRAL"),
   Entry("CodeQL (actions)", "CheckRun", "SUCCESS"),
   Entry("CodeQL (python)", "CheckRun", "SUCCESS"),
   Entry("Preview (Unprivileged)", "CheckRun", "SKIPPED")}
Uncovered == GoodEntries \ {Entry("CodeQL (python)", "CheckRun", "SUCCESS")}
Pull == [merge |-> "BLOCKED", mergeable |-> TRUE, review |-> "APPROVED"]
Thread(resolved, outdated, advisory) ==
  [resolved |-> resolved, outdated |-> outdated, advisory |-> advisory]
Page(threads, more) == [threads |-> threads, more |-> more]
FirstPage == {Thread(TRUE, FALSE, FALSE), Thread(FALSE, TRUE, FALSE)}
SecondPage == {Thread(FALSE, FALSE, TRUE)}
Ruleset ==
  [active |-> TRUE, refs |-> "branch", excludes |-> FALSE, bypass |-> FALSE,
   strict |-> TRUE, issued |-> TRUE, reviews |-> FALSE, contexts |-> {"Infrastructure Promotion"}]
Reviews == [Ruleset EXCEPT !.reviews = TRUE, !.contexts = {"tests"}]
Environment ==
  [reviewers |-> <<"owner">>, expected |-> "owner", preventSelfReview |-> TRUE,
   adminsBypass |-> FALSE]
Alert(number, severity) ==
  [number |-> number, open |-> TRUE, manifest |-> "uv.lock", severity |-> severity]
Key(user, old) == [id |-> user, status |-> "Active", old |-> old]
Subscriptions(queue) ==
  <<[protocol |-> "email", queue |-> "none"], [protocol |-> "sqs", queue |-> queue]>>
Trail == [multiRegion |-> TRUE, globalEvents |-> TRUE, validated |-> TRUE, encrypted |-> TRUE]

GoodAnswers ==
  (<<"pull">> :> Pull) @@ (<<"files">> :> TRUE) @@ (<<"promotion">> :> TRUE)
    @@ (<<"threads", 1>> :> Page(FirstPage, TRUE)) @@ (<<"threads", 2>> :> Page(SecondPage, FALSE))
    @@ (<<"classic">> :> Unanswered)
    @@ (<<"rulesets">> :> [complete |-> TRUE, ids |-> <<"promotion", "reviews">>])
    @@ (<<"ruleset", "promotion">> :> Ruleset) @@ (<<"ruleset", "reviews">> :> Reviews)
    @@ (<<"environment">> :> Environment) @@ (<<"policies">> :> <<"main">>)
    @@ (<<"alerts">> :> {Alert(1, "low")}) @@ (<<"identity">> :> TRUE)
    @@ (<<"summary">> :> [rootMfa |-> 1, rootKeys |-> 0, counted |-> 2])
    @@ (<<"users">> :> <<"robot", "human">>)
    @@ (<<"keys", "robot">> :> {Key("robot", FALSE)}) @@ (<<"keys", "human">> :> {})
    @@ (<<"profile", "robot">> :> FALSE) @@ (<<"profile", "human">> :> TRUE)
    @@ (<<"devices", "human">> :> TRUE)
    @@ (<<"budgets">> :> 1) @@ (<<"monitors">> :> 1)
    @@ (<<"topic">> :> TRUE) @@ (<<"subscriptions">> :> Subscriptions("alerts"))
    @@ (<<"queue", "alerts">> :> 4) @@ (<<"queue", "other">> :> 4)
    @@ (<<"trail">> :> Trail) @@ (<<"logging">> :> TRUE)
    @@ (<<"selectors">> :> {[management |-> TRUE, kind |-> "All"]})
    @@ (<<"jobs">> :> {[status |-> "COMPLETED", created |-> 0]})

Row(id, pillar, state, score) ==
  [id |-> id, padded |-> FALSE, pillar |-> pillar, status |-> state, score |-> score, refs |-> TRUE]
Q1 == Row("q1", "Security", "passed", 5)
Q2 == Row("q2", "Cost", "passed", 5)
Matrix(rows, sums) ==
  [reviewed |-> 0, rows |-> rows, count |-> Len(rows), unresolved |-> 0,
   unresolvedIds |-> {}, pillarUnresolved |-> [Security |-> 0, Cost |-> 0], sums |-> sums,
   checked |-> 0, sourceCounts |-> [Security |-> 1, Cost |-> 1], sourceListed |-> TRUE]
GoodMatrix == Matrix(<<Q1, Q2>>, [Security |-> 5, Cost |-> 5])
ControlRow(id, state) == [id |-> id, status |-> state, evidence |-> TRUE, reason |-> TRUE]
Controls(rows) ==
  [reviewed |-> 0, rows |-> rows, count |-> Len(rows), unresolved |-> 0, unresolvedIds |-> {}]
GoodControls == Controls(<<ControlRow("c1", "passed"), ControlRow("c2", "passed")>>)
Attestation ==
  [reviewed |-> 0, expires |-> 2, approval |-> "accepted_risk", human |-> "mfa_sso_verified",
   keys |-> "accepted_risk", boundary |-> "boundary_verified",
   account |-> IamAggregates(GoodAnswers)]
Observation == [reviewed |-> 0, expires |-> 3, decision |-> "accepted", route |-> RouteFields(GoodAnswers)]
Drill == [result |-> "passed", cleanup |-> TRUE, completed |-> 0]
Owner == [reviewed |-> 0, expires |-> 3, approval |-> "approved", drill |-> Drill]
GoodBundle ==
  [matrix |-> GoodMatrix, controls |-> GoodControls, attestation |-> Attestation,
   observation |-> Observation, drill |-> Drill, owner |-> Owner]

Repository(name, environments) == [name |-> name, environments |-> environments]
Catalog(kind, repositories) == [kind |-> kind, schema |-> TRUE, repositories |-> repositories]
Approved(bundle) ==
  [head |-> h1, source |-> "s1", issued |-> 0, expires |-> 1,
   transport |-> "github-artifact", bundle |-> bundle,
   catalogs |-> {Catalog("deployment", <<Repository("a", 0), Repository("b", 1)>>),
                 Catalog("governance", <<Repository("a", 9)>>)}]

\* Evidence that is deficient in one way, by what is wrong with it.
BadApprovals ==
  LET WithMatrix(m) == Approved([GoodBundle EXCEPT !.matrix = m])
      WithRow2(row, sum) == WithMatrix(Matrix(<<Q1, row>>, [Security |-> 5, Cost |-> sum]))
  IN [twice      |-> WithMatrix(Matrix(<<Q1, Q2, Q1>>, [Security |-> 10, Cost |-> 5])),
      missing    |-> WithMatrix(Matrix(<<Q1>>, [Security |-> 5, Cost |-> 0])),
      lowScore   |-> WithRow2([Q2 EXCEPT !.score = 4], 4),
      unresolved |-> WithRow2([Q2 EXCEPT !.status = "unresolved", !.score = 4], 4),
      misplaced  |-> WithRow2([Q2 EXCEPT !.pillar = "Security"], 5),
      wrongSum   |-> WithRow2(Q2, 6),
      oldSource  |-> WithMatrix([GoodMatrix EXCEPT !.checked = -3]),
      oneControl |-> Approved([GoodBundle EXCEPT
                        !.controls = Controls(<<ControlRow("c1", "passed"), ControlRow("c1", "passed")>>)]),
      openControl |-> Approved([GoodBundle EXCEPT
                        !.controls = Controls(<<ControlRow("c1", "passed"), ControlRow("c2", "unresolved")>>)]),
      keysDenied |-> Approved([GoodBundle EXCEPT !.attestation.keys = "no_active_keys"]),
      technical  |-> Approved([GoodBundle EXCEPT !.attestation.approval = "technical_review"]),
      undecided  |-> Approved([GoodBundle EXCEPT !.observation.decision = "pending"]),
      otherDrill |-> Approved([GoodBundle EXCEPT !.owner.drill.completed = 1]),
      leftOver   |-> Approved([GoodBundle EXCEPT !.drill.cleanup = FALSE, !.owner.drill.cleanup = FALSE])]

\* Evidence that is unusual and complete all the same.
OddApprovals ==
  [padded |-> Approved([GoodBundle EXCEPT
                 !.matrix = Matrix(<<Q1, [Q2 EXCEPT !.padded = TRUE]>>, [Security |-> 5, Cost |-> 9])]),
   unnamed |-> Approved([GoodBundle EXCEPT
                 !.matrix = Matrix(<<Q1, Q2, Row("none", "Cost", "passed", 5)>>, [Security |-> 5, Cost |-> 5])])]

\* The evidence of one owner expires before the approval does.
Outlasting ==
  [Approved([GoodBundle EXCEPT !.attestation.expires = 1]) EXCEPT !.expires = 2]

MCApproval ==
  [a1 |-> Approved(GoodBundle), a2 |-> Approved(GoodBundle), a3 |-> Outlasting] @@ BadApprovals @@ OddApprovals

WorldWith(id, settled) ==
  [head |-> h1, open |-> TRUE, main |-> "s1", approval |-> id, digest |-> id,
   entries |-> [h \in {h1, h2} |-> GoodEntries], answers |-> GoodAnswers, settled |-> settled]

MCRequest == DOMAIN GoodAnswers

MCWorld ==
  {WorldWith("a1", 0), WorldWith("a3", 1)}
    \cup {WorldWith(id, MaxChanges) : id \in DOMAIN BadApprovals \cup DOMAIN OddApprovals}

\* The facts that change: the pull request, whose approval it is, and what its
\* head has been checked for.
MCAlternatives ==
  [head |-> {h1, h2}, open |-> {FALSE}, digest |-> {"a2"},
   entries |-> {[h \in {h1, h2} |-> IF h = h1 THEN Uncovered ELSE GoodEntries]}]

\* The answers that change, of checks of GitHub that are read again and of AWS
\* that are not: a thread on the second page, a rule that moves from one ruleset
\* to another, an environment that cannot be read, a user who loses a device,
\* and a queue that is exchanged.
MCReplies ==
  (<<"threads", 2>> :> {Page(SecondPage, FALSE), Page({Thread(FALSE, FALSE, FALSE)}, FALSE)})
    @@ (<<"ruleset", "promotion">> :> {[Ruleset EXCEPT !.reviews = TRUE]})
    @@ (<<"ruleset", "reviews">> :> {[Reviews EXCEPT !.reviews = FALSE]})
    @@ (<<"environment">> :> {Unanswered})
    @@ (<<"devices", "human">> :> {FALSE})
    @@ (<<"subscriptions">> :> {Subscriptions("other")})
=============================================================================
