------------------------- MODULE RepositoryControls -------------------------
(***************************************************************************)
(* The administrator's tool that sets up the merge rules and the           *)
(* environments of a repository (configure_github_repository_controls.py,  *)
(* _github_repository_controls.py), against GitHub and people who edit the *)
(* same settings by hand.                                                  *)
(*                                                                         *)
(* Every request is a step of its own: nothing locks the settings, and a   *)
(* run that stops has done what it has done.  A run is the list of         *)
(* requests it still has to make; some put further requests before it.     *)
(*                                                                         *)
(* The checks of the list the code requires are "Quality", except the      *)
(* promotion proofs, which a GitHub App issues.                            *)
(***************************************************************************)
EXTENDS Naturals, FiniteSets, Sequences, FiniteSetsExt, SequencesExt

CONSTANTS Run,                  \* runs of the tool, each started at most once
          Protected,            \* the environments behind a reviewer, in order
          Unattended,           \* those the create-only modes may add
          Evidence,             \* the environment of the App key
          Reviewer, App,
          Before,               \* ruleset, environments, classic protection at first
          FirstId,              \* the newest branch-policy id at first
          HandSettings, HandRulesets,   \* what people set them to
          MaxEdits              \* bound: edits by hand

VARIABLES central,      \* the repository is the central one
          classic,      \* classic protection requires the retired promotion
          ruleset,      \* the branch ruleset named main
          env,          \* environment -> its settings
          lastId,       \* the newest branch-policy id
          run,          \* run -> what it has to do and what it read
          alone,        \* runs nobody else has written beside
          edits,        \* edits by hand
          promised      \* what the ruleset required before and nobody dropped

vars == <<central, classic, ruleset, env, lastId, run, alone, edits, promised>>
github == <<ruleset, env, lastId>>

Governance == "Governance Promotion"
Infrastructure == "Infrastructure Promotion"
Account == "Test Account Evidence"
None == "none"
Deployments == {"test", "prod"}

Name == Range(Protected) \cup Range(Unattended) \cup {Evidence}

-----------------------------------------------------------------------------
\* The main ruleset: checks are pairs of a context and the app that issues it.

NoRuleset == [checks |-> {}, doubled |-> FALSE, strict |-> FALSE, approvals |-> 0,
              gates |-> FALSE, deployments |-> {}, more |-> FALSE,
              bypass |-> FALSE, active |-> FALSE]

Contexts(checks) == {c[1] : c \in checks}

Retired == {Infrastructure, Account}

Required == IF central THEN {"Quality"} ELSE {Governance, "Quality", Account}

Issued == IF central THEN {Infrastructure, Account} ELSE {Governance}

Renamed(c) == IF central /\ c[1] = Governance THEN <<Infrastructure, c[2]>> ELSE c

\* A promotion proof another app issues is a conflict for a person to settle.
Bindable(checks) ==
  \A c \in checks : Renamed(c)[1] \in Issued => c[2] \in {None, App}

Bound(c) == IF Renamed(c)[1] \in Issued THEN <<Renamed(c)[1], App>> ELSE Renamed(c)

KeptChecks(checks) ==
  {c \in {Bound(d) : d \in checks} : ~(central /\ c[1] \in Retired)}

\* Mutant: the checks found are replaced by those of the list.
BaselineOnly(checks) ==
  {<<c, IF c \in Issued THEN App ELSE None>> : c \in Required}

HardenedChecks(checks) ==
  LET kept == KeptChecks(checks)
  IN  kept \cup {<<c, IF c \in Issued THEN App ELSE None>> :
                   c \in Required \ Contexts(kept)}

\* In the central repository, merging no longer waits for TEST or PROD.
KeptDeployments(r) == IF central THEN r.deployments \ Deployments ELSE r.deployments

Hardenable(r) ==
  /\ ~r.doubled
  /\ Bindable(r.checks)
  /\ central => /\ \A c, d \in KeptChecks(r.checks) : c[1] = d[1] => c = d
                /\ r.more => r.deployments = {} \/ KeptDeployments(r) # {}

RulesetPayload(r) ==
  [checks |-> HardenedChecks(r.checks), doubled |-> FALSE, strict |-> TRUE,
   approvals |-> IF r.approvals > 1 THEN r.approvals ELSE 1, gates |-> TRUE,
   deployments |-> KeptDeployments(r), more |-> r.more,
   bypass |-> ~central /\ r.bypass, active |-> TRUE]

CentralRulesetHolds(r) ==
  /\ Contexts(r.checks) \cap (Retired \cup {Governance}) = {}
  /\ ~r.bypass /\ r.active
  /\ KeptDeployments(r) = r.deployments

RulesetHolds(r) ==
  /\ Required \subseteq Contexts(r.checks)
  /\ central \/ <<Governance, App>> \in r.checks
  /\ r.strict /\ r.approvals >= 1 /\ r.gates
  /\ central => CentralRulesetHolds(r)

-----------------------------------------------------------------------------
\* Environments.  A missing one is no record at all: it lets nothing deploy.

Missing == [mode |-> "missing", policies |-> <<>>, reviewers |-> {},
            self |-> FALSE, bypass |-> FALSE, gate |-> FALSE]

ReviewerPayload(e) ==
  [mode |-> "custom", policies |-> e.policies, reviewers |-> {Reviewer},
   self |-> TRUE, bypass |-> FALSE, gate |-> e.gate]

\* Mutant: the environment is opened first and restricted by its list later.
OpenPayload(e) ==
  [mode |-> "all", policies |-> e.policies, reviewers |-> {}, self |-> FALSE,
   bypass |-> FALSE, gate |-> e.gate]

UnattendedPayload(e) ==
  [mode |-> "custom", policies |-> e.policies, reviewers |-> {}, self |-> FALSE,
   bypass |-> FALSE, gate |-> e.gate]

\* The branches and tags that may use an environment.
Usable(e) == CASE e.mode = "missing"   -> {}
               [] e.mode = "custom"    -> Range(e.policies)
               [] e.mode = "protected" -> {"main"}
               [] OTHER                -> {"main", "release", "tag"}

\* What settings are: a list gives names to the ids of its policies.
IsSettings(e) ==
  /\ e = [mode |-> e.mode, policies |-> e.policies, reviewers |-> e.reviewers,
          self |-> e.self, bypass |-> e.bypass, gate |-> e.gate]
  /\ e.mode \in {"missing", "all", "protected", "custom"}
  /\ DOMAIN e.policies \subseteq Nat /\ IsFiniteSet(DOMAIN e.policies)
  /\ e.policies \in [DOMAIN e.policies -> {"main", "release", "tag"}]
  /\ e.self \in BOOLEAN /\ e.bypass \in BOOLEAN /\ e.gate \in BOOLEAN

PresentOrMissing(e) == e.mode = "missing" => e = Missing

ASSUME ControlsConstants ==
  /\ Protected \in Seq(Range(Protected)) /\ Unattended \in Seq(Range(Unattended))
  /\ \A i, j \in DOMAIN Unattended : Unattended[i] = Unattended[j] => i = j
  /\ Range(Protected) \cap Range(Unattended) = {}
  /\ Evidence \notin Range(Protected) \cup Range(Unattended)
  /\ FirstId \in Nat
  /\ \A b \in Before : /\ b[1].approvals \in Nat
                       /\ b[2] = [n \in Name |-> b[2][n]]
                       /\ \A n \in Name : IsSettings(b[2][n]) /\ PresentOrMissing(b[2][n])
  /\ \A e \in HandSettings : IsSettings(e) /\ PresentOrMissing(e)
  /\ \A r \in HandRulesets : r.approvals \in Nat

MainOnly(mode, policies) ==
  mode = "custom" /\ Cardinality(DOMAIN policies) = 1 /\ Range(policies) = {"main"}

\* What each verification accepts: settings are read first, the list after.
ReviewedHolds(e, policies) ==
  MainOnly(e.mode, policies) /\ e.self /\ ~e.bypass /\ e.reviewers = {Reviewer}

EvidenceHolds(e, policies) == MainOnly(e.mode, policies) /\ ~e.bypass

UnattendedHolds(e, policies) ==
  MainOnly(e.mode, policies) /\ ~e.bypass /\ e.reviewers = {} /\ ~e.gate

EnvironmentHolds(n, e, policies) ==
  CASE n = Evidence            -> EvidenceHolds(e, policies)
    [] n \in Range(Protected)  -> ReviewedHolds(e, policies)
    [] OTHER                   -> UnattendedHolds(e, policies)

-----------------------------------------------------------------------------
\* The requests of a run.

Call(what, n) == [what |-> what, name |-> n, ids |-> {}]
Each(what, names) == [i \in DOMAIN names |-> Call(what, names[i])]
Decide == <<Call("decide", None)>>

VerifyAll ==
  <<Call("readRuleset", None)>> \o Each("read", Protected)
    \o <<Call("readClassic", None), Call("read", Evidence)>> \o Decide

\* The whole set-up: the ruleset, every environment, every list, then a look.
ApplyAll ==
  <<Call("putRuleset", None)>> \o Each("put", Protected) \o Each("list", Protected)
    \o <<Call("put", Evidence), Call("list", Evidence)>> \o VerifyAll

\* What follows once an environment is made; the central tool looks at once.
Create(n) ==
  IF central
  THEN <<Call("expectNone", n), Call("post", n), Call("read", n), Call("decide", None)>>
  ELSE <<Call("expectNone", n), Call("post", n)>>

\* Only service repositories have drift environments, whose protected ones are
\* verified with them; only the central one has those of reviewed sources.
CreateMissing(present, absent) ==
  Each("read", present) \o Decide \o Each("create", absent)
    \o (IF central THEN <<>>
        ELSE Each("read", Protected) \o Each("read", Unattended) \o Decide)

\* The list of all the names of S, in their order.
InOrder(S) ==
  {s \in [1..Cardinality(S) -> S] :
     /\ Range(s) = S
     /\ \A i, j \in DOMAIN s : i < j =>
          \E k, l \in DOMAIN Unattended :
            k < l /\ Unattended[k] = s[i] /\ Unattended[l] = s[j]}

Waiting == [kind |-> None, todo |-> <<>>, payload |-> NoRuleset, seen |-> Missing,
            sound |-> TRUE, wrote |-> FALSE, outcome |-> "waiting"]

Init ==
  /\ central \in BOOLEAN
  /\ \E b \in Before : ruleset = b[1] /\ env = b[2] /\ classic = b[3]
  /\ lastId = FirstId
  /\ run = [r \in Run |-> Waiting]
  /\ alone = Run
  /\ edits = 0
  /\ promised = [checks |-> ruleset.checks, approvals |-> ruleset.approvals]

Active(r) == run[r].outcome = "active"
Ended(r, outcome) ==
  run' = [run EXCEPT ![r].outcome = outcome, ![r].todo = <<>>]

\* A run that made a first write and then ends before its last request.
Refuse(r) == Ended(r, IF run[r].wrote THEN "failed" ELSE "refused")

At(r, what) == Active(r) /\ run[r].todo # <<>> /\ Head(run[r].todo).what = what
Here(r) == Head(run[r].todo).name
Rest(r) == Tail(run[r].todo)

Done(r) == run' = [run EXCEPT ![r].todo = Rest(r)]
\* Every other run under way is no longer alone.
Beside(r) == alone' = alone \ {q \in Run \ {r} : Active(q)}
Written(r, todo) ==
  /\ run' = [run EXCEPT ![r].todo = todo, ![r].wrote = TRUE]
  /\ Beside(r)

-----------------------------------------------------------------------------
\* Starting: all but the reads of a run's own first answers is decided here.

Begin(r, kind, todo, payload) ==
  /\ run[r].outcome = "waiting"
  /\ run' = [run EXCEPT ![r] = [Waiting EXCEPT !.kind = kind, !.todo = todo,
                                  !.payload = payload, !.outcome = "active"]]

StartApply(r) ==
  /\ \/ Hardenable(ruleset) /\ Begin(r, "apply", ApplyAll, RulesetPayload(ruleset))
     \/ /\ ~Hardenable(ruleset) /\ run[r].outcome = "waiting"
        /\ Ended(r, "refused")
  /\ UNCHANGED <<central, classic, github, alone, edits, promised>>

StartVerify(r) ==
  /\ Begin(r, "verify", VerifyAll, NoRuleset)
  /\ UNCHANGED <<central, classic, github, alone, edits, promised>>

StartCreate(r) ==
  /\ Begin(r, "create", (IF central THEN <<>> ELSE Each("read", Protected))
                          \o <<Call("inventory", None)>>, NoRuleset)
  /\ UNCHANGED <<central, classic, github, alone, edits, promised>>

\* The complete list of environments, then what is left to make.
Inventory(r) ==
  /\ At(r, "inventory")
  /\ LET absent == {n \in Range(Unattended) : env[n] = Missing}
     IN  \E s \in InOrder(Range(Unattended) \ absent), t \in InOrder(absent) :
           run' = [run EXCEPT ![r].todo = CreateMissing(s, t)]
  /\ UNCHANGED <<central, classic, github, alone, edits, promised>>

PutRuleset(r) ==
  /\ At(r, "putRuleset")
  /\ ruleset' = run[r].payload
  /\ Written(r, Rest(r))
  /\ UNCHANGED <<central, classic, env, lastId, edits, promised>>

\* A PUT sets every field but the list of policies, and makes what is missing.
PutEnvironment(r) ==
  /\ At(r, "put") \/ At(r, "create")
  /\ LET n == Here(r)
     IN  /\ env' = [env EXCEPT ![n] = IF n \in Range(Protected)
                                      THEN ReviewerPayload(@) ELSE UnattendedPayload(@)]
         /\ Written(r, IF At(r, "create") THEN Create(n) \o Rest(r) ELSE Rest(r))
  /\ UNCHANGED <<central, classic, ruleset, lastId, edits, promised>>

\* Mutant: every policy named main stays.
DeleteOthers(policies) ==
  {i \in DOMAIN policies : policies[i] # "main"}

\* All policies but the first main one.
Superfluous(policies) ==
  LET mains == {i \in DOMAIN policies : policies[i] = "main"}
  IN  DOMAIN policies \ (IF mains = {} THEN {} ELSE {Min(mains)})

ListPolicies(r) ==
  /\ At(r, "list")
  /\ LET n == Here(r)
         ids == Superfluous(env[n].policies)
         deletions == IF ids = {} THEN <<>> ELSE <<[Call("delete", n) EXCEPT !.ids = ids]>>
         post == IF "main" \in Range(env[n].policies) THEN <<>> ELSE <<Call("post", n)>>
     IN  run' = [run EXCEPT ![r].todo = deletions \o post \o Rest(r)]
  /\ UNCHANGED <<central, classic, github, alone, edits, promised>>

\* The smallest id first, one request each.
DeletePolicy(r) ==
  /\ At(r, "delete")
  /\ LET n == Here(r)
         ids == Head(run[r].todo).ids
         i == Min(ids)
         more == IF ids = {i} THEN <<>> ELSE <<[Call("delete", n) EXCEPT !.ids = ids \ {i}]>>
     IN  IF i \in DOMAIN env[n].policies
         THEN /\ env' = [env EXCEPT ![n].policies =
                           [j \in DOMAIN @ \ {i} |-> @[j]]]
              /\ Written(r, more \o Rest(r))
         ELSE /\ Refuse(r)
              /\ UNCHANGED <<env, alone>>
  /\ UNCHANGED <<central, classic, ruleset, lastId, edits, promised>>

\* A list that already names main is left as it is.
PostMain(r) ==
  /\ At(r, "post")
  /\ LET n == Here(r)
         known == "main" \in Range(env[n].policies)
     IN  /\ env' = IF known THEN env
                   ELSE [env EXCEPT ![n].policies =
                           [j \in DOMAIN @ \cup {lastId + 1} |->
                              IF j \in DOMAIN @ THEN @[j] ELSE "main"]]
         /\ lastId' = IF known THEN lastId ELSE lastId + 1
  /\ Written(r, Rest(r))
  /\ UNCHANGED <<central, classic, ruleset, edits, promised>>

ExpectNone(r) ==
  /\ At(r, "expectNone")
  /\ IF env[Here(r)].policies = <<>> THEN Done(r) ELSE Refuse(r)
  /\ UNCHANGED <<central, classic, github, alone, edits, promised>>

ReadRuleset(r) ==
  /\ At(r, "readRuleset")
  /\ run' = [run EXCEPT ![r].todo = Rest(r), ![r].sound = @ /\ RulesetHolds(ruleset)]
  /\ UNCHANGED <<central, classic, github, alone, edits, promised>>

\* An environment is read in two requests, its settings and then its list.
ReadEnvironment(r) ==
  /\ At(r, "read")
  /\ run' = [run EXCEPT ![r].todo = <<Call("readPolicies", Here(r))>> \o Rest(r),
                        ![r].seen = env[Here(r)]]
  /\ UNCHANGED <<central, classic, github, alone, edits, promised>>

ReadPolicies(r) ==
  /\ At(r, "readPolicies")
  /\ run' = [run EXCEPT ![r].todo = Rest(r), ![r].seen = Missing,
               ![r].sound = @ /\ EnvironmentHolds(Here(r), run[r].seen,
                                                  env[Here(r)].policies)]
  /\ UNCHANGED <<central, classic, github, alone, edits, promised>>

ReadClassic(r) ==
  /\ At(r, "readClassic")
  /\ run' = [run EXCEPT ![r].todo = Rest(r), ![r].sound = @ /\ ~(central /\ classic)]
  /\ UNCHANGED <<central, classic, github, alone, edits, promised>>

\* What was read holds, or the run ends; the last such look is the report.
Report(r) ==
  /\ At(r, "decide")
  /\ IF ~run[r].sound THEN Refuse(r)
     ELSE IF Rest(r) = <<>> THEN Ended(r, "verified") ELSE Done(r)
  /\ UNCHANGED <<central, classic, github, alone, edits, promised>>

\* A request fails or the run is stopped: what it wrote stays.
Stop(r) ==
  /\ Active(r)
  /\ Ended(r, "stopped")
  /\ UNCHANGED <<central, classic, github, alone, edits, promised>>

-----------------------------------------------------------------------------
\* People edit the same settings.

ByHand ==
  /\ edits < MaxEdits
  /\ edits' = edits + 1
  /\ alone' = alone \ {q \in Run : Active(q)}
  /\ \/ \E n \in Name, e \in HandSettings :
          /\ env' = [env EXCEPT ![n] = e]
          /\ UNCHANGED <<ruleset, promised>>
     \/ \E r \in HandRulesets :
          /\ ruleset' = r
          /\ promised' = [checks |-> promised.checks \cap r.checks,
                          approvals |-> IF r.approvals < promised.approvals
                                        THEN r.approvals ELSE promised.approvals]
          /\ UNCHANGED env
  /\ UNCHANGED <<central, classic, lastId, run>>

Step(r) ==
  \/ StartApply(r) \/ StartVerify(r) \/ StartCreate(r) \/ Inventory(r)
  \/ PutRuleset(r) \/ PutEnvironment(r) \/ ListPolicies(r) \/ DeletePolicy(r)
  \/ PostMain(r) \/ ExpectNone(r) \/ ReadRuleset(r) \/ ReadEnvironment(r)
  \/ ReadPolicies(r) \/ ReadClassic(r) \/ Report(r) \/ Stop(r)

Next == ByHand \/ \E r \in Run : Step(r)

Spec == Init /\ [][Next]_vars

-----------------------------------------------------------------------------
(***************************************************************************)
(* A run nobody writes beside never ends in the middle: whatever the       *)
(* settings were before, also those an earlier run left when it stopped,   *)
(* it either refuses before its first write or what it wrote passes its    *)
(* own verification (configure, _configure_main_branch_policy against      *)
(* _verify_applied_controls).  Classic protection is not the tool's.       *)
(***************************************************************************)
AppliedVerifies ==
  \A r \in alone : run[r].outcome = "failed" => central /\ classic

(***************************************************************************)
(* No request of the tool lets a branch or tag other than main use an      *)
(* environment it could not use before: the order of the requests leaves   *)
(* no opening, wherever a run stops and whoever writes beside it.  Of an   *)
(* environment that was open to protected branches nothing is said: the    *)
(* list it is switched to is one GitHub kept.                              *)
(***************************************************************************)
OnlyMainIsAdded ==
  [][\A n \in Name : \/ edits' # edits
                     \/ env[n].mode = "protected"
                     \/ Usable(env[n]') \subseteq Usable(env[n]) \cup {"main"}]_vars

(***************************************************************************)
(* A check or a number of approvals the ruleset required at first, and     *)
(* nobody dropped by hand, is still required after any runs of the tool,   *)
(* from the same issuer, except what the central repository retires.       *)
(***************************************************************************)
ChecksKept ==
  /\ ruleset.approvals >= promised.approvals
  /\ \A c \in promised.checks :
       \/ central /\ Renamed(c)[1] \in Retired
       \/ \E d \in ruleset.checks : d[1] = c[1] /\ c[2] \in {None, d[2]}

=============================================================================
