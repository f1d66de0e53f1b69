----------------------- MODULE MCRepositoryControls -----------------------
(***************************************************************************)
(* Two runs of the tool, which may overlap or follow one another, over two *)
(* protected environments, the one of the App key and one more.            *)
(***************************************************************************)
EXTENDS RepositoryControls, TLC

TwoProtected == <<"prod", "governance">>
OneUnattended == <<"drift">>

Check(context, issuer) == <<context, issuer>>

Found == [NoRuleset EXCEPT !.checks = {Check("Other", "ci"), Check(Governance, None)},
                           !.approvals = 2, !.deployments = {"test", "docs"},
                           !.bypass = TRUE]
\* Nothing yet; rules of a person's own; a proof of another app; rules of which
\* TEST is the only deployment, with more said about it; two lists of checks.
MainRulesets ==
  {NoRuleset, Found, [Found EXCEPT !.checks = {Check(Account, "ci"), Check("Quality", None)}],
   [Found EXCEPT !.deployments = {"test"}, !.more = TRUE],
   [Found EXCEPT !.doubled = TRUE]}

Environment(mode, policies, reviewers) ==
  [mode |-> mode, policies |-> policies, reviewers |-> reviewers, self |-> FALSE,
   bypass |-> TRUE, gate |-> FALSE]

Open == Environment("all", <<>>, {})
Listed == Environment("custom", <<"release", "main">>, {"other"})
Mains == Environment("custom", <<"main", "main">>, {Reviewer})
MainUnattended == [Environment("custom", <<"main">>, {}) EXCEPT !.bypass = FALSE]
Ready == [Environment("custom", <<"main">>, {Reviewer}) EXCEPT !.bypass = FALSE, !.self = TRUE]

Site(p, e, d) == [prod |-> p, governance |-> Ready, evidence |-> e, drift |-> d]

\* Each ruleset with the environments set up, and what anyone may have left of
\* the environments with one ruleset.
Sites ==
  {<<r, Site(Ready, MainUnattended, Missing), FALSE>> : r \in MainRulesets}
    \cup {<<Found, Site(p, Listed, Missing), FALSE>> : p \in {Missing, Open, Listed, Mains}}
    \cup {<<NoRuleset, Site(Ready, Missing, d), TRUE>> : d \in {MainUnattended, Open}}

ByPeople == {Listed, MainUnattended}
Runs == Permutations(Run)

RulesByPeople == {[Found EXCEPT !.approvals = 1]}

=============================================================================
