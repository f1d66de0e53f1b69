---------------------------- MODULE OperatorPlan ----------------------------
(***************************************************************************)
(* The validator of operator plans (operator_plan_validation.py) and the   *)
(* check of the enrolled roles (seed/policy_registry.py), as predicates.   *)
(*                                                                         *)
(* A plan comes from a program nobody trusts: for every resource it names  *)
(* a goal, the operations and the row they lead to.  It is accepted only   *)
(* if each change stays inside the pinned catalog, if the preview shows    *)
(* the same changes, and if nothing of the checkpoint is left out.  A row  *)
(* stands for a decoded document: its shape, its secrets and its hashes    *)
(* are not modelled, the catalog is the constants.                         *)
(***************************************************************************)
EXTENDS Naturals, Sequences, FiniteSets

CONSTANTS
  Role, Policy, Document,
  RoleRead, RoleWrite,       \* roles that may be referenced, and changed
  PolicyRead, PolicyWrite,   \* policies that may be referenced, and changed
  Secret,                    \* secrets the operator owns
  Oidc,                      \* the identity provider, referenced only
  Boundary, Guards, Attached, \* of each role: boundary, guards, full inventory
  Frozen,                    \* of each role: its pinned trust, or NotFrozen
  NotFrozen,
  ExclusiveRole,             \* the role whose attachments are managed as a set
  Quota,                     \* attachments an enrolled role may have: ten
  Rejected                   \* documents the analyzer of AWS finds fault with

\* What is read of the catalog: guards and boundaries are policies the operator
\* may not change, and every role carries its guards.
Catalog ==
  /\ RoleWrite \subseteq RoleRead /\ RoleRead \subseteq Role
  /\ PolicyWrite \subseteq PolicyRead /\ PolicyRead \subseteq Policy
  /\ ExclusiveRole \in RoleWrite
  /\ \A r \in RoleRead :
       /\ Guards[r] # {} /\ Guards[r] \subseteq Attached[r]
       /\ Attached[r] \subseteq PolicyRead
       /\ Guards[r] \cap PolicyWrite = {} /\ Boundary[r] \notin PolicyWrite

ASSUME CatalogAssumption == Catalog

\* No row, or nothing a refresh has read.
Gone == [kind |-> "gone"]

\* A row of a checkpoint or of a goal: its inputs are a function of their names,
\* its outputs are what the provider last read, and a goal has none yet.
Ownership(row) == <<row.kind, row.provider, row.protect, row.external>>

Has(row, key) == key \in DOMAIN row.inputs

\* The inputs a row may carry; a secret version has its value.
Inputs(kind) ==
  CASE kind = "role"       -> {"name", "boundary", "trust", "managed"}
    [] kind = "policy"     -> {"name", "document"}
    [] kind = "inline"     -> {"name", "role", "document"}
    [] kind = "attachment" -> {"role", "policy"}
    [] kind = "exclusive"  -> {"role", "policies"}
    [] kind = "secret"     -> {"name", "description"}
    [] kind = "version"    -> {"secret", "value"}
    [] kind = "oidc"       -> {"url"}
    [] OTHER               -> {"pins"}

\* The ones that say what a row is about.
Identity(kind) ==
  CASE kind \in {"role", "policy", "secret"} -> {"name"}
    [] kind = "inline"     -> {"role", "name"}
    [] kind = "attachment" -> {"role", "policy"}
    [] kind = "exclusive"  -> {"role", "policies"}
    [] kind = "version"    -> {"secret"}
    [] kind = "oidc"       -> {"url"}
    [] OTHER               -> {}

InputShape(row) ==
  /\ DOMAIN row.inputs \subseteq Inputs(row.kind)
  /\ Identity(row.kind) \subseteq DOMAIN row.inputs
  /\ row.kind = "version" /\ ~row.external => Has(row, "value")

\* The physical thing a row is about.
Target(row) ==
  CASE row.kind \in {"role", "policy", "secret"} -> <<row.inputs.name>>
    [] row.kind = "inline"     -> <<row.inputs.role, row.inputs.name>>
    [] row.kind = "attachment" -> <<row.inputs.role, row.inputs.policy>>
    [] row.kind = "exclusive"  -> <<row.inputs.role>>
    [] row.kind = "version"    -> <<row.inputs.secret>>
    [] row.kind = "oidc"       -> <<row.inputs.url>>
    [] OTHER                   -> <<row.urn>>

\* Rows may only be about things of the catalog.
Listed(row) ==
  CASE row.kind = "role"       -> row.inputs.name \in RoleRead
    [] row.kind = "policy"     -> row.inputs.name \in PolicyRead
    [] row.kind = "inline"     -> row.inputs.role \in RoleRead
    [] row.kind = "attachment" -> /\ row.inputs.role \in RoleRead
                                  /\ row.inputs.policy \in PolicyRead
    [] row.kind = "exclusive"  -> /\ row.inputs.role = ExclusiveRole
                                  /\ row.inputs.policies \in
                                       {Attached[ExclusiveRole],
                                        Attached[ExclusiveRole] \ Guards[ExclusiveRole]}
                                  /\ row.inputs.policies \ Guards[ExclusiveRole]
                                       \subseteq PolicyWrite
                                  /\ row.protect
                                  /\ ~row.external
    [] row.kind = "secret"     -> row.inputs.name \in Secret
    [] row.kind = "version"    -> row.inputs.secret \in Secret
    [] row.kind = "oidc"       -> row.inputs.url = Oidc
    [] OTHER                   -> row.kind = "provider"

Mutable(row) ==
  CASE row.kind = "role"       -> row.inputs.name \in RoleWrite
    [] row.kind = "inline"     -> row.inputs.role \in RoleWrite
    [] row.kind = "policy"     -> row.inputs.name \in PolicyWrite
    [] row.kind = "attachment" -> /\ row.inputs.role \in RoleWrite
                                  /\ row.inputs.policy \in PolicyWrite
    [] OTHER                   -> row.kind \in {"secret", "version"}
-----------------------------------------------------------------------------
(***************************************************************************)
(* One operation: from the row of the checkpoint, if any, to the one the   *)
(* goal leads to, if any.                                                  *)
(***************************************************************************)
Same   == <<"same">>
Update == <<"update">>
Create == <<"create">>
Delete == <<"delete">>
Replacements ==
  {<<"create-replacement", "replace", "delete-replaced">>,
   <<"delete-replaced", "replace", "create-replacement">>}

Changed(prior, desired) ==
  {k \in DOMAIN prior.inputs \cup DOMAIN desired.inputs :
     ~(Has(prior, k) /\ Has(desired, k) /\ prior.inputs[k] = desired.inputs[k])}

ChangeableInputs(kind) ==
  CASE kind = "role"       -> {"trust", "managed"}
    [] kind = "policy"     -> {"document"}
    [] kind = "inline"     -> {"document", "name"}
    [] kind = "attachment" -> {"role", "policy"}
    [] kind = "secret"     -> {"description"}
    [] OTHER               -> {"value"}

ChangedInputs(prior, desired) ==
  /\ Changed(prior, desired) \subseteq ChangeableInputs(desired.kind)
  /\ desired.kind = "role" /\ Has(prior, "managed") => Has(desired, "managed")

Lifecycle(kind, prior, desired, ops) ==
  /\ \/ ops = Update
     \/ ops \in {Create, Delete}
          /\ kind \in {"inline", "attachment", "version", "policy"}
     \/ ops \in Replacements /\ kind \in {"inline", "attachment", "version"}
  /\ ops = Delete \/ ops \in Replacements => prior # Gone /\ ~prior.protect
  /\ (prior = Gone) = (ops = Create)
  /\ (desired = Gone) = (ops = Delete)

\* The set of attachments may only be completed by the guards.
ExclusiveTransition(prior, desired, ops) ==
  /\ ops = Update /\ prior # Gone /\ desired # Gone
  /\ Listed(prior) /\ Listed(desired)
  /\ prior.inputs.policies = Attached[ExclusiveRole] \ Guards[ExclusiveRole]
  /\ Changed(prior, desired) = {"policies"}

\* The provider may only be pinned to the account, from its recorded form.
ProviderHardening(prior, desired, ops) ==
  /\ ops = Update /\ prior # Gone /\ desired # Gone
  /\ prior.inputs.pins = "legacy"
  /\ desired.inputs.pins = "hardened"

ChangedOperation(prior, desired, ops) ==
  LET row == IF desired # Gone THEN desired ELSE prior
  IN  CASE row.kind = "provider"  -> ProviderHardening(prior, desired, ops)
        [] row.kind = "exclusive" -> ExclusiveTransition(prior, desired, ops)
        [] OTHER ->
             /\ Mutable(row)
             /\ prior # Gone => Mutable(prior)
             /\ Lifecycle(row.kind, prior, desired, ops)
             /\ prior # Gone /\ desired # Gone => ChangedInputs(prior, desired)

PreserveOwnership(prior, desired) ==
  prior # Gone /\ desired # Gone =>
    /\ Ownership(prior) = Ownership(desired)
    /\ \/ Target(prior) = Target(desired)
       \/ desired.kind = "attachment"
       \/ desired.kind = "inline" /\ Target(prior)[1] = Target(desired)[1]

FrozenConfig(row) ==
  LET role == Target(row)[1]
  IN  Frozen[role] = NotFrozen
        \/ (IF row.kind = "role" THEN row.inputs.trust ELSE row.inputs.document)
             = Frozen[role]

RoleGuards(row) ==
  LET role == row.inputs.name
  IN  /\ Has(row, "boundary") /\ row.inputs.boundary = Boundary[role]
      /\ Has(row, "managed") =>
           /\ Guards[role] \subseteq row.inputs.managed
           /\ row.inputs.managed \subseteq Attached[role] \cup PolicyWrite

\* A role has a trust and a policy has a document.
IamDocuments(row) ==
  /\ row.kind = "role" => Has(row, "trust")
  /\ row.kind \in {"policy", "inline"} => Has(row, "document")

ControlInvariants(row) ==
  /\ IamDocuments(row)
  /\ row.kind \in {"role", "inline"} => FrozenConfig(row)
  /\ row.kind = "role" => RoleGuards(row)
  /\ row.kind = "exclusive" => row.inputs.policies = Attached[ExclusiveRole]
  /\ row.kind \in {"role", "policy", "secret"} => row.protect

Operation(prior, desired, ops) ==
  /\ prior = Gone => desired # Gone
  /\ desired # Gone => InputShape(desired) /\ Listed(desired)
  /\ PreserveOwnership(prior, desired)
  /\ IF ops = Same
     THEN prior # Gone /\ desired # Gone /\ prior.inputs = desired.inputs
     ELSE ChangedOperation(prior, desired, ops)
  /\ desired # Gone => ControlInvariants(desired)
-----------------------------------------------------------------------------
(***************************************************************************)
(* A whole checkpoint, and a whole plan.  "rows" maps resources to rows.   *)
(***************************************************************************)
\* A row names a provider that is there and that is pinned.
References(rows, legacy) ==
  \A u \in DOMAIN rows :
    IF rows[u].kind = "provider"
    THEN rows[u].inputs.pins = "hardened" \/ (legacy /\ rows[u].inputs.pins = "legacy")
    ELSE /\ rows[u].provider \in DOMAIN rows
         /\ rows[rows[u].provider].kind = "provider"

\* Nothing has two owners; a role may be referenced beside its owner.
PhysicalOwner(rows) ==
  \A u, v \in DOMAIN rows :
    u # v /\ rows[u].kind = rows[v].kind /\ Target(rows[u]) = Target(rows[v]) =>
      \/ rows[u].external /\ rows[v].external
      \/ /\ rows[u].kind = "role" /\ Target(rows[u])[1] \in RoleWrite
         /\ rows[u].external \/ rows[v].external

Checkpoint(state) ==
  /\ ~state.pending
  /\ \A u \in DOMAIN state.rows : InputShape(state.rows[u]) /\ Listed(state.rows[u])
  /\ PhysicalOwner(state.rows)
  /\ References(state.rows, TRUE)

Prior(rows, u) == IF u \in DOMAIN rows THEN rows[u] ELSE Gone
External(rows) == {u \in DOMAIN rows : rows[u].external}
Desired(goals) == {u \in DOMAIN goals : goals[u].desired # Gone}

\* Mutant: references are not looked at.
OwnTargets(rows, goals) ==
  \A u, v \in Desired(goals) :
    u # v /\ goals[u].desired.kind = goals[v].desired.kind =>
      Target(goals[u].desired) # Target(goals[v].desired)

\* No two goals are about one thing, and none is about a thing that is only
\* referenced, but for a role that is owned beside its reference already.
TargetOwnership(rows, goals) ==
  /\ \A u, v \in Desired(goals) :
       u # v /\ goals[u].desired.kind = goals[v].desired.kind =>
         Target(goals[u].desired) # Target(goals[v].desired)
  /\ \A u \in Desired(goals), e \in External(rows) :
       goals[u].desired.kind = rows[e].kind
         /\ Target(goals[u].desired) = Target(rows[e]) =>
         /\ rows[e].kind = "role" /\ u \in DOMAIN rows
         /\ rows[u].kind = "role" /\ ~rows[u].external
         /\ Target(rows[u]) = Target(rows[e])
         /\ Target(rows[u])[1] \in RoleWrite

\* What there is once every goal is reached.
Remaining(rows, goals) ==
  [u \in External(rows) \cup Desired(goals) |->
     IF u \in Desired(goals) THEN goals[u].desired ELSE rows[u]]

DesiredInventory(rows, goals) ==
  /\ TargetOwnership(rows, goals)
  /\ References(Remaining(rows, goals), FALSE)

\* What a preview prints of the inputs or outputs of a row: secrets are covered.
Project(values) ==
  [k \in DOMAIN values |-> IF k = "value" THEN "[secret]" ELSE values[k]]

Printed(row) ==
  IF row = Gone THEN Gone
  ELSE [urn |-> row.urn, ownership |-> Ownership(row), inputs |-> Project(row.inputs)]

\* Of the identity provider a read prints who owns it, and neither its inputs
\* nor its outputs.
Unprinted(row) == [row EXCEPT !.inputs = <<>>, !.outputs = <<>>]

EmptyRead(shown, row) ==
  /\ shown.ops = <<"read">>
  /\ row # Gone /\ row.kind = "oidc" /\ row.external
  /\ shown.new = Unprinted(row)

\* An event shows the rows an operation leads from and to, as far as they are
\* printed; of the first one the outputs as well.
PreviewStates(shown, prior, desired) ==
  /\ Printed(shown.old) = Printed(prior)
  /\ prior # Gone => Project(shown.old.outputs) = Project(prior.outputs)
  /\ Printed(shown.new) = Printed(desired) \/ EmptyRead(shown, desired)

\* Mutant: what a refresh has seen is not compared.
PreviewIgnoringRefresh(shown, prior, desired, ops) ==
  /\ shown.ops = ops
  /\ PreviewStates(shown, prior, desired)

\* The preview shows the operations of the goal between the same rows, and a
\* refresh that has seen nothing else.
PreviewResource(shown, prior, desired, ops) ==
  /\ shown.ops = ops
  /\ PreviewStates(shown, prior, desired)
  /\ shown.seen # Gone => prior # Gone /\ Project(shown.seen) = Project(prior.outputs)

\* Every owned resource has a goal and everything is shown, but providers,
\* whose events the preview hides.
CompleteInventory(rows, goals, preview) ==
  /\ DOMAIN rows \ External(rows) \subseteq DOMAIN goals
  /\ DOMAIN preview = DOMAIN rows \cup DOMAIN goals

ValidPlan(state, goals, preview) ==
  LET rows == state.rows
  IN  /\ Checkpoint(state)
      /\ CompleteInventory(rows, goals, preview)
      /\ \A u \in DOMAIN goals :
           /\ u \notin External(rows)
           /\ Operation(Prior(rows, u), goals[u].desired, goals[u].ops)
           /\ (goals[u].desired # Gone => goals[u].desired.kind # "provider") =>
                PreviewResource(preview[u], Prior(rows, u), goals[u].desired,
                                goals[u].ops)
      /\ \A u \in DOMAIN rows \ DOMAIN goals :
           PreviewResource(preview[u], rows[u], rows[u], <<"read">>)
      /\ DesiredInventory(rows, goals)

ChangedUrns(goals) == {u \in DOMAIN goals : goals[u].ops # Same}

\* No statement of a policy draws an error or a security warning.
IamAnalysis(goals) ==
  \A u \in Desired(goals) :
    \A k \in {"trust", "document"} \cap DOMAIN goals[u].desired.inputs :
      goals[u].desired.inputs[k] \notin Rejected

\* Mutant: the destructive steps are not looked for.
NoReview(preview) == TRUE

\* Whatever the validator allows, nothing of IAM or of the secrets is deleted
\* or replaced.
DestructiveReview(preview) ==
  \A u \in DOMAIN preview :
    \A i \in DOMAIN preview[u].ops :
      preview[u].ops[i] \notin {"delete", "replace", "delete-replaced"}
-----------------------------------------------------------------------------
(***************************************************************************)
(* The enrolled roles as they are in the account: boundary, attachments,   *)
(* trust.                                                                  *)
(***************************************************************************)
Guarded(role, actual) ==
  /\ actual.boundary = Boundary[role]
  /\ IF role \in RoleWrite
     THEN /\ Guards[role] \subseteq actual.attached
          /\ actual.attached \subseteq Guards[role] \cup PolicyWrite
     ELSE /\ actual.attached = Attached[role]
          /\ Frozen[role] # NotFrozen => actual.trust = Frozen[role]

\* The attachments of a role the operator changes are counted as well.
Enrolled(role, actual) ==
  /\ Guarded(role, actual)
  /\ role \in RoleWrite => Cardinality(actual.attached) <= Quota
=============================================================================
