------------------------- MODULE MCOperatorExecution -------------------------
(***************************************************************************)
(* An instance of OperatorExecution for TLC: a role the operator changes,  *)
(* a frozen one, the exclusive set of attachments, an attachment, a policy *)
(* that may be created beside one that is referenced, a secret, the        *)
(* identity provider and the provider.                                     *)
(***************************************************************************)
EXTENDS OperatorExecution, TLC

Row(kind, inputs, outputs, protect, external) ==
  "urn" :> kind @@ "kind" :> kind @@ "inputs" :> inputs @@ "outputs" :> outputs
    @@ "provider" :> "provider" @@ "protect" :> protect @@ "external" :> external

Known(kind, inputs, protect, external) == Row(kind, inputs, inputs, protect, external)
Goals1(row) == [row EXCEPT !.outputs = Gone]

RoleRow(name, boundary, trust) ==
  Row("role", "name" :> name @@ "boundary" :> boundary @@ "trust" :> trust,
      "boundary" :> boundary @@ "trust" :> trust @@ "session" :> 1, TRUE, FALSE)

Exclusive(set) ==
  Row("exclusive", "role" :> "deploy" @@ "policies" :> set, "policies" :> set, TRUE, FALSE)

PolicyRow(name, doc, external) ==
  Known("policy", "name" :> name @@ "document" :> doc, ~external, external)

Attach(policy) ==
  Known("attachment", "role" :> "deploy" @@ "policy" :> policy, FALSE, FALSE)

SecretRow(value) ==
  Known("version", "secret" :> "token" @@ "value" :> value, FALSE, FALSE)

ProviderRow(pins) == Known("provider", "pins" :> pins, FALSE, FALSE)

Rows(pins, set) ==
  "provider" :> ProviderRow(pins) @@ "deploy" :> RoleRow("deploy", "limit", "trust1")
    @@ "config" :> RoleRow("config", "limit", "trust1") @@ "set" :> Exclusive(set)
    @@ "attach" :> Attach("work") @@ "ref" :> PolicyRow("shared", "doc1", TRUE)
    @@ "token" :> SecretRow("value1") @@ "oidc" :> Known("oidc", "url" :> "github", FALSE, TRUE)

\* Before and after the guards and the provider have been taken over.
Starts == {Rows("legacy", {"work"}), Rows("hardened", {"guard", "work"})}

Wants ==
  "provider" :> {Goals1(ProviderRow("hardened"))}
    @@ "deploy" :> {Goals1(RoleRow("deploy", "limit", "trust2")),
                    Goals1(RoleRow("deploy", "limit", "bad")),
                    Goals1(RoleRow("deploy", "none", "trust1"))}
    @@ "config" :> {Goals1(RoleRow("config", "limit", "trust2"))}
    @@ "set"    :> {Goals1(Exclusive({"guard", "work"})), Goals1(Exclusive({"work"}))}
    @@ "attach" :> {Gone, Goals1(Attach("shared"))}
    @@ "policy" :> {Goals1(PolicyRow("shared", "doc1", FALSE)),
                    Goals1(PolicyRow("work", "doc1", FALSE))}
    @@ "token"  :> {Goals1(SecretRow("value2"))}
    @@ "ref"    :> {} @@ "oidc" :> {}

Forged(row, ops) == [desired |-> row, ops |-> ops]

\* Nothing changes, something else does, or is deleted, or a secret has a value
\* nobody has seen.
Written ==
  "provider" :> {Forged(Goals1(ProviderRow("hardened")), Update)}
    @@ "deploy" :> {Forged(Goals1(RoleRow("deploy", "limit", "trust1")), Same),
                    Forged(Goals1(RoleRow("deploy", "limit", "trust2")), Update)}
    @@ "config" :> {Forged(Goals1(RoleRow("config", "limit", "trust2")), Same)}
    @@ "set"    :> {Forged(Goals1(Exclusive({"guard", "work"})), Same)}
    @@ "attach" :> {Forged(Gone, Delete), Forged(Goals1(Attach("work")), Same)}
    @@ "policy" :> {Forged(Goals1(PolicyRow("work", "doc1", FALSE)), Create)}
    @@ "token"  :> {Forged(Goals1(SecretRow("value3")), Update),
                    Forged(Goals1(SecretRow("value3")), Same)}
    @@ "ref"    :> {} @@ "oidc" :> {}

Has2(set, trust, session) ==
  [boundary |-> "limit", attached |-> set, trust |-> trust, session |-> session]

Lives == [r \in Role |-> Has2({"guard", "work"}, "trust1", 1)]

Others ==
  "deploy" :> {Has2({"work"}, "trust1", 1), Has2({"guard", "work"}, "trust1", 2),
               Has2({"guard", "work"}, "trust1", 1),
               Has2({"guard", "work", "shared"}, "trust1", 1)}
    @@ "config" :> {Has2({"guard", "work"}, "trust2", 1),
                    Has2({"guard", "work"}, "trust1", 1)}

Boundaries == [r \in Role |-> "limit"]
GuardSets  == [r \in Role |-> {"guard"}]
Inventory  == [r \in Role |-> {"guard", "work"}]
Trusts     == "deploy" :> NotFrozen @@ "config" :> "trust1"
=============================================================================
