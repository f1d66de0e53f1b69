----------------------------- MODULE PreviewGates -----------------------------
(***************************************************************************)
(* The gates a preview passes before its plan may be applied               *)
(* (pulumi_ci_guardrails.py).  A gate reads the steps the preview printed: *)
(* [urn, op, type, state], where state is the new state of the resource    *)
(* with the fields it is printed with, none for a deletion.                *)
(***************************************************************************)
CONSTANTS Flagged       \* documents IAM Access Analyzer has an error or a
                        \* security warning about

DestructiveOps == {"delete", "replace", "delete-replaced"}

CriticalTypes == {"vpc", "internetGateway", "natGateway", "routeTable", "role", "policy",
                  "rolePolicy", "key", "bucket", "trail", "database", "secret", "record",
                  "cluster"}

\* Mutant: a replacement is taken for a change in place.
DeletionsOnly(steps) == {st \in steps : st.op = "delete" /\ st.type \in CriticalTypes}

DestructiveSteps(steps) ==
  {st \in steps : st.op \in DestructiveOps /\ st.type \in CriticalTypes}

DestructiveGate(previews) == \A steps \in previews : DestructiveSteps(steps) = {}

\* The fields of a new state that hold a policy; inline policies on any type.
PolicyBearing(type) ==
  {"inlinePolicies"} \cup
  CASE type = "role" -> {"policy", "policyDocument", "assumeRolePolicy"}
    [] type \in {"policy", "rolePolicy", "bucket", "bucketPolicy", "topicPolicy",
                 "queuePolicy", "key", "secretPolicy"} -> {"policy", "policyDocument"}
    [] OTHER -> {}

\* The documents are taken from the fields of the state itself, not from the
\* inputs that are printed as one of them; what does not parse, as a document
\* that is not known yet, is left out.
IamInputs(steps) ==
  (UNION {{st.state[field] : field \in (DOMAIN st.state) \cap PolicyBearing(st.type)}
            : st \in steps}) \ {"unknown"}

\* A gate with no document to ask about asks nothing and passes.
IamGate(previews) == (UNION {IamInputs(steps) : steps \in previews}) \cap Flagged = {}
=============================================================================
