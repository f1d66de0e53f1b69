------------------------------ MODULE PolicyPack ------------------------------
(***************************************************************************)
(* The mandatory rules of the Pulumi policy pack (policy/): which inputs   *)
(* of a resource, and which resources of a whole stack, a preview or an    *)
(* update accepts.                                                         *)
(*                                                                         *)
(* A resource is a record of the inputs the rules read.  An input that is  *)
(* not known before an update runs has the value Unknown: the sentinel the *)
(* engine sends in its place is a string like any other, and each rule     *)
(* meets it in its own way.  An absent input is Absent.                    *)
(***************************************************************************)
EXTENDS Integers, FiniteSets, TLC

CONSTANTS RequiredTags, AllowedRegions, ProductionEnvironments,
          PublicBuckets,        \* allowlists.public_s3_buckets
          ReviewedDocuments,    \* identity of an IAM policy -> reviewed documents
          StatementsOf          \* a policy document -> its statements

Unknown == "unknown"
Absent == "absent"

\* The tags of a resource are partial functions; its own win over inherited ones.
Tags(r) == r.tags @@ r.tagsAll
TagIs(r, key, values) == key \in DOMAIN Tags(r) /\ Tags(r)[key] \in values

HasDefaultTags(r) ==
  r.taggable => \A key \in RequiredTags : key \in DOMAIN Tags(r) /\ Tags(r)[key] # ""

\* An unknown region is not on the list: it is refused, not let through.  An
\* empty list is none.
RegionAllowed(r) == AllowedRegions # {} => r.region \in AllowedRegions \cup {Absent}

-----------------------------------------------------------------------------
(* Statements of a policy document.                                        *)

Positive == {"ArnEquals", "ArnLike", "IpAddress", "StringEquals", "StringLike"}
NarrowingKeys == {"PrincipalArn", "PrincipalOrgID", "SourceAccount", "SourceArn",
                  "SourceIp", "SourceVpc", "SourceVpce"}

\* A condition value narrows when it is neither blank, a pattern nor every address.
Concrete(values) == values # {} /\ values \cap {"", "*", "0.0.0.0/0", "::/0"} = {}

\* A set qualifier (ForAnyValue:) is looked through here ...
Narrowed(statement) ==
  \E c \in statement.conditions :
    c.operator \in Positive /\ c.key \in NarrowingKeys /\ Concrete(c.values)

\* ... and not here: a qualified operator also matches a request without the tag.
RequiresTags(statement, keys) ==
  \A key \in keys : \E c \in statement.conditions :
    c.key = key /\ c.operator \in Positive /\ ~c.qualified /\ Concrete(c.values)

IsPublic(statement) ==
  statement.effect = "Allow" /\ "*" \in statement.principals /\ ~Narrowed(statement)

\* service is the one the document is attached to, Absent for an identity policy.
WildcardAction(actions, service) ==
  \E a \in actions : a.name = "*" /\ a.service # service

RequestTags == {"RequestTag/Environment", "RequestTag/Purpose"}

\* The actions that cannot name a resource, and the tags a few of them must ask for.
Unscopable == {[service |-> s, name |-> n] : s \in {"kms"}, n \in {"createkey", "listaliases"}}
              \cup {[service |-> "sts", name |-> "getcalleridentity"]}
TagsFor(action) == IF action.name = "createkey" THEN RequestTags ELSE {}

UnscopableOnly(statement) ==
  /\ statement.actions # {} /\ statement.actions \subseteq Unscopable
  /\ \A a \in statement.actions : RequiresTags(statement, TagsFor(a))

IsBroad(statement, service) ==
  /\ statement.effect = "Allow"
  /\ \/ WildcardAction(statement.actions, service)
     \/ statement.notActions # {} \/ statement.notResources # {}
     \/ /\ service = Absent /\ "*" \in statement.resources
        /\ ~UnscopableOnly(statement)

-----------------------------------------------------------------------------
(* Documents of a resource: its fields that hold a policy.                 *)

\* A document that is not known yet does not parse: it has no statements.
Statements(r, field) ==
  IF r.documents[field] = Unknown THEN {} ELSE StatementsOf[r.documents[field]]

PolicyFields(r) ==
  DOMAIN r.documents \cap
    ({"policy", "policyDocument"} \cup
     (IF r.type = "role" THEN {"assumeRolePolicy", "inlinePolicies"} ELSE {}))

AttachedService(r, field) ==
  CASE field \notin {"policy", "policyDocument"} -> Absent
    [] r.type = "bucketPolicy" -> "s3"
    [] r.type = "key" -> "kms"
    [] OTHER -> Absent

PolicyIdentity(r) ==
  IF r.type = "rolePolicy" THEN <<r.type, r.name, r.owner>> ELSE <<r.type, r.name>>

\* Only the whole document of a literally named policy can have been reviewed.
Reviewed(r) ==
  /\ r.type \in {"policy", "rolePolicy"}
  /\ Unknown \notin {PolicyIdentity(r)[i] : i \in DOMAIN PolicyIdentity(r)}
  /\ PolicyIdentity(r) \in DOMAIN ReviewedDocuments
  /\ DOMAIN r.documents = {"policy"} /\ r.documents.policy # Unknown
  /\ r.documents.policy \in ReviewedDocuments[PolicyIdentity(r)]

NoBroadGrant(r) ==
  \/ Reviewed(r)
  \/ \A field \in PolicyFields(r) : \A st \in Statements(r, field) :
       ~IsBroad(st, AttachedService(r, field))

\* The input "bucket": a bucket's own name, else the bucket a resource is for.
BucketInput(r) == IF r.type = "bucket" THEN r.name ELSE r.owner

AllowedPublic(r) ==
  BucketInput(r) \in PublicBuckets \/ TagIs(r, "AllowPublicBucket", {"true"})

PublicAcl(r) ==
  r.type \in {"bucket", "bucketAcl"} /\ r.acl \in {"public-read", "public-read-write"}

PublicPolicy(r) ==
  /\ r.type \in {"bucket", "bucketPolicy"}
  /\ \E field \in DOMAIN r.documents \cap {"policy", "policyDocument"} :
       \E st \in Statements(r, field) : IsPublic(st)

NotExposed(r) == AllowedPublic(r) \/ ~(PublicAcl(r) \/ PublicPolicy(r))

-----------------------------------------------------------------------------
(* Databases and security groups.                                          *)

SafeDatabase(r) ==
  (r.type = "database" /\ TagIs(r, "Environment", ProductionEnvironments)) =>
    /\ "deletionProtection" \in r.settings
    /\ r.settings \cap {"skipFinalSnapshot", "publiclyAccessible"} = {}

SensitivePorts == {22, 3389}

\* Every spelling of "all protocols" opens every port; an unknown range none.
OpenPorts(rule) ==
  CASE rule.protocol = "all" -> SensitivePorts
    [] rule.protocol \in {"tcp", "udp"} -> {p \in SensitivePorts : rule.from <= p /\ p <= rule.to}
    [] OTHER -> {}

OpenToWorld(rule) == rule.cidrs \cap {"0.0.0.0/0", "::/0"} # {}

AdminPortsClosed(r) ==
  r.type \in {"securityGroup", "securityGroupRule"} =>
    \A rule \in r.ingress : OpenToWorld(rule) => OpenPorts(rule) = {}

\* What each resource is asked when it is registered.
ResourceAccepted(r) ==
  /\ HasDefaultTags(r) /\ RegionAllowed(r) /\ NotExposed(r)
  /\ NoBroadGrant(r) /\ SafeDatabase(r) /\ AdminPortsClosed(r)

-----------------------------------------------------------------------------
(* Rules of the whole stack: a bucket may be encrypted, and its access     *)
(* logged, by a resource of its own.                                       *)

\* Mutant: the sentinel is taken for the name of a bucket.
ConcreteNameOfAny(name) == name # Absent

\* The sentinel is not the name of a bucket.
ConcreteName(name) == name \notin {Absent, Unknown}

Encrypts(r) == r.encryption \in {"AES256", "aws:fsx", "aws:kms", "aws:kms:dsse"}

\* A resource speaks for the bucket it names and for those its name is computed from.
Names(r, bucket) ==
  \/ bucket.urn \in r.bucketUrns
  \/ ConcreteName(bucket.name) /\ r.owner = bucket.name

EncryptedByAnother(stack, bucket) ==
  \E e \in stack : e.type = "bucketEncryption" /\ Encrypts(e) /\ Names(e, bucket)

LoggedByAnother(stack, bucket) ==
  \E l \in stack :
    l.type = "bucketLogging" /\ ConcreteName(l.logTarget) /\ Names(l, bucket)

EncryptionHolds(stack, r) ==
  CASE r.type = "bucket" ->
         Encrypts(r) \/ EncryptedByAnother(stack, r)
    [] r.type \in {"volume", "fileSystem", "database"} -> "encrypted" \in r.settings
    [] OTHER -> TRUE

LogExempt(r) ==
  /\ TagIs(r, "LoggingExempt", {"true"})
  /\ "LoggingExemptReason" \in DOMAIN Tags(r) /\ ~TagIs(r, "LoggingExemptReason", {""})

LoggingHolds(stack, r) ==
  CASE r.type = "bucket" ->
         LogExempt(r) \/ ConcreteName(r.logTarget) \/ LoggedByAnother(stack, r)
    [] r.type = "loadBalancer" -> "accessLogs" \in r.settings
    [] OTHER -> TRUE

StackAccepted(stack) ==
  \A r \in stack : EncryptionHolds(stack, r) /\ LoggingHolds(stack, r)
=============================================================================
