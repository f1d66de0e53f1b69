----------------------------- MODULE MCSavedPlan -----------------------------
(* Two workers deploy two stacks of an account; the commits differ in what  *)
(* is wrong with them.                                                      *)
EXTENDS SavedPlan

NoTags == [k \in {} |-> ""]
Tagged == [k \in {"Owner"} |-> "team"]
NoDocuments == [d \in {} |-> ""]

Resource(urn, type, name) ==
  [urn |-> urn, type |-> type, name |-> name, owner |-> Absent, bucketUrns |-> {},
   taggable |-> TRUE, tags |-> Tagged, tagsAll |-> NoTags, region |-> Absent,
   acl |-> Absent, encryption |-> Absent, logTarget |-> Absent, documents |-> NoDocuments,
   settings |-> {}, ingress |-> {}]

Bucket(name) == [Resource("bucket", "bucket", name) EXCEPT !.logTarget = "logs"]
Encryption(owner) ==
  [Resource("encryption", "bucketEncryption", Absent) EXCEPT
     !.owner = owner, !.encryption = "aws:kms"]
Policy(document) ==
  [Resource("policy", "policy", "ci") EXCEPT !.documents = [d \in {"policy"} |-> document]]

TestInputs ==
  [bucketA |-> Bucket("a"), bucketB |-> Bucket("b"),
   encryptionA |-> Encryption("a"),
   encryptionB |-> [Encryption("b") EXCEPT !.bucketUrns = {"bucket"}],
   encryptionOther |-> Encryption("other"),
   policyOk |-> Policy("narrow"), policyLate |-> Policy("broad"),
   policyFlagged |-> Policy("flagged")]

TestLate ==
  [v \in DOMAIN TestInputs |->
     CASE v = "bucketB" -> {"name"}
       [] v \in {"encryptionB", "encryptionOther"} -> {"owner"}
       [] v = "policyLate" -> {"documents"}
       [] OTHER -> {}]

Action(s, n) == [service |-> s, name |-> n]
Grant(action, resource) ==
  [effect |-> "Allow", actions |-> {action}, notActions |-> {}, resources |-> {resource},
   notResources |-> {}, principals |-> {}, conditions |-> {}]

TestStatements ==
  [narrow |-> {Grant(Action("s3", "get"), "arn")},
   broad |-> {Grant(Action("s3", "*"), "arn")},
   flagged |-> {Grant(Action("iam", "passrole"), "arn")}]

Of(b, e, p) == [u \in {"bucket", "encryption", "policy"} |->
                  CASE u = "bucket" -> b [] u = "encryption" -> e [] OTHER -> p]
Empty == Of(None, None, None)
Base == Of("bucketA", "encryptionA", None)

TwoStacks == <<"s1", "s2">>
Both(x, y) == [s \in {"s1", "s2"} |-> IF s = "s1" THEN x ELSE y]

TestProgram ==
  [good     |-> Both(Of("bucketA", "encryptionA", "policyOk"), Of("bucketB", "encryptionB", None)),
   late     |-> Both(Of("bucketA", "encryptionA", "policyLate"), Of(None, None, "policyOk")),
   replaces |-> Both(Of("bucketB", "encryptionB", None), Empty),
   stray    |-> Both(Base, Of("bucketB", "encryptionOther", None)),
   flagged  |-> Both(Of("bucketA", "encryptionA", "policyFlagged"), Empty)]

TestInitial == {Both(Base, Empty)}
TestRuns == [w1 |-> 2, w2 |-> 1]
TestSources == [w1 |-> DOMAIN TestProgram, w2 |-> {"good"}]
NoReviewed == [i \in {} |-> {}]

=============================================================================
