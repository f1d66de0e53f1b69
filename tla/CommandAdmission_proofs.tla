----------------------- MODULE CommandAdmission_proofs -----------------------
(***************************************************************************)
(* Theorems about the admission of a command.                              *)
(*                                                                         *)
(* What a preflight has checked about its request stays true because it    *)
(* is about things that never change: what an intake recorded, what a      *)
(* comment said when it was written, and what GitHub once showed.          *)
(***************************************************************************)
EXTENDS CommandAdmission, FunctionTheorems, FiniteSetTheorems, TLAPS

USE DEF world, queue

-----------------------------------------------------------------------------
(* Types. *)

LEMMA NowIsFacts ==
  ASSUME TypeOK, NEW p \in Pull
  PROVE  /\ Now(p) \in Facts
         /\ Len(facts[p]) \in Nat \ {0}
         /\ Now(p) = facts[p][Len(facts[p])]
BY DEF TypeOK, Now, Last

LEMMA ListingIsRecords ==
  ASSUME NEW b, NEW h, NEW l \in Listings(b, h)
  PROVE  l \in SUBSET Record
<1>1. Compare(b, h) \subseteq Record
  BY DEF Compare, Source, Touched, Record
<1> QED
  BY <1>1 DEF Listings

LEMMA StatementIsTyped ==
  ASSUME AdmissionAssumption, NEW s \in Said
  PROVE  s[1] \in Author /\ s[2] \in Operation
BY DEF AdmissionAssumption

LEMMA InitType ==
  ASSUME AdmissionAssumption, Init
  PROVE  TypeOK
BY DEF Init, TypeOK, Facts, AdmissionAssumption

LEMMA ActivityFields ==
  ASSUME NEW v \in Activity
  PROVE  /\ \A s \in Reading : [v EXCEPT !.step = s] \in Activity
         /\ \A b \in BaseSha : [v EXCEPT !.base = b] \in Activity
         /\ \A l \in SUBSET Record : [v EXCEPT !.records = l] \in Activity
         /\ \A n \in Nat : [v EXCEPT !.read = n] \in Activity
         /\ \A n \in Nat : [v EXCEPT !.now = n] \in Activity
BY DEF Activity

LEMMA IntakeFields ==
  ASSUME NEW i \in Intake
  PROVE  /\ \A s \in {"parse", "send", "done"} : [i EXCEPT !.step = s] \in Intake
         /\ [i EXCEPT !.attempt = 2] \in Intake
         /\ \A r \in Request : [i EXCEPT !.request = r] \in Intake
BY DEF Intake

\* The request an intake run records.
Asked(c) == [pull |-> PullOf[c], head |-> Now(PullOf[c]).head, comment |-> c,
             operation |-> comment[c].said]

LEMMA AskedIsRequest ==
  ASSUME AdmissionAssumption, TypeOK, NEW c \in Comment, comment[c] \in Remark
  PROVE  Asked(c) \in Request
<1>1. PullOf[c] \in Pull
  BY DEF AdmissionAssumption
<1>2. Now(PullOf[c]).head \in HeadSha
  BY <1>1, NowIsFacts DEF Facts
<1>3. comment[c].said \in Operation
  BY DEF Remark
<1> QED
  BY <1>1, <1>2, <1>3 DEF Asked, Request

\* An intake run is that of a comment that was written, and the request it
\* sends, or that its artifact holds, is one an intake run has recorded.
IntakeInv ==
  \A c \in Comment : intake[c] \in Intake =>
    /\ comment[c] \in Remark
    /\ intake[c].step = "send" => intake[c].request \in Request
    /\ intake[c].request \in Request => intake[c].request \in recorded

LEMMA RecordEffect ==
  ASSUME AdmissionAssumption, NoneAssumption, TypeOK, IntakeInv, NEW c \in Comment,
         RecordRequest(c)
  PROVE  /\ Asked(c) \in Request
         /\ comment[c] \in Remark
         /\ AuthorIsAuthorized(comment[c].author, comment[c].said)
         /\ \E v \in Intake :
              v.request = Asked(c) /\ intake' = [intake EXCEPT ![c] = v]
         /\ recorded' = recorded \cup {Asked(c)}
<1>1. intake[c] \in Intake /\ comment[c] \in Remark
  BY DEF RecordRequest, TypeOK, IntakeInv
<1>2. Asked(c) \in Request
  BY <1>1, AskedIsRequest
<1> DEFINE w == [intake[c] EXCEPT !.step = "send"]
           v == [w EXCEPT !.request = Asked(c)]
<1>3. w \in Intake
  BY <1>1, IntakeFields
<1>4. v \in Intake /\ v.request = Asked(c)
  <2> HIDE DEF w
  <2> QED
    BY <1>2, <1>3, IntakeFields DEF Intake
<1>5. intake' = [intake EXCEPT ![c] = v] /\ recorded' = recorded \cup {Asked(c)}
  BY DEF RecordRequest, Asked
<1>6. AuthorIsAuthorized(comment[c].author, comment[c].said)
  BY DEF RecordRequest
<1> HIDE DEF v
<1> QED
  BY <1>1, <1>2, <1>4, <1>5, <1>6

\* What other steps than those of a preflight leave of what it has read.
Grown ==
  /\ recorded \subseteq recorded'
  /\ clock <= clock'
  /\ \A p \in Pull :
       /\ Len(facts[p]) <= Len(facts'[p])
       /\ \A i \in 1..Len(facts[p]) : facts'[p][i] = facts[p][i]
  /\ \A c \in Comment : comment[c] \in Remark =>
       /\ comment'[c] \in Remark
       /\ comment'[c].author = comment[c].author
       /\ comment'[c].said = comment[c].said
       /\ comment'[c].created = comment[c].created
  /\ \A c \in Comment : intake[c] \in Intake => intake'[c] \in Intake

LEMMA IntakeSteps ==
  ASSUME AdmissionAssumption, NoneAssumption, TypeOK, IntakeInv, NEW c \in Comment,
         \/ Post(c) \/ StartIntake(c) \/ RerunIntake(c) \/ RecordRequest(c)
         \/ SendRequest(c)
  PROVE  TypeOK' /\ IntakeInv' /\ Grown /\ UNCHANGED <<active, claims, admitted>>
<1>1. CASE Post(c)
  BY <1>1, StatementIsTyped DEF Post, TypeOK, Remark, IntakeInv, Grown
<1>2. CASE StartIntake(c)
  BY <1>2 DEF StartIntake, TypeOK, Intake, IntakeInv, Grown
<1>3. CASE RerunIntake(c)
  <2> DEFINE w == [intake[c] EXCEPT !.step = "parse"]
             v == [w EXCEPT !.attempt = 2]
  <2>1. intake[c] \in Intake
    BY <1>3 DEF RerunIntake, TypeOK
  <2>2. w \in Intake /\ w.step = "parse" /\ w.request = intake[c].request
    BY <2>1, IntakeFields DEF Intake
  <2>3. v \in Intake /\ v.step = "parse" /\ v.request = intake[c].request
    <3> HIDE DEF w
    <3> QED
      BY <2>2, IntakeFields DEF Intake
  <2>4. intake' = [intake EXCEPT ![c] = v]
    BY <1>3 DEF RerunIntake
  <2>5. UNCHANGED <<world, recorded, sent, waiting, active, claims, admitted>>
    BY <1>3 DEF RerunIntake
  <2> HIDE DEF v
  <2>6. TypeOK'
    BY <2>1, <2>3, <2>4, <2>5 DEF TypeOK
  <2>7. IntakeInv'
    BY <2>1, <2>3, <2>4, <2>5 DEF TypeOK, IntakeInv
  <2>8. Grown
    BY <2>3, <2>4, <2>5 DEF TypeOK, Grown
  <2> QED
    BY <2>5, <2>6, <2>7, <2>8
<1>4. CASE RecordRequest(c)
  <2>1. PICK v \in Intake : v.request = Asked(c) /\ intake' = [intake EXCEPT ![c] = v]
    BY <1>4, RecordEffect
  <2>2. /\ Asked(c) \in Request /\ comment[c] \in Remark
        /\ recorded' = recorded \cup {Asked(c)}
    BY <1>4, RecordEffect
  <2>3. UNCHANGED <<world, sent, waiting, active, claims, admitted>>
    BY <1>4 DEF RecordRequest
  <2>4. TypeOK'
    BY <2>1, <2>2, <2>3 DEF TypeOK
  <2>5. IntakeInv'
    BY <2>1, <2>2, <2>3 DEF TypeOK, IntakeInv
  <2>6. Grown
    BY <2>1, <2>2, <2>3 DEF TypeOK, Grown
  <2> QED
    BY <2>3, <2>4, <2>5, <2>6
<1>5. CASE SendRequest(c)
  <2>1. intake[c] \in Intake /\ comment[c] \in Remark /\ intake[c].request \in Request
    BY <1>5 DEF SendRequest, TypeOK, IntakeInv
  <2> DEFINE v == [intake[c] EXCEPT !.step = "done"]
  <2>2. v \in Intake /\ v.step = "done" /\ v.request = intake[c].request
    BY <2>1, IntakeFields DEF Intake
  <2>3. /\ intake' = [intake EXCEPT ![c] = v]
        /\ sent' = sent + 1
        /\ waiting' = [waiting EXCEPT ![intake[c].request.pull] = intake[c].request]
        /\ UNCHANGED <<world, recorded, active, claims, admitted>>
    BY <1>5 DEF SendRequest, Enqueue
  <2> HIDE DEF v
  <2>4. sent' \in Nat
    BY <2>3 DEF TypeOK
  <2>5. TypeOK'
    BY <2>1, <2>2, <2>3, <2>4 DEF TypeOK
  <2>6. IntakeInv'
    BY <2>1, <2>2, <2>3 DEF TypeOK, IntakeInv
  <2>7. Grown
    BY <2>1, <2>2, <2>3 DEF TypeOK, Grown
  <2> QED
    BY <2>3, <2>5, <2>6, <2>7
<1> QED
  BY <1>1, <1>2, <1>3, <1>4, <1>5

LEMMA ForeignSteps ==
  ASSUME TypeOK, IntakeInv, ForeignDispatch
  PROVE  TypeOK' /\ IntakeInv' /\ Grown /\ UNCHANGED <<active, claims, admitted>>
<1>1. PICK r \in Request : Enqueue(r)
  BY DEF ForeignDispatch
<1>2. UNCHANGED <<world, intake, recorded, active, claims, admitted>>
  BY DEF ForeignDispatch
<1>3. sent' \in Nat /\ waiting' = [waiting EXCEPT ![r.pull] = r]
  BY <1>1 DEF Enqueue, TypeOK
<1>4. TypeOK'
  BY <1>2, <1>3 DEF TypeOK
<1> QED
  BY <1>2, <1>4 DEF IntakeInv, Grown, TypeOK

\* GitHub shows the pull request p something else.
LEMMA ShowEffect ==
  ASSUME TypeOK, NEW p \in Pull, NEW f \in Facts, Show(p, f)
  PROVE  /\ facts' \in [Pull -> Seq(Facts)]
         /\ \A q \in Pull :
              /\ facts'[q] # <<>> /\ Len(facts[q]) <= Len(facts'[q])
              /\ \A i \in 1..Len(facts[q]) : facts'[q][i] = facts[q][i]
<1>1. facts[p] \in Seq(Facts)
  BY DEF TypeOK
<1>2. /\ Append(facts[p], f) \in Seq(Facts) /\ Append(facts[p], f) # <<>>
      /\ Len(facts[p]) <= Len(Append(facts[p], f))
      /\ \A i \in 1..Len(facts[p]) : Append(facts[p], f)[i] = facts[p][i]
  BY <1>1
<1>3. facts' = [facts EXCEPT ![p] = Append(facts[p], f)]
  BY DEF Show
<1> HIDE DEF Show
<1> QED
  BY <1>2, <1>3 DEF TypeOK

LEMMA EnvironmentSteps ==
  ASSUME AdmissionAssumption, NoneAssumption, TypeOK, IntakeInv, Environment
  PROVE  TypeOK' /\ IntakeInv' /\ Grown /\ UNCHANGED <<active, claims, admitted>>
<1>0. UNCHANGED <<queue, active, claims, admitted>>
  BY DEF Environment
<1>1. ASSUME NEW p \in Pull, ChangePull(p)
      PROVE  TypeOK' /\ IntakeInv' /\ Grown
  <2>1. \E f \in Facts : Show(p, f)
    BY <1>1, NowIsFacts DEF ChangePull, Facts
  <2>2. UNCHANGED <<clock, rights, protected, comment>> /\ changes' \in Nat
    BY <1>1 DEF ChangePull, Changed, TypeOK
  <2>3. TypeOK'
    BY <1>0, <2>1, <2>2, ShowEffect DEF TypeOK
  <2>4. IntakeInv'
    BY <1>0, <2>2 DEF IntakeInv
  <2>5. Grown
    BY <1>0, <2>1, <2>2, ShowEffect DEF Grown, TypeOK
  <2> QED
    BY <2>3, <2>4, <2>5
<1>2. ASSUME AdvanceMain PROVE TypeOK' /\ IntakeInv' /\ Grown
  <2>1. PICK b \in BaseSha :
          facts' = [p \in Pull |-> Append(facts[p], [Now(p) EXCEPT !.base = b])]
    BY <1>2 DEF AdvanceMain
  <2>2. UNCHANGED <<clock, rights, protected, comment>> /\ changes' \in Nat
    BY <1>2 DEF AdvanceMain, Changed, TypeOK
  <2>3. ASSUME NEW p \in Pull
        PROVE  /\ facts'[p] \in Seq(Facts) /\ facts'[p] # <<>>
               /\ Len(facts[p]) <= Len(facts'[p])
               /\ \A i \in 1..Len(facts[p]) : facts'[p][i] = facts[p][i]
    <3> DEFINE f == [Now(p) EXCEPT !.base = b]
    <3>1. f \in Facts /\ facts[p] \in Seq(Facts)
      BY NowIsFacts DEF Facts, TypeOK
    <3>2. facts'[p] = Append(facts[p], f)
      BY <2>1
    <3> HIDE DEF f
    <3> QED
      BY <3>1, <3>2
  <2>4. TypeOK'
    BY <1>0, <2>1, <2>2, <2>3 DEF TypeOK
  <2>5. IntakeInv'
    BY <1>0, <2>2 DEF IntakeInv
  <2>6. Grown
    BY <1>0, <2>2, <2>3 DEF Grown, TypeOK
  <2> QED
    BY <2>4, <2>5, <2>6
<1>3. ASSUME NEW c \in Comment, EditComment(c)
      PROVE  TypeOK' /\ IntakeInv' /\ Grown
  <2>1. PICK o \in Operation :
          comment' = [comment EXCEPT ![c].says = o, ![c].edited = TRUE]
    BY <1>3 DEF EditComment
  <2>2. UNCHANGED <<clock, facts, rights, protected>> /\ changes' \in Nat
    BY <1>3 DEF EditComment, Changed, TypeOK
  <2> DEFINE w == [comment[c] EXCEPT !.says = o]
             v == [w EXCEPT !.edited = TRUE]
  <2>3. comment[c] \in Remark
    BY <1>3 DEF EditComment, TypeOK
  <2>4. /\ w \in Remark /\ w.author = comment[c].author
        /\ w.said = comment[c].said /\ w.created = comment[c].created
    BY <2>3 DEF Remark
  <2>5. /\ v \in Remark /\ v.author = comment[c].author
        /\ v.said = comment[c].said /\ v.created = comment[c].created
    <3> HIDE DEF w
    <3> QED
      BY <2>4 DEF Remark
  <2>6. comment' = [comment EXCEPT ![c] = v]
    BY <2>1
  <2> HIDE DEF v
  <2>7. TypeOK'
    BY <1>0, <2>2, <2>5, <2>6 DEF TypeOK
  <2>8. IntakeInv'
    BY <1>0, <2>2, <2>5, <2>6 DEF IntakeInv, TypeOK
  <2>9. Grown
    BY <1>0, <2>2, <2>5, <2>6 DEF Grown, TypeOK
  <2> QED
    BY <2>7, <2>8, <2>9
<1>4. ASSUME Withdraw PROVE TypeOK' /\ IntakeInv' /\ Grown
  <2>1. UNCHANGED <<clock, facts, comment>> /\ changes' \in Nat
    BY <1>4 DEF Withdraw, Changed, TypeOK
  <2>2. rights' \subseteq Author /\ protected' \in BOOLEAN
    BY <1>4 DEF Withdraw, TypeOK
  <2> QED
    BY <1>0, <2>1, <2>2 DEF TypeOK, IntakeInv, Grown
<1>5. ASSUME Tick PROVE TypeOK' /\ IntakeInv' /\ Grown
  BY <1>0, <1>5 DEF Tick, TypeOK, IntakeInv, Grown
<1> QED
  BY <1>0, <1>1, <1>2, <1>3, <1>4, <1>5 DEF Environment

-----------------------------------------------------------------------------
(* The steps of a preflight, by what they do to its run. *)

LEMMA PreflightFrame ==
  ASSUME NEW p \in Pull, Preflight(p)
  PROVE  /\ UNCHANGED <<world, intake, recorded, sent>>
         /\ active' = [active EXCEPT ![p] = active'[p]]
         /\ StartRun(p) \/ UNCHANGED waiting
         /\ PostClaim(p) \/ UNCHANGED claims
         /\ Accept(p) \/ UNCHANGED admitted
BY DEF Preflight, StartRun, ReadRun, ReadArtifact, ReadComment, ReadBefore, ReadComparison,
       ReadAfter, ReadPermission, ReadEnvironments, ListClaims, PostClaim, Accept, EndRun,
       Goto

LEMMA GotoEffect ==
  ASSUME TypeOK, NEW p \in Pull, NEW s \in Reading, active[p] \in Activity, Goto(p, s)
  PROVE  /\ active'[p] \in Activity /\ active'[p].step = s
         /\ active'[p].request = active[p].request
         /\ active'[p].started = active[p].started
         /\ active'[p].base = active[p].base
         /\ active'[p].records = active[p].records
         /\ active'[p].read = active[p].read
         /\ active'[p].now = active[p].now
<1> DEFINE v == [active[p] EXCEPT !.step = s]
<1>1. v \in Activity
  BY ActivityFields
<1>2. /\ v.step = s /\ v.request = active[p].request /\ v.started = active[p].started
      /\ v.base = active[p].base /\ v.records = active[p].records
      /\ v.read = active[p].read /\ v.now = active[p].now
  BY DEF Activity
<1>3. active' = [active EXCEPT ![p] = v]
  BY DEF Goto
<1>4. active'[p] = v
  BY <1>3 DEF TypeOK
<1> HIDE DEF v
<1> QED
  BY <1>1, <1>2, <1>4

LEMMA StartEffect ==
  ASSUME TypeOK, NEW p \in Pull, StartRun(p)
  PROVE  /\ active'[p] \in Activity /\ active'[p].step = "run"
         /\ active'[p].started = clock
         /\ waiting' = [waiting EXCEPT ![p] = None]
<1> DEFINE v == [step |-> "run", request |-> waiting[p], started |-> clock,
                 base |-> None, records |-> {}, read |-> 0, now |-> 0]
<1>1. waiting[p] \in Request /\ clock \in Nat
  BY DEF StartRun, TypeOK
<1>2. v \in Activity /\ v.step = "run" /\ v.started = clock
  BY <1>1 DEF Activity, Reading
<1>3. active' = [active EXCEPT ![p] = v] /\ waiting' = [waiting EXCEPT ![p] = None]
  BY DEF StartRun
<1>4. active'[p] = v
  BY <1>3 DEF TypeOK
<1> HIDE DEF v
<1> QED
  BY <1>2, <1>3, <1>4

LEMMA BeforeEffect ==
  ASSUME TypeOK, NEW p \in Pull, active[p] \in Activity, ReadBefore(p)
  PROVE  /\ active'[p] \in Activity /\ active'[p].step = "compare"
         /\ active'[p].request = active[p].request
         /\ active'[p].started = active[p].started
<1> DEFINE w == [active[p] EXCEPT !.step = "compare"]
           v == [w EXCEPT !.base = Now(p).base]
<1>0. w.step = "compare" /\ w.request = active[p].request
        /\ w.started = active[p].started
  BY DEF Activity
<1>1. w \in Activity
  BY ActivityFields DEF Reading
<1>2. Now(p).base \in BaseSha
  BY NowIsFacts DEF Facts
<1>3. v \in Activity /\ v.step = "compare" /\ v.request = active[p].request
        /\ v.started = active[p].started
  <2> HIDE DEF w
  <2> QED
    BY <1>0, <1>1, <1>2, ActivityFields DEF Activity
<1>4. active' = [active EXCEPT ![p] = v]
  BY DEF ReadBefore
<1>5. active'[p] = v
  BY <1>4 DEF TypeOK
<1> HIDE DEF v
<1> QED
  BY <1>3, <1>5

LEMMA AfterEffect ==
  ASSUME TypeOK, NEW p \in Pull, active[p] \in Activity, ReadAfter(p)
  PROVE  /\ active'[p] \in Activity /\ active'[p].step = "permission"
         /\ active'[p].request = active[p].request
         /\ active'[p].started = active[p].started
         /\ active'[p].base = active[p].base
         /\ active'[p].records = active[p].records
         /\ active'[p].read = active[p].read
         /\ active'[p].now = clock
<1> DEFINE w == [active[p] EXCEPT !.step = "permission"]
           v == [w EXCEPT !.now = clock]
<1>0. /\ w.step = "permission" /\ w.request = active[p].request
      /\ w.started = active[p].started /\ w.base = active[p].base
      /\ w.records = active[p].records /\ w.read = active[p].read
  BY DEF Activity
<1>1. w \in Activity
  BY ActivityFields DEF Reading
<1>2. clock \in Nat
  BY DEF TypeOK
<1>3. /\ v \in Activity /\ v.step = "permission" /\ v.request = active[p].request
      /\ v.started = active[p].started /\ v.base = active[p].base
      /\ v.records = active[p].records /\ v.read = active[p].read /\ v.now = clock
  <2> HIDE DEF w
  <2> QED
    BY <1>0, <1>1, <1>2, ActivityFields DEF Activity
<1>4. active' = [active EXCEPT ![p] = v]
  BY DEF ReadAfter
<1>5. active'[p] = v
  BY <1>4 DEF TypeOK
<1> HIDE DEF v
<1> QED
  BY <1>3, <1>5

\* A listing of as many files as GitHub counted is complete.
LEMMA ListingIsComplete ==
  ASSUME CommitAssumption, NEW b, NEW h, NEW l \in Listings(b, h),
         Cardinality(l) = Cardinality(Compare(b, h))
  PROVE  l = Compare(b, h)
BY DEF Listings, CommitAssumption

LEMMA ComparisonEffect ==
  ASSUME CommitAssumption, TypeOK, NEW p \in Pull, active[p] \in Activity,
         ReadComparison(p)
  PROVE  /\ active'[p] \in Activity /\ active'[p].step = "after"
         /\ active'[p].request = active[p].request
         /\ active'[p].started = active[p].started
         /\ active'[p].base = active[p].base
         /\ active'[p].records = Compare(active[p].base, active[p].request.head)
         /\ active'[p].read = Len(facts[p])
<1> DEFINE l == Compare(active[p].base, active[p].request.head)
           u == [active[p] EXCEPT !.step = "after"]
           w == [u EXCEPT !.records = l]
           v == [w EXCEPT !.read = Len(facts[p])]
<1>1. PICK k \in Listings(active[p].base, active[p].request.head) :
        /\ Cardinality(k) = Cardinality(l)
        /\ active' = [active EXCEPT ![p].step = "after", ![p].records = k,
                                    ![p].read = Len(facts[p])]
  BY DEF ReadComparison
<1>2. k = l /\ l \in SUBSET Record
  BY <1>1, ListingIsComplete, ListingIsRecords
<1>3. Len(facts[p]) \in Nat
  BY NowIsFacts
<1>4. active' = [active EXCEPT ![p] = v]
  BY <1>1, <1>2
<1>5. active'[p] = v
  BY <1>4 DEF TypeOK
<1> HIDE DEF l
<1>0. /\ u.step = "after" /\ u.request = active[p].request
      /\ u.started = active[p].started /\ u.base = active[p].base
  BY DEF Activity
<1>6. u \in Activity
  BY ActivityFields DEF Reading
<1> HIDE DEF u
<1>7. /\ w \in Activity /\ w.step = "after" /\ w.request = active[p].request
      /\ w.started = active[p].started /\ w.base = active[p].base /\ w.records = l
  BY <1>0, <1>2, <1>6, ActivityFields DEF Activity
<1> HIDE DEF w
<1>8. /\ v \in Activity /\ v.step = "after" /\ v.request = active[p].request
      /\ v.started = active[p].started /\ v.base = active[p].base /\ v.records = l
      /\ v.read = Len(facts[p])
  BY <1>3, <1>7, ActivityFields DEF Activity
<1> HIDE DEF v
<1> QED
  BY <1>5, <1>8 DEF l

LEMMA PreflightTypes ==
  ASSUME NoneAssumption, CommitAssumption, TypeOK, IntakeInv, NEW p \in Pull, Preflight(p)
  PROVE  TypeOK' /\ IntakeInv'
<1>1. active'[p] \in Activity \cup {None}
  <2>1. CASE StartRun(p)
    BY <2>1, StartEffect
  <2>2. CASE EndRun(p)
    BY <2>2 DEF EndRun, TypeOK
  <2>3. CASE active[p] \in Activity
    <3>1. \A s \in Reading : Goto(p, s) => active'[p] \in Activity
      BY <2>3, GotoEffect
    <3>2. CASE ReadBefore(p) \/ ReadComparison(p) \/ ReadAfter(p)
      BY <2>3, <3>2, BeforeEffect, ComparisonEffect, AfterEffect
    <3>3. CASE PostClaim(p)
      BY <3>1, <3>3 DEF PostClaim, TypeOK, Reading
    <3> QED
      BY <2>1, <2>2, <3>1, <3>2, <3>3
      DEF Preflight, ReadRun, ReadArtifact, ReadComment, ReadPermission, ReadEnvironments,
          ListClaims, Accept, Reading
  <2>4. StartRun(p) \/ EndRun(p) \/ active[p] \in Activity
    BY DEF Preflight, ReadRun, ReadArtifact, ReadComment, ReadBefore, ReadComparison,
           ReadAfter, ReadPermission, ReadEnvironments, ListClaims, PostClaim, Accept, At,
           TypeOK
  <2> QED
    BY <2>1, <2>2, <2>3, <2>4
<1>2. active' \in [Pull -> Activity \cup {None}]
  BY <1>1, PreflightFrame DEF TypeOK
<1>3. waiting' \in [Pull -> Request \cup {None}]
  BY PreflightFrame, StartEffect DEF TypeOK
<1>4. claims' \subseteq HeadSha \X Comment
  <2>1. CASE PostClaim(p)
    <3>1. active[p] \in Activity
      BY <2>1 DEF PostClaim, At, TypeOK
    <3> QED
      BY <2>1, <3>1 DEF PostClaim, TypeOK, Claim, Activity, Request
  <2> QED
    BY <2>1, PreflightFrame DEF TypeOK
<1>5. UNCHANGED <<world, intake, recorded, sent>>
  BY PreflightFrame
<1>6. TypeOK'
  BY <1>2, <1>3, <1>4, <1>5 DEF TypeOK
<1> QED
  BY <1>5, <1>6 DEF IntakeInv

-----------------------------------------------------------------------------
(* What the run of a preflight has established, by the step it is at. *)

Checked   == {"environments", "list", "claim", "persist", "jobs"}
Stable    == Checked \cup {"permission"}
Listed    == Stable \cup {"after"}
Matched   == Listed \cup {"before", "compare"}
Confirmed == Matched \cup {"comment"}

\* GitHub showed h, open and on its way to main at b, as its fact n or later.
Sound(shown, h, b, n) ==
  \E i \in n..Len(shown) :
    shown[i] = [head |-> h, base |-> b, open |-> TRUE, main |-> TRUE]

\* What a run v of the pull request p knows.
Knows(p, v) ==
  /\ v.started <= clock
  /\ v.step = "artifact" => intake[v.request.comment] \in Intake
  /\ v.step \in Confirmed => v.request \in recorded
  /\ v.step \in Matched => PullOf[v.request.comment] = p
  /\ v.step \in Listed => /\ v.read \in 1..Len(facts[p])
                          /\ v.records = Compare(v.base, v.request.head)
  /\ v.step \in Stable => /\ v.started <= v.now
                          /\ Sound(facts[p], v.request.head, v.base, v.read)
  /\ v.step \in Checked => v.now - comment[v.request.comment].created <= CommandAge

RunInv == \A p \in Pull : active[p] \in Activity => Knows(p, active[p])

\* A recorded request is the command of its comment, by one who may give it.
RecordedInv ==
  \A r \in recorded :
    LET c == comment[r.comment]
    IN  /\ c \in Remark
        /\ r.pull = PullOf[r.comment]
        /\ r.operation = c.said
        /\ AuthorIsAuthorized(c.author, c.said)

\* A run that may post its claim finds it free, one that has posted it is the
\* only one to use it.
ClaimInv ==
  /\ \A p \in Pull : active[p] \in Activity =>
       /\ active[p].step = "claim" => Claim(active[p].request) \notin claims
       /\ active[p].step = "persist" =>
            /\ Claim(active[p].request) \in claims
            /\ \A a \in admitted : Claim(a.request) # Claim(active[p].request)
  /\ \A a \in admitted : Claim(a.request) \in claims

\* What an admitted contract rests on.
Founded(a) ==
  LET files == Compare(a.base, a.request.head)
  IN  /\ a.request \in recorded
      /\ a.read \in Nat \ {0}
      /\ Sound(facts[a.request.pull], a.request.head, a.base, a.read)
      /\ a.started - comment[a.request.comment].created <= CommandAge
      /\ a.selection \in SelectScopes(files, a.base, a.request.head, Cardinality(files))

AdmittedInv == \A a \in admitted : Founded(a)

Inv == TypeOK /\ IntakeInv /\ RunInv /\ RecordedInv /\ ClaimInv /\ AdmittedInv
             /\ ConsumedOnce

LEMMA InitInv ==
  ASSUME AdmissionAssumption, NoneAssumption, Init
  PROVE  Inv
<1>1. TypeOK
  BY InitType
<1>2. \A c \in Comment : intake[c] \notin Intake
  BY DEF Init, NoneAssumption
<1>3. \A p \in Pull : active[p] \notin Activity
  BY DEF Init, NoneAssumption
<1> QED
  BY <1>1, <1>2, <1>3
  DEF Init, Inv, IntakeInv, RunInv, RecordedInv, ClaimInv, AdmittedInv, ConsumedOnce

-----------------------------------------------------------------------------
(* Steps of others leave all of it. *)

LEMMA SoundIsKept ==
  ASSUME TypeOK, TypeOK', Grown, NEW p \in Pull, NEW h, NEW b, NEW n \in Nat \ {0},
         Sound(facts[p], h, b, n)
  PROVE  Sound(facts'[p], h, b, n)
<1>1. PICK i \in n..Len(facts[p]) :
        facts[p][i] = [head |-> h, base |-> b, open |-> TRUE, main |-> TRUE]
  BY DEF Sound
<1>2. Len(facts[p]) \in Nat /\ Len(facts'[p]) \in Nat
  BY DEF TypeOK
<1>3. i \in n..Len(facts'[p]) /\ facts'[p][i] = facts[p][i]
  BY <1>2 DEF Grown
<1> QED
  BY <1>1, <1>3 DEF Sound

LEMMA KnowledgeIsKept ==
  ASSUME TypeOK, TypeOK', Grown, RecordedInv, NEW p \in Pull, NEW v \in Activity,
         Knows(p, v)
  PROVE  Knows(p, v)'
<1>1. v.request.comment \in Comment /\ v.started \in Nat
  BY DEF Activity, Request
<1>2. v.started <= clock'
  BY <1>1 DEF Knows, Grown, TypeOK
<1>3. v.step = "artifact" => intake'[v.request.comment] \in Intake
  BY <1>1 DEF Knows, Grown
<1>4. v.step \in Confirmed => v.request \in recorded'
  BY DEF Knows, Grown
<1>5. v.step \in Matched => PullOf[v.request.comment] = p
  BY DEF Knows
<1>6. v.step \in Listed => /\ v.read \in 1..Len(facts'[p])
                          /\ v.records = Compare(v.base, v.request.head)
  BY DEF Knows, Grown, TypeOK
<1>7. v.step \in Stable => /\ v.started <= v.now
                          /\ Sound(facts'[p], v.request.head, v.base, v.read)
  <2>1. v.step \in Stable => v.read \in Nat \ {0}
    BY DEF Knows, Listed, TypeOK
  <2> QED
    BY <2>1, SoundIsKept DEF Knows
<1>8. v.step \in Checked => v.now - comment'[v.request.comment].created <= CommandAge
  BY <1>1 DEF Knows, Checked, Stable, Listed, Matched, Confirmed, RecordedInv, Grown
<1> QED
  BY <1>2, <1>3, <1>4, <1>5, <1>6, <1>7, <1>8 DEF Knows

LEMMA FoundationIsKept ==
  ASSUME TypeOK, TypeOK', Grown, RecordedInv, NEW a, Founded(a)
  PROVE  Founded(a)'
<1>1. a.request \in Request /\ a.request \in recorded'
  BY DEF Founded, TypeOK, Grown
<1>2. Sound(facts'[a.request.pull], a.request.head, a.base, a.read)
  BY <1>1, SoundIsKept DEF Founded, Request
<1>3. a.started - comment'[a.request.comment].created <= CommandAge
  BY <1>1 DEF Founded, RecordedInv, Grown, Request
<1> QED
  BY <1>1, <1>2, <1>3 DEF Founded

LEMMA OthersKeepRuns ==
  ASSUME TypeOK, TypeOK', Grown, RecordedInv, RunInv, ClaimInv, AdmittedInv, ConsumedOnce,
         UNCHANGED <<active, claims, admitted>>
  PROVE  RunInv' /\ ClaimInv' /\ AdmittedInv' /\ ConsumedOnce'
<1>1. RunInv'
  <2> SUFFICES ASSUME NEW p \in Pull, active'[p] \in Activity
               PROVE  Knows(p, active[p])'
    BY DEF RunInv
  <2>1. PICK v \in Activity : v = active[p] /\ v = active'[p]
    OBVIOUS
  <2>2. Knows(p, v)
    BY <2>1 DEF RunInv
  <2>3. Knows(p, v)'
    BY <2>2, KnowledgeIsKept
  <2> QED
    BY <2>1, <2>3 DEF Knows
<1>2. AdmittedInv'
  BY FoundationIsKept DEF AdmittedInv
<1>3. ClaimInv' /\ ConsumedOnce'
  BY DEF ClaimInv, ConsumedOnce
<1> QED
  BY <1>1, <1>2, <1>3

LEMMA OthersKeepRecords ==
  ASSUME TypeOK, Grown, RecordedInv, UNCHANGED recorded
  PROVE  RecordedInv'
BY DEF TypeOK, Grown, RecordedInv, Request

LEMMA IntakeKeepsRecords ==
  ASSUME AdmissionAssumption, NoneAssumption, TypeOK, IntakeInv, RecordedInv, Grown,
         NEW c \in Comment,
         \/ Post(c) \/ StartIntake(c) \/ RerunIntake(c) \/ RecordRequest(c)
         \/ SendRequest(c)
  PROVE  RecordedInv'
<1>1. CASE RecordRequest(c)
  <2>1. /\ comment[c] \in Remark
        /\ AuthorIsAuthorized(comment[c].author, comment[c].said)
        /\ recorded' = recorded \cup {Asked(c)}
    BY <1>1, RecordEffect
  <2>2. UNCHANGED comment
    BY <1>1 DEF RecordRequest
  <2> QED
    BY <2>1, <2>2 DEF RecordedInv, Asked
<1>2. CASE ~RecordRequest(c)
  <2>1. UNCHANGED recorded
    BY <1>2 DEF Post, StartIntake, RerunIntake, SendRequest
  <2> QED
    BY <2>1, OthersKeepRecords
<1> QED
  BY <1>1, <1>2

-----------------------------------------------------------------------------
(* The steps of a preflight establish it. *)

LEMMA GotoKnows ==
  ASSUME TypeOK, NEW p \in Pull, NEW s \in Reading, active[p] \in Activity, Goto(p, s),
         Knows(p, active[p]),
         s = "artifact" => intake[active[p].request.comment] \in Intake,
         s \in Confirmed => active[p].request \in recorded,
         s \in Matched => PullOf[active[p].request.comment] = p,
         s \in Listed => active[p].step \in Listed,
         s \in Stable => active[p].step \in Stable,
         s \in Checked =>
           active[p].now - comment[active[p].request.comment].created <= CommandAge
  PROVE  Knows(p, active'[p])
<1>1. PICK v : v = active[p]
  OBVIOUS
<1>2. PICK w : w = active'[p]
  OBVIOUS
<1>3. /\ w.step = s /\ w.request = v.request /\ w.started = v.started /\ w.base = v.base
      /\ w.records = v.records /\ w.read = v.read /\ w.now = v.now
  BY <1>1, <1>2, GotoEffect
<1>4. Knows(p, w)
  BY <1>1, <1>3 DEF Knows
<1> QED
  BY <1>2, <1>4

LEMMA ReadsKnow ==
  ASSUME AdmissionAssumption, NoneAssumption, TypeOK, IntakeInv, NEW p \in Pull,
         active[p] \in Activity, Knows(p, active[p]),
         ReadRun(p) \/ ReadArtifact(p) \/ ReadComment(p)
  PROVE  Knows(p, active'[p])
<1>1. /\ active[p].request \in Request /\ active[p].request.comment \in Comment
  BY DEF Activity, Request
<1>2. CASE ReadRun(p)
  <2>1. intake[active[p].request.comment] \in Intake
    BY <1>1, <1>2 DEF ReadRun, TypeOK
  <2> QED
    BY <1>2, <2>1, GotoKnows
    DEF ReadRun, Reading, Confirmed, Matched, Listed, Stable, Checked
<1>3. CASE ReadArtifact(p)
  <2>1. active[p].request \in recorded
    BY <1>1, <1>3 DEF ReadArtifact, At, Knows, IntakeInv
  <2> QED
    BY <1>3, <2>1, GotoKnows
    DEF ReadArtifact, Reading, Confirmed, Matched, Listed, Stable, Checked
<1>4. CASE ReadComment(p)
  <2>1. active[p].request \in recorded
    BY <1>4 DEF ReadComment, At, Knows, Confirmed
  <2>2. PullOf[active[p].request.comment] = p
    BY <1>4 DEF ReadComment
  <2> QED
    BY <1>4, <2>1, <2>2, GotoKnows DEF ReadComment, Reading, Listed, Stable, Checked
<1> QED
  BY <1>2, <1>3, <1>4

LEMMA SnapshotKnows ==
  ASSUME CommitAssumption, TypeOK, NEW p \in Pull,
         active[p] \in Activity, Knows(p, active[p]),
         ReadBefore(p) \/ ReadComparison(p) \/ ReadAfter(p)
  PROVE  Knows(p, active'[p])
<1>1. PICK v : v = active[p]
  OBVIOUS
<1>2. PICK w : w = active'[p]
  OBVIOUS
<1>3. v.started <= clock
  BY <1>1 DEF Knows
<1>4. CASE ReadBefore(p)
  <2>1. v.request \in recorded /\ PullOf[v.request.comment] = p
    BY <1>1, <1>4 DEF ReadBefore, At, Knows, Confirmed, Matched
  <2>2. w.step = "compare" /\ w.request = v.request /\ w.started = v.started
    BY <1>1, <1>2, <1>4, BeforeEffect
  <2>3. Knows(p, w)
    BY <1>3, <2>1, <2>2 DEF Knows, Listed, Stable, Checked
  <2> QED
    BY <1>2, <2>3
<1>5. CASE ReadComparison(p)
  <2>1. v.request \in recorded /\ PullOf[v.request.comment] = p
    BY <1>1, <1>5 DEF ReadComparison, At, Knows, Confirmed, Matched
  <2>2. /\ w.step = "after" /\ w.request = v.request /\ w.started = v.started
        /\ w.base = v.base /\ w.records = Compare(v.base, v.request.head)
        /\ w.read = Len(facts[p])
    BY <1>1, <1>2, <1>5, ComparisonEffect
  <2>3. Len(facts[p]) \in 1..Len(facts[p])
    BY NowIsFacts
  <2>4. Knows(p, w)
    BY <1>3, <2>1, <2>2, <2>3 DEF Knows, Stable, Checked
  <2> QED
    BY <1>2, <2>4
<1>6. CASE ReadAfter(p)
  <2>1. v.step = "after"
    BY <1>1, <1>6 DEF ReadAfter, At
  <2>2. /\ v.request \in recorded /\ PullOf[v.request.comment] = p
        /\ v.read \in 1..Len(facts[p]) /\ v.records = Compare(v.base, v.request.head)
    BY <1>1, <2>1 DEF Knows, Confirmed, Matched, Listed
  <2>3. /\ w.step = "permission" /\ w.request = v.request /\ w.started = v.started
        /\ w.base = v.base /\ w.records = v.records /\ w.read = v.read /\ w.now = clock
    BY <1>1, <1>2, <1>6, AfterEffect
  <2>4. Now(p) = [head |-> v.request.head, base |-> v.base, open |-> TRUE, main |-> TRUE]
    BY <1>1, <1>6, NowIsFacts DEF ReadAfter, Facts
  <2>5. Sound(facts[p], v.request.head, v.base, v.read)
    <3>1. Len(facts[p]) \in Nat /\ Now(p) = facts[p][Len(facts[p])]
      BY NowIsFacts
    <3>2. Len(facts[p]) \in v.read..Len(facts[p])
      BY <2>2, <3>1
    <3> QED
      BY <2>4, <3>1, <3>2 DEF Sound
  <2>6. Knows(p, w)
    BY <1>3, <2>2, <2>3, <2>5 DEF Knows, Checked
  <2> QED
    BY <1>2, <2>6
<1> QED
  BY <1>4, <1>5, <1>6

LEMMA ChecksKnow ==
  ASSUME TypeOK, NEW p \in Pull, active[p] \in Activity, Knows(p, active[p]),
         \/ ReadPermission(p) \/ ReadEnvironments(p) \/ ListClaims(p)
         \/ PostClaim(p) \/ Accept(p),
         active'[p] # None
  PROVE  Knows(p, active'[p])
<1>1. active[p].step \in Checked \cup {"permission"}
  BY DEF ReadPermission, ReadEnvironments, ListClaims, PostClaim, Accept, At, Checked
<1>2. active[p].request \in recorded /\ PullOf[active[p].request.comment] = p
  BY <1>1 DEF Knows, Confirmed, Matched, Listed, Stable
<1>3. active[p].now - comment[active[p].request.comment].created <= CommandAge
  <2>1. CASE ReadPermission(p)
    BY <2>1 DEF ReadPermission
  <2>2. CASE ~ReadPermission(p)
    <3>1. active[p].step \in Checked
      BY <2>2 DEF ReadEnvironments, ListClaims, PostClaim, Accept, At, Checked
    <3> QED
      BY <3>1 DEF Knows
  <2> QED
    BY <2>1, <2>2
<1>4. \E s \in Checked : Goto(p, s)
  BY DEF ReadPermission, ReadEnvironments, ListClaims, PostClaim, Accept, Checked, TypeOK
<1> QED
  BY <1>1, <1>2, <1>3, <1>4, GotoKnows DEF Reading, Listed, Stable, Checked

LEMMA PreflightKnows ==
  ASSUME AdmissionAssumption, NoneAssumption, CommitAssumption, TypeOK, TypeOK', IntakeInv,
         RunInv, NEW p \in Pull, Preflight(p)
  PROVE  RunInv'
<1>1. UNCHANGED <<clock, facts, comment, intake, recorded>>
  BY PreflightFrame
<1>2. ASSUME active'[p] \in Activity PROVE Knows(p, active'[p])
  <2>1. CASE StartRun(p)
    <3>1. PICK w : w = active'[p]
      OBVIOUS
    <3>2. w.step = "run" /\ w.started = clock /\ clock \in Nat
      BY <2>1, <3>1, StartEffect DEF TypeOK
    <3>3. Knows(p, w)
      BY <3>2 DEF Knows, Confirmed, Matched, Listed, Stable, Checked
    <3> QED
      BY <3>1, <3>3
  <2>2. ~EndRun(p) /\ active'[p] # None
    BY <1>2, NoneAssumption DEF EndRun, TypeOK
  <2>3. CASE active[p] \in Activity
    <3>1. Knows(p, active[p])
      BY <2>3 DEF RunInv
    <3> QED
      BY <2>1, <2>2, <2>3, <3>1, ReadsKnow, SnapshotKnows, ChecksKnow DEF Preflight
  <2>4. StartRun(p) \/ active[p] \in Activity
    BY <2>2
    DEF Preflight, ReadRun, ReadArtifact, ReadComment, ReadBefore, ReadComparison,
        ReadAfter, ReadPermission, ReadEnvironments, ListClaims, PostClaim, Accept, At,
        TypeOK
  <2> QED
    BY <2>1, <2>3, <2>4
<1> SUFFICES ASSUME NEW q \in Pull, active'[q] \in Activity
             PROVE  Knows(q, active[q])'
  BY DEF RunInv
<1>3. PICK w : w = active'[q]
  OBVIOUS
<1>4. Knows(q, w)
  <2>1. CASE q = p
    BY <1>2, <1>3, <2>1
  <2>2. CASE q # p
    <3>1. active'[q] = active[q]
      BY <2>2, PreflightFrame DEF TypeOK
    <3> QED
      BY <1>3, <3>1 DEF RunInv
  <2> QED
    BY <2>1, <2>2
<1>5. Knows(q, w)'
  BY <1>1, <1>4 DEF Knows
<1> QED
  BY <1>3, <1>5 DEF Knows

-----------------------------------------------------------------------------
(* Claims and contracts. *)

\* The runs of two pull requests never hold the same claim: a claim names its
\* comment, and a comment has one pull request.
LEMMA ClaimsDiffer ==
  ASSUME TypeOK, RunInv, NEW p \in Pull, NEW q \in Pull, p # q,
         active[p] \in Activity, active[p].step \in Matched,
         active[q] \in Activity, active[q].step \in Matched
  PROVE  Claim(active[p].request) # Claim(active[q].request)
BY DEF RunInv, Knows, Claim

LEMMA OneSelection ==
  ASSUME NEW l, NEW b, NEW h, NEW n, NEW s \in SelectScopes(l, b, h, n),
         NEW t \in SelectScopes(l, b, h, n)
  PROVE  s = t
BY DEF SelectScopes

LEMMA PostKeeps ==
  ASSUME NoneAssumption, TypeOK, RunInv, ClaimInv, NEW p \in Pull, PostClaim(p)
  PROVE  ClaimInv'
<1>1. active[p] \in Activity /\ active[p].step = "claim"
  BY DEF PostClaim, At, TypeOK
<1>2. /\ claims' = claims \cup {Claim(active[p].request)}
      /\ UNCHANGED admitted
      /\ Claim(active[p].request) \notin claims
  BY <1>1 DEF PostClaim, ClaimInv
<1>3. ASSUME NEW q \in Pull, q # p, active'[q] \in Activity
      PROVE  /\ active'[q] = active[q]
             /\ active[q].step = "claim" => Claim(active[q].request) \notin claims'
  <2>1. active'[q] = active[q]
    BY <1>3 DEF PostClaim, Goto, TypeOK
  <2> QED
    BY <1>1, <1>2, <1>3, <2>1, ClaimsDiffer DEF ClaimInv, Matched, Listed, Stable, Checked
<1>4. active'[p] # None => /\ active'[p].step = "persist"
                           /\ active'[p].request = active[p].request
  BY <1>1, GotoEffect DEF PostClaim, TypeOK, Reading
<1>5. \A a \in admitted : Claim(a.request) \in claims
  BY DEF ClaimInv
<1>6. ASSUME NEW q \in Pull, active'[q] \in Activity
      PROVE  /\ active'[q].step = "claim" => Claim(active'[q].request) \notin claims'
             /\ active'[q].step = "persist" =>
                  /\ Claim(active'[q].request) \in claims'
                  /\ \A a \in admitted : Claim(a.request) # Claim(active'[q].request)
  <2>1. CASE q # p
    BY <1>2, <1>3, <1>6, <2>1 DEF ClaimInv
  <2>2. CASE q = p /\ active'[p] # None
    BY <1>2, <1>4, <1>5, <2>2 DEF Claim
  <2>3. CASE q = p /\ active'[p] = None
    BY <1>6, <2>3 DEF NoneAssumption
  <2> QED
    BY <2>1, <2>2, <2>3
<1> QED
  BY <1>2, <1>5, <1>6 DEF ClaimInv

\* A contract is founded on what its run knows.
LEMMA ContractIsFounded ==
  ASSUME AdmissionAssumption, TypeOK, RunInv, RecordedInv, NEW p \in Pull, Accept(p),
         NEW a \in Contract(p)
  PROVE  Founded(a) /\ a.request = active[p].request
<1>1. active[p] \in Activity /\ active[p].step = "persist"
  BY DEF Accept, At, TypeOK
<1>2. PICK v : v = active[p]
  OBVIOUS
<1>3. v.started \in Nat /\ v.now \in Nat
  BY <1>1, <1>2 DEF Activity
<1>4. /\ v.request \in recorded /\ PullOf[v.request.comment] = p
      /\ v.read \in 1..Len(facts[p]) /\ v.records = Compare(v.base, v.request.head)
      /\ v.started <= v.now /\ Sound(facts[p], v.request.head, v.base, v.read)
      /\ v.now - comment[v.request.comment].created <= CommandAge
  BY <1>1, <1>2 DEF RunInv, Knows, Confirmed, Matched, Listed, Stable, Checked
<1>5. v.request.pull = p /\ comment[v.request.comment].created \in Nat
  BY <1>4 DEF RecordedInv, Remark
<1>6. /\ a.request = v.request /\ a.base = v.base /\ a.started = v.started
      /\ a.read = v.read
      /\ a.selection \in SelectScopes(v.records, v.base, v.request.head,
                                      Cardinality(Compare(v.base, v.request.head)))
  BY <1>2 DEF Contract
<1>7. a.read \in Nat \ {0} /\ v.started - comment[v.request.comment].created <= CommandAge
  <2>1. CommandAge \in Nat
    BY DEF AdmissionAssumption
  <2>2. a.read \in Nat \ {0}
    BY <1>4, <1>6, NowIsFacts
  <2> QED
    BY <1>3, <1>4, <1>5, <2>1, <2>2
<1> QED
  BY <1>2, <1>4, <1>5, <1>6, <1>7 DEF Founded

LEMMA AcceptKeeps ==
  ASSUME AdmissionAssumption, TypeOK, RunInv, RecordedInv, ClaimInv, AdmittedInv,
         ConsumedOnce, NEW p \in Pull, Accept(p)
  PROVE  ClaimInv' /\ AdmittedInv' /\ ConsumedOnce'
<1>1. active[p] \in Activity /\ active[p].step = "persist"
  BY DEF Accept, At, TypeOK
<1>2. /\ admitted' = admitted \cup Contract(p)
      /\ UNCHANGED <<clock, facts, comment, recorded, claims>>
      /\ Goto(p, "jobs")
  BY DEF Accept
<1>3. \A a \in Contract(p) : Founded(a) /\ Claim(a.request) = Claim(active[p].request)
  BY ContractIsFounded DEF Claim
<1>4. /\ Claim(active[p].request) \in claims
      /\ \A a \in admitted : Claim(a.request) # Claim(active[p].request)
  BY <1>1 DEF ClaimInv
<1>5. AdmittedInv'
  <2>1. \A a \in admitted' : Founded(a)
    BY <1>2, <1>3 DEF AdmittedInv
  <2> QED
    BY <1>2, <2>1 DEF AdmittedInv, Founded
<1>6. ConsumedOnce'
  <2>1. \A a, b \in Contract(p) : a = b
    BY OneSelection DEF Contract
  <2> QED
    BY <1>2, <1>3, <1>4, <2>1 DEF ConsumedOnce
<1>7. ClaimInv'
  <2>1. active'[p].step = "jobs"
    BY <1>1, <1>2, GotoEffect DEF Reading
  <2>2. ASSUME NEW q \in Pull, q # p, active'[q] \in Activity, active'[q].step = "persist"
        PROVE  /\ active'[q] = active[q]
               /\ Claim(active[q].request) # Claim(active[p].request)
    <3>1. active'[q] = active[q]
      BY <1>2, <2>2 DEF Goto, TypeOK
    <3> QED
      BY <1>1, <2>2, <3>1, ClaimsDiffer DEF Matched, Listed, Stable, Checked
  <2>3. \A q \in Pull : q # p => active'[q] = active[q]
    BY <1>2 DEF Goto, TypeOK
  <2> QED
    BY <1>2, <1>3, <1>4, <2>1, <2>2, <2>3 DEF ClaimInv
<1> QED
  BY <1>5, <1>6, <1>7

\* Every other step of a preflight leaves claims and contracts alone.
LEMMA ChecksKeep ==
  ASSUME NoneAssumption, CommitAssumption, TypeOK, TypeOK', RecordedInv, ClaimInv,
         AdmittedInv, ConsumedOnce, NEW p \in Pull, Preflight(p), ~PostClaim(p), ~Accept(p)
  PROVE  ClaimInv' /\ AdmittedInv' /\ ConsumedOnce'
<1>1. UNCHANGED <<clock, facts, comment, recorded, claims, admitted>>
  BY PreflightFrame
<1>2. AdmittedInv' /\ ConsumedOnce'
  BY <1>1 DEF AdmittedInv, Founded, ConsumedOnce
<1>3. \A q \in Pull : q # p => active'[q] = active[q]
  BY PreflightFrame DEF TypeOK
<1>4. ASSUME active'[p] \in Activity
      PROVE  /\ active'[p].step # "persist"
             /\ active'[p].step = "claim" => Claim(active'[p].request) \notin claims
  <2>1. CASE StartRun(p)
    BY <2>1, StartEffect
  <2>2. CASE ReadBefore(p) \/ ReadComparison(p) \/ ReadAfter(p)
    <3>1. active[p] \in Activity
      BY <2>2 DEF ReadBefore, ReadComparison, ReadAfter, At, TypeOK
    <3> QED
      BY <2>2, <3>1, BeforeEffect, ComparisonEffect, AfterEffect
  <2>3. CASE ListClaims(p)
    <3>1. active[p] \in Activity
      BY <2>3 DEF ListClaims, At, TypeOK
    <3>2. active'[p].step = "claim" /\ active'[p].request = active[p].request
      BY <2>3, <3>1, GotoEffect DEF ListClaims, Reading
    <3> QED
      BY <2>3, <3>2 DEF ListClaims, Claim
  <2>4. CASE ReadRun(p) \/ ReadArtifact(p) \/ ReadComment(p) \/ ReadPermission(p)
             \/ ReadEnvironments(p)
    <3>1. active[p] \in Activity
      BY <2>4
      DEF ReadRun, ReadArtifact, ReadComment, ReadPermission, ReadEnvironments, At, TypeOK
    <3>2. \E s \in {"artifact", "comment", "before", "environments", "list"} : Goto(p, s)
      BY <2>4 DEF ReadRun, ReadArtifact, ReadComment, ReadPermission, ReadEnvironments
    <3> QED
      BY <3>1, <3>2, GotoEffect DEF Reading
  <2>5. ~EndRun(p)
    BY <1>4, NoneAssumption DEF EndRun, TypeOK
  <2> QED
    BY <2>1, <2>2, <2>3, <2>4, <2>5 DEF Preflight
<1> QED
  BY <1>1, <1>2, <1>3, <1>4 DEF ClaimInv

-----------------------------------------------------------------------------
(* The theorems. *)

LEMMA NextInv ==
  ASSUME AdmissionAssumption, NoneAssumption, CommitAssumption, Inv, [Next]_vars
  PROVE  Inv'
<1> USE DEF Inv
<1>1. ASSUME NEW c \in Comment,
             \/ Post(c) \/ StartIntake(c) \/ RerunIntake(c) \/ RecordRequest(c)
             \/ SendRequest(c)
      PROVE  Inv'
  BY <1>1, IntakeSteps, IntakeKeepsRecords, OthersKeepRuns
<1>2. ASSUME ForeignDispatch PROVE Inv'
  BY <1>2, ForeignSteps, OthersKeepRecords, OthersKeepRuns DEF ForeignDispatch
<1>3. ASSUME Environment PROVE Inv'
  BY <1>3, EnvironmentSteps, OthersKeepRecords, OthersKeepRuns DEF Environment
<1>4. ASSUME NEW p \in Pull, Preflight(p) PROVE Inv'
  <2>1. TypeOK' /\ IntakeInv'
    BY <1>4, PreflightTypes
  <2>2. RunInv'
    BY <1>4, <2>1, PreflightKnows
  <2>3. RecordedInv'
    BY <1>4, PreflightFrame DEF RecordedInv
  <2>4. ClaimInv' /\ AdmittedInv' /\ ConsumedOnce'
    <3>1. CASE PostClaim(p)
      <4>1. UNCHANGED <<clock, facts, comment, recorded, admitted>>
        BY <3>1 DEF PostClaim
      <4> QED
        BY <3>1, <4>1, PostKeeps DEF AdmittedInv, Founded, ConsumedOnce
    <3>2. CASE Accept(p)
      BY <3>2, AcceptKeeps
    <3> QED
      BY <1>4, <2>1, <3>1, <3>2, ChecksKeep
  <2> QED
    BY <2>1, <2>2, <2>3, <2>4
<1>5. ASSUME UNCHANGED vars PROVE Inv'
  BY <1>5
  DEF vars, TypeOK, IntakeInv, RunInv, Knows, RecordedInv, ClaimInv, AdmittedInv, Founded,
      ConsumedOnce, Now
<1> QED
  BY <1>1, <1>2, <1>3, <1>4, <1>5 DEF Next

LEMMA Invariance == Spec => []Inv
<1>1. Init => Inv
  BY InitInv, AdmissionAssumption, NoneAssumption
<1>2. Inv /\ [Next]_vars => Inv'
  BY NextInv, AdmissionAssumption, NoneAssumption, CommitAssumption
<1> QED
  BY <1>1, <1>2, PTL DEF Spec

\* The state of the intake, of the dispatch and of every preflight is what the
\* code reads and writes, for any number of pull requests and comments.
THEOREM AdmissionTypeCorrect == Spec => []TypeOK
<1>1. Inv => TypeOK
  BY DEF Inv
<1> QED
  BY <1>1, Invariance, PTL

\* A comment is consumed once per head: the status a run posts before its
\* contract is written keeps every later run of that comment away, because the
\* runs of one pull request follow one another and a comment names one.
THEOREM CommandIsConsumedOnce == Spec => []ConsumedOnce
<1>1. Inv => ConsumedOnce
  BY DEF Inv
<1> QED
  BY <1>1, Invariance, PTL

\* Whoever dispatches a request, what is admitted is the command that the
\* author of the comment wrote, and may give.
THEOREM AdmittedIsTheComment == Spec => []AdmitsTheComment
<1>1. Inv => AdmitsTheComment
  BY DEF Inv, AdmittedInv, Founded, RecordedInv, AdmitsTheComment
<1> QED
  BY <1>1, Invariance, PTL

\* The two reads around the listing suffice: what a contract says of its pull
\* request was all true at one moment.
THEOREM ContractIsOfOneMoment == Spec => []AdmittedAtOneMoment
<1>1. Inv => AdmittedAtOneMoment
  BY DEF Inv, AdmittedInv, Founded, Sound, AdmittedAtOneMoment
<1> QED
  BY <1>1, Invariance, PTL

\* No command that had expired when its run started is admitted.
THEOREM ExpiredCommandIsRefused == Spec => []ExpiredIsRefused
<1>1. Inv => ExpiredIsRefused
  BY DEF Inv, AdmittedInv, Founded, ExpiredIsRefused
<1> QED
  BY <1>1, Invariance, PTL

\* Both ends of a rename are paths of the comparison: no file is the source of
\* a rename and its target.
LEMMA EveryTouchedPathIsListed ==
  ASSUME NEW b, NEW h, NEW p \in Touched(b, h)
  PROVE  p \in SnapshotPaths(Compare(b, h))
<1> DEFINE moved == {q \in Touched(b, h) : Source(b, h, q) # {}}
           sources == UNION {Source(b, h, q) : q \in moved}
<1>1. \A q \in Touched(b, h) \ sources :
        \E r \in Compare(b, h) : r.filename = q /\ r.previous = Source(b, h, q)
  <2> TAKE q \in Touched(b, h) \ sources
  <2> DEFINE old == Tree[MergeBase[<<b, h>>]]
             new == Tree[h]
             status == IF q \in moved THEN "renamed"
                       ELSE IF old[q] = Missing THEN "added"
                       ELSE IF new[q] = Missing THEN "removed" ELSE "modified"
             r == [filename |-> q, status |-> status, previous |-> Source(b, h, q)]
  <2>1. r \in Compare(b, h)
    BY Zenon DEF Compare
  <2>2. r.filename = q /\ r.previous = Source(b, h, q)
    OBVIOUS
  <2> HIDE DEF r
  <2> QED
    BY <2>1, <2>2
<1>2. CASE p \notin sources
  BY <1>1, <1>2 DEF SnapshotPaths, RecordPaths
<1>3. CASE p \in sources
  <2>1. PICK q \in moved : p \in Source(b, h, q)
    BY <1>3
  <2>2. q \notin sources
    <3>1. Tree[MergeBase[<<b, h>>]][q] = Missing
      BY <2>1 DEF Source
    <3>2. Tree[h][q] # Missing
      BY <2>1, <3>1 DEF Touched
    <3> QED
      BY <3>2 DEF Source
  <2> QED
    BY <1>1, <2>1, <2>2 DEF SnapshotPaths, RecordPaths
<1> QED
  BY <1>2, <1>3

LEMMA SelectionOfEveryPath ==
  ASSUME NEW l, NEW b, NEW h, NEW n, NEW s \in SelectScopes(l, b, h, n),
         NEW p \in SnapshotPaths(l)
  PROVE  /\ Classified(p)
         /\ \/ PathStacks(ClassOf[p]) \subseteq s.stacks
            \/ /\ p = TrustPath
               /\ <<b, h>> = <<TrustBase, TrustHead>>
               /\ "governance" \in s.stacks
         /\ p # TrustPath => PathValidations(ClassOf[p]) \subseteq s.validations
BY DEF SelectScopes, ReviewedCutover

\* For any files, classes and commits: an admitted contract selects what every
\* changed path asks for.
THEOREM EveryChangedPathIsCovered == Spec => []SelectionCovers
<1>1. Inv => SelectionCovers
  <2> SUFFICES ASSUME Inv, NEW a \in admitted, NEW p \in Touched(a.base, a.request.head)
               PROVE  /\ Classified(p)
                      /\ \/ PathStacks(ClassOf[p]) \subseteq a.selection.stacks
                         \/ /\ p = TrustPath
                            /\ <<a.base, a.request.head>> = <<TrustBase, TrustHead>>
                            /\ "governance" \in a.selection.stacks
                      /\ p # TrustPath =>
                           PathValidations(ClassOf[p]) \subseteq a.selection.validations
    BY DEF SelectionCovers
  <2>1. p \in SnapshotPaths(Compare(a.base, a.request.head))
    BY EveryTouchedPathIsListed
  <2>2. \E n : a.selection \in SelectScopes(Compare(a.base, a.request.head), a.base,
                                           a.request.head, n)
    BY DEF Inv, AdmittedInv, Founded
  <2> QED
    BY <2>1, <2>2, SelectionOfEveryPath
<1> QED
  BY <1>1, Invariance, PTL
-----------------------------------------------------------------------------
(* The selection from the paths alone: the workers take every path for a    *)
(* modified file, and come to the selection of the records.                 *)

Plain(paths) ==
  {[filename |-> p, status |-> "modified", previous |-> {}] : p \in paths}

\* There is one plain record for each path.
LEMMA PlainRecords ==
  ASSUME NEW paths, IsFiniteSet(paths)
  PROVE  Cardinality(Plain(paths)) = Cardinality(paths)
<1> DEFINE f == [p \in paths |-> [filename |-> p, status |-> "modified", previous |-> {}]]
<1>1. f \in [paths -> Plain(paths)]
  BY DEF Plain
<1>2. \A p, q \in paths : f[p] = f[q] => p = q
  OBVIOUS
<1>3. \A r \in Plain(paths) : \E p \in paths : f[p] = r
  BY DEF Plain
<1> HIDE DEF f
<1>4. f \in Bijection(paths, Plain(paths))
  BY <1>1, <1>2, <1>3, Fun_IsBij
<1>5. ExistsBijection(paths, Plain(paths))
  BY <1>4 DEF ExistsBijection
<1> QED
  BY <1>5, FS_Bijection

LEMMA PlainPaths ==
  ASSUME NEW paths
  PROVE  /\ SnapshotPaths(Plain(paths)) = paths
         /\ \A r, s \in Plain(paths) : r.filename = s.filename => r = s
         /\ \A r \in Plain(paths) : r.filename \notin r.previous
<1>1. \A r \in Plain(paths) : RecordPaths(r) = {r.filename} /\ r.filename \in paths
  BY DEF Plain, RecordPaths
<1>2. ASSUME NEW p \in paths PROVE \E r \in Plain(paths) : r.filename = p
  <2> DEFINE r == [filename |-> p, status |-> "modified", previous |-> {}]
  <2>1. r \in Plain(paths) /\ r.filename = p
    BY Zenon, <1>2 DEF Plain
  <2> QED
    BY <2>1
<1>3. SnapshotPaths(Plain(paths)) = paths
  BY <1>1, <1>2 DEF SnapshotPaths
<1>4. \A r, s \in Plain(paths) : r.filename = s.filename => r = s
  BY DEF Plain
<1>5. \A r \in Plain(paths) : r.filename \notin r.previous
  BY DEF Plain
<1> QED
  BY <1>3, <1>4, <1>5

\* What a comparison lists are paths of the repository.
LEMMA ListedPathsAreFinite ==
  ASSUME NEW b, NEW h
  PROVE  /\ SnapshotPaths(Compare(b, h)) \subseteq Path
         /\ IsFiniteSet(SnapshotPaths(Compare(b, h)))
<1>1. \A r \in Compare(b, h) : r.filename \in Path /\ r.previous \subseteq Path
  <2>1. \A p : Source(b, h, p) \subseteq Touched(b, h)
    BY DEF Source
  <2>2. \A r \in Compare(b, h) : \E p \in Touched(b, h) :
          r.filename = p /\ r.previous = Source(b, h, p)
    BY DEF Compare
  <2>3. Touched(b, h) \subseteq Path
    BY DEF Touched
  <2> QED
    BY <2>1, <2>2, <2>3
<1>2. SnapshotPaths(Compare(b, h)) \subseteq Path
  BY <1>1 DEF SnapshotPaths, RecordPaths
<1> QED
  BY <1>2, CutoverAssumption, FS_Subset

\* The reviewed comparison has as many records as paths.
LEMMA CutoverCounts ==
  LET files == Compare(TrustBase, TrustHead)
  IN  Cardinality(files) = Cardinality(SnapshotPaths(files))
<1> DEFINE files == Compare(TrustBase, TrustHead)
           f == [r \in files |-> r.filename]
<1>1. \A r \in files : r.previous = {}
  <2>1. \A r \in files : \E p \in Touched(TrustBase, TrustHead) :
          r.previous = Source(TrustBase, TrustHead, p)
    BY DEF Compare
  <2> QED
    BY <2>1, CutoverAssumption
<1>2. SnapshotPaths(files) = {r.filename : r \in files}
  BY <1>1 DEF SnapshotPaths, RecordPaths
<1>3. \A r, s \in files : r.filename = s.filename => r = s
  BY DEF Compare
<1>4. f \in [files -> SnapshotPaths(files)]
  BY <1>2
<1>5. \A r, s \in files : f[r] = f[s] => r = s
  BY <1>3
<1>6. \A p \in SnapshotPaths(files) : \E r \in files : f[r] = p
  BY <1>2
<1>7. IsFiniteSet(SnapshotPaths(files))
  BY ListedPathsAreFinite
<1> HIDE DEF f, files
<1>8. f \in Bijection(files, SnapshotPaths(files))
  BY <1>4, <1>5, <1>6, Fun_IsBij
<1>9. ExistsBijection(SnapshotPaths(files), files)
  <2>1. ExistsBijection(files, SnapshotPaths(files))
    BY <1>8 DEF ExistsBijection
  <2> QED
    BY <2>1, Fun_ExistsBijSymmetric
<1>10. Cardinality(files) = Cardinality(SnapshotPaths(files))
  BY <1>7, <1>9, FS_Bijection
<1> QED
  BY <1>10 DEF files

LEMMA SelectionOfPlainPaths ==
  ASSUME NEW b, NEW h,
         NEW s \in SelectScopes(Compare(b, h), b, h, Cardinality(Compare(b, h)))
  PROVE  SelectScopes(Plain(s.paths), b, h, Cardinality(s.paths)) = {s}
<1> DEFINE files == Compare(b, h)
           paths == SnapshotPaths(files)
<1>1. /\ s.paths = paths /\ b # h /\ Cardinality(files) > 0
      /\ \A p \in paths : Classified(p)
  BY DEF SelectScopes, SnapshotValid
<1>2. IsFiniteSet(paths)
  BY ListedPathsAreFinite
<1>3. Cardinality(paths) > 0
  <2>1. files # {}
    BY <1>1, FS_EmptySet
  <2>2. paths # {}
    BY <2>1 DEF SnapshotPaths, RecordPaths
  <2> QED
    BY <1>2, <2>2, FS_CardinalityType, FS_EmptySet
<1>4. SnapshotValid(Plain(paths), b, h, Cardinality(paths))
  BY <1>1, <1>2, <1>3, PlainRecords, PlainPaths DEF SnapshotValid
<1>5. ReviewedCutover(paths, b, h, Cardinality(paths))
        = ReviewedCutover(paths, b, h, Cardinality(files))
  BY CutoverCounts DEF ReviewedCutover
<1>6. SnapshotPaths(Plain(paths)) = paths
  BY PlainPaths
<1> QED
  BY <1>1, <1>4, <1>5, <1>6 DEF SelectScopes

\* The worker recomputes the selection of an admitted contract from its paths
\* and finds the same one, renames and the reviewed comparison included.
THEOREM AdmittedSelectionIsCanonical == Spec => []SelectionIsCanonical
<1>1. Inv => SelectionIsCanonical
  <2> SUFFICES ASSUME Inv, NEW a \in admitted
               PROVE  SelectScopes(Plain(a.selection.paths), a.base, a.request.head,
                                   Cardinality(a.selection.paths)) = {a.selection}
    BY Zenon DEF SelectionIsCanonical, Plain
  <2>1. a.selection \in SelectScopes(Compare(a.base, a.request.head), a.base, a.request.head,
                                     Cardinality(Compare(a.base, a.request.head)))
    BY DEF Inv, AdmittedInv, Founded
  <2> QED
    BY <2>1, SelectionOfPlainPaths
<1> QED
  BY <1>1, Invariance, PTL
=============================================================================
