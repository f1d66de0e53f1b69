--------------------- MODULE PromotionPublication_proofs ---------------------
(***************************************************************************)
(* Theorems about the publication of a promotion.                          *)
(*                                                                         *)
(* The stores only grow and a request arrives at most once, so what a job  *)
(* has read back stays recorded; every status, sent or still under way,    *)
(* names a run whose records were complete when it was written.            *)
(***************************************************************************)
EXTENDS PromotionPublication, TLAPS

USE DEF store, jobs, world

-----------------------------------------------------------------------------
(* The writes of a job. *)

Length(j) == IF j \in Publisher THEN 5 ELSE 1

LEMMA WorkLength ==
  ASSUME NEW j \in Job PROVE Len(Work(j)) = Length(j)
BY DEF Work, Length

LEMMA WorkOfPublisher ==
  ASSUME NEW q \in Publisher
  PROVE  /\ Work(q)[1] = <<"deployment", q, "test">>
         /\ Work(q)[2] = <<"outcome", q, "test">>
         /\ Work(q)[3] = <<"deployment", q, "prod">>
         /\ Work(q)[4] = <<"outcome", q, "prod">>
         /\ Work(q)[5] = <<"status", PullOf[q], q>>
BY DEF Work

LEMMA WorkOfReporter ==
  ASSUME NEW j \in Reporter
  PROVE  Work(j)[1] = <<"status", PullOf[j], intent[j]>>
BY JobAssumption DEF Work

AtInv == \A j \in Job : at[j] \in 1..Length(j)

LEMMA WriteIsRequest ==
  ASSUME TypeOK, AtInv, NEW j \in Job
  PROVE  Write(j) \in Request
<1>1. CASE j \in Publisher
  <2>1. PullOf[j] \in PR
    BY PullOfAssumption
  <2>2. at[j] \in 1..5
    BY <1>1 DEF AtInv, Length
  <2>3. at[j] \in {1, 2, 3, 4, 5}
    BY <2>2
  <2> QED
    BY <1>1, <2>1, <2>3, WorkOfPublisher DEF Write, Request, Account
<1>2. CASE j \notin Publisher
  <2>1. PullOf[j] \in PR /\ j \in Reporter
    BY <1>2, PullOfAssumption DEF Job
  <2>2. at[j] = 1
    BY <1>2 DEF AtInv, Length
  <2>3. Write(j) = <<"status", PullOf[j], intent[j]>>
    BY <2>1, <2>2, WorkOfReporter DEF Write
  <2>4. intent[j] \in Publisher \cup {NoRun}
    BY DEF TypeOK
  <2> QED
    BY <2>1, <2>3, <2>4 DEF Request
<1> QED
  BY <1>1, <1>2

LEMMA AdvanceEffect ==
  ASSUME TypeOK, AtInv, NEW j \in Job, Advance(j)
  PROVE  /\ pc' \in [Job -> Pc] /\ at' \in [Job -> 1..5] /\ AtInv'
         /\ \A k \in Job \ {j} : pc'[k] = pc[k] /\ at'[k] = at[k]
         /\ at[j] = Length(j) => at'[j] = at[j] /\ pc'[j] = "confirm"
         /\ at[j] < Length(j) =>
              at'[j] = at[j] + 1 /\ pc'[j] \in {"check", "look"}
<1>1. Len(Work(j)) = Length(j)
  BY WorkLength
<1>2. at[j] \in 1..Length(j) /\ Length(j) \in {1, 5}
  BY DEF AtInv, Length
<1> QED
  BY <1>1, <1>2 DEF Advance, TypeOK, AtInv, Pc, Active, Length

-----------------------------------------------------------------------------
(* Arriving requests. *)

Posted(x) == \E i \in DOMAIN statuses : statuses[i] = x

StoreTypes ==
  /\ deployments \in Seq(Publisher \X Account)
  /\ outcomes \subseteq Publisher \X Account
  /\ statuses \in Seq(PR \X (Publisher \cup {NoRun}))

LEMMA ArriveDeployment ==
  ASSUME StoreTypes, NEW q \in Publisher, NEW a \in Account,
         Arrive(<<"deployment", q, a>>)
  PROVE  /\ StoreTypes'
         /\ outcomes' = outcomes /\ statuses' = statuses
         /\ Found(q, a)' = Found(q, a) \cup {Len(deployments) + 1}
         /\ \A r \in Publisher, b \in Account :
              <<r, b>> # <<q, a>> => Found(r, b)' = Found(r, b)
<1>1. deployments' = Append(deployments, <<q, a>>)
      /\ outcomes' = outcomes /\ statuses' = statuses
  BY DEF Arrive
<1>2. StoreTypes'
  BY <1>1 DEF StoreTypes
<1>3. DOMAIN deployments = 1..Len(deployments)
      /\ Len(deployments) \in Nat
      /\ DOMAIN deployments' = 1..(Len(deployments) + 1)
  BY <1>1 DEF StoreTypes
<1>4. deployments'[Len(deployments) + 1] = <<q, a>>
      /\ \A i \in 1..Len(deployments) : deployments'[i] = deployments[i]
  BY <1>1 DEF StoreTypes
<1>5. 1..(Len(deployments) + 1)
        = (1..Len(deployments)) \cup {Len(deployments) + 1}
  BY <1>3
<1>6. Found(q, a)' = Found(q, a) \cup {Len(deployments) + 1}
  BY <1>3, <1>4, <1>5 DEF Found
<1>7. \A r \in Publisher, b \in Account :
        <<r, b>> # <<q, a>> => Found(r, b)' = Found(r, b)
  BY <1>3, <1>4, <1>5 DEF Found
<1> QED
  BY <1>1, <1>2, <1>6, <1>7

LEMMA ArriveOutcome ==
  ASSUME StoreTypes, NEW q \in Publisher, NEW a \in Account,
         Arrive(<<"outcome", q, a>>)
  PROVE  /\ StoreTypes'
         /\ outcomes' = outcomes \cup {<<q, a>>}
         /\ deployments' = deployments /\ statuses' = statuses
BY DEF Arrive, StoreTypes

LEMMA ArriveStatus ==
  ASSUME StoreTypes, NEW p \in PR, NEW run \in Publisher \cup {NoRun},
         Arrive(<<"status", p, run>>)
  PROVE  /\ StoreTypes'
         /\ deployments' = deployments /\ outcomes' = outcomes
         /\ statuses' # <<>> /\ statuses'[Len(statuses')] = <<p, run>>
         /\ \A x : Posted(x) => Posted(x)'
<1>1. statuses' = Append(statuses, <<p, run>>)
      /\ deployments' = deployments /\ outcomes' = outcomes
  BY DEF Arrive
<1>2. StoreTypes'
  BY <1>1 DEF StoreTypes
<1>3. Len(statuses') = Len(statuses) + 1 /\ Len(statuses) \in Nat
      /\ DOMAIN statuses = 1..Len(statuses)
      /\ DOMAIN statuses' = 1..(Len(statuses) + 1)
  BY <1>1 DEF StoreTypes
<1>4. statuses'[Len(statuses) + 1] = <<p, run>>
      /\ \A i \in 1..Len(statuses) : statuses'[i] = statuses[i]
  BY <1>1 DEF StoreTypes
<1>5. \A x : Posted(x) => Posted(x)'
  BY <1>3, <1>4 DEF Posted
<1>6. statuses' # <<>>
  BY <1>3
<1> QED
  BY <1>1, <1>2, <1>3, <1>4, <1>5, <1>6

LEMMA VisibleCases ==
  ASSUME NEW x, NEW y
  PROVE  /\ Visible(<<"deployment", x, y>>) = Exactly1(Found(x, y))
         /\ Visible(<<"outcome", x, y>>) = (<<x, y>> \in outcomes)
         /\ Visible(<<"status", x, y>>) =
              (statuses # <<>> /\ statuses[Len(statuses)] = <<x, y>>)
BY DEF Visible

LEMMA RequestCases ==
  ASSUME NEW m \in Request
  PROVE  \/ \E q \in Publisher, a \in Account : m = <<"deployment", q, a>>
         \/ \E q \in Publisher, a \in Account : m = <<"outcome", q, a>>
         \/ \E p \in PR, run \in Publisher \cup {NoRun} :
              m = <<"status", p, run>>
BY DEF Request

LEMMA ArriveGrows ==
  ASSUME StoreTypes, NEW m \in Request, Arrive(m)
  PROVE  /\ StoreTypes'
         /\ \A q \in Publisher, a \in Account :
              /\ Found(q, a) \subseteq Found(q, a)'
              /\ <<q, a>> \in outcomes => <<q, a>> \in outcomes'
         /\ \A x : Posted(x) => Posted(x)'
<1>1. ASSUME NEW q \in Publisher, NEW a \in Account,
             m = <<"deployment", q, a>>
      PROVE  StoreTypes' /\ outcomes' = outcomes /\ statuses' = statuses
             /\ \A r \in Publisher, b \in Account :
                  Found(r, b) \subseteq Found(r, b)'
  BY <1>1, ArriveDeployment
<1>2. ASSUME NEW q \in Publisher, NEW a \in Account, m = <<"outcome", q, a>>
      PROVE  StoreTypes' /\ deployments' = deployments
             /\ outcomes \subseteq outcomes' /\ statuses' = statuses
  BY <1>2, ArriveOutcome
<1>3. ASSUME NEW p \in PR, NEW run \in Publisher \cup {NoRun},
             m = <<"status", p, run>>
      PROVE  StoreTypes' /\ deployments' = deployments /\ outcomes' = outcomes
             /\ \A x : Posted(x) => Posted(x)'
  BY <1>3, ArriveStatus
<1>4. deployments' = deployments =>
        \A q \in Publisher, a \in Account : Found(q, a)' = Found(q, a)
  BY DEF Found
<1>5. statuses' = statuses => \A x : Posted(x) => Posted(x)'
  BY DEF Posted
<1> QED
  BY <1>1, <1>2, <1>3, <1>4, <1>5, RequestCases
-----------------------------------------------------------------------------
(* Types. *)

LEMMA TypesPreserved ==
  ASSUME TypeOK, AtInv, [Next]_vars PROVE TypeOK' /\ AtInv'
<1> USE DEF TypeOK
<1>1. StoreTypes
  BY DEF StoreTypes
<1>2. ASSUME NEW j \in Job, NEW state \in Pc, Goto(j, state)
      PROVE  pc' \in [Job -> Pc]
  BY <1>2 DEF Goto
<1>3. ASSUME UNCHANGED vars PROVE TypeOK' /\ AtInv'
  BY <1>3 DEF vars, AtInv
<1>4. ASSUME NEW j \in Job, Join(j) PROVE TypeOK' /\ AtInv'
  BY <1>4 DEF Join, AtInv, Pc, Active, Ended
<1>5. ASSUME NEW j \in Job, Begin(j) PROVE TypeOK' /\ AtInv'
  <2>1. "look" \in Pc
    BY DEF Pc, Active
  <2>2. intent' \in [Job -> Publisher \cup {NoRun}]
    BY <1>5 DEF Begin
  <2> QED
    BY <2>1, <2>2, <1>2, <1>5 DEF Begin, AtInv
<1>6. ASSUME NEW j \in Job, Look(j) PROVE TypeOK' /\ AtInv'
  <2>1. "authorize" \in Pc
    BY DEF Pc, Active
  <2>2. CASE Visible(Write(j))
    BY <2>2, <1>6, AdvanceEffect DEF Look
  <2>3. CASE ~ Visible(Write(j))
    BY <2>1, <2>3, <1>2, <1>6 DEF Look, AtInv
  <2> QED
    BY <2>2, <2>3
<1>7. ASSUME NEW j \in Job, Authorize(j) PROVE TypeOK' /\ AtInv'
  BY <1>7, <1>2 DEF Authorize, AtInv, Pc, Active
<1>8. ASSUME NEW j \in Job, Send(j) PROVE TypeOK' /\ AtInv'
  <2>1. Write(j) \in Request
    BY WriteIsRequest
  <2>2. "readback" \in Pc
    BY DEF Pc, Active
  <2>3. pc' \in [Job -> Pc] /\ AtInv'
    BY <1>2, <1>8, <2>2 DEF Send, AtInv
  <2>4. StoreTypes'
    BY <1>1, <1>8, <2>1, ArriveGrows DEF Send, StoreTypes
  <2>5. Len(statuses') \in Nat
    BY <2>4 DEF StoreTypes
  <2>6. answer' \in [Job -> Nat]
    <3>1. \E n \in {0, Len(statuses')} : answer' = [answer EXCEPT ![j] = n]
      BY <1>8 DEF Send
    <3> QED
      BY <3>1, <2>5
  <2>7. inflight' \subseteq Request
    BY <1>8, <2>1 DEF Send
  <2> QED
    BY <1>8, <2>3, <2>4, <2>6, <2>7 DEF Send, StoreTypes
<1>9. ASSUME NEW j \in Job, Readback(j) PROVE TypeOK' /\ AtInv'
  BY <1>9, AdvanceEffect DEF Readback
<1>10. ASSUME NEW j \in Job, Check(j) PROVE TypeOK' /\ AtInv'
  BY <1>10, <1>2 DEF Check, AtInv, Pc, Active
<1>11. ASSUME NEW j \in Job, Confirm(j) PROVE TypeOK' /\ AtInv'
  BY <1>11, <1>2 DEF Confirm, AtInv, Pc, Ended
<1>12. ASSUME NEW j \in Job, Fail(j) PROVE TypeOK' /\ AtInv'
  BY <1>12, <1>2 DEF Fail, AtInv, Pc, Ended
<1>13. ASSUME NEW m \in inflight, Deliver(m) PROVE TypeOK' /\ AtInv'
  <2>1. StoreTypes'
    BY <1>1, <1>13, ArriveGrows DEF Deliver
  <2> QED
    BY <2>1, <1>13 DEF Deliver, StoreTypes, AtInv
<1>14. ASSUME NEW q \in Publisher, Conclude(q) PROVE TypeOK' /\ AtInv'
  BY <1>14 DEF Conclude, AtInv
<1>15. ASSUME NEW q \in Publisher, ChangeEvidence(q)
       PROVE  TypeOK' /\ AtInv'
  BY <1>15 DEF ChangeEvidence, AtInv
<1> QED
  BY <1>3, <1>4, <1>5, <1>6, <1>7, <1>8, <1>9, <1>10, <1>11, <1>12, <1>13,
     <1>14, <1>15 DEF Next, Step

LEMMA TypesInit ==
  ASSUME Init PROVE TypeOK /\ AtInv
<1>1. <<>> \in Seq(Publisher \X Account)
      /\ <<>> \in Seq(PR \X (Publisher \cup {NoRun}))
  OBVIOUS
<1> QED
  BY <1>1 DEF Init, TypeOK, AtInv, Length, Pc

\* The variables keep their types, for any set of jobs and pull requests.
THEOREM PublicationTypeCorrect == Spec => []TypeOK
<1>1. Init => TypeOK /\ AtInv
  BY TypesInit
<1>2. TypeOK /\ AtInv /\ [Next]_vars => (TypeOK /\ AtInv)'
  BY TypesPreserved
<1> QED
  BY <1>1, <1>2, PTL DEF Spec

-----------------------------------------------------------------------------
(* Records. *)

Index(a) == IF a = "test" THEN 1 ELSE 3

\* The deployment of the account has not been sent.
Unsent(q, a) ==
  \/ at[q] < Index(a)
  \/ at[q] = Index(a)
     /\ pc[q] \in {"idle", "queued", "look", "check", "authorize", "send"}

RecordOf(q, a) ==
  /\ Unsent(q, a) => Found(q, a) = {}
  /\ <<"deployment", q, a>> \in inflight =>
       Found(q, a) = {} /\ ~ Unsent(q, a)
  /\ \A i, k \in Found(q, a) : i = k
  /\ at[q] > Index(a) => Found(q, a) # {}
  /\ at[q] > Index(a) + 1 => <<q, a>> \in outcomes
  /\ <<q, a>> \in outcomes \/ <<"outcome", q, a>> \in inflight =>
       Found(q, a) # {}

RecordInv == \A q \in Publisher, a \in Account : RecordOf(q, a)

\* Steps that leave the store alone.
LEMMA QuietRecords ==
  ASSUME TypeOK, AtInv, RecordInv, UNCHANGED <<store, inflight>>,
         \A q \in Publisher : at'[q] = at[q],
         \A q \in Publisher, a \in Account : Unsent(q, a)' => Unsent(q, a)
  PROVE  RecordInv'
<1>1. \A q \in Publisher, a \in Account : Found(q, a)' = Found(q, a)
  BY DEF Found
<1> SUFFICES ASSUME NEW q \in Publisher, NEW a \in Account
             PROVE  RecordOf(q, a)'
  BY DEF RecordInv
<1>2. RecordOf(q, a)
  BY DEF RecordInv
<1> QED
  BY <1>1, <1>2 DEF RecordOf

\* A job goes on once its write is visible.
LEMMA AdvanceRecords ==
  ASSUME TypeOK, AtInv, RecordInv, NEW j \in Job, Advance(j),
         Visible(Write(j)), pc[j] \in {"look", "readback"},
         UNCHANGED <<store, inflight>>
  PROVE  RecordInv'
<1>1. \A q \in Publisher, a \in Account : Found(q, a)' = Found(q, a)
  BY DEF Found
<1>2. CASE j \notin Publisher
  <2>1. \A q \in Publisher : at'[q] = at[q] /\ pc'[q] = pc[q]
    BY <1>2, AdvanceEffect DEF Job
  <2> QED
    BY <2>1, QuietRecords DEF Unsent
<1>3. CASE j \in Publisher
  <2>1. \A q \in Publisher \ {j} : at'[q] = at[q] /\ pc'[q] = pc[q]
    BY AdvanceEffect DEF Job
  <2>2. at[j] \in {1, 2, 3, 4, 5} /\ Length(j) = 5
    BY <1>3 DEF AtInv, Length
  <2>3. at'[j] = at[j] + 1 \/ (at'[j] = at[j] /\ at[j] = 5)
    <3>1. at[j] < 5 => at'[j] = at[j] + 1
      BY <2>2, AdvanceEffect
    <3>2. at[j] = 5 => at'[j] = at[j]
      BY <2>2, AdvanceEffect
    <3> QED
      BY <2>2, <3>1, <3>2
  <2>4. /\ at[j] = 1 => Found(j, "test") # {}
        /\ at[j] = 2 => <<j, "test">> \in outcomes
        /\ at[j] = 3 => Found(j, "prod") # {}
        /\ at[j] = 4 => <<j, "prod">> \in outcomes
    <3>1. /\ at[j] = 1 => Exactly1(Found(j, "test"))
          /\ at[j] = 2 => <<j, "test">> \in outcomes
          /\ at[j] = 3 => Exactly1(Found(j, "prod"))
          /\ at[j] = 4 => <<j, "prod">> \in outcomes
      <4>1. /\ at[j] = 1 => Write(j) = <<"deployment", j, "test">>
            /\ at[j] = 2 => Write(j) = <<"outcome", j, "test">>
            /\ at[j] = 3 => Write(j) = <<"deployment", j, "prod">>
            /\ at[j] = 4 => Write(j) = <<"outcome", j, "prod">>
        BY <1>3, WorkOfPublisher DEF Write
      <4> QED
        BY <4>1, VisibleCases
    <3> QED
      BY <3>1 DEF Exactly1
  <2>5. ASSUME NEW q \in Publisher, q # j, NEW a \in Account
        PROVE  /\ Unsent(q, a)' = Unsent(q, a)
               /\ at'[q] = at[q]
    BY <2>1, <2>5 DEF Unsent
  <2>6. ASSUME NEW a \in Account
        PROVE  /\ Unsent(j, a)' => Unsent(j, a)
               /\ at'[j] > Index(a) => Found(j, a) # {}
               /\ at'[j] > Index(a) + 1 => <<j, a>> \in outcomes
    <3>1. a \in {"test", "prod"}
      BY DEF Account
    <3>2. /\ at[j] > Index(a) => Found(j, a) # {}
          /\ at[j] > Index(a) + 1 => <<j, a>> \in outcomes
      BY <1>3 DEF RecordInv, RecordOf
    <3>3. Unsent(j, a)' => Unsent(j, a)
      BY <2>2, <2>3, <3>1 DEF Unsent, Index
    <3>4. at'[j] > Index(a) => Found(j, a) # {}
      BY <2>2, <2>3, <2>4, <3>1, <3>2 DEF Index
    <3>5. at'[j] > Index(a) + 1 => <<j, a>> \in outcomes
      BY <2>2, <2>3, <2>4, <3>1, <3>2 DEF Index
    <3> QED
      BY <3>3, <3>4, <3>5
  <2> SUFFICES ASSUME NEW q \in Publisher, NEW a \in Account
               PROVE  RecordOf(q, a)'
    BY DEF RecordInv
  <2>7. RecordOf(q, a)
    BY DEF RecordInv
  <2> QED
    BY <1>1, <2>5, <2>6, <2>7 DEF RecordOf
<1> QED
  BY <1>2, <1>3
\* A request arrives, from its job or late.
LEMMA ArriveRecords ==
  ASSUME StoreTypes, RecordInv, NEW m \in Request, Arrive(m),
         \A q \in Publisher : at'[q] = at[q],
         \A q \in Publisher, a \in Account : Unsent(q, a)' => Unsent(q, a),
         inflight' \subseteq inflight,
         \A q \in Publisher, a \in Account :
           /\ m = <<"deployment", q, a>> =>
                m \notin inflight' /\ Found(q, a) = {} /\ ~ Unsent(q, a)'
           /\ m = <<"outcome", q, a>> => Found(q, a) # {}
  PROVE  RecordInv'
<1> SUFFICES ASSUME NEW q \in Publisher, NEW a \in Account
             PROVE  RecordOf(q, a)'
  BY DEF RecordInv
<1>1. RecordOf(q, a)
  BY DEF RecordInv
<1>2. deployments' = deployments => Found(q, a)' = Found(q, a)
  BY DEF Found
<1>3. ASSUME NEW r \in Publisher, NEW b \in Account,
             m = <<"deployment", r, b>>
      PROVE  RecordOf(q, a)'
  <2>1. /\ outcomes' = outcomes
        /\ Found(r, b)' = Found(r, b) \cup {Len(deployments) + 1}
        /\ <<q, a>> # <<r, b>> => Found(q, a)' = Found(q, a)
    BY <1>3, ArriveDeployment
  <2>2. m \notin inflight' /\ Found(r, b) = {} /\ ~ Unsent(r, b)'
    BY <1>3
  <2>3. CASE <<q, a>> = <<r, b>>
    <3>1. Found(q, a)' = {Len(deployments) + 1} /\ ~ Unsent(q, a)'
      BY <2>1, <2>2, <2>3
    <3>2. <<"deployment", q, a>> \notin inflight'
      BY <1>3, <2>2, <2>3
    <3> QED
      BY <1>1, <2>1, <3>1, <3>2 DEF RecordOf
  <2>4. CASE <<q, a>> # <<r, b>>
    BY <1>1, <2>1, <2>4 DEF RecordOf
  <2> QED
    BY <2>3, <2>4
<1>4. ASSUME NEW r \in Publisher, NEW b \in Account,
             m = <<"outcome", r, b>>
      PROVE  RecordOf(q, a)'
  <2>1. outcomes' = outcomes \cup {<<r, b>>} /\ deployments' = deployments
    BY <1>4, ArriveOutcome
  <2>2. Found(r, b) # {}
    BY <1>4
  <2>3. <<q, a>> = <<r, b>> => Found(q, a) # {}
    BY <2>2
  <2> QED
    BY <1>1, <1>2, <2>1, <2>3 DEF RecordOf
<1>5. ASSUME NEW p \in PR, NEW run \in Publisher \cup {NoRun},
             m = <<"status", p, run>>
      PROVE  RecordOf(q, a)'
  <2>1. outcomes' = outcomes /\ deployments' = deployments
    BY <1>5, ArriveStatus
  <2> QED
    BY <1>1, <1>2, <2>1 DEF RecordOf
<1> QED
  BY <1>3, <1>4, <1>5, RequestCases

\* What is known of the records when a job sends one.
LEMMA WriterOfRecord ==
  ASSUME TypeOK, AtInv, RecordInv, NEW j \in Job, pc[j] = "send",
         NEW q \in Publisher, NEW a \in Account
  PROVE  /\ Write(j) = <<"deployment", q, a>> =>
              /\ q = j /\ at[q] = Index(a)
              /\ Write(j) \notin inflight /\ Found(q, a) = {}
              /\ <<q, a>> \notin outcomes
         /\ Write(j) = <<"outcome", q, a>> => Found(q, a) # {}
<1>0. RecordOf(q, a)
  BY DEF RecordInv
<1>1. CASE j \in Publisher
  <2>1. at[j] \in {1, 2, 3, 4, 5}
    BY <1>1 DEF AtInv, Length
  <2>2. ASSUME Write(j) = <<"deployment", q, a>>
        PROVE  q = j /\ at[q] = Index(a) /\ Unsent(q, a)
    BY <1>1, <2>1, <2>2, WorkOfPublisher DEF Write, Index, Unsent
  <2>3. ASSUME Write(j) = <<"outcome", q, a>>
        PROVE  at[q] = Index(a) + 1 /\ Index(a) \in {1, 3}
    BY <1>1, <2>1, <2>3, WorkOfPublisher DEF Write, Index
  <2> QED
    BY <1>0, <2>2, <2>3 DEF RecordOf
<1>2. CASE j \notin Publisher
  <2>1. j \in Reporter /\ at[j] = 1
    BY <1>2 DEF AtInv, Length, Job
  <2>2. Write(j) = <<"status", PullOf[j], intent[j]>>
    BY <2>1, WorkOfReporter DEF Write
  <2> QED
    BY <2>2
<1> QED
  BY <1>1, <1>2

LEMMA SendRecords ==
  ASSUME TypeOK, AtInv, RecordInv, NEW j \in Job, Send(j)
  PROVE  RecordInv'
<1> DEFINE m == Write(j)
<1>1. m \in Request
  BY WriteIsRequest
<1>2. StoreTypes
  BY DEF StoreTypes, TypeOK
<1>3. pc[j] = "send" /\ pc' = [pc EXCEPT ![j] = "readback"] /\ at' = at
  BY DEF Send, Goto
<1>4. \A q \in Publisher, a \in Account : Unsent(q, a)' => Unsent(q, a)
  BY <1>3 DEF Unsent, TypeOK, Job
<1>5. ASSUME NEW q \in Publisher, NEW a \in Account,
             m = <<"deployment", q, a>>
      PROVE  m \notin inflight /\ Found(q, a) = {} /\ ~ Unsent(q, a)'
  <2>1. q = j /\ at[q] = Index(a) /\ m \notin inflight /\ Found(q, a) = {}
    BY <1>3, <1>5, WriterOfRecord
  <2>2. pc'[q] = "readback" /\ at'[q] = Index(a)
    BY <1>3, <2>1 DEF TypeOK
  <2> QED
    BY <2>1, <2>2 DEF Unsent, Index
<1>6. ASSUME NEW q \in Publisher, NEW a \in Account,
             m = <<"outcome", q, a>>
      PROVE  Found(q, a) # {}
  BY <1>3, <1>6, WriterOfRecord
<1>8. CASE Arrive(m) /\ UNCHANGED inflight
  BY <1>1, <1>2, <1>3, <1>4, <1>5, <1>6, <1>8, ArriveRecords
<1>9. CASE UNCHANGED <<store, inflight>>
  BY <1>3, <1>4, <1>9, QuietRecords
<1>10. CASE inflight' = inflight \cup {m} /\ UNCHANGED store
  <2> SUFFICES ASSUME NEW q \in Publisher, NEW a \in Account
               PROVE  RecordOf(q, a)'
    BY DEF RecordInv
  <2>1. RecordOf(q, a)
    BY DEF RecordInv
  <2>2. Found(q, a)' = Found(q, a) /\ outcomes' = outcomes /\ at'[q] = at[q]
    BY <1>3, <1>10 DEF Found
  <2>3. <<"deployment", q, a>> \in inflight' =>
          Found(q, a) = {} /\ ~ Unsent(q, a)'
    BY <1>4, <1>5, <1>10, <2>1 DEF RecordOf
  <2>4. <<"outcome", q, a>> \in inflight' => Found(q, a) # {}
    BY <1>6, <1>10, <2>1 DEF RecordOf
  <2> QED
    BY <1>4, <2>1, <2>2, <2>3, <2>4 DEF RecordOf
<1> QED
  BY <1>8, <1>9, <1>10 DEF Send

LEMMA DeliverRecords ==
  ASSUME TypeOK, AtInv, RecordInv, NEW m \in inflight, Deliver(m)
  PROVE  RecordInv'
<1>1. m \in Request
  BY DEF TypeOK
<1>2. StoreTypes
  BY DEF StoreTypes, TypeOK
<1>3. inflight' = inflight \ {m} /\ Arrive(m) /\ pc' = pc /\ at' = at
  BY DEF Deliver
<1>4. \A q \in Publisher, a \in Account : Unsent(q, a)' = Unsent(q, a)
  BY <1>3 DEF Unsent
<1>5. \A q \in Publisher, a \in Account :
        /\ m = <<"deployment", q, a>> => Found(q, a) = {} /\ ~ Unsent(q, a)'
        /\ m = <<"outcome", q, a>> => Found(q, a) # {}
  BY <1>4 DEF RecordInv, RecordOf
<1> QED
  BY <1>1, <1>2, <1>3, <1>4, <1>5, ArriveRecords

\* A job changes its state only.
LEMMA LocalRecords ==
  ASSUME TypeOK, AtInv, RecordInv, UNCHANGED <<store, inflight>>, at' = at,
         NEW j \in Job, NEW state \in Pc, Goto(j, state),
         \/ state \notin {"idle", "queued", "look", "check", "authorize", "send"}
         \/ pc[j] \in {"idle", "queued", "look", "check", "authorize", "send"}
  PROVE  RecordInv'
<1>1. ASSUME NEW q \in Publisher, NEW a \in Account, Unsent(q, a)'
      PROVE  Unsent(q, a)
  <2>1. pc'[q] = IF q = j THEN state ELSE pc[q]
    BY DEF Goto, TypeOK, Job
  <2> QED
    BY <1>1, <2>1 DEF Unsent
<1> QED
  BY <1>1, QuietRecords

LEMMA RecordsPreserved ==
  ASSUME TypeOK, AtInv, RecordInv, [Next]_vars PROVE RecordInv'
<1>1. ASSUME UNCHANGED vars PROVE RecordInv'
  BY <1>1, QuietRecords DEF vars, Unsent
<1>2. ASSUME NEW j \in Job, Join(j) PROVE RecordInv'
  <2>1. ASSUME NEW q \in Publisher, NEW a \in Account, Unsent(q, a)'
        PROVE  Unsent(q, a)
    <3>1. pc'[q] = pc[q] \/ pc[q] = "idle" \/ pc'[q] = "displaced"
      BY <1>2 DEF Join, Job
    <3> QED
      BY <1>2, <2>1, <3>1 DEF Unsent, Join
  <2> QED
    BY <1>2, <2>1, QuietRecords DEF Join
<1>3. ASSUME NEW j \in Job, Begin(j) PROVE RecordInv'
  BY <1>3, LocalRecords DEF Begin, Pc, Active
<1>4. ASSUME NEW j \in Job, Look(j) PROVE RecordInv'
  <2>1. CASE Visible(Write(j))
    BY <1>4, <2>1, AdvanceRecords DEF Look
  <2>2. CASE ~ Visible(Write(j))
    BY <1>4, <2>2, LocalRecords DEF Look, Pc, Active
  <2> QED
    BY <2>1, <2>2
<1>5. ASSUME NEW j \in Job, Authorize(j) PROVE RecordInv'
  BY <1>5, LocalRecords DEF Authorize, Pc, Active
<1>6. ASSUME NEW j \in Job, Send(j) PROVE RecordInv'
  BY <1>6, SendRecords
<1>7. ASSUME NEW j \in Job, Readback(j) PROVE RecordInv'
  BY <1>7, AdvanceRecords DEF Readback
<1>8. ASSUME NEW j \in Job, Check(j) PROVE RecordInv'
  BY <1>8, LocalRecords DEF Check, Pc, Active
<1>9. ASSUME NEW j \in Job, Confirm(j) PROVE RecordInv'
  BY <1>9, LocalRecords DEF Confirm, Pc, Ended
<1>10. ASSUME NEW j \in Job, Fail(j) PROVE RecordInv'
  BY <1>10, LocalRecords DEF Fail, Pc, Ended
<1>11. ASSUME NEW m \in inflight, Deliver(m) PROVE RecordInv'
  BY <1>11, DeliverRecords
<1>12. ASSUME NEW q \in Publisher, Conclude(q) \/ ChangeEvidence(q)
       PROVE  RecordInv'
  BY <1>12, QuietRecords DEF Conclude, ChangeEvidence, Unsent
<1> QED
  BY <1>1, <1>2, <1>3, <1>4, <1>5, <1>6, <1>7, <1>8, <1>9, <1>10, <1>11,
     <1>12 DEF Next, Step

LEMMA RecordsInit == ASSUME Init PROVE RecordInv
<1>1. \A q \in Publisher, a \in Account : Found(q, a) = {}
  BY DEF Init, Found
<1> QED
  BY <1>1 DEF Init, RecordInv, RecordOf, Index, Job

\* A run never creates a second deployment record of an account, whatever
\* becomes of the requests and of their answers.
THEOREM DeploymentsRecordedOnce == Spec => []NoDuplicateDeployment
<1>1. Init => TypeOK /\ AtInv /\ RecordInv
  BY TypesInit, RecordsInit
<1>2. TypeOK /\ AtInv /\ RecordInv /\ [Next]_vars
        => (TypeOK /\ AtInv /\ RecordInv)'
  BY TypesPreserved, RecordsPreserved
<1>3. RecordInv => NoDuplicateDeployment
  BY DEF RecordInv, RecordOf, NoDuplicateDeployment
<1> QED
  BY <1>1, <1>2, <1>3, PTL DEF Spec
-----------------------------------------------------------------------------
(* Statuses. *)

Recorded(q) ==
  \A a \in Account : Found(q, a) # {} /\ <<q, a>> \in outcomes

\* A status under way, and what a reporter wants to post, name a run whose
\* records are complete.
StatusInv ==
  /\ \A p \in PR, q \in Publisher :
       <<"status", p, q>> \in inflight => Recorded(q)
  /\ \A j \in Job, q \in Publisher : intent[j] = q => Recorded(q)

\* The store only grows.
LEMMA StoreGrows ==
  ASSUME TypeOK, AtInv, [Next]_vars
  PROVE  /\ \A q \in Publisher : Recorded(q) => Recorded(q)'
         /\ \A x : Posted(x) => Posted(x)'
<1>1. ASSUME NEW m \in Request, Arrive(m)
      PROVE  /\ \A q \in Publisher : Recorded(q) => Recorded(q)'
             /\ \A x : Posted(x) => Posted(x)'
  <2>1. StoreTypes
    BY DEF StoreTypes, TypeOK
  <2>2. \A q \in Publisher, a \in Account :
          /\ Found(q, a) \subseteq Found(q, a)'
          /\ <<q, a>> \in outcomes => <<q, a>> \in outcomes'
    BY <1>1, <2>1, ArriveGrows
  <2>3. \A x : Posted(x) => Posted(x)'
    BY <1>1, <2>1, ArriveGrows
  <2>4. \A q \in Publisher : Recorded(q) => Recorded(q)'
    BY <2>2 DEF Recorded
  <2> QED
    BY <2>3, <2>4
<1>2. ASSUME UNCHANGED store
      PROVE  /\ \A q \in Publisher : Recorded(q) => Recorded(q)'
             /\ \A x : Posted(x) => Posted(x)'
  BY <1>2 DEF Recorded, Found, Posted
<1>3. UNCHANGED store \/ \E m \in Request : Arrive(m)
  <2>1. ASSUME NEW j \in Job, Send(j)
        PROVE  UNCHANGED store \/ \E m \in Request : Arrive(m)
    BY <2>1, WriteIsRequest DEF Send
  <2>2. ASSUME NEW m \in inflight, Deliver(m)
        PROVE  \E x \in Request : Arrive(x)
    BY <2>2 DEF Deliver, TypeOK
  <2> QED
    BY <2>1, <2>2 DEF Next, Step, vars, Join, Begin, Look, Authorize, Readback,
       Check, Confirm, Fail, Conclude, ChangeEvidence
<1> QED
  BY <1>1, <1>2, <1>3

\* A publisher that sends its status has recorded both accounts.
LEMMA WriterRecorded ==
  ASSUME TypeOK, AtInv, RecordInv, StatusInv, NEW j \in Job,
         NEW p \in PR, NEW q \in Publisher, Write(j) = <<"status", p, q>>
  PROVE  Recorded(q)
<1>1. CASE j \in Publisher
  <2>1. at[j] \in {1, 2, 3, 4, 5}
    BY <1>1 DEF AtInv, Length
  <2>2. at[j] = 5 /\ q = j
    BY <1>1, <2>1, WorkOfPublisher DEF Write
  <2>3. ASSUME NEW a \in Account
        PROVE  Found(q, a) # {} /\ <<q, a>> \in outcomes
    <3>1. RecordOf(q, a)
      BY DEF RecordInv
    <3>2. at[q] > Index(a) /\ at[q] > Index(a) + 1
      BY <2>2 DEF Index
    <3> QED
      BY <3>1, <3>2 DEF RecordOf
  <2> QED
    BY <2>3 DEF Recorded
<1>2. CASE j \notin Publisher
  <2>1. j \in Reporter /\ at[j] = 1
    BY <1>2 DEF AtInv, Length, Job
  <2>2. intent[j] = q
    BY <2>1, WorkOfReporter DEF Write
  <2> QED
    BY <2>2 DEF StatusInv
<1> QED
  BY <1>1, <1>2

LEMMA StatusesPreserved ==
  ASSUME TypeOK, AtInv, RecordInv, StatusInv, [Next]_vars PROVE StatusInv'
<1>1. \A q \in Publisher : Recorded(q) => Recorded(q)'
  BY StoreGrows
<1>2. ASSUME NEW p \in PR, NEW q \in Publisher,
             <<"status", p, q>> \in inflight'
      PROVE  Recorded(q)
  <2>1. CASE <<"status", p, q>> \in inflight
    BY <2>1 DEF StatusInv
  <2>2. CASE <<"status", p, q>> \notin inflight
    <3>1. \E j \in Job : Write(j) = <<"status", p, q>>
      <4>1. \E j \in Job : Send(j)
        BY <1>2, <2>2 DEF Next, Step, vars, Join, Begin, Look, Authorize,
           Readback, Check, Confirm, Fail, Deliver, Conclude, ChangeEvidence
      <4> QED
        BY <1>2, <2>2, <4>1 DEF Send
    <3> QED
      BY <3>1, WriterRecorded
  <2> QED
    BY <2>1, <2>2
<1>3. ASSUME NEW j \in Job, NEW q \in Publisher, intent'[j] = q
      PROVE  Recorded(q)
  <2>1. CASE intent' = intent
    BY <1>3, <2>1 DEF StatusInv
  <2>2. CASE intent' # intent
    <3>1. PICK k \in Job : Begin(k)
      BY <2>2 DEF Next, Step, vars, Join, Send, Look, Authorize, Readback,
         Check, Confirm, Fail, Deliver, Conclude, ChangeEvidence
    <3>2. PICK run \in Publisher \cup {NoRun} :
            IsCurrent(PullOf[k], run) /\ intent' = [intent EXCEPT ![k] = run]
      BY <2>2, <3>1 DEF Begin
    <3>3. CASE j = k
      <4>1. run = q
        BY <1>3, <3>2, <3>3 DEF TypeOK
      <4>2. Complete(q)
        BY <3>2, <4>1, JobAssumption DEF IsCurrent, Candidate
      <4> QED
        BY <4>2 DEF Complete, Recorded, Exactly1
    <3>4. CASE j # k
      BY <1>3, <3>2, <3>4 DEF StatusInv, TypeOK
    <3> QED
      BY <3>3, <3>4
  <2> QED
    BY <2>1, <2>2
<1> QED
  BY <1>1, <1>2, <1>3 DEF StatusInv

LEMMA StatusesInit == ASSUME Init PROVE StatusInv
BY JobAssumption DEF Init, StatusInv

Inv == TypeOK /\ AtInv /\ RecordInv /\ StatusInv

LEMMA Invariance == Spec => []Inv
<1>1. Init => Inv
  BY TypesInit, RecordsInit, StatusesInit DEF Inv
<1>2. Inv /\ [Next]_vars => Inv'
  BY TypesPreserved, RecordsPreserved, StatusesPreserved DEF Inv
<1> QED
  BY <1>1, <1>2, PTL DEF Spec

\* What is to be found on the head once a job has ended well.
Claimed(j) == <<PullOf[j], IF j \in Publisher THEN j ELSE intent[j]>>

PostedInv ==
  \A j \in Job : pc[j] \in {"confirm", "succeeded"} => Posted(Claimed(j))

LEMMA VisibleIsPosted ==
  ASSUME TypeOK, AtInv, NEW j \in Job, Visible(Write(j)), at[j] = Length(j)
  PROVE  Posted(Claimed(j))
<1>1. Write(j) = <<"status", Claimed(j)[1], Claimed(j)[2]>>
      /\ Claimed(j) = <<Claimed(j)[1], Claimed(j)[2]>>
  BY WorkOfPublisher, WorkOfReporter DEF Write, Length, Claimed, Job
<1>2. statuses # <<>> /\ statuses[Len(statuses)] = Claimed(j)
  BY <1>1, VisibleCases
<1>3. Len(statuses) \in DOMAIN statuses
  BY <1>2 DEF TypeOK
<1> QED
  BY <1>2, <1>3 DEF Posted
LEMMA PostedPreserved ==
  ASSUME TypeOK, AtInv, PostedInv, [Next]_vars PROVE PostedInv'
<1>1. \A x : Posted(x) => Posted(x)'
  BY StoreGrows
<1> SUFFICES ASSUME NEW j \in Job, pc'[j] \in {"confirm", "succeeded"}
             PROVE  Posted(Claimed(j))'
  BY DEF PostedInv
<1>2. CASE pc'[j] = pc[j]
  <2>1. intent'[j] = intent[j]
    <3>1. ASSUME NEW k \in Job, Begin(k) PROVE intent'[j] = intent[j]
      BY <1>2, <3>1 DEF Begin, Goto, TypeOK
    <3> QED
      BY <3>1 DEF Next, Step, vars, Join, Send, Look, Authorize, Readback,
         Check, Confirm, Fail, Deliver, Conclude, ChangeEvidence
  <2>2. Posted(Claimed(j))
    BY <1>2 DEF PostedInv
  <2>3. Claimed(j)' = Claimed(j)
    BY <2>1 DEF Claimed
  <2> QED
    BY <1>1, <2>2, <2>3 DEF Posted
<1>3. CASE pc'[j] # pc[j]
  <2>1. intent' = intent /\ Posted(Claimed(j))
    <3>1. ASSUME NEW k \in Job, Join(k) PROVE FALSE
      BY <1>3, <3>1 DEF Join
    <3>2. ASSUME NEW k \in Job, Begin(k) PROVE FALSE
      BY <1>3, <3>2 DEF Begin, Goto, TypeOK
    <3>3. ASSUME NEW k \in Job, Advance(k), Visible(Write(k)), intent' = intent
          PROVE  intent' = intent /\ Posted(Claimed(j))
      <4>1. k = j
        BY <1>3, <3>3, AdvanceEffect
      <4>2. at[j] \in 1..Length(j) /\ Length(j) \in {1, 5}
        BY DEF AtInv, Length
      <4>3. at[j] = Length(j)
        BY <3>3, <4>1, <4>2, AdvanceEffect
      <4> QED
        BY <3>3, <4>1, <4>3, VisibleIsPosted
    <3>4. ASSUME NEW k \in Job, Look(k)
          PROVE  intent' = intent /\ Posted(Claimed(j))
      <4>1. CASE Visible(Write(k))
        BY <3>3, <3>4, <4>1 DEF Look
      <4>2. CASE ~ Visible(Write(k))
        BY <1>3, <3>4, <4>2 DEF Look, Goto, TypeOK
      <4> QED
        BY <4>1, <4>2
    <3>5. ASSUME NEW k \in Job, Readback(k)
          PROVE  intent' = intent /\ Posted(Claimed(j))
      BY <3>3, <3>5 DEF Readback
    <3>6. ASSUME NEW k \in Job, Confirm(k)
          PROVE  intent' = intent /\ Posted(Claimed(j))
      BY <1>3, <3>6 DEF Confirm, Goto, TypeOK, PostedInv
    <3>7. ASSUME NEW k \in Job,
                 Authorize(k) \/ Send(k) \/ Check(k) \/ Fail(k)
          PROVE  FALSE
      BY <1>3, <3>7 DEF Authorize, Send, Check, Fail, Goto, TypeOK
    <3> QED
      BY <1>3, <3>1, <3>2, <3>4, <3>5, <3>6, <3>7
      DEF Next, Step, vars, Deliver, Conclude, ChangeEvidence
  <2>2. Claimed(j)' = Claimed(j)
    BY <2>1 DEF Claimed
  <2> QED
    BY <1>1, <2>1, <2>2 DEF Posted
<1> QED
  BY <1>2, <1>3

\* A job that ends well has its status on the head, although every request
\* may be lost without a trace.
THEOREM SuccessMeansPublished == Spec => []SuccessIsPublished
<1>1. Init => TypeOK /\ AtInv /\ PostedInv
  BY TypesInit DEF Init, PostedInv
<1>2. TypeOK /\ AtInv /\ PostedInv /\ [Next]_vars
        => (TypeOK /\ AtInv /\ PostedInv)'
  BY TypesPreserved, PostedPreserved
<1>3. PostedInv => SuccessIsPublished
  BY DEF PostedInv, SuccessIsPublished, Posted, Claimed
<1> QED
  BY <1>1, <1>2, <1>3, PTL DEF Spec

-----------------------------------------------------------------------------
(* The group of a pull request. *)

FailedIn(p) == \E k \in Job : PullOf[k] = p /\ pc[k] = "failed"

\* One job of a pull request is at work.
OneActive ==
  \A j, k \in Job :
    PullOf[j] = PullOf[k] /\ pc[j] \in Active /\ pc[k] \in Active => j = k

\* A status under way is that of a failed job or of one about to look for it.
Lingering ==
  \A p \in PR, run \in Publisher \cup {NoRun} :
    <<"status", p, run>> \in inflight =>
      \/ FailedIn(p)
      \/ \E k \in Job : /\ PullOf[k] = p /\ pc[k] = "readback"
                        /\ answer[k] = 0 /\ Write(k) = <<"status", p, run>>

\* A job about to send its status, or whose status is under way, has not seen
\* it on the head, unless a failed job posted it late.
Unseen ==
  \A k \in Job :
    /\ Write(k)[1] = "status"
    /\ \/ pc[k] \in {"authorize", "send"}
       \/ pc[k] = "readback" /\ Write(k) \in inflight
    => ~ Visible(Write(k)) \/ FailedIn(PullOf[k])

\* WriterUndisturbed for one job.
Undisturbed(j) ==
  pc[j] = "readback" /\ Write(j)[1] = "status" /\ answer[j] # 0
  => \A i \in (answer[j] + 1)..Len(statuses) :
       statuses[i][1] = PullOf[j] => FailedIn(PullOf[j])

GroupInv ==
  OneActive /\ Lingering /\ Unseen /\ \A j \in Job : Undisturbed(j)

LEMMA StatusWrite ==
  ASSUME TypeOK, AtInv, NEW j \in Job, Write(j)[1] = "status"
  PROVE  /\ PullOf[j] \in PR
         /\ \E run \in Publisher \cup {NoRun} :
              Write(j) = <<"status", PullOf[j], run>>
<1>1. PullOf[j] \in PR
  BY PullOfAssumption
<1>2. CASE j \in Publisher
  <2>1. at[j] \in {1, 2, 3, 4, 5}
    BY <1>2 DEF AtInv, Length
  <2>2. Write(j) = <<"status", PullOf[j], j>>
    BY <1>2, <2>1, WorkOfPublisher DEF Write
  <2> QED
    BY <1>1, <1>2, <2>2
<1>3. CASE j \notin Publisher
  <2>1. j \in Reporter /\ at[j] = 1
    BY <1>3 DEF AtInv, Length, Job
  <2>2. Write(j) = <<"status", PullOf[j], intent[j]>>
    BY <2>1, WorkOfReporter DEF Write
  <2>3. intent[j] \in Publisher \cup {NoRun}
    BY DEF TypeOK
  <2> QED
    BY <1>1, <2>2, <2>3
<1> QED
  BY <1>2, <1>3

\* A step of a job that writes nothing.
LEMMA QuietGroup ==
  ASSUME TypeOK, AtInv, GroupInv, UNCHANGED <<store, inflight, answer>>,
         NEW j \in Job, pc[j] # "failed", pc'[j] # "readback",
         \A k \in Job \ {j} :
           /\ at'[k] = at[k] /\ intent'[k] = intent[k]
           /\ \/ pc'[k] = pc[k]
              \/ pc[k] = "queued" /\ pc'[k] = "displaced",
         \/ pc'[j] \notin Active
         \/ pc[j] \in Active
         \/ \A k \in Job \ {j} : PullOf[k] = PullOf[j] => pc[k] \notin Active,
         pc[j] = "readback" => pc'[j] = "failed" \/ Visible(Write(j)),
         pc'[j] \in {"authorize", "send"} =>
           /\ at'[j] = at[j] /\ intent'[j] = intent[j]
           /\ pc[j] \in {"authorize", "send"} \/ ~ Visible(Write(j))
  PROVE  GroupInv'
<1>1. \A k \in Job \ {j} : Write(k)' = Write(k)
  BY DEF Write, Work
<1>2. \A p : FailedIn(p) => FailedIn(p)'
  BY DEF FailedIn
<1>3. \A m : Visible(m)' = Visible(m)
  BY DEF Visible, Found, Exactly1
<1>4. \A k \in Job \ {j} : pc'[k] \in Active => pc[k] = pc'[k]
  BY DEF Active
<1>5. OneActive'
  <2> SUFFICES ASSUME NEW i \in Job, NEW k \in Job, PullOf[i] = PullOf[k],
                      pc'[i] \in Active, pc'[k] \in Active
               PROVE  i = k
    BY DEF OneActive
  <2> QED
    BY <1>4 DEF GroupInv, OneActive
<1>6. Lingering'
  <2> SUFFICES ASSUME NEW p \in PR, NEW run \in Publisher \cup {NoRun},
                      <<"status", p, run>> \in inflight, ~ FailedIn(p)'
               PROVE  \E k \in Job :
                        /\ PullOf[k] = p /\ pc'[k] = "readback"
                        /\ answer'[k] = 0 /\ Write(k)' = <<"status", p, run>>
    BY DEF Lingering
  <2>1. ~ FailedIn(p)
    BY <1>2
  <2>2. PICK k \in Job : /\ PullOf[k] = p /\ pc[k] = "readback"
                         /\ answer[k] = 0 /\ Write(k) = <<"status", p, run>>
    BY <2>1 DEF GroupInv, Lingering
  <2>3. k # j
    <3>1. SUFFICES ASSUME k = j PROVE FALSE
      OBVIOUS
    <3>2. Visible(Write(j))
      BY <2>2, <3>1 DEF FailedIn
    <3>3. Write(j)[1] = "status"
      BY <2>2, <3>1
    <3> QED
      BY <2>1, <2>2, <3>1, <3>2, <3>3 DEF GroupInv, Unseen
  <2> QED
    BY <1>1, <2>2, <2>3
<1>7. Unseen'
  <2> SUFFICES ASSUME NEW k \in Job, Write(k)'[1] = "status",
                      \/ pc'[k] \in {"authorize", "send"}
                      \/ pc'[k] = "readback" /\ Write(k)' \in inflight
               PROVE  ~ Visible(Write(k)') \/ FailedIn(PullOf[k])'
    BY <1>3 DEF Unseen
  <2>1. CASE k # j
    BY <1>1, <1>2, <2>1 DEF GroupInv, Unseen
  <2>2. CASE k = j
    <3>1. Write(j)' = Write(j)
      BY <2>2 DEF Write, Work
    <3> QED
      BY <1>2, <2>2, <3>1 DEF GroupInv, Unseen
  <2> QED
    BY <2>1, <2>2
<1>8. ASSUME NEW k \in Job PROVE Undisturbed(k)'
  <2>1. CASE k # j
    BY <1>1, <1>2, <2>1 DEF GroupInv, Undisturbed
  <2>2. CASE k = j
    BY <2>2 DEF Undisturbed
  <2> QED
    BY <2>1, <2>2
<1> QED
  BY <1>5, <1>6, <1>7, <1>8 DEF GroupInv

\* What an arriving request can do to the statuses.
LEMMA ArriveStatuses ==
  ASSUME StoreTypes, NEW m \in Request, Arrive(m)
  PROVE  /\ Len(statuses) \in Nat /\ Len(statuses') \in Nat
         /\ \A i \in 1..Len(statuses') :
              \/ i \in 1..Len(statuses) /\ statuses'[i] = statuses[i]
              \/ m[1] = "status" /\ statuses'[i][1] = m[2]
         /\ \A p \in PR, run \in Publisher \cup {NoRun} :
              Visible(<<"status", p, run>>)' =>
                Visible(<<"status", p, run>>) \/ m = <<"status", p, run>>
<1>1. Len(statuses) \in Nat /\ DOMAIN statuses = 1..Len(statuses)
  BY DEF StoreTypes
<1>2. CASE statuses' = statuses
  <2>1. \A p \in PR, run \in Publisher \cup {NoRun} :
          Visible(<<"status", p, run>>)' = Visible(<<"status", p, run>>)
    BY <1>2 DEF Visible
  <2> QED
    BY <1>1, <1>2, <2>1
<1>3. ASSUME NEW q \in PR, NEW r \in Publisher \cup {NoRun},
             m = <<"status", q, r>>
      PROVE  /\ Len(statuses') \in Nat
             /\ \A i \in 1..Len(statuses') :
                  \/ i \in 1..Len(statuses) /\ statuses'[i] = statuses[i]
                  \/ m[1] = "status" /\ statuses'[i][1] = m[2]
             /\ \A p \in PR, run \in Publisher \cup {NoRun} :
                  Visible(<<"status", p, run>>)' => m = <<"status", p, run>>
  <2>1. statuses' = Append(statuses, <<q, r>>)
    BY <1>3 DEF Arrive
  <2>2. /\ Len(statuses') = Len(statuses) + 1
        /\ statuses'[Len(statuses) + 1] = <<q, r>>
        /\ \A i \in 1..Len(statuses) : statuses'[i] = statuses[i]
    BY <2>1 DEF StoreTypes
  <2>3. \A p \in PR, run \in Publisher \cup {NoRun} :
          Visible(<<"status", p, run>>)' => <<q, r>> = <<p, run>>
    BY <2>2 DEF Visible
  <2> QED
    BY <1>1, <1>3, <2>2, <2>3
<1>4. statuses' = statuses \/ \E q \in PR, r \in Publisher \cup {NoRun} :
                                m = <<"status", q, r>>
  BY RequestCases DEF Arrive
<1> QED
  BY <1>1, <1>2, <1>3, <1>4

LEMMA SendGroup ==
  ASSUME TypeOK, AtInv, GroupInv, NEW j \in Job, Send(j)
  PROVE  GroupInv'
<1> USE DEF GroupInv
<1>1. /\ pc[j] = "send" /\ pc' = [pc EXCEPT ![j] = "readback"]
      /\ at' = at /\ intent' = intent
  BY DEF Send, Goto
<1>2. \A k \in Job : Write(k)' = Write(k)
  BY <1>1 DEF Write, Work
<1>3. \A p : FailedIn(p)' = FailedIn(p)
  BY <1>1 DEF FailedIn, TypeOK
<1>4. \A k \in Job \ {j} : pc'[k] = pc[k] /\ answer'[k] = answer[k]
  BY <1>1 DEF Send, TypeOK
<1>5. pc'[j] = "readback"
  BY <1>1 DEF TypeOK
<1>6. \A k \in Job \ {j} : pc[k] \in Active => PullOf[k] # PullOf[j]
  BY <1>1 DEF OneActive, Active
<1>7. Write(j) \in Request /\ StoreTypes
  BY WriteIsRequest DEF StoreTypes, TypeOK
<1>8. OneActive'
  BY <1>1, <1>4 DEF OneActive, Active
<1>9. ASSUME NEW k \in Job \ {j}, pc[k] \in Active, Write(k)[1] = "status"
      PROVE  Write(k) # Write(j)
  BY <1>6, <1>9, StatusWrite
<1>10. Lingering'
  <2> SUFFICES ASSUME NEW p \in PR, NEW run \in Publisher \cup {NoRun},
                      <<"status", p, run>> \in inflight', ~ FailedIn(p)
               PROVE  \E k \in Job :
                        /\ PullOf[k] = p /\ pc'[k] = "readback"
                        /\ answer'[k] = 0 /\ Write(k)' = <<"status", p, run>>
    BY <1>3 DEF Lingering
  <2>1. CASE <<"status", p, run>> \in inflight
    <3>1. PICK k \in Job : /\ PullOf[k] = p /\ pc[k] = "readback"
                           /\ answer[k] = 0 /\ Write(k) = <<"status", p, run>>
      BY <2>1 DEF Lingering
    <3> QED
      BY <1>1, <1>2, <1>4, <3>1
  <2>2. CASE <<"status", p, run>> \notin inflight
    <3>1. Write(j) = <<"status", p, run>> /\ answer'[j] = 0
      BY <2>2 DEF Send, TypeOK
    <3>2. PullOf[j] = p
      BY <3>1, StatusWrite
    <3> QED
      BY <1>2, <1>5, <3>1, <3>2
  <2> QED
    BY <2>1, <2>2
<1>11. ASSUME NEW k \in Job, Write(k)[1] = "status", ~ FailedIn(PullOf[k]),
              \/ pc'[k] \in {"authorize", "send"}
              \/ pc'[k] = "readback" /\ Write(k) \in inflight'
       PROVE  ~ Visible(Write(k))'
  <2>1. PICK run \in Publisher \cup {NoRun} :
          Write(k) = <<"status", PullOf[k], run>> /\ PullOf[k] \in PR
    BY <1>11, StatusWrite
  <2>2. CASE UNCHANGED store
    <3>1. ~ Visible(Write(k))
      <4>1. CASE k = j
        BY <1>1, <1>11, <4>1 DEF Unseen
      <4>2. CASE k # j
        <5>1. pc[k] = pc'[k] /\ pc[k] \in Active
          BY <1>4, <1>11, <4>2 DEF Active
        <5>2. Write(k) # Write(j)
          BY <1>9, <1>11, <4>2, <5>1
        <5>3. Write(k) \in inflight' => Write(k) \in inflight
          BY <5>2 DEF Send
        <5> QED
          BY <1>11, <5>1, <5>3 DEF Unseen
      <4> QED
        BY <4>1, <4>2
    <3>2. Visible(<<"status", PullOf[k], run>>)'
            = Visible(<<"status", PullOf[k], run>>)
      BY <2>2 DEF Visible
    <3>3. Write(k)' = <<"status", PullOf[k], run>>
      BY <1>2, <2>1
    <3> QED
      BY <2>1, <3>1, <3>2, <3>3 DEF Visible
  <2>3. CASE Arrive(Write(j)) /\ inflight' = inflight
    <3>1. k # j
      <4>1. SUFFICES ASSUME k = j PROVE FALSE
        OBVIOUS
      <4>2. Write(j) \in inflight
        BY <1>5, <1>11, <2>3, <4>1
      <4>3. PICK i \in Job : PullOf[i] = PullOf[j] /\ pc[i] = "readback"
        BY <1>11, <2>1, <4>1, <4>2 DEF Lingering
      <4>4. pc[i] \in Active
        BY <4>3 DEF Active
      <4> QED
        BY <1>1, <1>6, <4>3, <4>4
    <3>2. pc[k] = pc'[k] /\ pc[k] \in Active
      BY <1>4, <1>11, <3>1 DEF Active
    <3>3. Write(k) # Write(j)
      BY <1>9, <1>11, <3>1, <3>2
    <3>4. ~ Visible(Write(k))
      BY <1>11, <2>3, <3>2 DEF Unseen
    <3>5. ~ Visible(<<"status", PullOf[k], run>>)'
      BY <1>7, <2>1, <2>3, <3>3, <3>4, ArriveStatuses
    <3>6. Write(k)' = <<"status", PullOf[k], run>>
      BY <1>2, <2>1
    <3> QED
      BY <3>5, <3>6 DEF Visible
  <2> QED
    BY <2>2, <2>3 DEF Send
<1>12. Unseen'
  BY <1>2, <1>3, <1>11 DEF Unseen
<1>13. ASSUME NEW k \in Job PROVE Undisturbed(k)'
  <2> SUFFICES ASSUME pc'[k] = "readback", Write(k)[1] = "status",
                      answer'[k] # 0,
                      NEW i \in (answer'[k] + 1)..Len(statuses'),
                      statuses'[i][1] = PullOf[k]
               PROVE  FailedIn(PullOf[k])
    BY <1>2, <1>3 DEF Undisturbed
  <2>1. CASE k = j
    <3>1. answer'[j] = Len(statuses') /\ Arrive(Write(j))
      BY <2>1 DEF Send, TypeOK
    <3>2. Len(statuses') \in Nat
      BY <1>7, <3>1, ArriveStatuses
    <3> QED
      BY <2>1, <3>1, <3>2
  <2>2. CASE k # j
    <3>1. pc[k] = "readback" /\ answer'[k] = answer[k] /\ answer[k] \in Nat
      BY <1>4, <2>2 DEF TypeOK
    <3>2. pc[k] \in Active
      BY <3>1 DEF Active
    <3>3. i \in (answer[k] + 1)..Len(statuses) /\ statuses'[i] = statuses[i]
      <4>1. CASE Arrive(Write(j))
        <5>1. Len(statuses) \in Nat /\ Len(statuses') \in Nat
          BY <1>7, <4>1, ArriveStatuses
        <5>2. i \in 1..Len(statuses')
          BY <3>1, <5>1
        <5>3. ~ (Write(j)[1] = "status" /\ statuses'[i][1] = Write(j)[2])
          BY <1>6, <2>2, <3>2, StatusWrite
        <5>4. i \in 1..Len(statuses) /\ statuses'[i] = statuses[i]
          BY <1>7, <4>1, <5>2, <5>3, ArriveStatuses
        <5> QED
          BY <3>1, <5>1, <5>4
      <4>2. CASE UNCHANGED store
        BY <3>1, <4>2
      <4> QED
        BY <4>1, <4>2 DEF Send
    <3> QED
      BY <3>1, <3>3 DEF Undisturbed
  <2> QED
    BY <2>1, <2>2
<1> QED
  BY <1>8, <1>10, <1>12, <1>13

LEMMA DeliverGroup ==
  ASSUME TypeOK, AtInv, GroupInv, NEW m \in inflight, Deliver(m)
  PROVE  GroupInv'
<1> USE DEF GroupInv
<1>1. /\ UNCHANGED <<pc, at, answer, intent>> /\ Arrive(m)
      /\ inflight' = inflight \ {m}
  BY DEF Deliver
<1>2. \A k \in Job : Write(k)' = Write(k)
  BY <1>1 DEF Write, Work
<1>3. \A p : FailedIn(p)' = FailedIn(p)
  BY <1>1 DEF FailedIn
<1>4. m \in Request /\ StoreTypes
  BY DEF StoreTypes, TypeOK
\* The job that waits for the answer is the only one at work.
<1>5. ASSUME NEW k \in Job, pc[k] \in Active, ~ FailedIn(PullOf[k]),
             NEW run \in Publisher \cup {NoRun},
             m = <<"status", PullOf[k], run>>
      PROVE  pc[k] = "readback" /\ answer[k] = 0
  <2>1. PullOf[k] \in PR
    BY PullOfAssumption
  <2>2. PICK i \in Job :
          PullOf[i] = PullOf[k] /\ pc[i] = "readback" /\ answer[i] = 0
    BY <1>5, <2>1 DEF Lingering
  <2>3. pc[i] \in Active
    BY <2>2 DEF Active
  <2> QED
    BY <1>5, <2>2, <2>3 DEF OneActive
<1>6. OneActive' /\ Lingering'
  BY <1>1, <1>2, <1>3 DEF OneActive, Lingering
<1>7. ASSUME NEW k \in Job, Write(k)[1] = "status", ~ FailedIn(PullOf[k]),
             \/ pc[k] \in {"authorize", "send"}
             \/ pc[k] = "readback" /\ Write(k) \in inflight'
      PROVE  ~ Visible(Write(k))'
  <2>1. PICK run \in Publisher \cup {NoRun} :
          Write(k) = <<"status", PullOf[k], run>> /\ PullOf[k] \in PR
    BY <1>7, StatusWrite
  <2>2. m # Write(k)
    <3>1. pc[k] \in Active
      BY <1>7 DEF Active
    <3> QED
      BY <1>1, <1>5, <1>7, <2>1, <3>1
  <2>3. ~ Visible(Write(k))
    BY <1>1, <1>7 DEF Unseen
  <2>4. ~ Visible(<<"status", PullOf[k], run>>)'
    BY <1>1, <1>4, <2>1, <2>2, <2>3, ArriveStatuses
  <2>5. Write(k)' = <<"status", PullOf[k], run>>
    BY <1>2, <2>1
  <2> QED
    BY <2>4, <2>5 DEF Visible
<1>8. Unseen'
  BY <1>1, <1>2, <1>3, <1>7 DEF Unseen
<1>9. ASSUME NEW k \in Job PROVE Undisturbed(k)'
  <2> SUFFICES ASSUME pc[k] = "readback", Write(k)[1] = "status",
                      answer[k] # 0, ~ FailedIn(PullOf[k]),
                      NEW i \in (answer[k] + 1)..Len(statuses'),
                      statuses'[i][1] = PullOf[k]
               PROVE  FALSE
    BY <1>1, <1>2, <1>3 DEF Undisturbed
  <2>1. /\ Len(statuses) \in Nat /\ Len(statuses') \in Nat
        /\ answer[k] \in Nat
    BY <1>1, <1>4, ArriveStatuses DEF TypeOK
  <2>2. ~ (m[1] = "status" /\ m[2] = PullOf[k])
    <3>1. pc[k] \in Active
      BY DEF Active
    <3> QED
      BY <1>4, <1>5, <3>1, RequestCases
  <2>3. i \in 1..Len(statuses')
    BY <2>1
  <2>4. i \in 1..Len(statuses) /\ statuses'[i] = statuses[i]
    BY <1>1, <1>4, <2>2, <2>3, ArriveStatuses
  <2>5. i \in (answer[k] + 1)..Len(statuses)
    BY <2>1, <2>4
  <2> QED
    BY <2>4, <2>5 DEF Undisturbed
<1> QED
  BY <1>6, <1>8, <1>9

LEMMA GroupPreserved ==
  ASSUME TypeOK, AtInv, GroupInv, [Next]_vars PROVE GroupInv'
<1>1. ASSUME UNCHANGED <<store, inflight, jobs>> PROVE GroupInv'
  <2>1. /\ \A k \in Job : Write(k)' = Write(k)
        /\ \A p : FailedIn(p)' = FailedIn(p)
        /\ \A m : Visible(m)' = Visible(m)
    BY <1>1 DEF FailedIn, Visible, Found, Exactly1, Write, Work
  <2>2. OneActive' /\ Lingering'
    BY <1>1, <2>1 DEF GroupInv, OneActive, Lingering
  <2>3. ASSUME NEW k \in Job,
               ~ Visible(Write(k)) \/ FailedIn(PullOf[k])
        PROVE  ~ Visible(Write(k))' \/ FailedIn(PullOf[k])'
    BY <1>1, <2>1, <2>3 DEF Visible
  <2>4. Unseen'
    BY <1>1, <2>1, <2>3 DEF GroupInv, Unseen
  <2>5. \A k \in Job : Undisturbed(k)'
    BY <1>1, <2>1 DEF GroupInv, Undisturbed
  <2> QED
    BY <2>2, <2>4, <2>5 DEF GroupInv
<1>2. ASSUME NEW j \in Job, NEW state \in Pc, Goto(j, state)
      PROVE  pc'[j] = state /\ \A k \in Job \ {j} : pc'[k] = pc[k]
  BY <1>2 DEF Goto, TypeOK
<1>3. ASSUME NEW j \in Job, Join(j) PROVE GroupInv'
  BY <1>3, QuietGroup DEF Join, Active
<1>4. ASSUME NEW j \in Job, Begin(j) PROVE GroupInv'
  <2>1. pc'[j] = "look" /\ \A k \in Job \ {j} : pc'[k] = pc[k]
    BY <1>2, <1>4 DEF Begin, Pc, Active
  <2>2. \A k \in Job \ {j} : intent'[k] = intent[k]
    BY <1>4 DEF Begin, TypeOK
  <2> QED
    BY <1>4, <2>1, <2>2, QuietGroup DEF Begin, GroupFree
<1>5. ASSUME NEW j \in Job, Advance(j), Visible(Write(j)),
             pc[j] \in {"look", "readback"},
             UNCHANGED <<store, inflight, answer, intent>>
      PROVE  GroupInv'
  <2>1. pc'[j] \in {"confirm", "check", "look"}
    BY <1>5, AdvanceEffect DEF AtInv, Length
  <2>2. \A k \in Job \ {j} : pc'[k] = pc[k] /\ at'[k] = at[k]
    BY <1>5, AdvanceEffect
  <2> QED
    BY <1>5, <2>1, <2>2, QuietGroup DEF Active
<1>6. ASSUME NEW j \in Job, Look(j) PROVE GroupInv'
  <2>1. CASE Visible(Write(j))
    BY <1>5, <1>6, <2>1 DEF Look
  <2>2. CASE ~ Visible(Write(j))
    <3>1. pc'[j] = "authorize" /\ \A k \in Job \ {j} : pc'[k] = pc[k]
      BY <1>2, <1>6, <2>2 DEF Look, Pc, Active
    <3> QED
      BY <1>6, <2>2, <3>1, QuietGroup DEF Look, Active
  <2> QED
    BY <2>1, <2>2
<1>7. ASSUME NEW j \in Job, Authorize(j) PROVE GroupInv'
  <2>1. pc'[j] = "send" /\ \A k \in Job \ {j} : pc'[k] = pc[k]
    BY <1>2, <1>7 DEF Authorize, Pc, Active
  <2> QED
    BY <1>7, <2>1, QuietGroup DEF Authorize, Active
<1>8. ASSUME NEW j \in Job, Send(j) PROVE GroupInv'
  BY <1>8, SendGroup
<1>9. ASSUME NEW j \in Job, Readback(j) PROVE GroupInv'
  BY <1>5, <1>9 DEF Readback
<1>10. ASSUME NEW j \in Job, Check(j) PROVE GroupInv'
  <2>1. pc'[j] = "look" /\ \A k \in Job \ {j} : pc'[k] = pc[k]
    BY <1>2, <1>10 DEF Check, Pc, Active
  <2> QED
    BY <1>10, <2>1, QuietGroup DEF Check, Active
<1>11. ASSUME NEW j \in Job, Confirm(j) PROVE GroupInv'
  <2>1. pc'[j] = "succeeded" /\ \A k \in Job \ {j} : pc'[k] = pc[k]
    BY <1>2, <1>11 DEF Confirm, Pc, Ended
  <2> QED
    BY <1>11, <2>1, QuietGroup DEF Confirm, Active
<1>12. ASSUME NEW j \in Job, Fail(j) PROVE GroupInv'
  <2>1. pc'[j] = "failed" /\ \A k \in Job \ {j} : pc'[k] = pc[k]
    BY <1>2, <1>12 DEF Fail, Pc, Ended
  <2> QED
    BY <1>12, <2>1, QuietGroup DEF Fail, Active
<1>13. ASSUME NEW m \in inflight, Deliver(m) PROVE GroupInv'
  BY <1>13, DeliverGroup
<1> QED
  BY <1>1, <1>3, <1>4, <1>6, <1>7, <1>8, <1>9, <1>10, <1>11, <1>12, <1>13
  DEF Next, Step, vars, Conclude, ChangeEvidence

\* While a job reads its status back, only a lingering request of a failed job
\* writes another one for its pull request, for any number of jobs.
THEOREM WritersAreUndisturbed == Spec => []WriterUndisturbed
<1>1. Init => TypeOK /\ AtInv /\ GroupInv
  BY TypesInit
  DEF Init, GroupInv, OneActive, Lingering, Unseen, Undisturbed, Active
<1>2. TypeOK /\ AtInv /\ GroupInv /\ [Next]_vars
        => (TypeOK /\ AtInv /\ GroupInv)'
  BY TypesPreserved, GroupPreserved
<1>3. GroupInv => WriterUndisturbed
  BY DEF GroupInv, Undisturbed, FailedIn, WriterUndisturbed
<1> QED
  BY <1>1, <1>2, <1>3, PTL DEF Spec

-----------------------------------------------------------------------------
(* Refinement. *)

RecordedAccounts(q) ==
  {a \in Account : Found(q, a) # {} /\ <<q, a>> \in outcomes}

Verdict == IF statuses = <<>> THEN <<NoRun, NoRun>> ELSE statuses[Len(statuses)]

\* A request that arrives is a step of the abstract publication.
LEMMA ArrivalRefines ==
  ASSUME TypeOK, NEW m \in Request, Arrive(m),
         \A q \in Publisher, a \in Account :
           /\ m = <<"deployment", q, a>> => <<q, a>> \notin outcomes
           /\ m = <<"outcome", q, a>> => Found(q, a) # {},
         \A p \in PR, q \in Publisher :
           m = <<"status", p, q>> => Recorded(q)
  PROVE  [Aggregate!Next]_Aggregate!vars
<1> DEFINE R == [q \in Publisher |-> RecordedAccounts(q)]
<1>0. StoreTypes
  BY DEF StoreTypes, TypeOK
<1>1. ASSUME NEW q \in Publisher, NEW a \in Account,
             m = <<"deployment", q, a>>
      PROVE  R' = R /\ Verdict' = Verdict
  <2>1. /\ outcomes' = outcomes /\ statuses' = statuses
        /\ \A r \in Publisher, b \in Account :
             <<r, b>> # <<q, a>> => Found(r, b)' = Found(r, b)
    BY <1>0, <1>1, ArriveDeployment
  <2>2. <<q, a>> \notin outcomes
    BY <1>1
  <2>3. \A r \in Publisher : RecordedAccounts(r)' = RecordedAccounts(r)
    BY <2>1, <2>2 DEF RecordedAccounts
  <2> QED
    BY <2>1, <2>3 DEF Verdict
<1>2. ASSUME NEW q \in Publisher, NEW a \in Account, m = <<"outcome", q, a>>
      PROVE  /\ Verdict' = Verdict
             /\ R' = [R EXCEPT ![q] = @ \cup {a}]
  <2>1. /\ outcomes' = outcomes \cup {<<q, a>>}
        /\ deployments' = deployments /\ statuses' = statuses
    BY <1>0, <1>2, ArriveOutcome
  <2>2. \A r \in Publisher, b \in Account : Found(r, b)' = Found(r, b)
    BY <2>1 DEF Found
  <2>3. Found(q, a) # {}
    BY <1>2
  <2>4. RecordedAccounts(q)' = RecordedAccounts(q) \cup {a}
    BY <2>1, <2>2, <2>3 DEF RecordedAccounts
  <2>5. \A r \in Publisher \ {q} :
          RecordedAccounts(r)' = RecordedAccounts(r)
    BY <2>1, <2>2 DEF RecordedAccounts
  <2> QED
    BY <2>1, <2>4, <2>5 DEF Verdict
<1>3. ASSUME NEW p \in PR, NEW run \in Publisher \cup {NoRun},
             m = <<"status", p, run>>
      PROVE  /\ R' = R /\ Verdict' = <<p, run>>
             /\ run \in Publisher => R[run] = Account
  <2>1. /\ deployments' = deployments /\ outcomes' = outcomes
        /\ statuses' # <<>> /\ statuses'[Len(statuses')] = <<p, run>>
    BY <1>0, <1>3, ArriveStatus
  <2>2. R' = R
    BY <2>1 DEF RecordedAccounts, Found
  <2>3. run \in Publisher => RecordedAccounts(run) = Account
    BY <1>3 DEF Recorded, RecordedAccounts
  <2> QED
    BY <2>1, <2>2, <2>3 DEF Verdict
<1>4. CASE \E q \in Publisher, a \in Account : m = <<"deployment", q, a>>
  BY <1>1, <1>4 DEF Aggregate!vars, RecordedAccounts, Verdict
<1>5. ASSUME NEW q \in Publisher, NEW a \in Account, m = <<"outcome", q, a>>
      PROVE  [Aggregate!Next]_Aggregate!vars
  <2>1. Verdict' = Verdict /\ R' = [R EXCEPT ![q] = @ \cup {a}]
    BY <1>2, <1>5
  <2>2. CASE a \in R[q]
    <3>1. R[q] \cup {a} = R[q]
      BY <2>2
    <3>2. R' = R
      BY <2>1, <3>1
    <3> QED
      BY <2>1, <3>2 DEF Aggregate!vars, RecordedAccounts, Verdict
  <2>3. CASE a \notin R[q]
    <3>1. Aggregate!Record(q, a)
      BY <2>1, <2>3 DEF Aggregate!Record, RecordedAccounts, Verdict
    <3>2. a \in Aggregate!Account
      BY DEF Aggregate!Account, Account
    <3> QED
      BY <3>1, <3>2 DEF Aggregate!Next
  <2> QED
    BY <2>2, <2>3
<1>6. ASSUME NEW p \in PR, NEW run \in Publisher \cup {NoRun},
             m = <<"status", p, run>>
      PROVE  [Aggregate!Next]_Aggregate!vars
  <2>1. /\ R' = R /\ Verdict' = <<p, run>>
        /\ run \in Publisher => R[run] = Account
    BY <1>3, <1>6
  <2>2. CASE run \in Publisher
    <3>1. Aggregate!Announce(p, run)
      BY <2>1, <2>2
      DEF Aggregate!Announce, Aggregate!Account, Account, RecordedAccounts,
          Verdict
    <3> QED
      BY <2>2, <3>1 DEF Aggregate!Next
  <2>3. CASE run \notin Publisher
    <3>1. run = NoRun
      BY <2>3
    <3>2. Aggregate!Suspend(p)
      BY <2>1, <3>1 DEF Aggregate!Suspend, RecordedAccounts, Verdict
    <3> QED
      BY <3>2 DEF Aggregate!Next
  <2> QED
    BY <2>2, <2>3
<1> QED
  BY <1>4, <1>5, <1>6, RequestCases

LEMMA StepRefines ==
  ASSUME Inv, [Next]_vars PROVE [Aggregate!Next]_Aggregate!vars
<1> USE DEF Inv
<1>1. ASSUME UNCHANGED store PROVE [Aggregate!Next]_Aggregate!vars
  BY <1>1 DEF Aggregate!vars, Found
<1>2. ASSUME NEW j \in Job, Send(j), ~ UNCHANGED store
      PROVE  [Aggregate!Next]_Aggregate!vars
  <2>1. Write(j) \in Request /\ Arrive(Write(j))
    BY <1>2, WriteIsRequest DEF Send
  <2>2. ASSUME NEW q \in Publisher, NEW a \in Account
        PROVE  /\ Write(j) = <<"deployment", q, a>> => <<q, a>> \notin outcomes
               /\ Write(j) = <<"outcome", q, a>> => Found(q, a) # {}
    BY <1>2, WriterOfRecord DEF Send
  <2>3. \A p \in PR, q \in Publisher :
          Write(j) = <<"status", p, q>> => Recorded(q)
    BY WriterRecorded
  <2> QED
    BY <2>1, <2>2, <2>3, ArrivalRefines
<1>3. ASSUME NEW m \in inflight, Deliver(m)
      PROVE  [Aggregate!Next]_Aggregate!vars
  <2>1. m \in Request /\ Arrive(m)
    BY <1>3 DEF Deliver, TypeOK
  <2>2. \A q \in Publisher, a \in Account :
          /\ m = <<"deployment", q, a>> => <<q, a>> \notin outcomes
          /\ m = <<"outcome", q, a>> => Found(q, a) # {}
    BY DEF RecordInv, RecordOf
  <2>3. \A p \in PR, q \in Publisher : m = <<"status", p, q>> => Recorded(q)
    BY DEF StatusInv
  <2> QED
    BY <2>1, <2>2, <2>3, ArrivalRefines
<1> QED
  BY <1>1, <1>2, <1>3 DEF Next, Step, vars, Join, Begin, Look, Authorize,
     Readback, Check, Confirm, Fail, Conclude, ChangeEvidence

LEMMA InitRefines == ASSUME Init PROVE Aggregate!Init
<1>1. \A q \in Publisher :
        {a \in Account : Found(q, a) # {} /\ <<q, a>> \in outcomes} = {}
  BY DEF Init
<1> QED
  BY <1>1 DEF Init, Aggregate!Init, Aggregate!NoVerdict

\* The publication implements its abstract specification: the head is
\* announced as promoted by a run only once the run has recorded both
\* accounts, for any number of publishers, reporters and pull requests.
THEOREM PublicationImplementsStatus == Spec => ImplementsStatus
<1>1. Init => Aggregate!Init
  BY InitRefines
<1>2. Inv /\ [Next]_vars => [Aggregate!Next]_Aggregate!vars
  BY StepRefines
<1> QED
  BY <1>1, <1>2, Invariance, PTL DEF Spec, ImplementsStatus, Aggregate!Spec
=============================================================================
