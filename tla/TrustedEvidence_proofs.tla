------------------------ MODULE TrustedEvidence_proofs ------------------------
(***************************************************************************)
(* Proofs about the trusted publisher, for any runs, approvals and facts:  *)
(* what a success, a failure and any verdict rest on.  The history of a    *)
(* job holds what its requests could be answered so far, so that each      *)
(* answer a check takes in is one of the job; the rows of a report keep    *)
(* the answers they rest on until it is published.  The two checks of the  *)
(* owners' review ask about the approval alone, and counting its rows      *)
(* against the questions tells that each has one.                          *)
(***************************************************************************)
EXTENDS TrustedEvidence, FiniteSetTheorems, FunctionTheorems, TLAPS

Fields == DOMAIN Dormant
Both == {"inForce", "onTarget"}

\* Where a run has an approval, where it is after the first reading, and where
\* after its approval was compared once more.
Authorised == {"context", "verify", "own", "collect", "record", "current", "accept", "ownAgain",
               "refresh", "expiry", "pull", "post"}
Entered == {"record", "current", "accept", "ownAgain", "refresh", "expiry", "pull", "post"}
Accepted == {"accept", "ownAgain", "refresh", "expiry", "pull", "post"}

Shaped(i) == DOMAIN i = Fields /\ i.step \in Steps

\* Nothing is concluded before the end, and no check is begun but by its reading.
Early(i) ==
  /\ i.step # "posted" => i.state = None
  /\ i.step \in Authorised \cup {"posted"} => i.approval \in DOMAIN Approval
  /\ i.step \notin {"collect", "refresh"} => i.view = Nothing

\* The status that was read is still the one of the head: no other run works.
Own(i, st) == i.step \in {"collect", "refresh"} => i.own = st[Approval[i.approval].head]

\* The history of a job holds the present.
Present(i, w, now, st) ==
  /\ i.step \in Collecting => Shown(i.approval, w, now, st) \subseteq i.collecting
  /\ i.step \in Publishing => Shown(i.approval, w, now, st) \subseteq i.publishing

\* A set of answers that were there in the course of a job, and a row of the
\* report that rests on it.
Stood(v, shown) == \A q \in DOMAIN v : <<q, v[q]>> \in shown
RowOk(rows, c, shown) == c \in DOMAIN rows /\ Rests(rows[c], c, shown)

\* The first reading: only its rows that are not GitHub's stay.
FirstReading(i) ==
  /\ i.step = "collect" =>
       /\ i.place \in 1..16 /\ Stood(i.view, i.collecting)
       /\ \A k \in 1..(i.place - 1) : RowOk(i.rows, Checks[k], i.collecting)
  /\ i.step \in Entered => \A c \in CheckSet \ GitHubSet : RowOk(i.rows, c, i.collecting)

\* The second reading, of GitHub's rows.
SecondReading(i) ==
  /\ i.step = "refresh" =>
       /\ i.place \in 1..5 /\ Stood(i.view, i.publishing)
       /\ \A k \in 1..(i.place - 1) : RowOk(i.rows, GitHubChecks[k], i.publishing)
  /\ i.step \in Reread => \A c \in GitHubSet : RowOk(i.rows, c, i.publishing)

\* The approval: protected, in force, of the head of an open pull request.
Confirmation(i, w, now) ==
  /\ i.step \in Collected => (w.digest = i.approval => i.confirmed)
  /\ i.step \in Accepted => i.confirmed
  /\ i.step \in Reread => i.valid \subseteq Both /\ Validity(i.approval, w, now) \subseteq i.valid
  /\ i.step \in {"pull", "post"} => "inForce" \in i.valid
  /\ i.step = "post" => "onTarget" \in i.valid

Concluded(i) == i.step = "posted" => i.confirmed /\ i.valid = Both

Good(i, w, now, st) ==
  /\ Shaped(i) /\ Early(i) /\ Own(i, st) /\ Present(i, w, now, st)
  /\ FirstReading(i) /\ SecondReading(i) /\ Confirmation(i, w, now) /\ Concluded(i)

\* The group lets one run work at a time.
Alone == \A q, r \in Run : run[q].step \notin Over /\ run[r].step \notin Over => q = r

Inv ==
  /\ run = [r \in Run |-> run[r]]
  /\ "approval" \in DOMAIN world /\ world.approval \in DOMAIN Approval
  /\ Alone
  /\ \A r \in Run : Good(run[r], world, clock, status)

-----------------------------------------------------------------------------
(* The checks and their answers.                                           *)

LEMMA CheckNames ==
  /\ GitHubSet \subseteq CheckSet /\ "github_pr_local_state" \in CheckSet
  /\ Len(Checks) = 16 /\ Len(GitHubChecks) = 5
  /\ \A i \in 1..16 : Checks[i] \in CheckSet
  /\ \A i \in 1..5 : GitHubChecks[i] \in GitHubSet
  /\ CheckSet = {Checks[i] : i \in 1..16} /\ GitHubSet = {GitHubChecks[i] : i \in 1..5}
<1>1. Len(Checks) = 16 /\ Len(GitHubChecks) = 5
  BY DEF Checks, GitHubChecks
<1>2. CheckSet = {Checks[i] : i \in 1..16} /\ GitHubSet = {GitHubChecks[i] : i \in 1..5}
  BY <1>1 DEF CheckSet, GitHubSet
<1>3. GitHubChecks[1] = Checks[1] /\ GitHubChecks[2] = Checks[3] /\ GitHubChecks[3] = Checks[4]
      /\ GitHubChecks[4] = Checks[6] /\ GitHubChecks[5] = Checks[5]
      /\ "github_pr_local_state" = Checks[2]
  BY DEF Checks, GitHubChecks
<1>4. \A i \in 1..5 : i = 1 \/ i = 2 \/ i = 3 \/ i = 4 \/ i = 5
  OBVIOUS
<1>5. \A i \in 1..5 : \E j \in 1..16 : GitHubChecks[i] = Checks[j]
  BY <1>3, <1>4
<1> QED
  BY <1>1, <1>2, <1>3, <1>5

\* A run that knows the status of its head finds what the history of its job is
\* to hold: with no such status there is none to take out, and with one exactly
\* that is.
LEMMA FoundIsShown ==
  ASSUME NEW r \in Run, NEW q \in AllRequests,
         run[r].own = status[Approval[run[r].approval].head]
  PROVE  <<q, Found(r, q)>> \in Shown(run[r].approval, world, clock, status)
<1> DEFINE a == run[r].approval
           h == Approval[a].head
           S == Shown(a, world, clock, status)
<1>1. CASE q # <<"entries">>
  <2>1. Found(r, q) = Answer(q, world, clock)
    BY <1>1 DEF Found
  <2>2. <<q, Answer(q, world, clock)>> \in S
    BY <1>1 DEF Shown
  <2> QED
    BY <2>1, <2>2
<1>2. CASE q = <<"entries">>
  <2>1. Found(r, q) = EntriesRead(r)
    BY <1>2 DEF Found
  <2>2. \A x \in {world.head, h} : <<q, EntriesOf(x, a, world, status)>> \in S
    BY <1>2 DEF Shown
  <2>3. EntriesOf(h, a, world, status) = world.entries[h]
    BY DEF EntriesOf
  <2>4. CASE run[r].own # None
    <3>1. EntriesRead(r) = world.entries[h]
      BY <2>4 DEF EntriesRead
    <3> QED
      BY <2>1, <2>2, <2>3, <3>1
  <2>5. CASE run[r].own = None /\ world.head = h
    <3>1. EntriesRead(r) = world.entries[h]
      BY <2>5 DEF EntriesRead, OwnEntries
    <3> QED
      BY <2>1, <2>2, <2>3, <3>1
  <2>6. CASE run[r].own = None /\ world.head # h
    <3>1. EntriesRead(r) = EntriesOf(world.head, a, world, status)
      BY <2>6 DEF EntriesRead, EntriesOf
    <3> QED
      BY <2>1, <2>2, <3>1
  <2> QED
    BY <2>4, <2>5, <2>6
<1> QED
  BY <1>1, <1>2

\* One more answer of the job and all are of the job; the others stay.
LEMMA OneMoreStood ==
  ASSUME NEW v, NEW shown, Stood(v, shown), NEW q, NEW x, <<q, x>> \in shown
  PROVE  Stood(With(v, q, x), shown)
BY DEF Stood, With

LEMMA RowsStay ==
  ASSUME NEW rows, NEW c, NEW d, NEW v, NEW shown,
         d = c => Rests(v, c, shown), d # c => RowOk(rows, d, shown)
  PROVE  RowOk(With(rows, c, v), d, shown)
BY DEF RowOk, With

LEMMA RowsGrow ==
  ASSUME NEW rows, NEW c, NEW shown, NEW more, shown \subseteq more, RowOk(rows, c, shown)
  PROVE  RowOk(rows, c, more)
BY DEF RowOk, Rests

-----------------------------------------------------------------------------
(* What changes around a run keeps it good: its history takes it in.       *)

Seen(i, w, now, st) ==
  IF i.step \in Over \/ i.approval = None THEN i
  ELSE [i EXCEPT
          !.collecting = IF i.step \in Collecting THEN @ \cup Shown(i.approval, w, now, st) ELSE @,
          !.publishing = IF i.step \in Publishing THEN @ \cup Shown(i.approval, w, now, st) ELSE @,
          !.confirmed = @ \/ (i.step \in Collected /\ w.digest = i.approval),
          !.valid = IF i.step \in Reread THEN @ \cup Validity(i.approval, w, now) ELSE @]

LEMMA ValidityIsBoth ==
  ASSUME NEW a, NEW w, NEW now
  PROVE  Validity(a, w, now) \subseteq Both
BY DEF Validity, Both

LEMMA SeenIsGood ==
  ASSUME NEW i, NEW w, NEW now, NEW v, NEW then, NEW st, Good(i, w, now, st)
  PROVE  Good(Seen(i, v, then, st), v, then, st)
<1> USE DEF Good
<1>1. CASE i.step \in Over \/ i.approval = None
  <2>1. Seen(i, v, then, st) = i
    BY <1>1 DEF Seen
  <2>2. i.step \notin Authorised
    BY <1>1, ApprovalAssumption DEF Early, Over, Authorised, None
  <2> QED
    BY <2>1, <2>2 DEF Authorised, Entered, Accepted, Reread, Collected, Collecting, Publishing,
                      Present, FirstReading, SecondReading, Confirmation
<1>2. CASE ~(i.step \in Over \/ i.approval = None)
  <2> DEFINE shown == Shown(i.approval, v, then, st)
             j == Seen(i, v, then, st)
  <2>1. /\ DOMAIN j = Fields /\ j.step = i.step /\ j.approval = i.approval /\ j.own = i.own
        /\ j.state = i.state /\ j.rows = i.rows /\ j.place = i.place /\ j.view = i.view
    BY <1>2 DEF Seen, Shaped, Fields, Dormant
  <2>2. j.confirmed = (i.confirmed \/ (i.step \in Collected /\ v.digest = i.approval))
    BY <1>2 DEF Seen, Shaped, Fields, Dormant
  <2>3. /\ j.collecting = (IF i.step \in Collecting THEN i.collecting \cup shown ELSE i.collecting)
        /\ j.publishing = (IF i.step \in Publishing THEN i.publishing \cup shown ELSE i.publishing)
        /\ j.valid = (IF i.step \in Reread THEN i.valid \cup Validity(i.approval, v, then) ELSE i.valid)
    BY <1>2 DEF Seen, Shaped, Fields, Dormant
  <2> HIDE DEF j
  <2>4. Shaped(j) /\ Early(j) /\ Own(j, st)
    BY <2>1 DEF Shaped, Early, Own
  <2>5. Present(j, v, then, st)
    BY <2>1, <2>3 DEF Present
  <2> HIDE DEF shown
  <2>6. i.collecting \subseteq j.collecting /\ i.publishing \subseteq j.publishing
    BY <2>3
  <2>7. FirstReading(j)
    BY <2>1, <2>6, RowsGrow DEF FirstReading, Stood
  <2>8. SecondReading(j)
    BY <2>1, <2>6, RowsGrow DEF SecondReading, Stood
  <2>9. Confirmation(j, v, then)
    BY <2>1, <2>2, <2>3, ValidityIsBoth DEF Confirmation, Accepted, Collected, Reread
  <2>10. Concluded(j)
    BY <1>2, <2>1 DEF Concluded, Over
  <2> QED
    BY <2>4, <2>5, <2>7, <2>8, <2>9, <2>10 DEF j
<1> QED
  BY <1>1, <1>2

-----------------------------------------------------------------------------
(* A step of a run keeps it good.                                          *)

LEMMA Shapes ==
  ASSUME Inv, NEW r \in Run
  PROVE  DOMAIN run[r] = {"step", "source", "approval", "own", "place", "view", "rows", "collected",
                          "state", "collecting", "publishing", "confirmed", "valid"}
BY DEF Inv, Good, Shaped, Fields, Dormant

LEMMA DormantIsGood ==
  ASSUME NEW i, NEW w, NEW now, NEW st, i = Dormant \/ i = [Dormant EXCEPT !.step = "stopped"]
  PROVE  Good(i, w, now, st)
<1>1. /\ DOMAIN i = Fields /\ i.step \in {"idle", "stopped"}
      /\ i.state = None /\ i.view = Nothing
  BY DEF Fields, Dormant
<1> QED
  BY <1>1
  DEF Good, Shaped, Early, Own, Present, FirstReading, SecondReading, Confirmation, Concluded, Steps,
      Authorised, Entered, Accepted, Reread, Collected, Collecting, Publishing

\* Where only the step changes: to a place that asks for no more.
LEMMA GoingOnIsGood ==
  ASSUME Inv, NEW r \in Run,
         \/ Begin(r) \/ Context(r, "context", "verify") \/ Accept(r)
         \/ Expiry(r) \/ Context(r, "pull", "post")
  PROVE  Good(run'[r], world, clock, status)
<1> USE DEF Goes
<1> DEFINE i == run[r]
           j == run'[r]
<1>1. /\ DOMAIN j = Fields /\ j.approval = i.approval /\ j.own = i.own /\ j.state = i.state
      /\ j.rows = i.rows /\ j.place = i.place /\ j.view = i.view
      /\ j.collecting = i.collecting /\ j.publishing = i.publishing
      /\ j.confirmed = i.confirmed /\ j.valid = i.valid
  BY Shapes DEF Inv, Begin, Context, Accept, Expiry, Fields, Dormant
<1>2. \/ i.step = "waiting" /\ j.step = "prepare"
      \/ i.step = "context" /\ j.step = "verify"
      \/ i.step = "accept" /\ j.step = "ownAgain"
      \/ /\ i.step = "expiry" /\ j.step = "pull"
         /\ InForce(run[r].approval, clock)
      \/ /\ i.step = "pull" /\ j.step = "post"
         /\ OnTarget(run[r].approval, world)
  BY Shapes DEF Inv, Begin, Context, Accept, Expiry
<1>3. Good(i, world, clock, status)
  BY DEF Inv
<1>4. InForce(i.approval, clock) => "inForce" \in Validity(i.approval, world, clock)
  BY DEF Validity
<1>5. OnTarget(i.approval, world) => "onTarget" \in Validity(i.approval, world, clock)
  BY DEF Validity
<1> HIDE DEF i, j
<1>6. Shaped(j) /\ Early(j) /\ Own(j, status) /\ Present(j, world, clock, status)
  BY <1>1, <1>2, <1>3
  DEF i, j, Good, Shaped, Steps, Early, Own, Authorised, Present, Collecting, Publishing
<1>7. FirstReading(j) /\ SecondReading(j)
  BY <1>1, <1>2, <1>3 DEF i, j, Good, FirstReading, SecondReading, Entered, Reread
<1>8. Confirmation(j, world, clock)
  BY <1>1, <1>2, <1>3, <1>4, <1>5
  DEF i, j, Good, Confirmation, Collected, Accepted, Reread
<1>9. Concluded(j)
  BY <1>2 DEF j, Concluded
<1> QED
  BY <1>6, <1>7, <1>8, <1>9 DEF j, Good

LEMMA PrepareIsGood ==
  ASSUME Inv, NEW r \in Run, Prepare(r)
  PROVE  Good(run'[r], world, clock, status)
<1>1. /\ DOMAIN run'[r] = Fields /\ run'[r].step = "context"
      /\ run'[r].approval = world.approval /\ run'[r].state = run[r].state
      /\ run'[r].view = run[r].view
  BY Shapes DEF Inv, Prepare, Fields, Dormant
<1>2. Early(run[r]) /\ run[r].step = "prepare" /\ world.approval \in DOMAIN Approval
  BY DEF Inv, Good, Prepare
<1> QED
  BY <1>1, <1>2
  DEF Good, Shaped, Steps, Early, Own, Present, FirstReading, SecondReading, Confirmation, Concluded,
      Authorised, Entered, Accepted, Reread, Collected, Collecting, Publishing

\* A history begins: what is there now.  Nothing has been asked yet.
LEMMA VerifyIsGood ==
  ASSUME Inv, NEW r \in Run, Verify(r)
  PROVE  Good(run'[r], world, clock, status)
<1>1. /\ DOMAIN run'[r] = Fields /\ run'[r].step = "own" /\ run'[r].approval = run[r].approval
      /\ run'[r].state = run[r].state /\ run'[r].view = run[r].view
      /\ run'[r].collecting = Shown(run[r].approval, world, clock, status)
  BY Shapes DEF Inv, Verify, Fields, Dormant
<1>2. Early(run[r]) /\ run[r].step = "verify"
  BY DEF Inv, Good, Verify
<1> QED
  BY <1>1, <1>2
  DEF Good, Shaped, Steps, Early, Own, Present, FirstReading, SecondReading, Confirmation, Concluded,
      Authorised, Entered, Accepted, Reread, Collected, Collecting, Publishing

LEMMA OwnStatusIsGood ==
  ASSUME Inv, NEW r \in Run,
         OwnStatus(r, "own", "collect") \/ OwnStatus(r, "ownAgain", "refresh")
  PROVE  Good(run'[r], world, clock, status)
<1> DEFINE i == run[r]
           j == run'[r]
<1>0. ASSUME NEW here, NEW next, OwnStatus(r, here, next)
      PROVE  /\ DOMAIN j = Fields /\ j.approval = i.approval /\ j.state = i.state
             /\ j.view = i.view /\ j.rows = i.rows /\ j.place = 1
             /\ j.collecting = i.collecting /\ j.publishing = i.publishing
             /\ j.confirmed = i.confirmed /\ j.own = status[Approval[i.approval].head]
             /\ i.step = here /\ j.step = next
  BY <1>0, Shapes DEF Inv, OwnStatus, Fields, Dormant
<1>1. /\ DOMAIN j = Fields /\ j.approval = i.approval /\ j.state = i.state
      /\ j.view = i.view /\ j.rows = i.rows /\ j.place = 1
      /\ j.collecting = i.collecting /\ j.publishing = i.publishing
      /\ j.confirmed = i.confirmed /\ j.own = status[Approval[i.approval].head]
  BY <1>0
<1>2. \/ i.step = "own" /\ j.step = "collect"
      \/ i.step = "ownAgain" /\ j.step = "refresh"
  BY <1>0
<1>3. Good(i, world, clock, status)
  BY DEF Inv
<1> HIDE DEF i, j
<1>4. Shaped(j) /\ Early(j) /\ Own(j, status)
  BY <1>1, <1>2, <1>3 DEF Good, Shaped, Steps, Early, Own, Authorised
<1>5. Present(j, world, clock, status)
  BY <1>1, <1>2, <1>3 DEF Good, Present, Collecting, Publishing
<1>6. Stood(j.view, j.collecting) /\ Stood(j.view, j.publishing)
  BY <1>1, <1>2, <1>3 DEF Good, Early, Stood, Nothing
<1>7. FirstReading(j) /\ SecondReading(j)
  BY <1>1, <1>2, <1>3, <1>6 DEF Good, FirstReading, SecondReading, Entered, Reread
<1>8. Confirmation(j, world, clock) /\ Concluded(j)
  BY <1>1, <1>2, <1>3 DEF Good, Confirmation, Collected, Accepted, Reread, Concluded
<1> QED
  BY <1>4, <1>5, <1>7, <1>8 DEF j, Good

\* What a request does to its run: the check has one more answer, or it is
\* concluded on answers that all were there in the course of the job.
LEMMA AskAnswers ==
  ASSUME Inv, NEW r \in Run, NEW list, NEW next, Ask(r, list, next),
         NEW shown, Stood(run[r].view, shown),
         Shown(run[r].approval, world, clock, status) \subseteq shown,
         run[r].own = status[Approval[run[r].approval].head]
  PROVE  LET i == run[r]
             j == run'[r]
             c == list[i.place]
         IN /\ DOMAIN j = Fields /\ j.approval = i.approval /\ j.state = i.state /\ j.own = i.own
            /\ j.collecting = i.collecting /\ j.publishing = i.publishing
            /\ j.confirmed = i.confirmed
            /\ \/ /\ j.step = i.step /\ j.place = i.place /\ j.rows = i.rows /\ j.valid = i.valid
                  /\ Stood(j.view, shown)
               \/ /\ j.step = (IF i.place = Len(list) THEN next ELSE i.step)
                  /\ j.place = i.place + 1 /\ j.view = Nothing
                  /\ \E v : Rests(v, c, shown) /\ j.rows = With(i.rows, c, v)
                  /\ i.place = Len(list) /\ next = "expiry"
                       => j.valid = Validity(i.approval, world, clock)
<1> DEFINE i == run[r]
           j == run'[r]
           c == list[i.place]
           q == Open(c, i.view)[1]
           found == With(i.view, q, Found(r, q))
<1>1. q \in AllRequests
  BY DEF Ask
<1>2. Stood(found, shown)
  <2>1. <<q, Found(r, q)>> \in shown
    BY <1>1, FoundIsShown
  <2> HIDE DEF q
  <2> QED
    BY <2>1, OneMoreStood
<1>3. /\ run = [p \in Run |-> run[p]]
      /\ DOMAIN i = Fields
  BY DEF Inv, Good, Shaped
<1>4. CASE Open(c, found) # <<>>
  <2>1. run' = [run EXCEPT ![r].view = found]
    BY <1>4 DEF Ask
  <2>2. j = [i EXCEPT !.view = found]
    BY <1>3, <2>1
  <2> HIDE DEF found, i, j
  <2>3. /\ DOMAIN j = Fields /\ j.approval = i.approval /\ j.state = i.state /\ j.own = i.own
        /\ j.collecting = i.collecting /\ j.publishing = i.publishing
        /\ j.confirmed = i.confirmed /\ j.view = found
        /\ j.step = i.step /\ j.place = i.place /\ j.rows = i.rows /\ j.valid = i.valid
    BY <1>3, <2>2 DEF Fields, Dormant
  <2> QED
    BY <1>2, <2>3 DEF i, j
<1>5. CASE Open(c, found) = <<>>
  <2> DEFINE last == i.place = Len(list)
  <2>1. run' = [run EXCEPT ![r].view = Nothing,
                           ![r].rows = With(@, c, found),
                           ![r].place = @ + 1,
                           ![r].step = IF last THEN next ELSE @,
                           ![r].valid = IF last /\ next = "expiry"
                                        THEN Validity(i.approval, world, clock) ELSE @]
    BY <1>5 DEF Ask
  <2>2. j = [i EXCEPT !.view = Nothing,
                      !.rows = With(@, c, found),
                      !.place = @ + 1,
                      !.step = IF last THEN next ELSE @,
                      !.valid = IF last /\ next = "expiry"
                                THEN Validity(i.approval, world, clock) ELSE @]
    <3> HIDE DEF found, c, last
    <3> QED
      BY <1>3, <2>1 DEF Fields, Dormant
  <2>3. Rests(found, c, shown)
    BY <1>2, <1>5 DEF Rests, Stood
  <2> HIDE DEF found, c, i, j, last
  <2>4. /\ DOMAIN j = Fields /\ j.approval = i.approval /\ j.state = i.state /\ j.own = i.own
        /\ j.collecting = i.collecting /\ j.publishing = i.publishing
        /\ j.confirmed = i.confirmed
        /\ j.step = (IF last THEN next ELSE i.step)
        /\ j.place = i.place + 1 /\ j.view = Nothing
        /\ j.rows = With(i.rows, c, found)
        /\ last /\ next = "expiry" => j.valid = Validity(i.approval, world, clock)
    BY <1>3, <2>2 DEF Fields, Dormant
  <2> QED
    BY <2>3, <2>4 DEF i, j, c, last
<1> QED
  BY <1>4, <1>5

\* The next request of the first reading.
LEMMA CollectIsGood ==
  ASSUME Inv, NEW r \in Run, Collect(r)
  PROVE  Good(run'[r], world, clock, status)
<1> DEFINE i == run[r]
           j == run'[r]
           c == Checks[i.place]
           S == i.collecting
<1>1. /\ i.step = "collect" /\ Good(i, world, clock, status)
      /\ i.place \in 1..16 /\ Stood(i.view, S)
      /\ Shown(i.approval, world, clock, status) \subseteq S
      /\ i.own = status[Approval[i.approval].head]
  BY DEF Inv, Good, FirstReading, Own, Present, Collecting, Collect
<1>2. Ask(r, Checks, "record")
  BY DEF Collect
<1>3. /\ DOMAIN j = Fields /\ j.approval = i.approval /\ j.state = i.state /\ j.own = i.own
      /\ j.collecting = i.collecting /\ j.publishing = i.publishing /\ j.confirmed = i.confirmed
      /\ \/ /\ j.step = i.step /\ j.place = i.place /\ j.rows = i.rows
            /\ Stood(j.view, S)
         \/ /\ j.step = (IF i.place = 16 THEN "record" ELSE i.step)
            /\ j.place = i.place + 1 /\ j.view = Nothing
            /\ \E v : Rests(v, c, S) /\ j.rows = With(i.rows, c, v)
  <2>1. /\ DOMAIN j = Fields /\ j.approval = i.approval /\ j.state = i.state /\ j.own = i.own
        /\ j.collecting = i.collecting /\ j.publishing = i.publishing
        /\ j.confirmed = i.confirmed
        /\ \/ /\ j.step = i.step /\ j.place = i.place /\ j.rows = i.rows /\ j.valid = i.valid
              /\ Stood(j.view, S)
           \/ /\ j.step = (IF i.place = Len(Checks) THEN "record" ELSE i.step)
              /\ j.place = i.place + 1 /\ j.view = Nothing
              /\ \E v : Rests(v, c, S) /\ j.rows = With(i.rows, c, v)
              /\ i.place = Len(Checks) /\ "record" = "expiry"
                   => j.valid = Validity(i.approval, world, clock)
    BY <1>1, <1>2, AskAnswers
  <2> HIDE DEF i, j, c, S
  <2> QED
    BY <2>1, CheckNames
<1>4. \A k \in 1..(i.place - 1) : RowOk(i.rows, Checks[k], S)
  BY <1>1 DEF Good, FirstReading
<1>5. Stood(Nothing, S)
  BY DEF Stood, Nothing
<1> HIDE DEF i, j, S, c
<1>6. Shaped(j) /\ Early(j) /\ Own(j, status)
  BY <1>1, <1>3 DEF Good, Shaped, Steps, Early, Own, Authorised
<1>7. Present(j, world, clock, status)
  BY <1>1, <1>3 DEF Good, Present, Collecting, Publishing
<1>8. FirstReading(j)
  <2>1. CASE j.step = i.step /\ j.place = i.place /\ j.rows = i.rows /\ Stood(j.view, S)
    BY <1>1, <1>3, <1>4, <2>1 DEF FirstReading, Entered, S
  <2>2. CASE /\ j.step = (IF i.place = 16 THEN "record" ELSE i.step)
             /\ j.place = i.place + 1 /\ j.view = Nothing
             /\ \E v : Rests(v, c, S) /\ j.rows = With(i.rows, c, v)
    <3>1. \A k \in 1..i.place : RowOk(j.rows, Checks[k], S)
      <4>1. PICK v : Rests(v, c, S) /\ j.rows = With(i.rows, c, v)
        BY <2>2
      <4>2. ASSUME NEW k \in 1..i.place
            PROVE  RowOk(j.rows, Checks[k], S)
        <5>1. k = i.place \/ k \in 1..(i.place - 1)
          BY <1>1
        <5>2. Checks[k] # c => RowOk(i.rows, Checks[k], S)
          BY <1>4, <5>1 DEF c
        <5> QED
          BY <4>1, <5>2, RowsStay
      <4> QED
        BY <4>2
    <3>2. CASE i.place = 16
      <4>1. \A d \in CheckSet : RowOk(j.rows, d, S)
        BY <3>1, <3>2, CheckNames
      <4> QED
        BY <1>3, <2>2, <3>2, <4>1 DEF FirstReading, S
    <3>3. CASE i.place # 16
      <4>1. j.place \in 1..16 /\ j.place - 1 = i.place
        BY <1>1, <2>2, <3>3
      <4> QED
        BY <1>1, <1>3, <1>5, <2>2, <3>1, <3>3, <4>1 DEF FirstReading, Entered, S
    <3> QED
      BY <3>2, <3>3
  <2> QED
    BY <1>3, <2>1, <2>2
<1>9. SecondReading(j) /\ Confirmation(j, world, clock) /\ Concluded(j)
  BY <1>1, <1>3 DEF SecondReading, Confirmation, Concluded, Reread, Collected, Accepted
<1> QED
  BY <1>6, <1>7, <1>8, <1>9 DEF j, Good

LEMMA RecordIsGood ==
  ASSUME Inv, NEW r \in Run, Record(r)
  PROVE  Good(run'[r], world, clock, status)
<1> DEFINE i == run[r]
           j == run'[r]
<1>1. /\ DOMAIN j = Fields /\ j.approval = i.approval /\ j.state = i.state
      /\ j.view = i.view /\ j.rows = i.rows /\ j.collecting = i.collecting
      /\ j.step = "current" /\ i.step = "record"
      /\ j.confirmed = (world.digest = i.approval)
  BY Shapes DEF Inv, Record, Fields, Dormant
<1>2. Good(i, world, clock, status)
  BY DEF Inv
<1> HIDE DEF i, j
<1>3. Shaped(j) /\ Early(j) /\ Own(j, status) /\ Present(j, world, clock, status)
  BY <1>1, <1>2
  DEF Good, Shaped, Steps, Early, Own, Authorised, Present, Collecting, Publishing
<1>4. FirstReading(j)
  BY <1>1, <1>2 DEF Good, FirstReading, Entered
<1>5. SecondReading(j) /\ Confirmation(j, world, clock) /\ Concluded(j)
  BY <1>1 DEF SecondReading, Confirmation, Concluded, Reread, Collected, Accepted
<1> QED
  BY <1>3, <1>4, <1>5 DEF j, Good

\* The job that publishes begins, and with it the history GitHub's rows are to
\* rest on.
LEMMA CurrentIsGood ==
  ASSUME Inv, NEW r \in Run, Current(r)
  PROVE  Good(run'[r], world, clock, status)
<1> DEFINE i == run[r]
           j == run'[r]
<1>1. /\ DOMAIN j = Fields /\ j.approval = i.approval /\ j.state = i.state
      /\ j.view = i.view /\ j.rows = i.rows /\ j.confirmed = i.confirmed
      /\ j.collecting = i.collecting
      /\ j.publishing = Shown(i.approval, world, clock, status)
      /\ j.step = "accept" /\ i.step = "current" /\ world.digest = i.approval
  BY Shapes DEF Inv, Current, Fields, Dormant
<1>2. Good(i, world, clock, status)
  BY DEF Inv
<1>3. Present(j, world, clock, status)
  BY <1>1 DEF Present, Collecting
<1> HIDE DEF i, j
<1>4. Shaped(j) /\ Early(j) /\ Own(j, status)
  BY <1>1, <1>2 DEF Good, Shaped, Steps, Early, Own, Authorised
<1>5. FirstReading(j)
  BY <1>1, <1>2 DEF Good, FirstReading, Entered
<1>6. Confirmation(j, world, clock)
  BY <1>1, <1>2 DEF Good, Confirmation, Collected, Accepted, Reread
<1>7. SecondReading(j) /\ Concluded(j)
  BY <1>1 DEF SecondReading, Concluded, Reread
<1> QED
  BY <1>3, <1>4, <1>5, <1>6, <1>7 DEF j, Good

\* The next request of the second reading.
LEMMA RefreshIsGood ==
  ASSUME Inv, NEW r \in Run, Refresh(r)
  PROVE  Good(run'[r], world, clock, status)
<1> DEFINE i == run[r]
           j == run'[r]
           c == GitHubChecks[i.place]
           S == i.publishing
<1>1. /\ i.step = "refresh" /\ Good(i, world, clock, status)
      /\ i.place \in 1..5 /\ Stood(i.view, S)
      /\ Shown(i.approval, world, clock, status) \subseteq S
      /\ i.own = status[Approval[i.approval].head]
  BY DEF Inv, Good, SecondReading, Own, Present, Publishing, Refresh
<1>2. Ask(r, GitHubChecks, "expiry")
  BY DEF Refresh
<1>3. /\ DOMAIN j = Fields /\ j.approval = i.approval /\ j.state = i.state /\ j.own = i.own
      /\ j.collecting = i.collecting /\ j.publishing = i.publishing /\ j.confirmed = i.confirmed
      /\ \/ /\ j.step = i.step /\ j.place = i.place /\ j.rows = i.rows
            /\ Stood(j.view, S)
         \/ /\ j.step = (IF i.place = 5 THEN "expiry" ELSE i.step)
            /\ j.place = i.place + 1 /\ j.view = Nothing
            /\ \E v : Rests(v, c, S) /\ j.rows = With(i.rows, c, v)
            /\ i.place = 5 => j.valid = Validity(i.approval, world, clock)
  <2>1. /\ DOMAIN j = Fields /\ j.approval = i.approval /\ j.state = i.state /\ j.own = i.own
        /\ j.collecting = i.collecting /\ j.publishing = i.publishing
        /\ j.confirmed = i.confirmed
        /\ \/ /\ j.step = i.step /\ j.place = i.place /\ j.rows = i.rows /\ j.valid = i.valid
              /\ Stood(j.view, S)
           \/ /\ j.step = (IF i.place = Len(GitHubChecks) THEN "expiry" ELSE i.step)
              /\ j.place = i.place + 1 /\ j.view = Nothing
              /\ \E v : Rests(v, c, S) /\ j.rows = With(i.rows, c, v)
              /\ i.place = Len(GitHubChecks) /\ "expiry" = "expiry"
                   => j.valid = Validity(i.approval, world, clock)
    BY <1>1, <1>2, AskAnswers
  <2> HIDE DEF i, j, c, S
  <2> QED
    BY <2>1, CheckNames
<1>4. /\ \A k \in 1..(i.place - 1) : RowOk(i.rows, GitHubChecks[k], S)
      /\ \A d \in CheckSet \ GitHubSet : RowOk(i.rows, d, i.collecting)
  BY <1>1 DEF Good, FirstReading, SecondReading, Entered
<1>5. Stood(Nothing, S)
  BY DEF Stood, Nothing
<1>6. c \in GitHubSet
  BY <1>1, CheckNames
<1>7. Validity(i.approval, world, clock) \subseteq Both
  BY ValidityIsBoth
<1> HIDE DEF i, j, S, c
<1>8. Shaped(j) /\ Early(j) /\ Own(j, status)
  BY <1>1, <1>3 DEF Good, Shaped, Steps, Early, Own, Authorised
<1>9. Present(j, world, clock, status)
  BY <1>1, <1>3 DEF Good, Present, Collecting, Publishing
<1>10. FirstReading(j)
  <2>1. ASSUME NEW d \in CheckSet \ GitHubSet PROVE RowOk(j.rows, d, i.collecting)
    <3>1. RowOk(i.rows, d, i.collecting) /\ d # c
      BY <1>4, <1>6
    <3>2. ASSUME NEW v, j.rows = With(i.rows, c, v) PROVE RowOk(j.rows, d, i.collecting)
      BY <3>1, <3>2, RowsStay
    <3> QED
      BY <1>3, <3>1, <3>2
  <2> QED
    BY <1>1, <1>3, <2>1 DEF FirstReading
<1>11. SecondReading(j)
  <2>1. CASE j.step = i.step /\ j.place = i.place /\ j.rows = i.rows /\ Stood(j.view, S)
    BY <1>1, <1>3, <1>4, <2>1 DEF SecondReading, Reread, S
  <2>2. CASE /\ j.step = (IF i.place = 5 THEN "expiry" ELSE i.step)
             /\ j.place = i.place + 1 /\ j.view = Nothing
             /\ \E v : Rests(v, c, S) /\ j.rows = With(i.rows, c, v)
    <3>1. \A k \in 1..i.place : RowOk(j.rows, GitHubChecks[k], S)
      <4>1. PICK v : Rests(v, c, S) /\ j.rows = With(i.rows, c, v)
        BY <2>2
      <4>2. ASSUME NEW k \in 1..i.place
            PROVE  RowOk(j.rows, GitHubChecks[k], S)
        <5>1. k = i.place \/ k \in 1..(i.place - 1)
          BY <1>1
        <5>2. GitHubChecks[k] # c => RowOk(i.rows, GitHubChecks[k], S)
          BY <1>4, <5>1 DEF c
        <5> QED
          BY <4>1, <5>2, RowsStay
      <4> QED
        BY <4>2
    <3>2. CASE i.place = 5
      <4>1. \A d \in GitHubSet : RowOk(j.rows, d, S)
        BY <3>1, <3>2, CheckNames
      <4> QED
        BY <1>3, <2>2, <3>2, <4>1 DEF SecondReading, S
    <3>3. CASE i.place # 5
      <4>1. j.place \in 1..5 /\ j.place - 1 = i.place
        BY <1>1, <2>2, <3>3
      <4> QED
        BY <1>1, <1>3, <1>5, <2>2, <3>1, <3>3, <4>1 DEF SecondReading, Reread, S
    <3> QED
      BY <3>2, <3>3
  <2> QED
    BY <1>3, <2>1, <2>2
<1>12. Confirmation(j, world, clock)
  BY <1>1, <1>3, <1>7 DEF Good, Confirmation, Collected, Accepted, Reread
<1>13. Concluded(j)
  BY <1>1, <1>3 DEF Concluded
<1> QED
  BY <1>8, <1>9, <1>10, <1>11, <1>12, <1>13 DEF j, Good

\* What is posted was approved.
LEMMA PostIsGood ==
  ASSUME Inv, NEW r \in Run, Post(r)
  PROVE  Good(run'[r], world, clock, status')
<1> DEFINE i == run[r]
           j == run'[r]
<1>1. j = [Dormant EXCEPT !.step = "posted", !.state = Verdict(i), !.approval = i.approval,
                          !.confirmed = i.confirmed, !.valid = i.valid]
  BY DEF Inv, Post
<1>2. i.step = "post" /\ Good(i, world, clock, status)
  BY DEF Inv, Post
<1> HIDE DEF i, j
<1>3. /\ DOMAIN j = Fields /\ j.approval = i.approval /\ j.view = Nothing
      /\ j.confirmed = i.confirmed /\ j.valid = i.valid /\ j.step = "posted"
  BY <1>1 DEF Fields, Dormant
<1>4. /\ i.confirmed /\ i.valid = Both /\ i.approval \in DOMAIN Approval
  BY <1>2 DEF Good, Early, Authorised, Reread, Confirmation, Accepted, Both
<1> QED
  BY <1>3, <1>4
  DEF j, Good, Shaped, Steps, Early, Own, Present, FirstReading, SecondReading, Confirmation,
      Concluded, Authorised, Entered, Accepted, Reread, Collected, Collecting, Publishing

-----------------------------------------------------------------------------
(* Every step keeps the invariant.                                         *)

\* A run that is dispatched waits; those that waited are over.
LEMMA DispatchIsGood ==
  ASSUME Inv, NEW r \in Run, Dispatch(r)
  PROVE  /\ run' = [q \in Run |-> run'[q]]
         /\ \A q \in Run : /\ Good(run'[q], world, clock, status)
                           /\ run'[q].step \notin Over => run[q].step \notin Over
<1>1. run' = [q \in Run |-> run'[q]]
  BY DEF Dispatch
<1>2. Good(run'[r], world, clock, status) /\ run'[r].step \in Over
  <2> DEFINE i == run[r]
             j == run'[r]
  <2>1. /\ DOMAIN j = Fields /\ j.step = "waiting" /\ i.step = "idle"
        /\ j.state = i.state /\ j.view = i.view
    BY Shapes DEF Inv, Dispatch, Fields, Dormant
  <2>2. Early(i)
    BY DEF Inv, Good
  <2> HIDE DEF i, j
  <2>3. Good(j, world, clock, status) /\ j.step \in Over
    BY <2>1, <2>2
    DEF Good, Shaped, Steps, Early, Own, Present, FirstReading, SecondReading, Confirmation, Concluded,
        Over, Authorised, Entered, Accepted, Reread, Collected, Collecting, Publishing
  <2> QED
    BY <2>3 DEF j
<1>3. ASSUME NEW q \in Run, q # r
      PROVE  /\ Good(run'[q], world, clock, status)
             /\ run'[q].step \notin Over => run[q].step \notin Over
  <2>1. run'[q] = run[q] \/ run'[q] = [Dormant EXCEPT !.step = "stopped"]
    BY <1>3 DEF Dispatch
  <2>2. CASE run'[q] = run[q]
    BY <2>2 DEF Inv
  <2>3. CASE run'[q] = [Dormant EXCEPT !.step = "stopped"]
    <3>1. Good(run'[q], world, clock, status)
      BY <2>3, DormantIsGood
    <3>2. run'[q].step \in Over
      BY <2>3 DEF Dormant, Over
    <3> QED
      BY <3>1, <3>2
  <2> QED
    BY <2>1, <2>2, <2>3
<1> QED
  BY <1>1, <1>2, <1>3

\* Every other step is of one run alone.
LEMMA OthersStay ==
  ASSUME Inv, NEW r \in Run, RunStep(r), ~Dispatch(r)
  PROVE  /\ run' = [q \in Run |-> run'[q]]
         /\ \A q \in Run : q # r => run'[q] = run[q]
         /\ world' = world /\ clock' = clock
         /\ Post(r) \/ status' = status
         /\ \/ Begin(r)
            \/ run[r].step \notin Over
<1>1. run = [q \in Run |-> run[q]]
  BY DEF Inv
<1>2. CASE Begin(r) \/ Context(r, "context", "verify") \/ Accept(r) \/ Expiry(r)
           \/ Context(r, "pull", "post")
  BY <1>1, <1>2 DEF Begin, Context, Accept, Expiry, Goes, Still, Over
<1>3. CASE Prepare(r) \/ Verify(r) \/ OwnStatus(r, "own", "collect")
           \/ OwnStatus(r, "ownAgain", "refresh") \/ Stop(r)
  BY <1>1, <1>3 DEF Prepare, Verify, OwnStatus, Stop, Still, Over
<1>4. CASE Collect(r) \/ Record(r) \/ Current(r) \/ Refresh(r)
  <2>1. run' = [q \in Run |-> run'[q]] /\ \A q \in Run : q # r => run'[q] = run[q]
    BY <1>1, <1>4 DEF Collect, Record, Current, Refresh, Ask
  <2> QED
    BY <1>4, <2>1 DEF Collect, Record, Current, Refresh, Still, Over
<1>5. CASE Post(r)
  BY <1>1, <1>5 DEF Post, Still, Over
<1> QED
  BY <1>2, <1>3, <1>4, <1>5 DEF RunStep

\* A step of a run keeps that run good.
LEMMA StepIsGood ==
  ASSUME Inv, NEW r \in Run, RunStep(r), ~Dispatch(r)
  PROVE  Good(run'[r], world, clock, status')
<1>1. CASE Post(r)
  BY <1>1, PostIsGood
<1>2. CASE Stop(r)
  <2>1. run'[r] = [Dormant EXCEPT !.step = "stopped"]
    BY <1>2 DEF Inv, Stop
  <2> QED
    BY <2>1, DormantIsGood
<1>3. CASE ~Post(r) /\ ~Stop(r)
  <2>1. status' = status
    BY <1>3, OthersStay
  <2>2. Good(run'[r], world, clock, status)
    BY <1>3, GoingOnIsGood, PrepareIsGood, VerifyIsGood, OwnStatusIsGood, CollectIsGood,
       RecordIsGood, CurrentIsGood, RefreshIsGood DEF RunStep
  <2> QED
    BY <2>1, <2>2
<1> QED
  BY <1>1, <1>2, <1>3

\* Only the run at work asks what the statuses are.
LEMMA StatusMattersAtWork ==
  ASSUME NEW i, NEW w, NEW now, NEW st, NEW new, Good(i, w, now, st), i.step \in Over
  PROVE  Good(i, w, now, new)
BY DEF Good, Own, Present, Over, Collecting, Publishing

LEMMA RunStepKeeps ==
  ASSUME Inv, NEW r \in Run, RunStep(r)
  PROVE  Inv'
<1>1. CASE Dispatch(r)
  <2>1. world' = world /\ clock' = clock /\ status' = status
    BY <1>1 DEF Dispatch, Still
  <2>2. Alone'
    BY <1>1, DispatchIsGood DEF Inv, Alone
  <2>3. \A q \in Run : Good(run'[q], world', clock', status')
    BY <1>1, <2>1, DispatchIsGood
  <2>4. run' = [q \in Run |-> run'[q]]
    BY <1>1, DispatchIsGood
  <2> QED
    BY <2>1, <2>2, <2>3, <2>4 DEF Inv
<1>2. CASE ~Dispatch(r)
  <2>1. /\ run' = [q \in Run |-> run'[q]] /\ \A q \in Run : q # r => run'[q] = run[q]
        /\ world' = world /\ clock' = clock
        /\ Begin(r) \/ run[r].step \notin Over
    BY <1>2, OthersStay
  <2>2. \A q \in Run : q # r => run[q].step \in Over
    BY <2>1 DEF Inv, Alone, Begin
  <2>3. Alone'
    BY <2>1, <2>2 DEF Alone
  <2>4. ASSUME NEW q \in Run PROVE Good(run'[q], world', clock', status')
    <3>1. CASE q = r
      <4>1. Good(run'[r], world, clock, status')
        BY <1>2, StepIsGood
      <4>2. world' = world /\ clock' = clock
        BY <2>1
      <4> QED
        BY <3>1, <4>1, <4>2
    <3>2. CASE q # r
      <4>1. Good(run[q], world, clock, status) /\ run[q].step \in Over
        BY <2>2, <3>2 DEF Inv
      <4>2. Good(run[q], world, clock, status')
        BY <4>1, StatusMattersAtWork
      <4>3. run'[q] = run[q] /\ world' = world /\ clock' = clock
        BY <2>1, <3>2
      <4> QED
        BY <4>2, <4>3
    <3> QED
      BY <3>1, <3>2
  <2>5. "approval" \in DOMAIN world' /\ world'.approval \in DOMAIN Approval
    BY <2>1 DEF Inv
  <2> QED
    BY <2>1, <2>3, <2>4, <2>5 DEF Inv
<1> QED
  BY <1>1, <1>2

\* The facts change or time passes, and every run under way takes it in.
LEMMA SurroundingsKeep ==
  ASSUME Inv, Change \/ Tick
  PROVE  Inv'
<1>1. status' = status /\ run' = Observed(world', clock')
  BY DEF Change, Tick
<1>2. \A q \in Run : run'[q] = Seen(run[q], world', clock', status)
  BY <1>1 DEF Observed, Seen
<1>3. "approval" \in DOMAIN world' /\ world'.approval \in DOMAIN Approval
  <2>1. CASE Tick
    BY <2>1 DEF Inv, Tick
  <2>2. CASE Change
    <3>1. CASE \E fact \in DOMAIN Alternatives : \E value \in Alternatives[fact] \ {world[fact]} :
            world' = [world EXCEPT ![fact] = value]
      <4>1. PICK fact \in DOMAIN Alternatives : \E value \in Alternatives[fact] \ {world[fact]} :
              world' = [world EXCEPT ![fact] = value]
        BY <3>1
      <4>2. PICK value \in Alternatives[fact] : world' = [world EXCEPT ![fact] = value]
        BY <4>1
      <4>3. DOMAIN world' = DOMAIN world
        BY <4>2
      <4>4. CASE fact = "approval"
        BY <4>2, <4>3, <4>4, ApprovalAssumption DEF Inv
      <4>5. CASE fact # "approval"
        BY <4>2, <4>3, <4>5 DEF Inv
      <4> QED
        BY <4>4, <4>5
    <3>2. CASE \E q \in DOMAIN Replies : \E answer \in Replies[q] \ {world.answers[q]} :
                 world' = [world EXCEPT !.answers[q] = answer]
      <4>1. DOMAIN world' = DOMAIN world /\ ("approval" \in DOMAIN world => world'.approval = world.approval)
        BY <3>2
      <4> QED
        BY <4>1 DEF Inv
    <3> QED
      BY <2>2, <3>1, <3>2 DEF Change
  <2> QED
    BY <2>1, <2>2
<1>4. \A q \in Run : Good(run'[q], world', clock', status')
  BY <1>1, <1>2, SeenIsGood DEF Inv
<1>5. \A q \in Run : run'[q].step = run[q].step
  BY <1>2, Shapes DEF Seen
<1>6. run' = [q \in Run |-> run'[q]]
  BY <1>1 DEF Observed
<1> QED
  BY <1>3, <1>4, <1>5, <1>6 DEF Inv, Alone

\* No step but the post is the last of a run that has a verdict.
LEMMA StepIsNoPost ==
  ASSUME Inv, NEW r \in Run, RunStep(r), ~Dispatch(r), ~Post(r)
  PROVE  run'[r].step # "posted"
<1> USE Shapes DEF Inv, Goes
<1>1. CASE Begin(r) \/ Context(r, "context", "verify") \/ Accept(r) \/ Expiry(r)
           \/ Context(r, "pull", "post")
  BY <1>1 DEF Begin, Context, Accept, Expiry
<1>2. CASE Prepare(r) \/ Verify(r) \/ OwnStatus(r, "own", "collect")
           \/ OwnStatus(r, "ownAgain", "refresh") \/ Record(r) \/ Current(r)
  BY <1>2 DEF Prepare, Verify, OwnStatus, Record, Current
<1>3. CASE Stop(r)
  BY <1>3 DEF Stop, Dormant
<1>4. CASE Collect(r) \/ Refresh(r)
  <2>1. \/ Ask(r, Checks, "record") \/ Ask(r, GitHubChecks, "expiry")
    BY <1>4 DEF Collect, Refresh
  <2>2. run[r].step \in {"collect", "refresh"}
    BY <1>4 DEF Collect, Refresh
  <2>3. ASSUME NEW list, NEW next \in {"record", "expiry"}, Ask(r, list, next)
        PROVE  run'[r].step \in {run[r].step, next}
    BY <2>3 DEF Ask
  <2> QED
    BY <2>1, <2>2, <2>3
<1> QED
  BY <1>1, <1>2, <1>3, <1>4 DEF RunStep

LEMMA Invariance == Spec => []Inv
<1>1. Init => Inv
  <2> SUFFICES ASSUME Init PROVE Inv
    OBVIOUS
  <2>1. \A r \in Run : run[r] = Dormant
    BY DEF Init
  <2>2. \A r \in Run : Good(run[r], world, clock, status)
    BY <2>1, DormantIsGood
  <2>3. run = [q \in Run |-> run[q]]
    BY DEF Init
  <2>4. Dormant.step \in Over
    BY DEF Dormant, Over
  <2>5. world \in World
    BY DEF Init
  <2>6. "approval" \in DOMAIN world /\ world.approval \in DOMAIN Approval
    BY <2>5, ApprovalAssumption
  <2>7. Alone
    BY <2>1, <2>4 DEF Alone
  <2> QED
    BY <2>2, <2>3, <2>6, <2>7 DEF Inv
<1>2. Inv /\ [Next]_vars => Inv'
  <2> SUFFICES ASSUME Inv, [Next]_vars PROVE Inv'
    OBVIOUS
  <2>1. CASE UNCHANGED vars
    BY <2>1 DEF vars, Inv, Alone
  <2>2. CASE Change \/ Tick
    BY <2>2, SurroundingsKeep
  <2>3. CASE \E r \in Run : RunStep(r)
    BY <2>3, RunStepKeeps
  <2> QED
    BY <2>1, <2>2, <2>3 DEF Next
<1> QED
  BY <1>1, <1>2, PTL DEF Spec

-----------------------------------------------------------------------------
(* What follows.                                                           *)

\* Only a run that is over has a verdict.
LEMMA VerdictIsLast ==
  ASSUME Inv, NEW r \in Run, run[r].state # None
  PROVE  Concluded(run[r]) /\ run[r].step = "posted"
BY DEF Inv, Good, Early

\* No verdict outlives the approval it was made under.
THEOREM VerdictsAreApproved == Spec => []VerdictIsApproved
<1>1. Inv => VerdictIsApproved
  BY VerdictIsLast DEF Concluded, VerdictIsApproved, Both
<1> QED
  BY <1>1, Invariance, PTL

\* What is published is the verdict of a run that has read all of it.
LEMMA PublishIsPost ==
  ASSUME Inv, [Next]_vars, NEW r \in Run, NEW verdict \in {"success", "failure"},
         Publishes(r, verdict)
  PROVE  run[r].step = "post" /\ verdict = Verdict(run[r])
<1>1. run[r].state # verdict /\ run'[r].state = verdict /\ verdict # None
  BY DEF Publishes, None
<1>2. CASE UNCHANGED vars
  BY <1>1, <1>2 DEF vars
<1>3. CASE Change \/ Tick
  <2>1. run' = Observed(world', clock')
    BY <1>3 DEF Change, Tick
  <2>2. run'[r] = Seen(run[r], world', clock', status)
    BY <2>1 DEF Observed, Seen
  <2>3. run'[r].state = run[r].state
    BY <2>2, Shapes DEF Seen
  <2> QED
    BY <1>1, <2>3
<1>4. ASSUME NEW q \in Run, RunStep(q) PROVE run[r].step = "post" /\ verdict = Verdict(run[r])
  <2>1. CASE Dispatch(q)
    <3>1. run'[r] = run[r] \/ run'[r] = [Dormant EXCEPT !.step = "stopped"]
          \/ run'[r] = [run[r] EXCEPT !.step = "waiting", !.source = world.main]
      BY <2>1 DEF Dispatch
    <3>2. [Dormant EXCEPT !.step = "stopped"].state = None
      BY DEF Dormant
    <3>3. [run[r] EXCEPT !.step = "waiting", !.source = world.main].state = run[r].state
      BY Shapes
    <3> QED
      BY <1>1, <3>1, <3>2, <3>3
  <2>2. CASE ~Dispatch(q) /\ q # r
    <3>1. run'[r] = run[r]
      BY <1>4, <2>2, OthersStay
    <3> QED
      BY <1>1, <3>1
  <2>3. CASE ~Dispatch(q) /\ q = r
    <3>1. CASE Post(r)
      <4>1. run[r].step = "post" /\ run'[r] = [Dormant EXCEPT !.step = "posted",
                !.state = Verdict(run[r]), !.approval = run[r].approval,
                !.confirmed = run[r].confirmed, !.valid = run[r].valid]
        BY <3>1 DEF Inv, Post
      <4>2. run'[r].state = Verdict(run[r])
        BY <4>1 DEF Dormant
      <4> QED
        BY <1>1, <4>1, <4>2
    <3>2. CASE Stop(r)
      <4>1. run'[r] = [Dormant EXCEPT !.step = "stopped"]
        BY <3>2 DEF Inv, Stop
      <4>2. run'[r].state = None
        BY <4>1 DEF Dormant
      <4> QED
        BY <1>1, <4>2
    <3>3. CASE ~Post(r) /\ ~Stop(r)
      <4>1. Good(run'[r], world, clock, status')
        BY <1>4, <2>3, StepIsGood
      <4>2. run'[r].step = "posted"
        BY <1>1, <4>1 DEF Good, Early
      <4>3. run'[r].step # "posted"
        BY <1>4, <2>3, <3>3, StepIsNoPost
      <4> QED
        BY <4>2, <4>3
    <3> QED
      BY <3>1, <3>2, <3>3
  <2> QED
    BY <2>1, <2>2, <2>3
<1> QED
  BY <1>2, <1>3, <1>4 DEF Next

\* Before the post every row of the report rests on its job.
LEMMA RowsRest ==
  ASSUME Inv, NEW r \in Run, run[r].step = "post", NEW c \in CheckSet
  PROVE  RestsOn(run[r], c)
<1>1. FirstReading(run[r]) /\ SecondReading(run[r])
  BY DEF Inv, Good
<1>2. CASE c \in GitHubSet
  BY <1>1, <1>2 DEF SecondReading, Reread, RowOk, RestsOn
<1>3. CASE c \notin GitHubSet
  BY <1>1, <1>3 DEF FirstReading, Entered, RowOk, RestsOn
<1> QED
  BY <1>2, <1>3

\* A success is of a run whose checks all pass on the answers they rest on.
LEMMA SuccessIsOfAll ==
  ASSUME Inv, [Next]_vars, NEW r \in Run, Publishes(r, "success")
  PROVE  /\ run[r].step = "post" /\ Passed(run[r]) = CheckSet
         /\ \A c \in CheckSet : Holds(c, run[r].approval, run[r].rows[c])
<1>1. run[r].step = "post" /\ Verdict(run[r]) = "success"
  BY PublishIsPost
<1>2. Passed(run[r]) = CheckSet
  BY <1>1 DEF Verdict
<1> QED
  BY <1>1, <1>2 DEF Passed

\* A success is never put together from a past that is over, however often
\* the facts change while they are read: each of its checks passes on answers
\* that stood in the course of the job that counts.
THEOREM SuccessRestsOnFacts == Spec => SuccessMeansHeld
<1>1. ASSUME Inv, [Next]_vars
      PROVE  [\A r \in Run : Publishes(r, "success") =>
                \A c \in CheckSet : RestsOn(run[r], c) /\ Holds(c, run[r].approval, run[r].rows[c])]_vars
  BY <1>1, SuccessIsOfAll, RowsRest
<1> QED
  BY <1>1, Invariance, PTL DEF Spec, SuccessMeansHeld

\* A failure is never the echo of the producer's own earlier one: some check
\* does not pass on answers that stood, and the earlier one is none of them.
THEOREM FailureIsCaused == Spec => FailureHasCause
<1>1. ASSUME Inv, [Next]_vars
      PROVE  [\A r \in Run : Publishes(r, "failure") =>
                \E c \in CheckSet : RestsOn(run[r], c) /\ ~Holds(c, run[r].approval, run[r].rows[c])]_vars
  <2>1. ASSUME NEW r \in Run, Publishes(r, "failure")
        PROVE  \E c \in CheckSet : RestsOn(run[r], c) /\ ~Holds(c, run[r].approval, run[r].rows[c])
    <3>1. run[r].step = "post" /\ Verdict(run[r]) = "failure"
      BY <1>1, <2>1, PublishIsPost
    <3>2. PICK c \in CheckSet : c \notin Passed(run[r])
      BY <3>1 DEF Verdict, Passed
    <3>3. ~Holds(c, run[r].approval, run[r].rows[c])
      BY <3>2 DEF Passed
    <3>4. RestsOn(run[r], c)
      BY <1>1, <3>1, RowsRest
    <3> QED
      BY <3>3, <3>4
  <2> QED
    BY <2>1
<1> QED
  BY <1>1, Invariance, PTL DEF Spec, FailureHasCause

-----------------------------------------------------------------------------
(* A success is of a complete review: what the two checks of the review     *)
(* conclude.                                                               *)

Reviewed(a) ==
  LET matrix == Approval[a].bundle.matrix
      Once(q) == Cardinality({i \in 1..Len(matrix.rows) : matrix.rows[i].id = q}) = 1
  IN /\ \A q \in Question : Once(q)
     /\ \A i \in 1..Len(matrix.rows) : matrix.rows[i].score = 5

Attested(a) ==
  LET controls == Approval[a].bundle.controls
      Once(c) == Cardinality({i \in 1..Len(controls.rows) : controls.rows[i].id = c}) = 1
  IN /\ \A c \in Control : Once(c)
     /\ \A i \in 1..Len(controls.rows) : controls.rows[i].status = "passed"

\* Of as many rows as names, each name has one row.
LEMMA OneRowEach ==
  ASSUME NEW rows, NEW n \in Nat, NEW I \in SUBSET (1..n),
         Cardinality(I) = Cardinality({rows[i].id : i \in I}),
         NEW i \in I, NEW j \in I, rows[i].id = rows[j].id
  PROVE  i = j
<1> DEFINE ids == {rows[k].id : k \in I}
           f == [k \in I |-> rows[k].id]
<1>1. IsFiniteSet(I)
  <2>1. IsFiniteSet(1..n)
    BY FS_Interval
  <2> QED
    BY <2>1, FS_Subset
<1>2. f \in Surjection(I, ids)
  BY DEF Surjection
<1>3. f \in Injection(I, ids)
  <2> HIDE DEF f, ids
  <2>1. Cardinality(I) = Cardinality(ids)
    BY DEF ids
  <2> QED
    BY <1>1, <1>2, <2>1, FS_SurjSameCardinalityImpliesInj
<1>4. f[i] = f[j]
  OBVIOUS
<1> QED
  BY <1>3, <1>4 DEF Injection, IsInjective

\* What counts nothing is empty.
LEMMA NoneUnresolved ==
  ASSUME NEW n \in Nat, NEW U \in SUBSET (1..n), Cardinality(U) = 0
  PROVE  U = {}
<1>1. IsFiniteSet(1..n)
  BY FS_Interval
<1>2. IsFiniteSet(U)
  BY <1>1, FS_Subset
<1> QED
  BY <1>2, FS_EmptySet

\* The matrix that passes has one row for each question, all with full score.
LEMMA MatrixIsReviewed ==
  ASSUME NEW a \in DOMAIN Approval, NEW now, QuestionMatrix(Approval[a].bundle.matrix, now)
  PROVE  Reviewed(a)
<1> DEFINE matrix == Approval[a].bundle.matrix
           rows == matrix.rows
           n == Len(rows)
<1>1. rows \in Seq(Range(rows)) /\ n \in Nat
  BY ReviewAssumption
<1>2. matrix.unresolved = 0 /\ MatrixIds(matrix) /\ MatrixRows(matrix) /\ MatrixSummary(matrix)
  BY DEF QuestionMatrix
<1> HIDE DEF matrix
<1>3. \A i \in 1..n : rows[i].status = "passed"
  <2>1. Unresolved(matrix) \in SUBSET (1..n) /\ Cardinality(Unresolved(matrix)) = 0
    BY <1>2 DEF Unresolved, MatrixSummary
  <2>2. Unresolved(matrix) = {}
    BY <1>1, <2>1, NoneUnresolved
  <2> QED
    BY <2>2 DEF Unresolved
<1>4. \A i \in 1..n : rows[i].score = 5
  BY <1>2, <1>3 DEF MatrixRows
<1>5. ASSUME NEW q \in Question PROVE Cardinality({i \in 1..n : rows[i].id = q}) = 1
  <2>1. /\ Named(matrix) \in SUBSET (1..n)
        /\ Cardinality(Named(matrix)) = Cardinality({rows[i].id : i \in Named(matrix)})
        /\ q \in {rows[i].id : i \in Named(matrix)}
    BY <1>2 DEF Named, MatrixIds
  <2>2. PICK i \in Named(matrix) : rows[i].id = q
    BY <2>1
  <2>3. \A j \in 1..n : rows[j].id = q => j \in Named(matrix)
    BY <2>2 DEF Named
  <2>4. \A j \in 1..n : rows[j].id = q => j = i
    BY <1>1, <2>1, <2>2, <2>3, OneRowEach
  <2>5. {j \in 1..n : rows[j].id = q} = {i}
    BY <2>1, <2>2, <2>4
  <2> QED
    BY <2>5, FS_Singleton
<1> QED
  BY <1>4, <1>5 DEF Reviewed, matrix

\* The controls that pass have one row each, and all of them passed.
LEMMA ControlsAreAttested ==
  ASSUME NEW a \in DOMAIN Approval, NEW now, ExternalControls(Approval[a].bundle.controls, now)
  PROVE  Attested(a)
<1> DEFINE controls == Approval[a].bundle.controls
           rows == controls.rows
           n == Len(rows)
           open == {i \in 1..n : rows[i].status # "passed"}
<1>1. rows \in Seq(Range(rows)) /\ n \in Nat
  BY ReviewAssumption
<1>2. /\ Control \subseteq {rows[i].id : i \in 1..n} /\ ControlRows(controls)
      /\ Cardinality(open) = 0
  BY DEF ExternalControls
<1> HIDE DEF controls
<1>3. open = {}
  BY <1>1, <1>2, NoneUnresolved
<1>4. ASSUME NEW c \in Control PROVE Cardinality({i \in 1..n : rows[i].id = c}) = 1
  <2>1. PICK i \in 1..n : rows[i].id = c
    BY <1>2
  <2>2. \A j \in 1..n : rows[j].id = c => i = j
    BY <1>2, <2>1 DEF ControlRows
  <2>3. {j \in 1..n : rows[j].id = c} = {i}
    BY <2>1, <2>2
  <2> QED
    BY <2>3, FS_Singleton
<1> QED
  BY <1>3, <1>4 DEF Attested, controls

-----------------------------------------------------------------------------
(* With every check passed each pillar has its full score.                 *)

LEMMA EntriesAreFinite ==
  ASSUME NEW n \in Nat, NEW list
  PROVE  IsFiniteSet({list[i] : i \in 1..n})
<1> DEFINE f == [i \in 1..n |-> list[i]]
           T == {list[i] : i \in 1..n}
<1>1. f \in Surjection(1..n, T)
  BY DEF Surjection
<1>2. IsFiniteSet(1..n)
  BY FS_Interval
<1> HIDE DEF f, T
<1>3. IsFiniteSet(T)
  BY <1>1, <1>2, FS_Surjection
<1> QED
  BY <1>3 DEF T

LEMMA CheckSetIsFinite == IsFiniteSet(CheckSet)
<1>1. CheckSet = {Checks[i] : i \in 1..16}
  BY CheckNames
<1> QED
  BY <1>1, EntriesAreFinite

LEMMA PillarsAreOfChecks ==
  ASSUME NEW p \in DOMAIN PillarChecks
  PROVE  PillarChecks[p] \subseteq CheckSet /\ PillarChecks[p] # {}
<1>1. /\ Checks[1] = "github_pr_checks"
      /\ Checks[2] = "github_pr_local_state"
      /\ Checks[3] = "github_review_threads"
      /\ Checks[4] = "github_branch_protection"
      /\ Checks[5] = "github_dependabot_alerts"
      /\ Checks[6] = "github_production_environment"
      /\ Checks[7] = "aws_identity"
  BY DEF Checks
<1>2. /\ Checks[8] = "aws_iam_account_access"
      /\ Checks[9] = "aws_cost_controls"
      /\ Checks[10] = "aws_sns_alert_route"
      /\ Checks[11] = "aws_cloudtrail_management_events"
      /\ Checks[12] = "aws_restore_jobs"
      /\ Checks[13] = "restore_drill_evidence"
      /\ Checks[14] = "repository_fanout"
  BY DEF Checks
<1>3. \A i \in 1..14 : Checks[i] \in CheckSet
  BY CheckNames
<1>4. {"github_pr_checks", "github_pr_local_state", "github_review_threads",
       "github_branch_protection", "github_dependabot_alerts", "github_production_environment",
       "aws_identity"} \subseteq CheckSet
  BY <1>1, <1>3
<1>5. {"aws_iam_account_access", "aws_cost_controls", "aws_sns_alert_route",
       "aws_cloudtrail_management_events", "aws_restore_jobs", "restore_drill_evidence",
       "repository_fanout"} \subseteq CheckSet
  BY <1>2, <1>3
<1>6. p \in {"Operations", "Security", "Reliability", "Performance", "Cost", "Sustainability"}
  BY DEF PillarChecks
<1>7. CASE p \in {"Operations", "Security"}
  BY <1>4, <1>5, <1>7 DEF PillarChecks
<1>8. CASE p \in {"Reliability", "Performance"}
  BY <1>4, <1>5, <1>8 DEF PillarChecks
<1>9. CASE p \in {"Cost", "Sustainability"}
  BY <1>4, <1>5, <1>9 DEF PillarChecks
<1> QED
  BY <1>6, <1>7, <1>8, <1>9

LEMMA FullScores ==
  ASSUME NEW p \in DOMAIN PillarChecks
  PROVE  Scores(CheckSet)[p] = 500
<1> DEFINE n == Cardinality(PillarChecks[p])
<1>1. PillarChecks[p] \subseteq CheckSet /\ PillarChecks[p] # {}
  BY PillarsAreOfChecks
<1>2. n \in Nat \ {0}
  <2>1. IsFiniteSet(PillarChecks[p])
    BY <1>1, CheckSetIsFinite, FS_Subset
  <2> QED
    BY <1>1, <2>1, FS_CardinalityType, FS_EmptySet
<1>3. PillarChecks[p] \cap CheckSet = PillarChecks[p]
  BY <1>1
<1>4. (500 * n) \div n = 500
  BY <1>2
<1>5. ProxyScore(CheckSet, p) = 500
  BY <1>3, <1>4 DEF ProxyScore
<1>6. ReadinessGates \subseteq CheckSet
  <2>1. Checks[15] = "question_matrix_evidence" /\ Checks[16] = "external_control_evidence"
    BY DEF Checks
  <2> QED
    BY <2>1, CheckNames DEF ReadinessGates
<1> QED
  BY <1>5, <1>6 DEF Scores

\* What SuccessIsComplete asks of one run.
Complete(i) ==
  LET matrix   == Approval[i.approval].bundle.matrix
      controls == Approval[i.approval].bundle.controls
      Once(rows, id) == Cardinality({k \in 1..Len(rows) : rows[k].id = id}) = 1
  IN /\ \A q \in Question : Once(matrix.rows, q)
     /\ \A k \in 1..Len(matrix.rows) : matrix.rows[k].score = 5
     /\ \A c \in Control : Once(controls.rows, c)
     /\ \A k \in 1..Len(controls.rows) : controls.rows[k].status = "passed"
     /\ \A p \in DOMAIN PillarChecks : Scores(Passed(i))[p] = 500

\* A success rests on a complete review, whoever changes what meanwhile: each
\* question has one row and the full score, each control one row that passed,
\* and the checks that pass give every pillar its full score.
THEOREM SuccessIsOfACompleteReview == Spec => SuccessIsComplete
<1>1. ASSUME Inv, [Next]_vars
      PROVE  [\A r \in Run : Publishes(r, "success") => Complete(run[r])]_vars
  <2>1. ASSUME NEW r \in Run, Publishes(r, "success") PROVE Complete(run[r])
    <3>1. /\ run[r].step = "post" /\ Passed(run[r]) = CheckSet
          /\ \A c \in CheckSet : Holds(c, run[r].approval, run[r].rows[c])
      BY <1>1, <2>1, SuccessIsOfAll
    <3>2. "question_matrix_evidence" \in CheckSet /\ "external_control_evidence" \in CheckSet
      <4>1. Checks[15] = "question_matrix_evidence" /\ Checks[16] = "external_control_evidence"
        BY DEF Checks
      <4> QED
        BY <4>1, CheckNames
    <3>3. run[r].approval \in DOMAIN Approval
      BY <1>1, <3>1 DEF Inv, Good, Early, Authorised
    <3>4. Reviewed(run[r].approval)
      <4>1. Holds("question_matrix_evidence", run[r].approval, run[r].rows["question_matrix_evidence"])
        BY <3>1, <3>2
      <4>2. \E now : QuestionMatrix(Approval[run[r].approval].bundle.matrix, now)
        BY <4>1 DEF Holds
      <4> QED
        BY <3>3, <4>2, MatrixIsReviewed
    <3>5. Attested(run[r].approval)
      <4>1. Holds("external_control_evidence", run[r].approval, run[r].rows["external_control_evidence"])
        BY <3>1, <3>2
      <4>2. \E now : ExternalControls(Approval[run[r].approval].bundle.controls, now)
        BY <4>1 DEF Holds
      <4> QED
        BY <3>3, <4>2, ControlsAreAttested
    <3>6. \A p \in DOMAIN PillarChecks : Scores(Passed(run[r]))[p] = 500
      BY <3>1, FullScores
    <3> QED
      BY <3>4, <3>5, <3>6, Zenon DEF Complete, Reviewed, Attested
  <2> QED
    BY <2>1
<1>2. [\A r \in Run : Publishes(r, "success") => Complete(run[r])]_vars
        => [\A r \in Run : Publishes(r, "success") =>
              LET matrix   == Approval[run[r].approval].bundle.matrix
                  controls == Approval[run[r].approval].bundle.controls
                  Once(rows, id) == Cardinality({i \in 1..Len(rows) : rows[i].id = id}) = 1
              IN /\ \A q \in Question : Once(matrix.rows, q)
                 /\ \A i \in 1..Len(matrix.rows) : matrix.rows[i].score = 5
                 /\ \A c \in Control : Once(controls.rows, c)
                 /\ \A i \in 1..Len(controls.rows) : controls.rows[i].status = "passed"
                 /\ \A p \in DOMAIN PillarChecks : Scores(Passed(run[r]))[p] = 500]_vars
  BY Zenon DEF Complete
<1> QED
  BY <1>1, <1>2, Invariance, PTL DEF Spec, SuccessIsComplete
=============================================================================
