-------------------------- MODULE Maintenance_proofs --------------------------
(***************************************************************************)
(* What keeps the repository in order: its settings (RepositoryControls)   *)
(* and its alerts (AlertTriage), for all environments, runs, messages and  *)
(* bounds.                                                                 *)
(*                                                                         *)
(* Settings.  Three facts hold of every state whoever writes: the types,   *)
(* the shape of the lists of requests, and that the ruleset and every      *)
(* set-up that is under way ask for all that was promised (Typed).  The    *)
(* fourth is about a run beside which nobody else wrote (AloneInv): what   *)
(* it has begun is half done in a known way, and it verifies only, or      *)
(* looks before its first write, or will find all it still reads as it     *)
(* should be.                                                              *)
(*                                                                         *)
(* Alerts.  All three theorems rest on the concurrency group: one run at a *)
(* time searches, writes and deletes, and only its own receives change its *)
(* receipts.                                                               *)
(***************************************************************************)
EXTENDS RepositoryControls, AlertTriage, FiniteSetTheorems, WellFoundedInduction, TLAPS

-----------------------------------------------------------------------------
(* What the settings, the runs and their lists of requests are.            *)
Kind == {"putRuleset", "put", "list", "create", "delete", "post", "expectNone",
         "read", "readPolicies", "readRuleset", "readClassic", "inventory", "decide"}
OnEnvironment == {"put", "list", "create", "delete", "post", "expectNone",
                  "read", "readPolicies"}
Calls == [what : Kind, name : Name \cup {None}, ids : SUBSET Nat]
Field == {"kind", "todo", "payload", "seen", "sound", "wrote", "outcome"}

\* What a run has to do, and what it knows.
RunType(x) ==
  /\ x = [f \in Field |-> x[f]]
  /\ x.todo \in Seq(Calls)
  /\ x.sound \in BOOLEAN /\ x.wrote \in BOOLEAN

\* Types; an environment that is missing has no policy but main, as only this
\* tool adds policies to what it makes.
ControlsTypes ==
  /\ central \in BOOLEAN
  /\ ruleset.approvals \in Nat
  /\ env = [n \in Name |-> env[n]]
  /\ \A n \in Name : IsSettings(env[n])
  /\ \A n \in Name : env[n].mode = "missing" => Range(env[n].policies) \subseteq {"main"}
  /\ lastId \in Nat
  /\ run = [r \in Run |-> run[r]]
  /\ \A r \in Run : RunType(run[r])
  /\ alone \subseteq Run
  /\ promised.approvals \in Nat
  /\ edits \in Nat

\* Where a request may stand: what continues another one is at the head of the
\* list, or right behind the deletions it follows.
ShapeOf(c, h, kind, i) ==
  /\ c.what \in {"delete", "expectNone", "readPolicies", "putRuleset"} => i = 1
  /\ c.what = "post" => i = 1 \/ /\ i = 2 /\ h.what \in {"delete", "expectNone"}
                                 /\ h.name = c.name
  /\ c.what \in {"put", "list"} => c.name \in Range(Protected) \cup {Evidence}
  /\ c.what = "create" => c.name \in Range(Unattended)
  /\ c.what \in OnEnvironment => c.name \in Name
  /\ c.what = "putRuleset" => kind = "apply"
ShapeAt(x, i) == ShapeOf(x.todo[i], x.todo[1], x.kind, i)
Shape(x) == \A i \in DOMAIN x.todo : ShapeAt(x, i)

\* The rules ask for all that was promised: the approvals, and each check, from
\* the app it had; a promotion that is retired in the central repository may go.
Promises(rules) ==
  /\ rules.approvals \in Nat
  /\ rules.approvals >= promised.approvals
  /\ \A c \in promised.checks :
       \/ central /\ Renamed(c)[1] \in Retired
       \/ \E d \in rules.checks : d[1] = c[1] /\ c[2] \in {None, d[2]}
\* The ruleset keeps the promises, and so does what a set-up is about to write.
RulesInv ==
  /\ Promises(ruleset)
  /\ \A r \in Run : run[r].kind = "apply" => Promises(run[r].payload)

\* An environment is as the set-up leaves it, its list apart.
SettingsHold(n, e) ==
  /\ e.mode = "custom" /\ ~e.bypass
  /\ n \in Range(Protected) => e.self /\ e.reviewers = {Reviewer}
  /\ n \in Range(Unattended) => e.reviewers = {} /\ ~e.gate
\* The list is the one policy main.
OneMain(p) == \E i \in DOMAIN p : DOMAIN p = {i} /\ p[i] = "main"
Holds(n, e) == SettingsHold(n, e) /\ OneMain(e.policies)

\* The list of an environment is being brought to the one policy main: what is
\* deleted leaves it, or leaves nothing and main is posted.
InWork(t, p) ==
  LET posted == Len(t) > 1 /\ t[2].what = "post"
      ids == t[1].ids
  IN  \/ /\ t[1].what = "delete" /\ ids # {} /\ ids \subseteq DOMAIN p
         /\ IF posted THEN ids = DOMAIN p
            ELSE \E i \in DOMAIN p : DOMAIN p \ ids = {i} /\ p[i] = "main"
      \/ t[1].what = "post" /\ DOMAIN p = {}
      \/ t[1].what = "expectNone" /\ p = <<>> /\ posted

\* A request for the environment is before place i.
Earlier(t, i, what, n) == \E j \in 1..(i - 1) : t[j].what \in what /\ t[j].name = n

\* The settings hold, or will be written before place i; so for the list.
WillBeSet(t, i, n, e) == SettingsHold(n, e) \/ Earlier(t, i, {"put", "create"}, n)
WillBeListed(t, i, n, e) ==
  \/ OneMain(e.policies)
  \/ t[1].what \in {"delete", "post", "expectNone"} /\ t[1].name = n /\ i > 1
  \/ Earlier(t, i, {"list", "create"}, n)
Prepared(t, i, n, e) == WillBeSet(t, i, n, e) /\ WillBeListed(t, i, n, e)

\* What a request of the list is made for: an environment is created when it is
\* missing, its policies are listed when its settings hold or will, and a list
\* is brought to main when its settings hold.
WorkAt(t, settings, i) ==
  LET n == t[i].name
  IN  /\ t[i].what = "create" =>
           /\ settings[n] = Missing
           /\ \A j \in DOMAIN t \ {i} : t[j].what = "create" => t[j].name # n
      /\ t[i].what = "list" => WillBeSet(t, i, n, settings[n])
      /\ t[i].what \in {"delete", "post", "expectNone"} /\ i = 1 =>
           SettingsHold(n, settings[n]) /\ InWork(t, settings[n].policies)
WorkInv(x, settings) ==
  /\ \A i \in DOMAIN x.todo : WorkAt(x.todo, settings, i)
  /\ x.todo # <<>> /\ x.todo[1].what = "readPolicies" => x.seen = settings[x.todo[1].name]

\* A run that verifies.
Quiet(x) ==
  /\ ~x.wrote
  /\ \A i \in DOMAIN x.todo :
       x.todo[i].what \in {"read", "readPolicies", "readRuleset", "readClassic", "decide"}

\* The environment will be as it should at place i, or is read before place d,
\* where the run decides.
Known(t, i, d, n, e) ==
  \/ Prepared(t, i, n, e)
  \/ \E j \in 1..(d - 1) : t[j].what \in {"read", "readPolicies"} /\ t[j].name = n

\* What comes before place d only reads, and what is read there decides.
LooksTo(x, settings, d) ==
  /\ \A i \in 1..(d - 1) : x.todo[i].what \in {"read", "readPolicies"}
  /\ \/ /\ x.todo[d].what = "inventory" /\ d = Len(x.todo)
        /\ x.sound /\ ~central =>
             \A n \in Range(Protected) : Known(x.todo, d, d, n, settings[n])
     \/ /\ x.todo[d].what = "decide"
        /\ \A i \in DOMAIN x.todo : x.todo[i].what # "inventory"
        /\ x.sound => \A i \in (d + 1)..Len(x.todo) : x.todo[i].what = "read" =>
             Known(x.todo, i, d, x.todo[i].name, settings[x.todo[i].name])
\* A create-only run that has written nothing yet.
Looking(x, settings) ==
  /\ ~x.wrote
  /\ \A i \in DOMAIN x.todo : x.todo[i].what # "readRuleset"
  /\ \E d \in DOMAIN x.todo : LooksTo(x, settings, d)

\* What a request will find is what the run wants.
SureAt(x, settings, rules, i) ==
  LET c == x.todo[i]
  IN  /\ c.what = "read" => Prepared(x.todo, i, c.name, settings[c.name])
      /\ c.what = "readPolicies" => Holds(c.name, settings[c.name])
      /\ c.what = "readRuleset" => RulesetHolds(rules) \/ x.todo[1].what = "putRuleset"
      /\ c.what = "putRuleset" => RulesetHolds(x.payload)
      /\ c.what # "inventory"
\* A run that will find all it still reads as it should be; only the classic
\* protection of the central repository may stop it.
Sure(x, settings, rules) ==
  /\ x.sound \/ (central /\ classic)
  /\ \A i \in DOMAIN x.todo : SureAt(x, settings, rules, i)

RunInv(x, settings, rules) ==
  /\ WorkInv(x, settings)
  /\ Quiet(x) \/ Looking(x, settings) \/ Sure(x, settings, rules)

\* Of a run beside which nobody wrote: its work is under way, it verifies, looks
\* or is sure, and it failed only for a classic protection.
AloneInv ==
  \A r \in alone : /\ Active(r) => RunInv(run[r], env, ruleset)
                   /\ run[r].outcome = "failed" => central /\ classic
ShapeInv == \A r \in Run : Shape(run[r])

-----------------------------------------------------------------------------
(* Lists of requests. *)

LEMMA NamesAreSequences ==
  /\ Protected \in Seq(Name) /\ Unattended \in Seq(Name) /\ Evidence \in Name
  /\ \A i \in 1..Len(Protected) : Protected[i] \in Range(Protected)
  /\ \A i \in 1..Len(Unattended) : Unattended[i] \in Range(Unattended)
  /\ \A n \in Range(Protected) : \E i \in 1..Len(Protected) : Protected[i] = n
BY ControlsConstants DEF ControlsConstants, Name, Range

LEMMA EachType ==
  ASSUME NEW what \in Kind, NEW s \in Seq(Name)
  PROVE  /\ Each(what, s) \in Seq(Calls)
         /\ Len(Each(what, s)) = Len(s)
         /\ \A i \in 1..Len(s) : Each(what, s)[i] = Call(what, s[i])
<1>1. DOMAIN s = 1..Len(s) /\ Len(s) \in Nat
  OBVIOUS
<1>2. \A i \in 1..Len(s) : s[i] \in Name
  OBVIOUS
<1>3. \A i \in 1..Len(s) : Call(what, s[i]) \in Calls
  BY <1>2 DEF Call, Calls
<1>4. Each(what, s) = [i \in 1..Len(s) |-> Call(what, s[i])]
  BY <1>1 DEF Each
<1>5. Each(what, s) \in [1..Len(s) -> Calls]
  BY <1>3, <1>4
<1> QED
  BY <1>1, <1>4, <1>5

LEMMA DecideType ==
  Decide \in Seq(Calls) /\ Len(Decide) = 1 /\ Decide[1] = Call("decide", None)
BY DEF Decide, Call, Calls, Kind

LEMMA Splice ==
  ASSUME NEW t \in Seq(Calls), t # <<>>, NEW X \in Seq(Calls), NEW u, u = X \o Tail(t)
  PROVE  /\ u \in Seq(Calls)
         /\ Len(t) \in Nat \ {0} /\ Len(X) \in Nat
         /\ Len(u) = Len(X) + Len(t) - 1
         /\ \A i \in 1..Len(X) : u[i] = X[i]
         /\ \A i \in 2..Len(t) : u[i + Len(X) - 1] = t[i]
         /\ \A p \in DOMAIN u : p \in 1..Len(X) \/ p + 1 - Len(X) \in 2..Len(t)
<1>1. /\ Len(t) \in Nat \ {0} /\ Len(X) \in Nat /\ Tail(t) \in Seq(Calls)
      /\ Len(Tail(t)) = Len(t) - 1
  OBVIOUS
<1>2. /\ u \in Seq(Calls) /\ Len(u) = Len(X) + (Len(t) - 1)
  BY <1>1
<1>3. \A i \in 1..Len(X) : u[i] = X[i]
  BY <1>1
<1>4. ASSUME NEW i \in 2..Len(t)
      PROVE  u[i + Len(X) - 1] = t[i]
  <2>1. i - 1 \in 1..Len(Tail(t)) /\ Tail(t)[i - 1] = t[i]
    BY <1>1
  <2>2. i + Len(X) - 1 = Len(X) + (i - 1)
    BY <1>1
  <2>3. u[Len(X) + (i - 1)] = Tail(t)[i - 1]
    BY <1>1, <2>1
  <2> QED
    BY <2>1, <2>2, <2>3
<1>5. DOMAIN u = 1..Len(u)
  BY <1>2
<1>6. ASSUME NEW p \in DOMAIN u
      PROVE  p \in 1..Len(X) \/ p + 1 - Len(X) \in 2..Len(t)
  <2>1. p \in 1..(Len(X) + (Len(t) - 1))
    BY <1>2, <1>5
  <2> QED
    BY <1>1, <2>1
<1>7. Len(u) = Len(X) + Len(t) - 1
  BY <1>1, <1>2
<1> QED
  BY <1>1, <1>2, <1>3, <1>4, <1>6, <1>7

LEMMA Concat ==
  ASSUME NEW a \in Seq(Calls), NEW b \in Seq(Calls)
  PROVE  /\ a \o b \in Seq(Calls)
         /\ Len(a) \in Nat /\ Len(b) \in Nat /\ Len(a \o b) = Len(a) + Len(b)
         /\ \A i \in 1..Len(a) : (a \o b)[i] = a[i]
         /\ \A i \in 1..Len(b) : (a \o b)[Len(a) + i] = b[i]
OBVIOUS

LEMMA Prepend ==
  ASSUME NEW c \in Calls, NEW a \in Seq(Calls)
  PROVE  /\ <<c>> \o a \in Seq(Calls)
         /\ Len(a) \in Nat /\ Len(<<c>> \o a) = Len(a) + 1
         /\ (<<c>> \o a)[1] = c
         /\ \A i \in 1..Len(a) : (<<c>> \o a)[i + 1] = a[i]
OBVIOUS

LEMMA PrependTwo ==
  ASSUME NEW c \in Calls, NEW d \in Calls, NEW a \in Seq(Calls)
  PROVE  /\ <<c, d>> \o a \in Seq(Calls)
         /\ Len(a) \in Nat /\ Len(<<c, d>> \o a) = Len(a) + 2
         /\ (<<c, d>> \o a)[1] = c /\ (<<c, d>> \o a)[2] = d
         /\ \A i \in 1..Len(a) : (<<c, d>> \o a)[i + 2] = a[i]
OBVIOUS

LEMMA AppendOne ==
  ASSUME NEW a \in Seq(Calls), NEW c \in Calls
  PROVE  /\ a \o <<c>> \in Seq(Calls)
         /\ Len(a) \in Nat /\ Len(a \o <<c>>) = Len(a) + 1
         /\ (a \o <<c>>)[Len(a) + 1] = c
         /\ \A i \in 1..Len(a) : (a \o <<c>>)[i] = a[i]
OBVIOUS

LEMMA AppendTwo ==
  ASSUME NEW a \in Seq(Calls), NEW c \in Calls, NEW d \in Calls
  PROVE  /\ a \o <<c, d>> \in Seq(Calls)
         /\ Len(a) \in Nat /\ Len(a \o <<c, d>>) = Len(a) + 2
         /\ (a \o <<c, d>>)[Len(a) + 1] = c
         /\ (a \o <<c, d>>)[Len(a) + 2] = d
         /\ \A i \in 1..Len(a) : (a \o <<c, d>>)[i] = a[i]
OBVIOUS

LEMMA CallType ==
  ASSUME NEW what \in Kind, NEW n \in Name \cup {None}
  PROVE  Call(what, n) \in Calls
BY DEF Call, Calls

\* Where the requests of a verification are.
VerifyPlaces(t) ==
  LET p == Len(Protected)
  IN  /\ Len(t) = p + 4
      /\ t[1] = Call("readRuleset", None)
      /\ \A i \in 1..p : t[i + 1] = Call("read", Protected[i])
      /\ t[p + 2] = Call("readClassic", None)
      /\ t[p + 3] = Call("read", Evidence)
      /\ t[p + 4] = Call("decide", None)

LEMMA VerifyType == VerifyAll \in Seq(Calls) /\ VerifyPlaces(VerifyAll)
<1>1. /\ Call("readRuleset", None) \in Calls /\ Call("readClassic", None) \in Calls
      /\ Call("read", Evidence) \in Calls /\ Call("decide", None) \in Calls
  BY CallType, NamesAreSequences DEF Kind
<1>2. PICK b : b = Each("read", Protected)
  OBVIOUS
<1>3. /\ b \in Seq(Calls) /\ Len(b) = Len(Protected) /\ Len(Protected) \in Nat
      /\ \A i \in 1..Len(Protected) : b[i] = Call("read", Protected[i])
  BY <1>2, NamesAreSequences, EachType DEF Kind
<1>4. PICK c : c = <<Call("readRuleset", None)>> \o b
  OBVIOUS
<1>5. /\ c \in Seq(Calls) /\ Len(c) = Len(Protected) + 1
      /\ c[1] = Call("readRuleset", None)
      /\ \A i \in 1..Len(Protected) : c[i + 1] = Call("read", Protected[i])
  BY <1>1, <1>3, <1>4, Prepend
<1>6. PICK d : d = c \o <<Call("readClassic", None), Call("read", Evidence)>>
  OBVIOUS
<1>7. /\ d \in Seq(Calls) /\ Len(d) = Len(Protected) + 3
      /\ d[Len(Protected) + 2] = Call("readClassic", None)
      /\ d[Len(Protected) + 3] = Call("read", Evidence)
      /\ \A i \in 1..(Len(Protected) + 1) : d[i] = c[i]
  BY <1>1, <1>3, <1>5, <1>6, AppendTwo
<1>8. VerifyAll = d \o <<Call("decide", None)>>
  BY <1>2, <1>4, <1>6, Zenon DEF VerifyAll, Decide
<1>9. /\ VerifyAll \in Seq(Calls) /\ Len(VerifyAll) = Len(Protected) + 4
      /\ VerifyAll[Len(Protected) + 4] = Call("decide", None)
      /\ \A i \in 1..(Len(Protected) + 3) : VerifyAll[i] = d[i]
  BY <1>1, <1>3, <1>7, <1>8, AppendOne
<1>10. /\ 1 \in 1..(Len(Protected) + 1) /\ 1 \in 1..(Len(Protected) + 3)
       /\ Len(Protected) + 2 \in 1..(Len(Protected) + 3)
       /\ Len(Protected) + 3 \in 1..(Len(Protected) + 3)
       /\ \A i \in 1..Len(Protected) : i + 1 \in 1..(Len(Protected) + 1)
       /\ \A i \in 1..Len(Protected) : i + 1 \in 1..(Len(Protected) + 3)
  BY <1>3
<1>11. \A i \in 1..Len(Protected) : VerifyAll[i + 1] = Call("read", Protected[i])
  BY <1>5, <1>7, <1>9, <1>10
<1>12. /\ VerifyAll[1] = Call("readRuleset", None)
       /\ VerifyAll[Len(Protected) + 2] = Call("readClassic", None)
       /\ VerifyAll[Len(Protected) + 3] = Call("read", Evidence)
  BY <1>5, <1>7, <1>9, <1>10
<1> QED
  BY <1>9, <1>11, <1>12 DEF VerifyPlaces

\* Where the requests of a set-up are.
ApplyPlaces(t) ==
  LET p == Len(Protected)
  IN  /\ Len(t) = p + p + p + 7
      /\ t[1] = Call("putRuleset", None)
      /\ \A i \in 1..p : t[i + 1] = Call("put", Protected[i])
      /\ \A i \in 1..p : t[p + 1 + i] = Call("list", Protected[i])
      /\ t[p + p + 2] = Call("put", Evidence)
      /\ t[p + p + 3] = Call("list", Evidence)
      /\ \A i \in 1..(p + 4) : t[p + p + 3 + i] = VerifyAll[i]

LEMMA ApplyType == ApplyAll \in Seq(Calls) /\ ApplyPlaces(ApplyAll)
<1>1. /\ Call("putRuleset", None) \in Calls /\ Call("put", Evidence) \in Calls
      /\ Call("list", Evidence) \in Calls
  BY CallType, NamesAreSequences DEF Kind
<1>2. PICK a : a = Each("put", Protected)
  OBVIOUS
<1>3. PICK b : b = Each("list", Protected)
  OBVIOUS
<1>4. /\ a \in Seq(Calls) /\ Len(a) = Len(Protected) /\ Len(Protected) \in Nat
      /\ \A i \in 1..Len(Protected) : a[i] = Call("put", Protected[i])
  BY <1>2, NamesAreSequences, EachType DEF Kind
<1>5. /\ b \in Seq(Calls) /\ Len(b) = Len(Protected)
      /\ \A i \in 1..Len(Protected) : b[i] = Call("list", Protected[i])
  BY <1>3, NamesAreSequences, EachType DEF Kind
<1>6. PICK c : c = <<Call("putRuleset", None)>> \o a
  OBVIOUS
<1>7. /\ c \in Seq(Calls) /\ Len(c) = Len(Protected) + 1
      /\ c[1] = Call("putRuleset", None)
      /\ \A i \in 1..Len(Protected) : c[i + 1] = Call("put", Protected[i])
  BY <1>1, <1>4, <1>6, Prepend
<1>8. PICK d : d = c \o b
  OBVIOUS
<1>9. /\ d \in Seq(Calls) /\ Len(d) = Len(Protected) + 1 + Len(Protected)
      /\ \A i \in 1..(Len(Protected) + 1) : d[i] = c[i]
      /\ \A i \in 1..Len(Protected) : d[Len(Protected) + 1 + i] = b[i]
  <2>1. /\ d \in Seq(Calls) /\ Len(d) = Len(c) + Len(b)
        /\ \A i \in 1..Len(c) : d[i] = c[i]
        /\ \A i \in 1..Len(b) : d[Len(c) + i] = b[i]
    BY <1>5, <1>7, <1>8, Concat
  <2> QED
    BY <2>1, <1>4, <1>5, <1>7
<1>10. PICK e : e = d \o <<Call("put", Evidence), Call("list", Evidence)>>
  OBVIOUS
<1>11. /\ e \in Seq(Calls) /\ Len(e) = Len(Protected) + Len(Protected) + 3
       /\ e[Len(Protected) + Len(Protected) + 2] = Call("put", Evidence)
       /\ e[Len(Protected) + Len(Protected) + 3] = Call("list", Evidence)
       /\ \A i \in 1..(Len(Protected) + Len(Protected) + 1) : e[i] = d[i]
  <2>1. /\ e \in Seq(Calls) /\ Len(e) = Len(d) + 2
        /\ e[Len(d) + 1] = Call("put", Evidence)
        /\ e[Len(d) + 2] = Call("list", Evidence)
        /\ \A i \in 1..Len(d) : e[i] = d[i]
    BY <1>1, <1>9, <1>10, AppendTwo
  <2>2. /\ Len(d) = Len(Protected) + Len(Protected) + 1
        /\ Len(d) + 1 = Len(Protected) + Len(Protected) + 2
        /\ Len(d) + 2 = Len(Protected) + Len(Protected) + 3
    BY <1>4, <1>9
  <2> QED
    BY <2>1, <2>2
<1>12. ApplyAll = e \o VerifyAll
  BY <1>2, <1>3, <1>6, <1>8, <1>10, Zenon DEF ApplyAll
<1>13. VerifyAll \in Seq(Calls) /\ Len(VerifyAll) = Len(Protected) + 4
  BY VerifyType DEF VerifyPlaces
<1>14. /\ ApplyAll \in Seq(Calls)
       /\ Len(ApplyAll) = Len(Protected) + Len(Protected) + Len(Protected) + 7
       /\ \A i \in 1..(Len(Protected) + Len(Protected) + 3) : ApplyAll[i] = e[i]
       /\ \A i \in 1..(Len(Protected) + 4) :
            ApplyAll[Len(Protected) + Len(Protected) + 3 + i] = VerifyAll[i]
  <2>1. /\ ApplyAll \in Seq(Calls) /\ Len(ApplyAll) = Len(e) + Len(VerifyAll)
        /\ \A i \in 1..Len(e) : ApplyAll[i] = e[i]
        /\ \A i \in 1..Len(VerifyAll) : ApplyAll[Len(e) + i] = VerifyAll[i]
    BY <1>11, <1>12, <1>13, Concat
  <2>2. Len(e) + Len(VerifyAll) = Len(Protected) + Len(Protected) + Len(Protected) + 7
    BY <1>4, <1>11, <1>13
  <2> QED
    BY <2>1, <2>2, <1>4, <1>11, <1>13
<1>15. /\ 1 \in 1..(Len(Protected) + 1)
       /\ \A i \in 1..(Len(Protected) + 1) :
            i \in 1..(Len(Protected) + Len(Protected) + 1)
       /\ \A i \in 1..(Len(Protected) + Len(Protected) + 1) :
            i \in 1..(Len(Protected) + Len(Protected) + 3)
       /\ \A i \in 1..Len(Protected) : i + 1 \in 1..(Len(Protected) + 1)
       /\ \A i \in 1..Len(Protected) :
            Len(Protected) + 1 + i \in 1..(Len(Protected) + Len(Protected) + 1)
       /\ Len(Protected) + Len(Protected) + 2
            \in 1..(Len(Protected) + Len(Protected) + 3)
       /\ Len(Protected) + Len(Protected) + 3
            \in 1..(Len(Protected) + Len(Protected) + 3)
  BY <1>4
<1>16. \A i \in 1..(Len(Protected) + Len(Protected) + 1) : ApplyAll[i] = d[i]
  BY <1>11, <1>14, <1>15
<1>17. \A i \in 1..(Len(Protected) + 1) : ApplyAll[i] = c[i]
  BY <1>9, <1>15, <1>16
<1>18. /\ ApplyAll[1] = Call("putRuleset", None)
       /\ \A i \in 1..Len(Protected) : ApplyAll[i + 1] = Call("put", Protected[i])
  BY <1>7, <1>15, <1>17
<1>19. \A i \in 1..Len(Protected) :
         ApplyAll[Len(Protected) + 1 + i] = Call("list", Protected[i])
  BY <1>5, <1>9, <1>15, <1>16
<1>20. /\ ApplyAll[Len(Protected) + Len(Protected) + 2] = Call("put", Evidence)
       /\ ApplyAll[Len(Protected) + Len(Protected) + 3] = Call("list", Evidence)
  BY <1>11, <1>14, <1>15
<1> QED
  BY <1>14, <1>18, <1>19, <1>20 DEF ApplyPlaces

LEMMA CreateType ==
  ASSUME NEW n \in Name
  PROVE  /\ Create(n) \in Seq(Calls)
         /\ Create(n)[1] = Call("expectNone", n) /\ Create(n)[2] = Call("post", n)
         /\ central => /\ Len(Create(n)) = 4 /\ Create(n)[3] = Call("read", n)
                       /\ Create(n)[4] = Call("decide", None)
         /\ ~central => Len(Create(n)) = 2
<1>1. /\ Call("expectNone", n) \in Calls /\ Call("post", n) \in Calls
      /\ Call("read", n) \in Calls /\ Call("decide", None) \in Calls
  BY CallType DEF Kind
<1>2. CASE central
  BY <1>1, <1>2 DEF Create
<1>3. CASE ~central
  BY <1>1, <1>3 DEF Create
<1> QED
  BY <1>2, <1>3

\* Where the requests are that make what is missing.
MissingPlaces(t, s, u) ==
  LET a == Len(s)
      b == Len(s) + 1 + Len(u)
      p == Len(Protected)
      q == Len(Unattended)
  IN  /\ Len(t) = IF central THEN b ELSE b + p + q + 1
      /\ \A i \in 1..a : t[i] = Call("read", s[i])
      /\ t[a + 1] = Call("decide", None)
      /\ \A i \in 1..Len(u) : t[a + 1 + i] = Call("create", u[i])
      /\ ~central => /\ \A i \in 1..p : t[b + i] = Call("read", Protected[i])
                     /\ \A i \in 1..q : t[b + p + i] = Call("read", Unattended[i])
                     /\ t[b + p + q + 1] = Call("decide", None)

LEMMA CreateMissingType ==
  ASSUME NEW s \in Seq(Name), NEW u \in Seq(Name)
  PROVE  CreateMissing(s, u) \in Seq(Calls) /\ MissingPlaces(CreateMissing(s, u), s, u)
<1>1. Call("decide", None) \in Calls
  BY CallType DEF Kind
<1>2. PICK A : A = Each("read", s)
  OBVIOUS
<1>3. PICK B : B = Each("create", u)
  OBVIOUS
<1>4. PICK P : P = Each("read", Protected)
  OBVIOUS
<1>5. PICK Q : Q = Each("read", Unattended)
  OBVIOUS
<1>6. /\ A \in Seq(Calls) /\ Len(A) = Len(s) /\ Len(s) \in Nat
      /\ \A i \in 1..Len(s) : A[i] = Call("read", s[i])
  BY <1>2, EachType DEF Kind
<1>7. /\ B \in Seq(Calls) /\ Len(B) = Len(u) /\ Len(u) \in Nat
      /\ \A i \in 1..Len(u) : B[i] = Call("create", u[i])
  BY <1>3, EachType DEF Kind
<1>8. /\ P \in Seq(Calls) /\ Len(P) = Len(Protected) /\ Len(Protected) \in Nat
      /\ \A i \in 1..Len(Protected) : P[i] = Call("read", Protected[i])
  BY <1>4, NamesAreSequences, EachType DEF Kind
<1>9. /\ Q \in Seq(Calls) /\ Len(Q) = Len(Unattended) /\ Len(Unattended) \in Nat
      /\ \A i \in 1..Len(Unattended) : Q[i] = Call("read", Unattended[i])
  BY <1>5, NamesAreSequences, EachType DEF Kind
<1>10. PICK c : c = A \o <<Call("decide", None)>>
  OBVIOUS
<1>11. /\ c \in Seq(Calls) /\ Len(c) = Len(s) + 1
       /\ c[Len(s) + 1] = Call("decide", None)
       /\ \A i \in 1..Len(s) : c[i] = Call("read", s[i])
  <2>1. /\ c \in Seq(Calls) /\ Len(c) = Len(A) + 1
        /\ c[Len(A) + 1] = Call("decide", None)
        /\ \A i \in 1..Len(A) : c[i] = A[i]
    BY <1>1, <1>6, <1>10, AppendOne
  <2> QED
    BY <2>1, <1>6
<1>12. PICK d : d = c \o B
  OBVIOUS
<1>13. /\ d \in Seq(Calls) /\ Len(d) = Len(s) + 1 + Len(u)
       /\ \A i \in 1..(Len(s) + 1) : d[i] = c[i]
       /\ \A i \in 1..Len(u) : d[Len(s) + 1 + i] = Call("create", u[i])
  <2>1. /\ d \in Seq(Calls) /\ Len(d) = Len(c) + Len(B)
        /\ \A i \in 1..Len(c) : d[i] = c[i]
        /\ \A i \in 1..Len(B) : d[Len(c) + i] = B[i]
    BY <1>7, <1>11, <1>12, Concat
  <2> QED
    BY <2>1, <1>6, <1>7, <1>11
<1>14. /\ \A i \in 1..Len(s) : d[i] = Call("read", s[i])
       /\ d[Len(s) + 1] = Call("decide", None)
  <2>1. /\ Len(s) + 1 \in 1..(Len(s) + 1)
        /\ \A i \in 1..Len(s) : i \in 1..(Len(s) + 1)
    BY <1>6
  <2> QED
    BY <2>1, <1>11, <1>13
<1>15. CASE central
  <2>1. CreateMissing(s, u) = d \o <<>>
    BY <1>2, <1>3, <1>10, <1>12, <1>15, Zenon DEF CreateMissing, Decide
  <2>2. CreateMissing(s, u) = d
    BY <2>1, <1>13
  <2> QED
    BY <2>2, <1>13, <1>14, <1>15 DEF MissingPlaces
<1>16. CASE ~central
  <2>1. PICK e : e = P \o Q
    OBVIOUS
  <2>2. /\ e \in Seq(Calls) /\ Len(e) = Len(Protected) + Len(Unattended)
        /\ \A i \in 1..Len(Protected) : e[i] = Call("read", Protected[i])
        /\ \A i \in 1..Len(Unattended) :
             e[Len(Protected) + i] = Call("read", Unattended[i])
    <3>1. /\ e \in Seq(Calls) /\ Len(e) = Len(P) + Len(Q)
          /\ \A i \in 1..Len(P) : e[i] = P[i]
          /\ \A i \in 1..Len(Q) : e[Len(P) + i] = Q[i]
      BY <1>8, <1>9, <2>1, Concat
    <3> QED
      BY <3>1, <1>8, <1>9
  <2>3. PICK f : f = e \o <<Call("decide", None)>>
    OBVIOUS
  <2>4. /\ f \in Seq(Calls) /\ Len(f) = Len(Protected) + Len(Unattended) + 1
        /\ f[Len(Protected) + Len(Unattended) + 1] = Call("decide", None)
        /\ \A i \in 1..(Len(Protected) + Len(Unattended)) : f[i] = e[i]
    <3>1. /\ f \in Seq(Calls) /\ Len(f) = Len(e) + 1
          /\ f[Len(e) + 1] = Call("decide", None)
          /\ \A i \in 1..Len(e) : f[i] = e[i]
      BY <1>1, <2>2, <2>3, AppendOne
    <3> QED
      BY <3>1, <2>2
  <2>5. /\ \A i \in 1..Len(Protected) : f[i] = Call("read", Protected[i])
        /\ \A i \in 1..Len(Unattended) :
             f[Len(Protected) + i] = Call("read", Unattended[i])
    <3>1. /\ \A i \in 1..Len(Protected) : i \in 1..(Len(Protected) + Len(Unattended))
          /\ \A i \in 1..Len(Unattended) :
               Len(Protected) + i \in 1..(Len(Protected) + Len(Unattended))
      BY <1>8, <1>9
    <3> QED
      BY <3>1, <2>2, <2>4
  <2>6. CreateMissing(s, u) = d \o f
    BY <1>2, <1>3, <1>4, <1>5, <1>10, <1>12, <1>16, <2>1, <2>3, Zenon
    DEF CreateMissing, Decide
  <2>7. PICK b \in Nat : b = Len(s) + 1 + Len(u)
    BY <1>6, <1>7
  <2>8. PICK p \in Nat : p = Len(Protected)
    BY <1>8
  <2>9. PICK q \in Nat : q = Len(Unattended)
    BY <1>9
  <2>10. PICK t : t = CreateMissing(s, u)
    OBVIOUS
  <2>11. /\ t \in Seq(Calls) /\ Len(t) = b + (p + q + 1)
         /\ \A i \in 1..b : t[i] = d[i]
         /\ \A i \in 1..(p + q + 1) : t[b + i] = f[i]
    <3>1. /\ t \in Seq(Calls) /\ Len(t) = Len(d) + Len(f)
          /\ \A i \in 1..Len(d) : t[i] = d[i]
          /\ \A i \in 1..Len(f) : t[Len(d) + i] = f[i]
      <4>1. d \in Seq(Calls) /\ f \in Seq(Calls) /\ t = d \o f
        BY <1>13, <2>4, <2>6, <2>10
      <4> QED
        BY <4>1, Concat
    <3>2. Len(d) = b /\ Len(f) = p + q + 1
      BY <1>13, <2>4, <2>7, <2>8, <2>9
    <3> QED
      BY <3>1, <3>2
  <2>12. /\ \A i \in 1..p : i \in 1..(p + q + 1)
         /\ \A i \in 1..q : p + i \in 1..(p + q + 1) /\ b + p + i = b + (p + i)
         /\ p + q + 1 \in 1..(p + q + 1)
         /\ b + p + q + 1 = b + (p + q + 1)
    OBVIOUS
  <2>13. /\ \A i \in 1..p : t[b + i] = Call("read", Protected[i])
         /\ \A i \in 1..q : t[b + p + i] = Call("read", Unattended[i])
         /\ t[b + p + q + 1] = Call("decide", None)
         /\ Len(t) = b + p + q + 1
    BY <2>4, <2>5, <2>8, <2>9, <2>11, <2>12
  <2>14. /\ Len(s) + 1 \in 1..b
         /\ \A i \in 1..Len(s) : i \in 1..b
         /\ \A i \in 1..Len(u) : Len(s) + 1 + i \in 1..b
    BY <1>6, <1>7, <2>7
  <2>15. /\ \A i \in 1..Len(s) : t[i] = Call("read", s[i])
         /\ t[Len(s) + 1] = Call("decide", None)
         /\ \A i \in 1..Len(u) : t[Len(s) + 1 + i] = Call("create", u[i])
    BY <1>13, <1>14, <2>11, <2>14
  <2> QED
    BY <1>16, <2>7, <2>8, <2>9, <2>10, <2>11, <2>13, <2>15 DEF MissingPlaces
<1> QED
  BY <1>15, <1>16

-----------------------------------------------------------------------------
(* What a step changes. *)

\* Only r changes, to a list t and what it knows.
Turns(r, t, wrote, sound, outcome) ==
  /\ run' = [q \in Run |-> IF q = r THEN run'[r] ELSE run[q]]
  /\ run'[r] = [f \in Field |-> run'[r][f]]
  /\ run'[r].todo = t /\ run'[r].wrote = wrote /\ run'[r].sound = sound
  /\ run'[r].outcome = outcome
  /\ run'[r].kind = run[r].kind /\ run'[r].payload = run[r].payload

LEMMA Turn ==
  ASSUME ControlsTypes, NEW r \in Run, NEW t
  PROVE  /\ run' = [run EXCEPT ![r].todo = t] =>
              Turns(r, t, run[r].wrote, run[r].sound, run[r].outcome)
         /\ run' = [run EXCEPT ![r].todo = t, ![r].wrote = TRUE] =>
              Turns(r, t, TRUE, run[r].sound, run[r].outcome)
         /\ \A z : run' = [run EXCEPT ![r].todo = t, ![r].seen = z] =>
              /\ Turns(r, t, run[r].wrote, run[r].sound, run[r].outcome)
              /\ run'[r].seen = z
         /\ \A s : run' = [run EXCEPT ![r].todo = t, ![r].sound = s] =>
              Turns(r, t, run[r].wrote, s, run[r].outcome)
         /\ \A s, z : run' = [run EXCEPT ![r].todo = t, ![r].seen = z, ![r].sound = s] =>
              Turns(r, t, run[r].wrote, s, run[r].outcome)
         /\ \A o : run' = [run EXCEPT ![r].outcome = o, ![r].todo = t] =>
              Turns(r, t, run[r].wrote, run[r].sound, o)
<1>1. run = [q \in Run |-> run[q]] /\ run[r] = [f \in Field |-> run[r][f]]
  BY DEF ControlsTypes, RunType
<1>2. ASSUME NEW y, run' = [run EXCEPT ![r] = y]
      PROVE  /\ run' = [q \in Run |-> IF q = r THEN run'[r] ELSE run[q]]
             /\ run'[r] = y
  BY <1>1, <1>2
<1>3. ASSUME run' = [run EXCEPT ![r].todo = t]
      PROVE  Turns(r, t, run[r].wrote, run[r].sound, run[r].outcome)
  <2>1. run' = [run EXCEPT ![r] = [run[r] EXCEPT !.todo = t]]
    BY <1>1, <1>3
  <2> QED
    BY <1>1, <1>2, <2>1 DEF Turns, Field
<1>4. ASSUME run' = [run EXCEPT ![r].todo = t, ![r].wrote = TRUE]
      PROVE  Turns(r, t, TRUE, run[r].sound, run[r].outcome)
  <2>1. run' = [run EXCEPT ![r] = [run[r] EXCEPT !.todo = t, !.wrote = TRUE]]
    BY <1>1, <1>4
  <2> QED
    BY <1>1, <1>2, <2>1 DEF Turns, Field
<1>5. ASSUME NEW z, run' = [run EXCEPT ![r].todo = t, ![r].seen = z]
      PROVE  Turns(r, t, run[r].wrote, run[r].sound, run[r].outcome) /\ run'[r].seen = z
  <2>1. run' = [run EXCEPT ![r] = [run[r] EXCEPT !.todo = t, !.seen = z]]
    BY <1>1, <1>5
  <2> QED
    BY <1>1, <1>2, <2>1 DEF Turns, Field
<1>6. ASSUME NEW s, run' = [run EXCEPT ![r].todo = t, ![r].sound = s]
      PROVE  Turns(r, t, run[r].wrote, s, run[r].outcome)
  <2>1. run' = [run EXCEPT ![r] = [run[r] EXCEPT !.todo = t, !.sound = s]]
    BY <1>1, <1>6
  <2> QED
    BY <1>1, <1>2, <2>1 DEF Turns, Field
<1>7. ASSUME NEW s, NEW z, run' = [run EXCEPT ![r].todo = t, ![r].seen = z, ![r].sound = s]
      PROVE  Turns(r, t, run[r].wrote, s, run[r].outcome)
  <2>1. run' = [run EXCEPT ![r] = [run[r] EXCEPT !.todo = t, !.seen = z, !.sound = s]]
    BY <1>1, <1>7
  <2> QED
    BY <1>1, <1>2, <2>1 DEF Turns, Field
<1>8. ASSUME NEW o, run' = [run EXCEPT ![r].outcome = o, ![r].todo = t]
      PROVE  Turns(r, t, run[r].wrote, run[r].sound, o)
  <2>1. run' = [run EXCEPT ![r] = [run[r] EXCEPT !.outcome = o, !.todo = t]]
    BY <1>1, <1>8
  <2> QED
    BY <1>1, <1>2, <2>1 DEF Turns, Field
<1> QED
  BY <1>3, <1>4, <1>5, <1>6, <1>7, <1>8

\* Each step of a run changes that run only.
LEMMA StepTurns ==
  ASSUME ControlsTypes, NEW r \in Run
  PROVE  LET x == run[r]
         IN  /\ \A o : Ended(r, o) => Turns(r, <<>>, x.wrote, x.sound, o)
             /\ Done(r) => Turns(r, Rest(r), x.wrote, x.sound, x.outcome)
             /\ \A t : Written(r, t) => Turns(r, t, TRUE, x.sound, x.outcome)
             /\ ReadRuleset(r) =>
                  Turns(r, Rest(r), x.wrote, x.sound /\ RulesetHolds(ruleset), x.outcome)
             /\ ReadClassic(r) =>
                  Turns(r, Rest(r), x.wrote, x.sound /\ ~(central /\ classic), x.outcome)
             /\ ReadEnvironment(r) =>
                  /\ Turns(r, <<Call("readPolicies", Here(r))>> \o Rest(r), x.wrote, x.sound,
                           x.outcome)
                  /\ run'[r].seen = env[Here(r)]
             /\ ReadPolicies(r) =>
                  Turns(r, Rest(r), x.wrote,
                        x.sound /\ EnvironmentHolds(Here(r), x.seen, env[Here(r)].policies),
                        x.outcome)
<1>1. run = [q \in Run |-> run[q]] /\ run[r] = [f \in Field |-> run[r][f]]
  BY DEF ControlsTypes, RunType
<1>2. \A o : Ended(r, o) => Turns(r, <<>>, run[r].wrote, run[r].sound, o)
  BY Turn DEF Ended
<1>3. Done(r) => Turns(r, Rest(r), run[r].wrote, run[r].sound, run[r].outcome)
  BY Turn DEF Done
<1>4. \A t : Written(r, t) => Turns(r, t, TRUE, run[r].sound, run[r].outcome)
  BY Turn DEF Written
<1>5. ReadRuleset(r) =>
        Turns(r, Rest(r), run[r].wrote, run[r].sound /\ RulesetHolds(ruleset),
              run[r].outcome)
  <2> DEFINE t == Rest(r)
             s == run[r].sound /\ RulesetHolds(ruleset)
  <2>1. ReadRuleset(r) => run' = [run EXCEPT ![r].todo = t, ![r].sound = s]
    BY <1>1 DEF ReadRuleset
  <2> HIDE DEF t, s
  <2>2. ReadRuleset(r) => Turns(r, t, run[r].wrote, s, run[r].outcome)
    BY <2>1, Turn
  <2> QED
    BY <2>2 DEF t, s
<1>6. ReadClassic(r) =>
        Turns(r, Rest(r), run[r].wrote, run[r].sound /\ ~(central /\ classic),
              run[r].outcome)
  <2> DEFINE t == Rest(r)
             s == run[r].sound /\ ~(central /\ classic)
  <2>1. ReadClassic(r) => run' = [run EXCEPT ![r].todo = t, ![r].sound = s]
    BY <1>1 DEF ReadClassic
  <2> HIDE DEF t, s
  <2>2. ReadClassic(r) => Turns(r, t, run[r].wrote, s, run[r].outcome)
    BY <2>1, Turn
  <2> QED
    BY <2>2 DEF t, s
<1>7. ReadEnvironment(r) =>
        /\ Turns(r, <<Call("readPolicies", Here(r))>> \o Rest(r), run[r].wrote,
                 run[r].sound, run[r].outcome)
        /\ run'[r].seen = env[Here(r)]
  <2> DEFINE t == <<Call("readPolicies", Here(r))>> \o Rest(r)
             z == env[Here(r)]
  <2>1. ReadEnvironment(r) => run' = [run EXCEPT ![r].todo = t, ![r].seen = z]
    BY DEF ReadEnvironment
  <2> HIDE DEF t, z
  <2>2. ReadEnvironment(r) =>
          /\ Turns(r, t, run[r].wrote, run[r].sound, run[r].outcome)
          /\ run'[r].seen = z
    BY <2>1, Turn
  <2> QED
    BY <2>2 DEF t, z
<1>8. ReadPolicies(r) =>
        Turns(r, Rest(r), run[r].wrote,
              run[r].sound /\ EnvironmentHolds(Here(r), run[r].seen, env[Here(r)].policies),
              run[r].outcome)
  <2> DEFINE t == Rest(r)
             h == EnvironmentHolds(Here(r), run[r].seen, env[Here(r)].policies)
             s == run[r].sound /\ h
  <2>1. ReadPolicies(r) =>
          run' = [run EXCEPT ![r].todo = t, ![r].seen = Missing, ![r].sound = s]
    <3> HIDE DEF h, t
    <3>1. ReadPolicies(r) =>
            run' = [run EXCEPT ![r].todo = t, ![r].seen = Missing, ![r].sound = @ /\ h]
      BY Zenon DEF ReadPolicies, h, t
    <3> QED
      BY <1>1, <3>1
  <2> HIDE DEF t, s
  <2>2. ReadPolicies(r) => Turns(r, t, run[r].wrote, s, run[r].outcome)
    BY <2>1, Turn
  <2> QED
    BY <2>2 DEF t, s
<1> QED
  BY <1>2, <1>3, <1>4, <1>5, <1>6, <1>7, <1>8

\* What takes the place of the first request.
Follow(c, X) ==
  \/ X = <<>>
  \/ c.what = "create" /\ X = Create(c.name)
  \/ c.what = "read" /\ X = <<Call("readPolicies", c.name)>>
  \/ c.what = "list" /\ X = <<Call("post", c.name)>>
  \/ /\ c.what \in {"list", "delete"}
     /\ \E ids \in SUBSET Nat : X = <<[Call("delete", c.name) EXCEPT !.ids = ids]>>
  \/ /\ c.what = "list"
     /\ \E ids \in SUBSET Nat :
          X = <<[Call("delete", c.name) EXCEPT !.ids = ids], Call("post", c.name)>>

LEMMA FollowType ==
  ASSUME NEW c \in Calls, c.what \in OnEnvironment => c.name \in Name,
         NEW X, Follow(c, X)
  PROVE  X \in Seq(Calls)
<1>1. CASE X = <<>>
  BY <1>1
<1>2. CASE c.what = "create" /\ X = Create(c.name)
  BY <1>2, CreateType DEF OnEnvironment
<1>3. CASE c.what = "read" /\ X = <<Call("readPolicies", c.name)>>
  BY <1>3, CallType DEF OnEnvironment, Kind
<1>4. CASE c.what = "list" /\ X = <<Call("post", c.name)>>
  BY <1>4, CallType DEF OnEnvironment, Kind
<1>5. c.what \in {"list", "delete"} =>
        /\ Call("post", c.name) \in Calls
        /\ \A ids \in SUBSET Nat : [Call("delete", c.name) EXCEPT !.ids = ids] \in Calls
  BY DEF Call, Calls, OnEnvironment, Kind
<1>6. CASE /\ c.what \in {"list", "delete"}
           /\ \E ids \in SUBSET Nat : X = <<[Call("delete", c.name) EXCEPT !.ids = ids]>>
  BY <1>5, <1>6
<1>7. CASE /\ c.what = "list"
           /\ \E ids \in SUBSET Nat :
                X = <<[Call("delete", c.name) EXCEPT !.ids = ids], Call("post", c.name)>>
  BY <1>5, <1>7
<1> QED
  BY <1>1, <1>2, <1>3, <1>4, <1>6, <1>7 DEF Follow

\* What takes the place of the first request leaves the shape of the list.
LEMMA ShapeFollows ==
  ASSUME NEW x, x.todo \in Seq(Calls), x.todo # <<>>, Shape(x),
         NEW X, Follow(x.todo[1], X),
         NEW y, y.todo = X \o Tail(x.todo), y.kind = x.kind
  PROVE  y.todo \in Seq(Calls) /\ Shape(y)
<1> DEFINE t == x.todo
           u == y.todo
           c == t[1]
           k == Len(X)
<1>1. c \in Calls /\ 1 \in DOMAIN t
  OBVIOUS
<1>2. ShapeOf(c, c, x.kind, 1)
  BY <1>1 DEF Shape, ShapeAt
<1>3. X \in Seq(Calls)
  BY <1>1, <1>2, FollowType DEF ShapeOf
<1>4. /\ u \in Seq(Calls)
      /\ Len(t) \in Nat \ {0} /\ k \in Nat
      /\ Len(u) = k + Len(t) - 1
      /\ \A i \in 1..k : u[i] = X[i]
      /\ \A i \in 2..Len(t) : u[i + k - 1] = t[i]
      /\ \A p \in DOMAIN u : p \in 1..k \/ p + 1 - k \in 2..Len(t)
  BY <1>3, Splice
<1>a. DOMAIN t = 1..Len(t)
  OBVIOUS
<1>b. \A i \in DOMAIN t : ShapeOf(t[i], c, x.kind, i)
  BY DEF Shape, ShapeAt
<1>c. y.kind = x.kind /\ Follow(c, X)
  OBVIOUS
<1> HIDE DEF t, u, c
<1>5. ASSUME NEW i \in 2..Len(t)
      PROVE  ShapeOf(u[i + k - 1], u[1], y.kind, i + k - 1)
  <2>a. i \in DOMAIN t
    BY <1>4, <1>a
  <2>b. ShapeOf(t[i], c, x.kind, i)
    BY <1>b, <2>a, Zenon
  <2>c. u[i + k - 1] = t[i]
    BY <1>4
  <2>1. ShapeOf(t[i], c, x.kind, i) /\ u[i + k - 1] = t[i]
    BY <2>b, <2>c
  <2>2. CASE t[i].what # "post"
    BY <1>c, <2>1, <2>2 DEF ShapeOf
  <2>3. CASE t[i].what = "post"
    <3>1. i = 2 /\ c.what \in {"delete", "expectNone"} /\ c.name = t[i].name
      BY <2>1, <2>3 DEF ShapeOf
    <3>2. X = <<>> \/ \E ids \in SUBSET Nat : X = <<[Call("delete", c.name) EXCEPT !.ids = ids]>>
      BY <1>c, <3>1 DEF Follow
    <3>3. CASE X = <<>>
      <4>1. i + k - 1 = 1
        BY <3>1, <3>3 DEF k
      <4> QED
        BY <2>1, <2>3, <4>1, <1>c DEF ShapeOf
    <3>4. ASSUME NEW ids \in SUBSET Nat, X = <<[Call("delete", c.name) EXCEPT !.ids = ids]>>
          PROVE  ShapeOf(u[i + k - 1], u[1], y.kind, i + k - 1)
      <4>1. k = 1 /\ i + k - 1 = 2
        BY <3>1, <3>4 DEF k
      <4>2. u[1].what = "delete" /\ u[1].name = c.name
        <5>1. u[1] = X[1]
          BY <1>4, <4>1
        <5>2. X[1] = [Call("delete", c.name) EXCEPT !.ids = ids]
          BY <3>4
        <5> QED
          BY <5>1, <5>2 DEF Call
      <4> QED
        BY <1>c, <2>1, <2>3, <3>1, <4>1, <4>2 DEF ShapeOf
    <3> QED
      BY <3>2, <3>3, <3>4
  <2> QED
    BY <2>2, <2>3
<1>6. ASSUME NEW i \in 1..k
      PROVE  ShapeOf(u[i], u[1], y.kind, i)
  <2>1. u[i] = X[i] /\ (k \in Nat) /\ u[1] = X[1]
    BY <1>4
  <2>2. CASE X = <<>>
    BY <2>2 DEF k
  <2>3. CASE c.what = "create" /\ X = Create(c.name)
    <3>1. c.name \in Range(Unattended) /\ c.name \in Name
      BY <1>2, <2>3 DEF ShapeOf, OnEnvironment
    <3>2. CASE central
      <4>1. X = <<Call("expectNone", c.name), Call("post", c.name), Call("read", c.name),
                  Call("decide", None)>>
        BY <2>3, <3>2 DEF Create
      <4>2. /\ X[1] = Call("expectNone", c.name) /\ X[2] = Call("post", c.name)
            /\ X[3] = Call("read", c.name) /\ X[4] = Call("decide", None)
            /\ i \in 1..4
        BY <4>1 DEF k
      <4> QED
        BY <2>1, <3>1, <4>2 DEF ShapeOf, Call, OnEnvironment
    <3>3. CASE ~central
      <4>1. X = <<Call("expectNone", c.name), Call("post", c.name)>>
        BY <2>3, <3>3 DEF Create
      <4>2. /\ X[1] = Call("expectNone", c.name) /\ X[2] = Call("post", c.name)
            /\ i \in 1..2
        BY <4>1 DEF k
      <4> QED
        BY <2>1, <3>1, <4>2 DEF ShapeOf, Call, OnEnvironment
    <3> QED
      BY <3>2, <3>3
  <2>4. CASE c.what = "read" /\ X = <<Call("readPolicies", c.name)>>
    <3>1. i = 1 /\ X[1] = Call("readPolicies", c.name)
      BY <2>4 DEF k
    <3> QED
      BY <1>2, <2>1, <2>4, <3>1 DEF ShapeOf, Call, OnEnvironment
  <2>5. CASE c.what = "list" /\ X = <<Call("post", c.name)>>
    <3>1. i = 1 /\ X[1] = Call("post", c.name)
      BY <2>5 DEF k
    <3> QED
      BY <1>2, <2>1, <2>5, <3>1 DEF ShapeOf, Call, OnEnvironment
  <2>6. ASSUME c.what \in {"list", "delete"}, NEW ids \in SUBSET Nat,
               X = <<[Call("delete", c.name) EXCEPT !.ids = ids]>>
        PROVE  ShapeOf(u[i], u[1], y.kind, i)
    <3>1. i = 1 /\ X[1] = [Call("delete", c.name) EXCEPT !.ids = ids]
      BY <2>6 DEF k
    <3> QED
      BY <1>2, <2>1, <2>6, <3>1 DEF ShapeOf, Call, OnEnvironment
  <2>7. ASSUME c.what = "list", NEW ids \in SUBSET Nat,
               X = <<[Call("delete", c.name) EXCEPT !.ids = ids], Call("post", c.name)>>
        PROVE  ShapeOf(u[i], u[1], y.kind, i)
    <3>1. /\ i \in 1..2 /\ X[1] = [Call("delete", c.name) EXCEPT !.ids = ids]
          /\ X[2] = Call("post", c.name)
      BY <2>7 DEF k
    <3> QED
      BY <1>2, <2>1, <2>7, <3>1 DEF ShapeOf, Call, OnEnvironment
  <2> QED
    BY <1>c, <2>2, <2>3, <2>4, <2>5, <2>6, <2>7 DEF Follow
<1>7. ASSUME NEW p \in DOMAIN u
      PROVE  ShapeOf(u[p], u[1], y.kind, p)
  <2>1. CASE p \in 1..k
    BY <1>6, <2>1
  <2>2. CASE p + 1 - k \in 2..Len(t)
    <3>1. PICK i \in 2..Len(t) : i = p + 1 - k
      BY <2>2
    <3>2. p \in Nat
      BY <1>4
    <3>3. p = i + k - 1
      BY <1>4, <3>1, <3>2
    <3> QED
      BY <1>5, <3>3
  <2> QED
    BY <1>4, <2>1, <2>2
<1> QED
  BY <1>4, <1>7 DEF Shape, ShapeAt, u

\* The run goes on, X in the place of its first request.
Forward(r, X, wrote, sound) ==
  /\ Active(r) /\ run[r].todo # <<>>
  /\ Follow(run[r].todo[1], X)
  /\ wrote \in BOOLEAN /\ sound \in BOOLEAN
  /\ Turns(r, X \o Tail(run[r].todo), wrote, sound, run[r].outcome)

LEMMA AtHead ==
  ASSUME ControlsTypes, ShapeInv, NEW r \in Run, NEW what, At(r, what)
  PROVE  /\ Active(r) /\ run[r].todo \in Seq(Calls) /\ run[r].todo # <<>>
         /\ 1 \in DOMAIN run[r].todo
         /\ Head(run[r].todo) = run[r].todo[1] /\ Here(r) = run[r].todo[1].name
         /\ run[r].todo[1] \in Calls /\ run[r].todo[1].what = what
         /\ Tail(run[r].todo) \in Seq(Calls)
         /\ what \in OnEnvironment => Here(r) \in Name
         /\ run[r].sound \in BOOLEAN /\ run[r].wrote \in BOOLEAN
<1>1. run[r].todo \in Seq(Calls) /\ run[r].sound \in BOOLEAN /\ run[r].wrote \in BOOLEAN
  BY DEF ControlsTypes, RunType
<1>2. Active(r) /\ run[r].todo # <<>> /\ Head(run[r].todo).what = what
  BY DEF At
<1>3. 1 \in DOMAIN run[r].todo /\ Head(run[r].todo) = run[r].todo[1]
  BY <1>1, <1>2
<1>4. ShapeOf(run[r].todo[1], run[r].todo[1], run[r].kind, 1)
  BY <1>3 DEF ShapeInv, Shape, ShapeAt
<1> QED
  BY <1>1, <1>2, <1>3, <1>4 DEF ShapeOf, Here

\* A request that puts nothing before the rest.
LEMMA Onward ==
  ASSUME ControlsTypes, ShapeInv, NEW r \in Run, NEW what, At(r, what), NEW w \in BOOLEAN,
         NEW s \in BOOLEAN, Turns(r, Rest(r), w, s, run[r].outcome)
  PROVE  Forward(r, <<>>, w, s)
<1>1. <<>> \o Tail(run[r].todo) = Tail(run[r].todo)
  BY AtHead
<1> QED
  BY <1>1, AtHead DEF Forward, Follow, Rest

\* The list of an environment, and what it puts before the rest.
Listed(r) ==
  LET n == Here(r)
      p == env[n].policies
      ids == Superfluous(p)
      del == [Call("delete", n) EXCEPT !.ids = ids]
  IN  \/ /\ ids = {} /\ "main" \in Range(p)
         /\ Forward(r, <<>>, run[r].wrote, run[r].sound)
      \/ /\ ids = {} /\ "main" \notin Range(p)
         /\ Forward(r, <<Call("post", n)>>, run[r].wrote, run[r].sound)
      \/ /\ ids # {} /\ "main" \in Range(p)
         /\ Forward(r, <<del>>, run[r].wrote, run[r].sound)
      \/ /\ ids # {} /\ "main" \notin Range(p)
         /\ Forward(r, <<del, Call("post", n)>>, run[r].wrote, run[r].sound)

LEMMA ListMoves ==
  ASSUME ControlsTypes, ShapeInv, NEW r \in Run, ListPolicies(r)
  PROVE  Listed(r) /\ UNCHANGED github /\ UNCHANGED alone
<1> DEFINE n == Here(r)
           p == env[n].policies
           ids == Superfluous(p)
           del == [Call("delete", n) EXCEPT !.ids = ids]
           T == Tail(run[r].todo)
<1>1. At(r, "list")
  BY DEF ListPolicies
<1>2. /\ Active(r) /\ run[r].todo # <<>> /\ T \in Seq(Calls)
      /\ run[r].todo[1].what = "list" /\ run[r].todo[1].name = n /\ n \in Name
      /\ run[r].sound \in BOOLEAN /\ run[r].wrote \in BOOLEAN
  BY <1>1, AtHead DEF OnEnvironment
<1>3. ids \in SUBSET Nat
  BY <1>2 DEF ControlsTypes, IsSettings, Superfluous
<1>4. del \in Calls /\ Call("post", n) \in Calls
  BY <1>2, <1>3 DEF Call, Calls, Kind
<1>5. run' = [run EXCEPT ![r].todo =
                (IF ids = {} THEN <<>> ELSE <<del>>)
                  \o (IF "main" \in Range(p) THEN <<>> ELSE <<Call("post", n)>>) \o T]
  BY Zenon DEF ListPolicies, Rest
<1>6. UNCHANGED github /\ UNCHANGED alone
  BY DEF ListPolicies
<1> HIDE DEF n, p, ids, del, T
<1>7. ASSUME NEW X, run' = [run EXCEPT ![r].todo = X \o T], Follow(run[r].todo[1], X)
      PROVE  Forward(r, X, run[r].wrote, run[r].sound)
  <2>1. PICK t : t = X \o T
    OBVIOUS
  <2>2. Turns(r, t, run[r].wrote, run[r].sound, run[r].outcome)
    BY <1>7, <2>1, Turn
  <2> QED
    BY <1>2, <1>7, <2>1, <2>2 DEF Forward, T
<1>8. CASE ids = {} /\ "main" \in Range(p)
  <2>1. <<>> \o <<>> \o T = <<>> \o T
    BY <1>2
  <2>2. Forward(r, <<>>, run[r].wrote, run[r].sound)
    BY <1>5, <1>7, <1>8, <2>1 DEF Follow
  <2> QED
    BY <1>6, <1>8, <2>2 DEF Listed, ids, p, n
<1>9. CASE ids = {} /\ "main" \notin Range(p)
  <2>1. <<>> \o <<Call("post", n)>> \o T = <<Call("post", n)>> \o T
    BY <1>2, <1>4
  <2>2. Forward(r, <<Call("post", n)>>, run[r].wrote, run[r].sound)
    BY <1>2, <1>5, <1>7, <1>9, <2>1 DEF Follow
  <2> QED
    BY <1>6, <1>9, <2>2 DEF Listed, ids, p, n
<1>10. CASE ids # {} /\ "main" \in Range(p)
  <2>1. <<del>> \o <<>> \o T = <<del>> \o T
    BY <1>2, <1>4
  <2>2. Forward(r, <<del>>, run[r].wrote, run[r].sound)
    BY <1>2, <1>3, <1>5, <1>7, <1>10, <2>1 DEF Follow, del
  <2> QED
    BY <1>6, <1>10, <2>2 DEF Listed, del, ids, p, n
<1>11. CASE ids # {} /\ "main" \notin Range(p)
  <2>1. <<del>> \o <<Call("post", n)>> \o T = <<del, Call("post", n)>> \o T
    BY <1>2, <1>4
  <2>2. Forward(r, <<del, Call("post", n)>>, run[r].wrote, run[r].sound)
    BY <1>2, <1>3, <1>5, <1>7, <1>11, <2>1 DEF Follow, del
  <2> QED
    BY <1>6, <1>11, <2>2 DEF Listed, del, ids, p, n
<1> QED
  BY <1>8, <1>9, <1>10, <1>11

\* One policy is deleted, or it is gone already and the run ends.
Deleted(r) ==
  LET n == Here(r)
      ids == run[r].todo[1].ids
      i == Min(ids)
      p == env[n].policies
  IN  \/ /\ i \in DOMAIN p
         /\ env' = [env EXCEPT ![n].policies = [j \in DOMAIN p \ {i} |-> p[j]]]
         /\ Beside(r)
         /\ \/ ids = {i} /\ Forward(r, <<>>, TRUE, run[r].sound)
            \/ /\ ids # {i}
               /\ Forward(r, <<[Call("delete", n) EXCEPT !.ids = ids \ {i}]>>, TRUE,
                          run[r].sound)
      \/ i \notin DOMAIN p /\ Refuse(r) /\ UNCHANGED <<env, alone>>

LEMMA DeleteMoves ==
  ASSUME ControlsTypes, ShapeInv, NEW r \in Run, DeletePolicy(r)
  PROVE  Deleted(r) /\ UNCHANGED <<ruleset, lastId>>
<1> DEFINE n == Here(r)
           ids == run[r].todo[1].ids
           i == Min(ids)
           p == env[n].policies
           del == [Call("delete", n) EXCEPT !.ids = ids \ {i}]
           T == Tail(run[r].todo)
<1>1. At(r, "delete")
  BY DEF DeletePolicy
<1>2. /\ Active(r) /\ run[r].todo # <<>> /\ T \in Seq(Calls)
      /\ run[r].todo[1].what = "delete" /\ run[r].todo[1].name = n /\ n \in Name
      /\ run[r].sound \in BOOLEAN /\ run[r].wrote \in BOOLEAN
      /\ ids \in SUBSET Nat /\ Head(run[r].todo) = run[r].todo[1]
  BY <1>1, AtHead DEF OnEnvironment, Calls
<1>3. env = [m \in Name |-> env[m]]
  BY DEF ControlsTypes
<1>4. UNCHANGED <<ruleset, lastId>>
  BY DEF DeletePolicy
<1>5. IF i \in DOMAIN p
      THEN /\ env' = [env EXCEPT ![n].policies = [j \in DOMAIN @ \ {i} |-> @[j]]]
           /\ Written(r, (IF ids = {i} THEN <<>> ELSE <<del>>) \o T)
      ELSE Refuse(r) /\ UNCHANGED <<env, alone>>
  BY <1>2, Zenon DEF DeletePolicy, Rest
<1>6. CASE i \notin DOMAIN p
  BY <1>4, <1>5, <1>6 DEF Deleted
<1>7. ASSUME NEW X, Written(r, X \o T), Follow(run[r].todo[1], X)
      PROVE  Forward(r, X, TRUE, run[r].sound) /\ Beside(r)
  <2>1. Turns(r, X \o T, TRUE, run[r].sound, run[r].outcome)
    BY <1>7, StepTurns
  <2> QED
    BY <1>2, <1>7, <2>1 DEF Forward, Written
<1>8. CASE i \in DOMAIN p
  <2>1. env' = [env EXCEPT ![n].policies = [j \in DOMAIN p \ {i} |-> p[j]]]
    BY <1>2, <1>3, <1>5, <1>8
  <2>2. CASE ids = {i}
    <3>1. Written(r, <<>> \o T)
      BY <1>5, <1>8, <2>2
    <3>2. Forward(r, <<>>, TRUE, run[r].sound) /\ Beside(r)
      BY <1>7, <3>1 DEF Follow
    <3> QED
      BY <1>4, <1>8, <2>1, <2>2, <3>2 DEF Deleted
  <2>3. CASE ids # {i}
    <3>1. Written(r, <<del>> \o T)
      BY <1>5, <1>8, <2>3
    <3>2. Follow(run[r].todo[1], <<del>>)
      BY <1>2 DEF Follow
    <3>3. Forward(r, <<del>>, TRUE, run[r].sound) /\ Beside(r)
      BY <1>7, <3>1, <3>2
    <3> QED
      BY <1>4, <1>8, <2>1, <2>3, <3>3 DEF Deleted
  <2> QED
    BY <2>2, <2>3
<1> QED
  BY <1>6, <1>8

\* The settings an environment is given, and its list before anything is in it.
SettingsOf(n, e) == IF n \in Range(Protected) THEN ReviewerPayload(e) ELSE UnattendedPayload(e)

\* What each request changes of the settings and of the run.
LEMMA PutMoves ==
  ASSUME ControlsTypes, ShapeInv, NEW r \in Run, PutEnvironment(r)
  PROVE  /\ At(r, "put") \/ At(r, "create")
         /\ env' = [env EXCEPT ![Here(r)] = SettingsOf(Here(r), env[Here(r)])]
         /\ At(r, "put") => Forward(r, <<>>, TRUE, run[r].sound)
         /\ At(r, "create") => Forward(r, Create(Here(r)), TRUE, run[r].sound)
         /\ Beside(r) /\ UNCHANGED <<ruleset, lastId>>
<1> DEFINE n == Here(r)
<1>1. env = [m \in Name |-> env[m]]
  BY DEF ControlsTypes
<1>2. /\ run[r].sound \in BOOLEAN /\ n \in Name
      /\ At(r, "create") => ~At(r, "put")
  BY AtHead DEF PutEnvironment, At, OnEnvironment
<1>3. env' = [env EXCEPT ![n] = SettingsOf(n, env[n])]
  BY <1>1, <1>2 DEF PutEnvironment, SettingsOf
<1>4. CASE At(r, "put")
  <2>1. Written(r, Rest(r))
    BY <1>2, <1>4, Zenon DEF PutEnvironment
  <2>2. Turns(r, Rest(r), TRUE, run[r].sound, run[r].outcome)
    BY <2>1, StepTurns
  <2>3. Forward(r, <<>>, TRUE, run[r].sound)
    BY <1>2, <1>4, <2>2, Onward
  <2> QED
    BY <1>2, <1>3, <1>4, <2>1, <2>3 DEF PutEnvironment, Written
<1>5. CASE At(r, "create")
  <2>1. Written(r, Create(n) \o Rest(r))
    BY <1>5, Zenon DEF PutEnvironment
  <2>2. Turns(r, Create(n) \o Rest(r), TRUE, run[r].sound, run[r].outcome)
    BY <2>1, StepTurns
  <2>3. Forward(r, Create(n), TRUE, run[r].sound)
    BY <1>2, <1>5, <2>2, AtHead DEF Forward, Follow, Rest
  <2> QED
    BY <1>2, <1>3, <1>5, <2>1, <2>3 DEF PutEnvironment, Written
<1> QED
  BY <1>4, <1>5 DEF PutEnvironment

LEMMA PutRulesetMoves ==
  ASSUME ControlsTypes, ShapeInv, NEW r \in Run, PutRuleset(r)
  PROVE  /\ At(r, "putRuleset") /\ ruleset' = run[r].payload
         /\ Forward(r, <<>>, TRUE, run[r].sound)
         /\ Beside(r) /\ UNCHANGED <<env, lastId>>
<1>1. At(r, "putRuleset") /\ run[r].sound \in BOOLEAN
  BY AtHead DEF PutRuleset
<1>2. Written(r, Rest(r))
  BY DEF PutRuleset
<1>3. Turns(r, Rest(r), TRUE, run[r].sound, run[r].outcome)
  BY <1>2, StepTurns
<1>4. Forward(r, <<>>, TRUE, run[r].sound)
  BY <1>1, <1>3, Onward
<1> QED
  BY <1>1, <1>2, <1>4 DEF PutRuleset, Written

\* The list with the policy main of the next id.
WithMain(p) ==
  [j \in DOMAIN p \cup {lastId + 1} |-> IF j \in DOMAIN p THEN p[j] ELSE "main"]

LEMMA PostMoves ==
  ASSUME ControlsTypes, ShapeInv, NEW r \in Run, PostMain(r)
  PROVE  /\ At(r, "post")
         /\ \/ /\ "main" \in Range(env[Here(r)].policies)
               /\ UNCHANGED <<env, lastId>>
            \/ /\ "main" \notin Range(env[Here(r)].policies)
               /\ env' = [env EXCEPT ![Here(r)].policies = WithMain(env[Here(r)].policies)]
               /\ lastId' = lastId + 1
         /\ Forward(r, <<>>, TRUE, run[r].sound)
         /\ Beside(r) /\ UNCHANGED ruleset
<1>1. At(r, "post") /\ run[r].sound \in BOOLEAN /\ Here(r) \in Name
  BY AtHead DEF PostMain, OnEnvironment
<1>2. env = [m \in Name |-> env[m]]
  BY DEF ControlsTypes
<1>3. Written(r, Rest(r))
  BY DEF PostMain
<1>4. Turns(r, Rest(r), TRUE, run[r].sound, run[r].outcome)
  BY <1>3, StepTurns
<1>5. Forward(r, <<>>, TRUE, run[r].sound)
  BY <1>1, <1>4, Onward
<1>6. CASE "main" \in Range(env[Here(r)].policies)
  <2>1. UNCHANGED <<env, lastId>>
    BY <1>6 DEF PostMain
  <2> QED
    BY <1>1, <1>3, <1>5, <1>6, <2>1 DEF PostMain, Written
<1>7. CASE "main" \notin Range(env[Here(r)].policies)
  <2>1. /\ env' = [env EXCEPT ![Here(r)].policies = WithMain(env[Here(r)].policies)]
        /\ lastId' = lastId + 1
    BY <1>1, <1>2, <1>7 DEF PostMain, WithMain
  <2> QED
    BY <1>1, <1>3, <1>5, <1>7, <2>1 DEF PostMain, Written
<1> QED
  BY <1>6, <1>7

LEMMA ExpectMoves ==
  ASSUME ControlsTypes, ShapeInv, NEW r \in Run, ExpectNone(r)
  PROVE  /\ At(r, "expectNone")
         /\ \/ /\ env[Here(r)].policies = <<>>
               /\ Forward(r, <<>>, run[r].wrote, run[r].sound)
            \/ env[Here(r)].policies # <<>> /\ Refuse(r)
         /\ UNCHANGED github /\ UNCHANGED alone
<1>1. At(r, "expectNone") /\ run[r].sound \in BOOLEAN /\ run[r].wrote \in BOOLEAN
  BY AtHead DEF ExpectNone
<1>2. Done(r) => Forward(r, <<>>, run[r].wrote, run[r].sound)
  BY <1>1, StepTurns, Onward
<1> QED
  BY <1>1, <1>2 DEF ExpectNone

LEMMA ReadMoves ==
  ASSUME ControlsTypes, ShapeInv, NEW r \in Run
  PROVE  /\ ReadRuleset(r) =>
              /\ At(r, "readRuleset") /\ UNCHANGED github /\ UNCHANGED alone
              /\ Forward(r, <<>>, run[r].wrote, run[r].sound /\ RulesetHolds(ruleset))
         /\ ReadClassic(r) =>
              /\ At(r, "readClassic") /\ UNCHANGED github /\ UNCHANGED alone
              /\ Forward(r, <<>>, run[r].wrote, run[r].sound /\ ~(central /\ classic))
         /\ ReadEnvironment(r) =>
              /\ At(r, "read") /\ UNCHANGED github /\ UNCHANGED alone
              /\ run'[r].seen = env[Here(r)]
              /\ Forward(r, <<Call("readPolicies", Here(r))>>, run[r].wrote, run[r].sound)
         /\ ReadPolicies(r) =>
              /\ At(r, "readPolicies") /\ UNCHANGED github /\ UNCHANGED alone
              /\ Forward(r, <<>>, run[r].wrote,
                         run[r].sound /\ EnvironmentHolds(Here(r), run[r].seen,
                                                          env[Here(r)].policies))
<1>1. \A p, q : (p /\ q) \in BOOLEAN
  BY Zenon
<1>2. ReadRuleset(r) =>
              /\ At(r, "readRuleset") /\ UNCHANGED github /\ UNCHANGED alone
              /\ Forward(r, <<>>, run[r].wrote, run[r].sound /\ RulesetHolds(ruleset))
  <2> SUFFICES ASSUME ReadRuleset(r)
               PROVE  /\ At(r, "readRuleset") /\ UNCHANGED github /\ UNCHANGED alone
                      /\ Forward(r, <<>>, run[r].wrote, run[r].sound /\ RulesetHolds(ruleset))
    OBVIOUS
  <2>1. PICK s \in BOOLEAN : s = (run[r].sound /\ RulesetHolds(ruleset))
    BY <1>1, Zenon
  <2>2. Turns(r, Rest(r), run[r].wrote, s, run[r].outcome)
    BY <2>1, StepTurns, Zenon
  <2>3. At(r, "readRuleset") /\ UNCHANGED github /\ UNCHANGED alone
    BY DEF ReadRuleset
  <2>4. Forward(r, <<>>, run[r].wrote, s)
    BY <2>2, <2>3, AtHead, Onward
  <2> QED
    BY <2>1, <2>3, <2>4, Zenon
<1>3. ReadClassic(r) =>
              /\ At(r, "readClassic") /\ UNCHANGED github /\ UNCHANGED alone
              /\ Forward(r, <<>>, run[r].wrote, run[r].sound /\ ~(central /\ classic))
  <2> SUFFICES ASSUME ReadClassic(r)
               PROVE  /\ At(r, "readClassic") /\ UNCHANGED github /\ UNCHANGED alone
                      /\ Forward(r, <<>>, run[r].wrote, run[r].sound /\ ~(central /\ classic))
    OBVIOUS
  <2>1. PICK s \in BOOLEAN : s = (run[r].sound /\ ~(central /\ classic))
    BY <1>1, Zenon
  <2>2. Turns(r, Rest(r), run[r].wrote, s, run[r].outcome)
    BY <2>1, StepTurns, Zenon
  <2>3. At(r, "readClassic") /\ UNCHANGED github /\ UNCHANGED alone
    BY DEF ReadClassic
  <2>4. Forward(r, <<>>, run[r].wrote, s)
    BY <2>2, <2>3, AtHead, Onward
  <2> QED
    BY <2>1, <2>3, <2>4, Zenon
<1>4. ReadEnvironment(r) =>
              /\ At(r, "read") /\ UNCHANGED github /\ UNCHANGED alone
              /\ run'[r].seen = env[Here(r)]
              /\ Forward(r, <<Call("readPolicies", Here(r))>>, run[r].wrote, run[r].sound)
  <2> SUFFICES ASSUME ReadEnvironment(r)
               PROVE  /\ At(r, "read") /\ UNCHANGED github /\ UNCHANGED alone
                      /\ run'[r].seen = env[Here(r)]
                      /\ Forward(r, <<Call("readPolicies", Here(r))>>, run[r].wrote,
                                 run[r].sound)
    OBVIOUS
  <2>1. /\ Turns(r, <<Call("readPolicies", Here(r))>> \o Rest(r), run[r].wrote,
                 run[r].sound, run[r].outcome)
        /\ run'[r].seen = env[Here(r)]
    BY StepTurns, Zenon
  <2>2. At(r, "read") /\ UNCHANGED github /\ UNCHANGED alone
    BY DEF ReadEnvironment
  <2>3. Forward(r, <<Call("readPolicies", Here(r))>>, run[r].wrote, run[r].sound)
    BY <2>1, <2>2, AtHead DEF Forward, Follow, Rest
  <2> QED
    BY <2>1, <2>2, <2>3
<1>5. ReadPolicies(r) =>
              /\ At(r, "readPolicies") /\ UNCHANGED github /\ UNCHANGED alone
              /\ Forward(r, <<>>, run[r].wrote,
                         run[r].sound /\ EnvironmentHolds(Here(r), run[r].seen,
                                                          env[Here(r)].policies))
  <2> DEFINE h == EnvironmentHolds(Here(r), run[r].seen, env[Here(r)].policies)
  <2> SUFFICES ASSUME ReadPolicies(r)
               PROVE  /\ At(r, "readPolicies") /\ UNCHANGED github /\ UNCHANGED alone
                      /\ Forward(r, <<>>, run[r].wrote, run[r].sound /\ h)
    OBVIOUS
  <2>1. PICK s \in BOOLEAN : s = (run[r].sound /\ h)
    BY <1>1, Zenon
  <2>2. Turns(r, Rest(r), run[r].wrote, s, run[r].outcome)
    BY <2>1, StepTurns, Zenon
  <2>3. At(r, "readPolicies") /\ UNCHANGED github /\ UNCHANGED alone
    BY DEF ReadPolicies
  <2> HIDE DEF h
  <2>4. Forward(r, <<>>, run[r].wrote, s)
    BY <2>2, <2>3, AtHead, Onward
  <2> QED
    BY <2>1, <2>3, <2>4, Zenon
<1> QED
  BY <1>2, <1>3, <1>4, <1>5, Zenon

LEMMA ReportMoves ==
  ASSUME ControlsTypes, ShapeInv, NEW r \in Run, Report(r)
  PROVE  /\ At(r, "decide") /\ UNCHANGED github /\ UNCHANGED alone
         /\ \/ ~run[r].sound /\ Refuse(r)
            \/ run[r].sound /\ Rest(r) = <<>> /\ Ended(r, "verified")
            \/ /\ run[r].sound /\ Rest(r) # <<>>
               /\ Forward(r, <<>>, run[r].wrote, run[r].sound)
<1>1. At(r, "decide") /\ run[r].sound \in BOOLEAN /\ run[r].wrote \in BOOLEAN
  BY AtHead DEF Report
<1>2. Done(r) => Forward(r, <<>>, run[r].wrote, run[r].sound)
  BY <1>1, StepTurns, Onward
<1> QED
  BY <1>1, <1>2 DEF Report

\* What is at each place of the lists a run starts with.
LEMMA VerifyCases ==
  ASSUME NEW i \in DOMAIN VerifyAll
  PROVE  LET p == Len(Protected)
         IN  \/ i = 1 /\ VerifyAll[i] = Call("readRuleset", None)
             \/ \E j \in 1..p : i = j + 1 /\ VerifyAll[i] = Call("read", Protected[j])
             \/ i = p + 2 /\ VerifyAll[i] = Call("readClassic", None)
             \/ i = p + 3 /\ VerifyAll[i] = Call("read", Evidence)
             \/ i = p + 4 /\ VerifyAll[i] = Call("decide", None)
<1>1. PICK p \in Nat : p = Len(Protected)
  BY NamesAreSequences
<1>2. PICK t : t = VerifyAll
  OBVIOUS
<1>3. t \in Seq(Calls) /\ VerifyPlaces(t)
  BY <1>2, VerifyType
<1>4. i \in 1..(p + 4)
  BY <1>1, <1>2, <1>3 DEF VerifyPlaces
<1>5. \/ i = 1 \/ i = p + 2 \/ i = p + 3 \/ i = p + 4
      \/ i - 1 \in 1..p /\ i = (i - 1) + 1
  BY <1>4
<1>6. CASE i - 1 \in 1..p /\ i = (i - 1) + 1
  <2>1. PICK j \in 1..p : j = i - 1 /\ i = j + 1
    BY <1>6
  <2>2. t[j + 1] = Call("read", Protected[j])
    BY <1>1, <1>3, <2>1 DEF VerifyPlaces
  <2> QED
    BY <1>1, <1>2, <2>1, <2>2
<1>7. CASE i = 1 \/ i = p + 2 \/ i = p + 3 \/ i = p + 4
  BY <1>1, <1>2, <1>3, <1>7 DEF VerifyPlaces
<1> QED
  BY <1>5, <1>6, <1>7

LEMMA ApplyCases ==
  ASSUME NEW i \in DOMAIN ApplyAll
  PROVE  LET p == Len(Protected)
         IN  \/ i = 1 /\ ApplyAll[i] = Call("putRuleset", None)
             \/ \E j \in 1..p : i = j + 1 /\ ApplyAll[i] = Call("put", Protected[j])
             \/ \E j \in 1..p : i = p + 1 + j /\ ApplyAll[i] = Call("list", Protected[j])
             \/ i = p + p + 2 /\ ApplyAll[i] = Call("put", Evidence)
             \/ i = p + p + 3 /\ ApplyAll[i] = Call("list", Evidence)
             \/ i = p + p + 4 /\ ApplyAll[i] = Call("readRuleset", None)
             \/ \E j \in 1..p : /\ i = p + p + 4 + j
                                /\ ApplyAll[i] = Call("read", Protected[j])
             \/ i = p + p + p + 5 /\ ApplyAll[i] = Call("readClassic", None)
             \/ i = p + p + p + 6 /\ ApplyAll[i] = Call("read", Evidence)
             \/ i = p + p + p + 7 /\ ApplyAll[i] = Call("decide", None)
<1>1. PICK p \in Nat : p = Len(Protected)
  BY NamesAreSequences
<1>2. PICK t : t = ApplyAll
  OBVIOUS
<1>3. t \in Seq(Calls) /\ ApplyPlaces(t)
  BY <1>2, ApplyType
<1>4. i \in 1..(p + p + p + 7)
  BY <1>1, <1>2, <1>3 DEF ApplyPlaces
<1>5. \/ i = 1 \/ i = p + p + 2 \/ i = p + p + 3
      \/ i - 1 \in 1..p /\ i = (i - 1) + 1
      \/ i - (p + 1) \in 1..p /\ i = p + 1 + (i - (p + 1))
      \/ i - (p + p + 3) \in 1..(p + 4) /\ i = p + p + 3 + (i - (p + p + 3))
  BY <1>4
<1>6. CASE i - 1 \in 1..p /\ i = (i - 1) + 1
  <2>1. PICK j \in 1..p : j = i - 1 /\ i = j + 1
    BY <1>6
  <2>2. t[j + 1] = Call("put", Protected[j])
    BY <1>1, <1>3, <2>1 DEF ApplyPlaces
  <2> QED
    BY <1>1, <1>2, <2>1, <2>2
<1>7. CASE i = 1 \/ i = p + p + 2 \/ i = p + p + 3
  BY <1>1, <1>2, <1>3, <1>7 DEF ApplyPlaces
<1>8. CASE i - (p + 1) \in 1..p /\ i = p + 1 + (i - (p + 1))
  <2>1. PICK j \in 1..p : j = i - (p + 1) /\ i = p + 1 + j
    BY <1>8
  <2>2. t[p + 1 + j] = Call("list", Protected[j])
    BY <1>1, <1>3, <2>1 DEF ApplyPlaces
  <2> QED
    BY <1>1, <1>2, <2>1, <2>2
<1>9. CASE i - (p + p + 3) \in 1..(p + 4) /\ i = p + p + 3 + (i - (p + p + 3))
  <2>1. PICK k \in 1..(p + 4) : k = i - (p + p + 3) /\ i = p + p + 3 + k
    BY <1>9
  <2>2. t[p + p + 3 + k] = VerifyAll[k]
    BY <1>1, <1>3, <2>1 DEF ApplyPlaces
  <2>3. k \in DOMAIN VerifyAll
    BY <1>1, VerifyType DEF VerifyPlaces
  <2>4. \/ k = 1 /\ VerifyAll[k] = Call("readRuleset", None)
        \/ \E j \in 1..p : k = j + 1 /\ VerifyAll[k] = Call("read", Protected[j])
        \/ k = p + 2 /\ VerifyAll[k] = Call("readClassic", None)
        \/ k = p + 3 /\ VerifyAll[k] = Call("read", Evidence)
        \/ k = p + 4 /\ VerifyAll[k] = Call("decide", None)
    BY <1>1, <2>3, VerifyCases
  <2>5. ASSUME NEW j \in 1..p, k = j + 1, VerifyAll[k] = Call("read", Protected[j])
        PROVE  i = p + p + 4 + j /\ ApplyAll[i] = Call("read", Protected[j])
    <3>1. i = p + p + 4 + j
      BY <2>1, <2>5
    <3>2. t[i] = VerifyAll[k]
      BY <2>1, <2>2
    <3> QED
      BY <1>2, <2>5, <3>1, <3>2
  <2>6. CASE \E j \in 1..p : k = j + 1 /\ VerifyAll[k] = Call("read", Protected[j])
    BY <1>1, <2>5, <2>6
  <2>7. /\ k = 1 => i = p + p + 4
        /\ k = p + 2 => i = p + p + p + 5
        /\ k = p + 3 => i = p + p + p + 6
        /\ k = p + 4 => i = p + p + p + 7
    BY <2>1
  <2> QED
    BY <1>1, <1>2, <2>1, <2>2, <2>4, <2>6, <2>7
<1> QED
  BY <1>5, <1>6, <1>7, <1>8, <1>9

LEMMA MissingRanges ==
  ASSUME NEW a \in Nat, NEW c \in Nat, NEW p \in Nat, NEW q \in Nat, NEW b \in Nat,
         b = a + 1 + c, NEW i \in 1..(b + p + q + 1)
  PROVE  \/ i \in 1..a \/ i = a + 1 \/ i - (a + 1) \in 1..c \/ i - b \in 1..p
         \/ i - (b + p) \in 1..q \/ i = b + p + q + 1
<1>1. CASE i <= b
  BY <1>1
<1>2. CASE b < i /\ i <= b + p
  BY <1>2
<1>3. CASE b + p < i
  BY <1>3
<1> QED
  BY <1>1, <1>2, <1>3

LEMMA MissingCases ==
  ASSUME NEW s \in Seq(Name), NEW u \in Seq(Name), NEW t, t = CreateMissing(s, u),
         NEW i \in DOMAIN t
  PROVE  LET a == Len(s)
             b == Len(s) + 1 + Len(u)
             p == Len(Protected)
             q == Len(Unattended)
         IN  \/ i \in 1..a /\ t[i] = Call("read", s[i])
             \/ i = a + 1 /\ t[i] = Call("decide", None)
             \/ \E j \in 1..Len(u) : i = a + 1 + j /\ t[i] = Call("create", u[j])
             \/ /\ ~central
                /\ \E j \in 1..p : i = b + j /\ t[i] = Call("read", Protected[j])
             \/ /\ ~central
                /\ \E j \in 1..q : i = b + p + j /\ t[i] = Call("read", Unattended[j])
             \/ ~central /\ i = b + p + q + 1 /\ t[i] = Call("decide", None)
<1>1. /\ t \in Seq(Calls) /\ MissingPlaces(t, s, u)
  BY CreateMissingType
<1>2. PICK a \in Nat : a = Len(s)
  OBVIOUS
<1>3. PICK c \in Nat : c = Len(u)
  OBVIOUS
<1>4. PICK p \in Nat : p = Len(Protected)
  BY NamesAreSequences
<1>5. PICK q \in Nat : q = Len(Unattended)
  BY NamesAreSequences
<1>6. PICK b \in Nat : b = a + 1 + c
  OBVIOUS
<1>7. /\ Len(t) = IF central THEN b ELSE b + p + q + 1
      /\ \A k \in 1..a : t[k] = Call("read", s[k])
      /\ t[a + 1] = Call("decide", None)
      /\ \A k \in 1..c : t[a + 1 + k] = Call("create", u[k])
      /\ ~central => /\ \A k \in 1..p : t[b + k] = Call("read", Protected[k])
                     /\ \A k \in 1..q : t[b + p + k] = Call("read", Unattended[k])
                     /\ t[b + p + q + 1] = Call("decide", None)
  BY <1>1, <1>2, <1>3, <1>4, <1>5, <1>6 DEF MissingPlaces
<1>8. i \in 1..Len(t) /\ Len(t) \in Nat
  BY <1>1
<1>9. \/ i \in 1..a \/ i = a + 1
      \/ i - (a + 1) \in 1..c /\ i = a + 1 + (i - (a + 1))
      \/ ~central /\ i - b \in 1..p /\ i = b + (i - b)
      \/ ~central /\ i - (b + p) \in 1..q /\ i = b + p + (i - (b + p))
      \/ ~central /\ i = b + p + q + 1
  <2>1. CASE central
    <3>1. i \in 1..b
      BY <1>7, <1>8, <2>1
    <3>2. i \in 1..a \/ i = a + 1 \/ i - (a + 1) \in 1..c
      BY <1>6, <3>1
    <3>3. i = a + 1 + (i - (a + 1))
      BY <3>1
    <3> QED
      BY <3>2, <3>3
  <2>2. CASE ~central
    <3>1. i \in 1..(b + p + q + 1)
      BY <1>7, <1>8, <2>2
    <3>2. PICK k \in 1..(b + p + q + 1) : k = i
      BY <3>1
    <3>3. \/ k \in 1..a \/ k = a + 1 \/ k - (a + 1) \in 1..c \/ k - b \in 1..p
          \/ k - (b + p) \in 1..q \/ k = b + p + q + 1
      BY <1>6, MissingRanges
    <3>4. k = a + 1 + (k - (a + 1)) /\ k = b + (k - b) /\ k = b + p + (k - (b + p))
      OBVIOUS
    <3> QED
      BY <2>2, <3>2, <3>3, <3>4
  <2> QED
    BY <2>1, <2>2
<1>10. CASE i - (a + 1) \in 1..c /\ i = a + 1 + (i - (a + 1))
  <2>1. PICK j \in 1..c : i = a + 1 + j
    BY <1>10
  <2> QED
    BY <1>2, <1>3, <1>7, <2>1
<1>11. CASE ~central /\ i - b \in 1..p /\ i = b + (i - b)
  <2>1. PICK j \in 1..p : i = b + j
    BY <1>11
  <2> QED
    BY <1>2, <1>3, <1>4, <1>6, <1>7, <1>11, <2>1
<1>12. CASE ~central /\ i - (b + p) \in 1..q /\ i = b + p + (i - (b + p))
  <2>1. PICK j \in 1..q : i = b + p + j
    BY <1>12
  <2> QED
    BY <1>2, <1>3, <1>4, <1>5, <1>6, <1>7, <1>12, <2>1
<1>13. CASE ~central /\ i = b + p + q + 1
  BY <1>2, <1>3, <1>4, <1>5, <1>6, <1>7, <1>13
<1>14. CASE i \in 1..a \/ i = a + 1
  BY <1>2, <1>7, <1>14
<1> QED
  BY <1>9, <1>10, <1>11, <1>12, <1>13, <1>14

\* The list a create-only run starts with.
First == (IF central THEN <<>> ELSE Each("read", Protected)) \o <<Call("inventory", None)>>

LEMMA FirstType ==
  /\ First \in Seq(Calls) /\ Len(First) \in Nat \ {0}
  /\ First[Len(First)] = Call("inventory", None)
  /\ ~central => Len(First) = Len(Protected) + 1
  /\ \A i \in 1..(Len(First) - 1) :
       ~central /\ i \in 1..Len(Protected) /\ First[i] = Call("read", Protected[i])
<1>1. Call("inventory", None) \in Calls
  BY CallType DEF Kind
<1>2. CASE central
  BY <1>1, <1>2 DEF First
<1>3. CASE ~central
  <2>1. PICK P : P = Each("read", Protected)
    OBVIOUS
  <2>2. /\ P \in Seq(Calls) /\ Len(P) = Len(Protected) /\ Len(Protected) \in Nat
        /\ \A i \in 1..Len(Protected) : P[i] = Call("read", Protected[i])
    BY <2>1, NamesAreSequences, EachType DEF Kind
  <2>3. First = P \o <<Call("inventory", None)>>
    BY <1>3, <2>1, Zenon DEF First
  <2>4. /\ First \in Seq(Calls) /\ Len(First) = Len(P) + 1
        /\ First[Len(P) + 1] = Call("inventory", None)
        /\ \A i \in 1..Len(P) : First[i] = P[i]
    BY <1>1, <2>2, <2>3, AppendOne
  <2>5. Len(P) = Len(First) - 1 /\ Len(P) + 1 = Len(First) /\ Len(First) \in Nat \ {0}
    BY <2>2, <2>4
  <2> QED
    BY <1>3, <2>2, <2>4, <2>5
<1> QED
  BY <1>2, <1>3

\* The order of names is a sequence without repetitions.
LEMMA OrderType ==
  ASSUME NEW S, S \subseteq Range(Unattended), NEW s \in InOrder(S)
  PROVE  /\ s \in Seq(Name) /\ Range(s) = S
         /\ \A i, j \in DOMAIN s : s[i] = s[j] => i = j
<1>1. IsFiniteSet(Range(Unattended))
  <2>1. IsFiniteSet(1..Len(Unattended))
    BY NamesAreSequences, FS_Interval
  <2>2. Unattended \in Surjection(1..Len(Unattended), Range(Unattended))
    BY NamesAreSequences, ControlsConstants DEF ControlsConstants, Surjection, Range
  <2> QED
    BY <2>1, <2>2, FS_Surjection
<1>2. Cardinality(S) \in Nat
  BY <1>1, FS_Subset, FS_CardinalityType
<1>3. s \in [1..Cardinality(S) -> S] /\ Range(s) = S
  BY DEF InOrder
<1>4. s \in Seq(S) /\ S \subseteq Name
  BY <1>2, <1>3 DEF Name
<1>5. s \in Seq(Name)
  BY <1>2, <1>3, <1>4
<1>6. ASSUME NEW i \in DOMAIN s, NEW j \in DOMAIN s, s[i] = s[j], i < j
      PROVE  FALSE
  <2>1. PICK k \in DOMAIN Unattended, l \in DOMAIN Unattended :
          k < l /\ Unattended[k] = s[i] /\ Unattended[l] = s[j]
    BY <1>6 DEF InOrder
  <2>2. k = l
    BY <1>6, <2>1, ControlsConstants DEF ControlsConstants
  <2>3. k \in Nat
    BY NamesAreSequences
  <2> QED
    BY <2>1, <2>2, <2>3
<1>7. ASSUME NEW i \in DOMAIN s, NEW j \in DOMAIN s, s[i] = s[j]
      PROVE  i = j
  <2>1. i \in Nat /\ j \in Nat
    BY <1>2, <1>3
  <2> QED
    BY <2>1, <1>6, <1>7
<1> QED
  BY <1>3, <1>5, <1>7

-----------------------------------------------------------------------------
(* What any step of a run does to the run. *)

\* What a run does: it begins, starts with a list, ends, or makes its inventory.
Fresh(r, kind, list, payload) ==
  /\ run[r].outcome = "waiting"
  /\ run' = [q \in Run |-> IF q = r THEN run'[r] ELSE run[q]]
  /\ run'[r] = [f \in Field |-> run'[r][f]]
  /\ run'[r].kind = kind /\ run'[r].todo = list /\ run'[r].payload = payload
  /\ run'[r].outcome = "active" /\ run'[r].sound = TRUE /\ run'[r].wrote = FALSE

LEMMA BeginMoves ==
  ASSUME ControlsTypes, NEW r \in Run, NEW kind, NEW list, NEW payload,
         Begin(r, kind, list, payload)
  PROVE  Fresh(r, kind, list, payload)
<1>1. run = [q \in Run |-> run[q]]
  BY DEF ControlsTypes
<1>2. PICK y : y = [Waiting EXCEPT !.kind = kind, !.todo = list, !.payload = payload,
                                   !.outcome = "active"]
  OBVIOUS
<1>3. run' = [run EXCEPT ![r] = y] /\ run[r].outcome = "waiting"
  BY <1>2 DEF Begin
<1>4. /\ run' = [q \in Run |-> IF q = r THEN run'[r] ELSE run[q]]
      /\ run'[r] = y
  BY <1>1, <1>3
<1>5. /\ y = [f \in Field |-> y[f]]
      /\ y.kind = kind /\ y.todo = list /\ y.payload = payload
      /\ y.outcome = "active" /\ y.sound = TRUE /\ y.wrote = FALSE
  BY <1>2 DEF Waiting, Field
<1> QED
  BY <1>3, <1>4, <1>5 DEF Fresh

Outcome == {"refused", "failed", "verified", "stopped"}
Started(r) ==
  \/ Hardenable(ruleset) /\ Fresh(r, "apply", ApplyAll, RulesetPayload(ruleset))
  \/ Fresh(r, "verify", VerifyAll, NoRuleset)
  \/ Fresh(r, "create", First, NoRuleset)
Finished(r) == \E o \in Outcome : Turns(r, <<>>, run[r].wrote, run[r].sound, o)
Inventoried(r) ==
  LET absent == {n \in Range(Unattended) : env[n] = Missing}
  IN  /\ At(r, "inventory")
      /\ \E s \in InOrder(Range(Unattended) \ absent), u \in InOrder(absent) :
           Turns(r, CreateMissing(s, u), run[r].wrote, run[r].sound, run[r].outcome)

LEMMA StartMoves ==
  ASSUME ControlsTypes, NEW r \in Run, StartApply(r) \/ StartVerify(r) \/ StartCreate(r)
  PROVE  (Started(r) \/ Finished(r)) /\ UNCHANGED github /\ UNCHANGED alone
<1>1. CASE StartApply(r)
  <2>1. CASE Hardenable(ruleset) /\ Begin(r, "apply", ApplyAll, RulesetPayload(ruleset))
    BY <1>1, <2>1, BeginMoves DEF Started, StartApply
  <2>2. CASE Ended(r, "refused")
    BY <1>1, <2>2, StepTurns DEF Finished, Outcome, StartApply
  <2> QED
    BY <1>1, <2>1, <2>2 DEF StartApply
<1>2. CASE StartVerify(r)
  BY <1>2, BeginMoves DEF Started, StartVerify
<1>3. CASE StartCreate(r)
  <2>1. Begin(r, "create", First, NoRuleset)
    BY <1>3, Zenon DEF StartCreate, First
  <2> QED
    BY <1>3, <2>1, BeginMoves DEF Started, StartCreate
<1> QED
  BY <1>1, <1>2, <1>3

LEMMA EndMoves ==
  ASSUME ControlsTypes, NEW r \in Run
  PROVE  /\ Refuse(r) => Finished(r)
         /\ Ended(r, "verified") => Finished(r)
         /\ Stop(r) => Finished(r) /\ UNCHANGED github /\ UNCHANGED alone
<1>1. \A o \in Outcome : Ended(r, o) => Finished(r)
  BY StepTurns DEF Finished
<1> QED
  BY <1>1 DEF Refuse, Stop, Outcome

LEMMA InventoryMoves ==
  ASSUME ControlsTypes, NEW r \in Run, Inventory(r)
  PROVE  Inventoried(r) /\ UNCHANGED github /\ UNCHANGED alone
<1> DEFINE absent == {n \in Range(Unattended) : env[n] = Missing}
<1>1. PICK s \in InOrder(Range(Unattended) \ absent), u \in InOrder(absent) :
        run' = [run EXCEPT ![r].todo = CreateMissing(s, u)]
  BY DEF Inventory
<1>2. PICK t : t = CreateMissing(s, u)
  OBVIOUS
<1>3. Turns(r, t, run[r].wrote, run[r].sound, run[r].outcome)
  BY <1>1, <1>2, Turn
<1> QED
  BY <1>1, <1>2, <1>3 DEF Inventoried, Inventory

\* Any step is one of these.
LEMMA StepMoves ==
  ASSUME ControlsTypes, ShapeInv, NEW r \in Run, Step(r)
  PROVE  \/ Started(r) \/ Finished(r) \/ Inventoried(r)
         \/ \E X, w, s : Forward(r, X, w, s)
<1>1. CASE StartApply(r) \/ StartVerify(r) \/ StartCreate(r)
  BY <1>1, StartMoves
<1>2. CASE Inventory(r)
  BY <1>2, InventoryMoves
<1>3. CASE PutRuleset(r)
  BY <1>3, PutRulesetMoves
<1>4. CASE PutEnvironment(r)
  BY <1>4, PutMoves
<1>5. CASE ListPolicies(r)
  BY <1>5, ListMoves, Zenon DEF Listed
<1>6. CASE DeletePolicy(r)
  <2>1. Deleted(r)
    BY <1>6, DeleteMoves
  <2>2. Refuse(r) => Finished(r)
    BY EndMoves
  <2> QED
    BY <2>1, <2>2, Zenon DEF Deleted
<1>7. CASE PostMain(r)
  BY <1>7, PostMoves
<1>8. CASE ExpectNone(r)
  BY <1>8, ExpectMoves, EndMoves
<1>9. CASE ReadRuleset(r) \/ ReadEnvironment(r) \/ ReadPolicies(r) \/ ReadClassic(r)
  BY <1>9, ReadMoves, Zenon
<1>10. CASE Report(r)
  BY <1>10, ReportMoves, EndMoves
<1>11. CASE Stop(r)
  BY <1>11, EndMoves
<1> QED
  BY <1>1, <1>2, <1>3, <1>4, <1>5, <1>6, <1>7, <1>8, <1>9, <1>10, <1>11 DEF Step

\* The lists a run starts with have the shape.
LEMMA ApplyShape ==
  ASSUME NEW x, x.kind = "apply", x.todo = ApplyAll
  PROVE  Shape(x)
<1>1. ASSUME NEW i \in DOMAIN x.todo
      PROVE  ShapeAt(x, i)
  <2>1. \/ i = 1 /\ x.todo[i] = Call("putRuleset", None)
        \/ \E n \in Range(Protected) \cup {Evidence}, k \in {"put", "list", "read"} :
             x.todo[i] = Call(k, n)
        \/ \E k \in {"readRuleset", "readClassic", "decide"} : x.todo[i] = Call(k, None)
    BY ApplyCases, NamesAreSequences
  <2> QED
    BY <2>1 DEF ShapeAt, ShapeOf, Call, OnEnvironment, Name
<1> QED
  BY <1>1 DEF Shape

LEMMA VerifyShape ==
  ASSUME NEW x, x.todo = VerifyAll
  PROVE  Shape(x)
<1>1. ASSUME NEW i \in DOMAIN x.todo
      PROVE  ShapeAt(x, i)
  <2>1. \/ \E n \in Range(Protected) \cup {Evidence} : x.todo[i] = Call("read", n)
        \/ \E k \in {"readRuleset", "readClassic", "decide"} : x.todo[i] = Call(k, None)
    BY VerifyCases, NamesAreSequences
  <2> QED
    BY <2>1 DEF ShapeAt, ShapeOf, Call, OnEnvironment, Name
<1> QED
  BY <1>1 DEF Shape

LEMMA FirstShape ==
  ASSUME NEW x, x.todo = First
  PROVE  Shape(x)
<1>1. ASSUME NEW i \in DOMAIN x.todo
      PROVE  ShapeAt(x, i)
  <2>1. \/ \E n \in Range(Protected) : x.todo[i] = Call("read", n)
        \/ x.todo[i] = Call("inventory", None)
    <3>1. PICK m \in Nat \ {0} : m = Len(First)
      BY FirstType
    <3>2. i \in 1..m
      BY <3>1, FirstType
    <3>3. i \in 1..(m - 1) \/ i = m
      BY <3>2
    <3> QED
      BY <3>1, <3>3, FirstType, NamesAreSequences
  <2> QED
    BY <2>1 DEF ShapeAt, ShapeOf, Call, OnEnvironment, Name
<1> QED
  BY <1>1 DEF Shape

LEMMA MissingShape ==
  ASSUME NEW S, S \subseteq Range(Unattended), NEW s \in InOrder(Range(Unattended) \ S),
         NEW u \in InOrder(S), NEW x, x.todo = CreateMissing(s, u)
  PROVE  x.todo \in Seq(Calls) /\ Shape(x)
<1>1. /\ s \in Seq(Name) /\ u \in Seq(Name)
      /\ Range(s) = Range(Unattended) \ S /\ Range(u) = S
  BY OrderType
<1>2. ASSUME NEW i \in DOMAIN x.todo
      PROVE  ShapeAt(x, i)
  <2>1. \/ \E n \in Name : x.todo[i] = Call("read", n)
        \/ \E n \in Range(Unattended) : x.todo[i] = Call("create", n)
        \/ x.todo[i] = Call("decide", None)
    <3>1. /\ \A k \in 1..Len(s) : s[k] \in Name
          /\ \A k \in 1..Len(u) : u[k] \in Range(Unattended)
          /\ \A k \in 1..Len(Protected) : Protected[k] \in Name
          /\ \A k \in 1..Len(Unattended) : Unattended[k] \in Name
      <4>1. \A k \in 1..Len(u) : u[k] \in Range(u)
        BY <1>1 DEF Range
      <4>2. \A k \in 1..Len(s) : s[k] \in Name
        BY <1>1
      <4> QED
        BY <1>1, <4>1, <4>2, NamesAreSequences
    <3> QED
      BY <1>1, <3>1, MissingCases
  <2> QED
    BY <2>1 DEF ShapeAt, ShapeOf, Call, OnEnvironment, Name
<1> QED
  BY <1>1, <1>2, CreateMissingType DEF Shape

-----------------------------------------------------------------------------
(* The types, and the shape of the lists. *)

LEMMA ForwardKeeps ==
  ASSUME ControlsTypes, ShapeInv, NEW r \in Run, NEW X, NEW w, NEW s, Forward(r, X, w, s)
  PROVE  /\ run' = [q \in Run |-> IF q = r THEN run'[r] ELSE run[q]]
         /\ RunType(run'[r]) /\ Shape(run'[r])
         /\ run'[r].kind = run[r].kind /\ run'[r].payload = run[r].payload
<1>1. /\ run[r].todo \in Seq(Calls) /\ run[r].todo # <<>> /\ Shape(run[r])
  BY DEF Forward, ControlsTypes, RunType, ShapeInv
<1>2. /\ Follow(run[r].todo[1], X) /\ w \in BOOLEAN /\ s \in BOOLEAN
      /\ Turns(r, X \o Tail(run[r].todo), w, s, run[r].outcome)
  BY DEF Forward
<1>3. /\ run'[r].todo = X \o Tail(run[r].todo) /\ run'[r].kind = run[r].kind
      /\ run'[r].payload = run[r].payload
      /\ run'[r] = [f \in Field |-> run'[r][f]]
      /\ run'[r].wrote = w /\ run'[r].sound = s
      /\ run' = [q \in Run |-> IF q = r THEN run'[r] ELSE run[q]]
  BY <1>2 DEF Turns
<1>4. run'[r].todo \in Seq(Calls) /\ Shape(run'[r])
  BY <1>1, <1>2, <1>3, ShapeFollows
<1> QED
  BY <1>2, <1>3, <1>4 DEF RunType

\* The runs keep their types and their lists the shape.
LEMMA RunsKeep ==
  ASSUME ControlsTypes, ShapeInv, NEW r \in Run, Step(r)
  PROVE  /\ run' = [q \in Run |-> run'[q]]
         /\ \A q \in Run : q # r => run'[q] = run[q]
         /\ RunType(run'[r]) /\ Shape(run'[r])
         /\ \/ run'[r].kind = run[r].kind /\ run'[r].payload = run[r].payload
            \/ run'[r].kind \in {"verify", "create"}
            \/ Hardenable(ruleset) /\ run'[r].payload = RulesetPayload(ruleset)
<1>1. /\ run = [q \in Run |-> run[q]] /\ RunType(run[r])
  BY DEF ControlsTypes
<1>2. ASSUME run' = [q \in Run |-> IF q = r THEN run'[r] ELSE run[q]]
      PROVE  /\ run' = [q \in Run |-> run'[q]]
             /\ \A q \in Run : q # r => run'[q] = run[q]
  BY <1>1, <1>2
<1>3. ASSUME NEW kind, NEW list, NEW payload, Fresh(r, kind, list, payload),
             list \in Seq(Calls)
      PROVE  RunType(run'[r])
  BY <1>3 DEF Fresh, RunType
<1>4. CASE Started(r)
  <2>1. CASE Hardenable(ruleset) /\ Fresh(r, "apply", ApplyAll, RulesetPayload(ruleset))
    <3>1. RunType(run'[r])
      BY <1>3, <2>1, ApplyType
    <3>2. Shape(run'[r])
      BY <2>1, ApplyShape DEF Fresh
    <3> QED
      BY <1>2, <2>1, <3>1, <3>2 DEF Fresh
  <2>2. CASE Fresh(r, "verify", VerifyAll, NoRuleset)
    <3>1. RunType(run'[r])
      BY <1>3, <2>2, VerifyType
    <3>2. Shape(run'[r])
      BY <2>2, VerifyShape DEF Fresh
    <3> QED
      BY <1>2, <2>2, <3>1, <3>2 DEF Fresh
  <2>3. CASE Fresh(r, "create", First, NoRuleset)
    <3>1. RunType(run'[r])
      BY <1>3, <2>3, FirstType
    <3>2. Shape(run'[r])
      BY <2>3, FirstShape DEF Fresh
    <3> QED
      BY <1>2, <2>3, <3>1, <3>2 DEF Fresh
  <2> QED
    BY <1>4, <2>1, <2>2, <2>3 DEF Started
<1>5. CASE Finished(r)
  <2>1. PICK o \in Outcome : Turns(r, <<>>, run[r].wrote, run[r].sound, o)
    BY <1>5 DEF Finished
  <2>a. <<>> \in Seq(Calls) /\ run[r].wrote \in BOOLEAN /\ run[r].sound \in BOOLEAN
    BY <1>1 DEF RunType
  <2>b. PICK t \in Seq(Calls) : t = <<>>
    BY <2>a
  <2>2. run'[r].todo = <<>> /\ RunType(run'[r])
    BY <2>a, <2>1, <2>b DEF Turns, RunType
  <2>3. Shape(run'[r])
    BY <2>2 DEF Shape
  <2> QED
    BY <1>2, <2>1, <2>2, <2>3 DEF Turns
<1>6. CASE Inventoried(r)
  <2>1. PICK absent \in SUBSET Range(Unattended) :
          \E s \in InOrder(Range(Unattended) \ absent), u \in InOrder(absent) :
            Turns(r, CreateMissing(s, u), run[r].wrote, run[r].sound, run[r].outcome)
    BY <1>6 DEF Inventoried
  <2>2. PICK s \in InOrder(Range(Unattended) \ absent), u \in InOrder(absent) :
            Turns(r, CreateMissing(s, u), run[r].wrote, run[r].sound, run[r].outcome)
    BY <2>1
  <2>3. run'[r].todo = CreateMissing(s, u)
    BY <2>2 DEF Turns
  <2>4. run'[r].todo \in Seq(Calls) /\ Shape(run'[r])
    BY <2>3, MissingShape
  <2>5. RunType(run'[r])
    BY <1>1, <2>2, <2>4 DEF Turns, RunType
  <2> QED
    BY <1>2, <2>2, <2>4, <2>5 DEF Turns
<1>7. CASE \E X, w, s : Forward(r, X, w, s)
  BY <1>2, <1>7, ForwardKeeps
<1> QED
  BY <1>4, <1>5, <1>6, <1>7, StepMoves

\* What becomes of the settings of one environment.
EnvType(e) ==
  IsSettings(e) /\ (e.mode = "missing" => Range(e.policies) \subseteq {"main"})
Without(p, i) == [j \in DOMAIN p \ {i} |-> p[j]]
Changed(n, e, f) ==
  \/ f = SettingsOf(n, e)
  \/ \E i \in DOMAIN e.policies : f = [e EXCEPT !.policies = Without(e.policies, i)]
  \/ /\ "main" \notin Range(e.policies)
     /\ f = [e EXCEPT !.policies = WithMain(e.policies)]

LEMMA ChangedSettings ==
  ASSUME NEW n, NEW e, NEW f, EnvType(e), lastId \in Nat, Changed(n, e, f)
  PROVE  /\ EnvType(f)
         /\ e.mode = "protected" \/ Usable(f) \subseteq Usable(e) \cup {"main"}
<1>1. /\ e = [mode |-> e.mode, policies |-> e.policies, reviewers |-> e.reviewers,
              self |-> e.self, bypass |-> e.bypass, gate |-> e.gate]
      /\ e.mode \in {"missing", "all", "protected", "custom"}
      /\ DOMAIN e.policies \subseteq Nat
      /\ e.policies \in [DOMAIN e.policies -> {"main", "release", "tag"}]
      /\ e.self \in BOOLEAN /\ e.bypass \in BOOLEAN /\ e.gate \in BOOLEAN
      /\ e.mode = "missing" => Range(e.policies) \subseteq {"main"}
  BY DEF EnvType, IsSettings
<1>0. PICK S : S = DOMAIN e.policies /\ IsFiniteSet(S)
  BY DEF EnvType, IsSettings
<1>2. Range(e.policies) \subseteq {"main", "release", "tag"}
  BY <1>1 DEF Range
<1>3. CASE f = SettingsOf(n, e)
  <2>1. f.mode = "custom" /\ f.policies = e.policies /\ EnvType(f)
    BY <1>0, <1>1, <1>3 DEF SettingsOf, ReviewerPayload, UnattendedPayload, EnvType, IsSettings
  <2>2. Usable(f) = Range(e.policies)
    BY <2>1 DEF Usable
  <2>3. e.mode = "protected" \/ Range(e.policies) \subseteq Usable(e) \cup {"main"}
    BY <1>1, <1>2 DEF Usable
  <2> QED
    BY <2>1, <2>2, <2>3
<1>4. ASSUME NEW p, f = [e EXCEPT !.policies = p], DOMAIN p \subseteq Nat,
             IsFiniteSet(DOMAIN p), p \in [DOMAIN p -> {"main", "release", "tag"}],
             Range(p) \subseteq Range(e.policies) \cup {"main"}
      PROVE  EnvType(f) /\ Usable(f) \subseteq Usable(e) \cup {"main"}
  <2>1. f = [mode |-> e.mode, policies |-> p, reviewers |-> e.reviewers,
             self |-> e.self, bypass |-> e.bypass, gate |-> e.gate]
    BY <1>1, <1>4
  <2>2. EnvType(f)
    BY <1>1, <1>4, <2>1 DEF EnvType, IsSettings
  <2>3. f.mode = e.mode /\ f.policies = p
    BY <2>1
  <2>4. Usable(f) \subseteq Usable(e) \cup {"main"}
    BY <1>1, <1>4, <2>3 DEF Usable
  <2> QED
    BY <2>2, <2>4
<1>5. ASSUME NEW i \in DOMAIN e.policies, f = [e EXCEPT !.policies = Without(e.policies, i)]
      PROVE  EnvType(f) /\ Usable(f) \subseteq Usable(e) \cup {"main"}
  <2>1. PICK p : p = Without(e.policies, i)
    OBVIOUS
  <2>2. /\ DOMAIN p \subseteq Nat
        /\ p \in [DOMAIN p -> {"main", "release", "tag"}]
        /\ Range(p) \subseteq Range(e.policies)
    BY <1>1, <2>1 DEF Without, Range
  <2>3. IsFiniteSet(DOMAIN p)
    <3>1. DOMAIN p = DOMAIN e.policies \ {i}
      BY <2>1 DEF Without
    <3>2. IsFiniteSet(S \ {i})
      BY <1>0, FS_RemoveElement
    <3> QED
      BY <1>0, <3>1, <3>2
  <2> QED
    BY <1>4, <1>5, <2>1, <2>2, <2>3
<1>6. CASE f = [e EXCEPT !.policies = WithMain(e.policies)]
  <2>1. PICK p : p = WithMain(e.policies)
    OBVIOUS
  <2>2. /\ DOMAIN p \subseteq Nat
        /\ p \in [DOMAIN p -> {"main", "release", "tag"}]
        /\ Range(p) \subseteq Range(e.policies) \cup {"main"}
    BY <1>1, <2>1 DEF WithMain, Range
  <2>3. IsFiniteSet(DOMAIN p)
    <3>1. DOMAIN p = DOMAIN e.policies \cup {lastId + 1}
      BY <2>1 DEF WithMain
    <3>2. IsFiniteSet(S \cup {lastId + 1})
      BY <1>0, FS_AddElement
    <3> QED
      BY <1>0, <3>1, <3>2
  <2> QED
    BY <1>4, <1>6, <2>1, <2>2, <2>3
<1> QED
  BY <1>3, <1>5, <1>6 DEF Changed

\* What a step of a run does to the settings.
LEMMA EnvironmentsKeep ==
  ASSUME ControlsTypes, ShapeInv, NEW r \in Run, Step(r)
  PROVE  /\ lastId' \in Nat
         /\ \/ env' = env
            \/ \E n \in Name : \E f : Changed(n, env[n], f) /\ env' = [env EXCEPT ![n] = f]
<1>1. lastId \in Nat
  BY DEF ControlsTypes
<1>2. CASE UNCHANGED <<env, lastId>>
  BY <1>1, <1>2
<1>3. CASE PutEnvironment(r)
  <2>1. Here(r) \in Name
    BY <1>3, PutMoves, AtHead DEF OnEnvironment
  <2>2. PICK f : f = SettingsOf(Here(r), env[Here(r)])
    OBVIOUS
  <2>3. env' = [env EXCEPT ![Here(r)] = f] /\ lastId' = lastId
    BY <1>3, <2>2, PutMoves
  <2> QED
    BY <1>1, <2>1, <2>2, <2>3 DEF Changed
<1>4. CASE DeletePolicy(r)
  <2>1. Here(r) \in Name
    BY <1>4, AtHead DEF DeletePolicy, OnEnvironment
  <2>2. Deleted(r) /\ lastId' = lastId
    BY <1>4, DeleteMoves
  <2>3. CASE UNCHANGED env
    BY <1>1, <2>2, <2>3
  <2>4. ASSUME NEW i \in DOMAIN env[Here(r)].policies,
               env' = [env EXCEPT ![Here(r)].policies =
                         [j \in DOMAIN env[Here(r)].policies \ {i} |->
                            env[Here(r)].policies[j]]]
        PROVE  \E n \in Name : \E f : Changed(n, env[n], f) /\ env' = [env EXCEPT ![n] = f]
    <3>1. PICK p : p = Without(env[Here(r)].policies, i)
      OBVIOUS
    <3>2. PICK f : f = [env[Here(r)] EXCEPT !.policies = p]
      OBVIOUS
    <3>3. env' = [env EXCEPT ![Here(r)].policies = p]
      BY <2>4, <3>1 DEF Without
    <3>4. env' = [env EXCEPT ![Here(r)] = f]
      BY <2>1, <3>2, <3>3 DEF ControlsTypes
    <3> QED
      BY <2>1, <3>1, <3>2, <3>4 DEF Changed
  <2> QED
    BY <1>1, <2>2, <2>3, <2>4 DEF Deleted
<1>5. CASE PostMain(r)
  <2>1. Here(r) \in Name
    BY <1>5, AtHead DEF PostMain, OnEnvironment
  <2>2. CASE /\ "main" \notin Range(env[Here(r)].policies)
             /\ env' = [env EXCEPT ![Here(r)].policies = WithMain(env[Here(r)].policies)]
             /\ lastId' = lastId + 1
    <3>1. PICK f : f = [env[Here(r)] EXCEPT !.policies = WithMain(env[Here(r)].policies)]
      OBVIOUS
    <3>2. env' = [env EXCEPT ![Here(r)] = f]
      BY <2>1, <2>2, <3>1 DEF ControlsTypes
    <3>3. Changed(Here(r), env[Here(r)], f)
      BY <2>2, <3>1 DEF Changed
    <3>4. lastId' \in Nat
      BY <1>1, <2>2
    <3> QED
      BY <2>1, <3>2, <3>3, <3>4
  <2> QED
    BY <1>2, <1>5, <2>2, PostMoves
<1>6. CASE StartApply(r) \/ StartVerify(r) \/ StartCreate(r) \/ Inventory(r) \/ PutRuleset(r)
           \/ ListPolicies(r) \/ ExpectNone(r) \/ ReadRuleset(r) \/ ReadEnvironment(r)
           \/ ReadPolicies(r) \/ ReadClassic(r) \/ Report(r) \/ Stop(r)
  <2>1. UNCHANGED <<env, lastId>>
    BY <1>6 DEF StartApply, StartVerify, StartCreate, Inventory, PutRuleset, ListPolicies,
                ExpectNone, ReadRuleset, ReadEnvironment, ReadPolicies, ReadClassic,
                Report, Stop, github
  <2> QED
    BY <1>1, <2>1
<1> QED
  BY <1>3, <1>4, <1>5, <1>6 DEF Step

LEMMA OthersKeep ==
  ASSUME NEW r \in Run, Step(r)
  PROVE  /\ UNCHANGED <<central, classic, edits, promised>>
         /\ alone' \subseteq alone
         /\ UNCHANGED ruleset \/ PutRuleset(r)
BY DEF Step, StartApply, StartVerify, StartCreate, Inventory, PutRuleset, PutEnvironment,
       ListPolicies, DeletePolicy, PostMain, ExpectNone, ReadRuleset, ReadEnvironment,
       ReadPolicies, ReadClassic, Report, Stop, github, Written, Beside, Refuse

\* The payload of a set-up is within the types and keeps what was required.
LEMMA PayloadPromises ==
  ASSUME NEW rules, rules.approvals \in Nat, promised.approvals \in Nat, Hardenable(rules)
  PROVE  /\ RulesetPayload(rules).approvals \in Nat
         /\ Promises(rules) => Promises(RulesetPayload(rules))
<1> DEFINE new == RulesetPayload(rules)
<1>1. /\ new.approvals = IF rules.approvals > 1 THEN rules.approvals ELSE 1
      /\ new.checks = HardenedChecks(rules.checks)
  BY DEF RulesetPayload
<1>2. new.approvals \in Nat /\ new.approvals >= rules.approvals
  BY <1>1
<1>3. ASSUME NEW c, NEW d \in rules.checks, d[1] = c[1], c[2] \in {None, d[2]},
             ~(central /\ Renamed(c)[1] \in Retired)
      PROVE  \E b \in new.checks : b[1] = c[1] /\ c[2] \in {None, b[2]}
  <2>1. Renamed(d) = d /\ ~(central /\ d[1] \in Retired)
    BY <1>3 DEF Renamed, Retired
  <2>2. Bound(d)[1] = d[1] /\ c[2] \in {None, Bound(d)[2]}
    <3>1. CASE d[1] \in Issued
      <4>1. Bound(d) = <<d[1], App>> /\ d[2] \in {None, App}
        BY <2>1, <3>1 DEF Bound, Hardenable, Bindable
      <4> QED
        BY <1>3, <4>1
    <3>2. CASE d[1] \notin Issued
      BY <1>3, <2>1, <3>2 DEF Bound
    <3> QED
      BY <3>1, <3>2
  <2>3. Bound(d) \in KeptChecks(rules.checks)
    BY <2>1, <2>2 DEF KeptChecks
  <2>4. Bound(d) \in new.checks
    BY <1>1, <2>3 DEF HardenedChecks
  <2> QED
    BY <1>3, <2>2, <2>4
<1>4. ASSUME Promises(rules)
      PROVE  Promises(new)
  <2>1. new.approvals >= promised.approvals
    BY <1>2, <1>4 DEF Promises
  <2>2. ASSUME NEW c \in promised.checks, ~(central /\ Renamed(c)[1] \in Retired)
        PROVE  \E b \in new.checks : b[1] = c[1] /\ c[2] \in {None, b[2]}
    <3>1. PICK d \in rules.checks : d[1] = c[1] /\ c[2] \in {None, d[2]}
      BY <1>4, <2>2 DEF Promises
    <3> QED
      BY <1>3, <2>2, <3>1
  <2> QED
    BY <1>2, <2>1, <2>2 DEF Promises
<1> QED
  BY <1>2, <1>4

\* What holds of every state, whoever writes.
Typed == ControlsTypes /\ ShapeInv /\ RulesInv

LEMMA TypedInit == Init => Typed
<1> SUFFICES ASSUME Init
             PROVE  Typed
  OBVIOUS
<1>1. PICK b \in Before : ruleset = b[1] /\ env = b[2] /\ classic = b[3]
  BY DEF Init
<1>2. /\ env = [n \in Name |-> env[n]] /\ ruleset.approvals \in Nat
      /\ \A n \in Name : IsSettings(env[n]) /\ PresentOrMissing(env[n])
  BY <1>1, ControlsConstants DEF ControlsConstants
<1>3. \A n \in Name : env[n].mode = "missing" => Range(env[n].policies) \subseteq {"main"}
  BY <1>2 DEF PresentOrMissing, Missing, Range
<1>4. run = [r \in Run |-> Waiting]
  BY DEF Init
<1>5. \A r \in Run : run[r] = Waiting /\ RunType(run[r]) /\ Shape(run[r])
  <2>1. Waiting = [f \in Field |-> Waiting[f]] /\ Waiting.sound \in BOOLEAN
        /\ Waiting.wrote \in BOOLEAN /\ Waiting.todo = <<>>
    BY DEF Waiting, Field
  <2>2. <<>> \in Seq(Calls) /\ DOMAIN <<>> = {}
    OBVIOUS
  <2>3. RunType(Waiting) /\ Shape(Waiting)
    BY <2>1, <2>2 DEF RunType, Shape
  <2> QED
    BY <1>4, <2>3
<1>6. /\ promised.checks = ruleset.checks /\ promised.approvals = ruleset.approvals
      /\ promised.approvals \in Nat
  BY <1>2 DEF Init
<1>7. ControlsTypes
  BY <1>2, <1>3, <1>4, <1>5, <1>6, ControlsConstants DEF Init, ControlsTypes, ControlsConstants
<1>8. ShapeInv
  BY <1>5 DEF ShapeInv
<1>9. RulesInv
  <2>1. Promises(ruleset)
    BY <1>2, <1>6 DEF Promises
  <2>2. \A r \in Run : run[r].kind # "apply"
    BY <1>5 DEF Waiting, None
  <2> QED
    BY <2>1, <2>2 DEF RulesInv
<1> QED
  BY <1>7, <1>8, <1>9 DEF Typed

\* A run that writes the ruleset writes what it prepared.
LEMMA TypedStep ==
  ASSUME Typed, NEW r \in Run, Step(r)
  PROVE  Typed'
<1>1. ControlsTypes /\ ShapeInv /\ RulesInv
  BY DEF Typed
<1>2. /\ run' = [q \in Run |-> run'[q]]
      /\ \A q \in Run : q # r => run'[q] = run[q]
      /\ RunType(run'[r]) /\ Shape(run'[r])
      /\ \/ run'[r].kind = run[r].kind /\ run'[r].payload = run[r].payload
         \/ run'[r].kind \in {"verify", "create"}
         \/ Hardenable(ruleset) /\ run'[r].payload = RulesetPayload(ruleset)
  BY <1>1, RunsKeep
<1>3. /\ lastId' \in Nat
      /\ \/ env' = env
         \/ \E n \in Name : \E f : Changed(n, env[n], f) /\ env' = [env EXCEPT ![n] = f]
  BY <1>1, EnvironmentsKeep
<1>4. /\ UNCHANGED <<central, classic, edits, promised>>
      /\ alone' \subseteq alone
      /\ UNCHANGED ruleset \/ PutRuleset(r)
  BY OthersKeep
<1>5. \A q \in Run : RunType(run'[q]) /\ Shape(run'[q])
  BY <1>1, <1>2 DEF ControlsTypes, ShapeInv
<1>6. env' = [n \in Name |-> env'[n]] /\ \A n \in Name : EnvType(env'[n])
  <2>1. env = [n \in Name |-> env[n]] /\ lastId \in Nat /\ \A n \in Name : EnvType(env[n])
    BY <1>1 DEF ControlsTypes, EnvType
  <2>2. ASSUME NEW n \in Name, NEW f, Changed(n, env[n], f), env' = [env EXCEPT ![n] = f]
        PROVE  env' = [m \in Name |-> env'[m]] /\ \A m \in Name : EnvType(env'[m])
    <3>1. EnvType(f)
      BY <2>1, <2>2, ChangedSettings
    <3>2. env' = [m \in Name |-> IF m = n THEN f ELSE env[m]]
      BY <2>1, <2>2
    <3> QED
      BY <2>1, <3>1, <3>2
  <2> QED
    BY <1>3, <2>1, <2>2
<1>7. Promises(ruleset') /\ ruleset'.approvals \in Nat
  <2>1. CASE UNCHANGED ruleset
    BY <1>1, <2>1 DEF ControlsTypes, RulesInv
  <2>2. CASE PutRuleset(r)
    <3>1. At(r, "putRuleset") /\ ruleset' = run[r].payload
      BY <1>1, <2>2, PutRulesetMoves
    <3>2. run[r].todo[1].what = "putRuleset" /\ 1 \in DOMAIN run[r].todo
      BY <1>1, <3>1, AtHead
    <3>3. run[r].kind = "apply"
      BY <1>1, <3>2 DEF ShapeInv, Shape, ShapeAt, ShapeOf
    <3> QED
      BY <1>1, <3>1, <3>3 DEF RulesInv, Promises
  <2> QED
    BY <1>4, <2>1, <2>2
<1>8. ASSUME NEW q \in Run, run'[q].kind = "apply"
      PROVE  Promises(run'[q].payload)
  <2>1. CASE run'[q].kind = run[q].kind /\ run'[q].payload = run[q].payload
    BY <1>1, <1>8, <2>1 DEF RulesInv
  <2>2. CASE Hardenable(ruleset) /\ run'[q].payload = RulesetPayload(ruleset)
    BY <1>1, <2>2, PayloadPromises DEF ControlsTypes, RulesInv
  <2> QED
    BY <1>2, <1>8, <2>1, <2>2
<1>9. ControlsTypes'
  BY <1>1, <1>2, <1>3, <1>4, <1>5, <1>6, <1>7 DEF ControlsTypes, EnvType
<1>10. ShapeInv'
  BY <1>5 DEF ShapeInv, Shape, ShapeAt, ShapeOf
<1>11. RulesInv'
  BY <1>4, <1>7, <1>8 DEF RulesInv, Promises, Renamed
<1> QED
  BY <1>9, <1>10, <1>11 DEF Typed

\* Edits by hand drop promises only by dropping them from what was promised.
LEMMA TypedByHand ==
  ASSUME Typed, ByHand
  PROVE  Typed'
<1>1. ControlsTypes /\ ShapeInv /\ RulesInv
  BY DEF Typed
<1>2. /\ UNCHANGED <<central, classic, lastId, run>> /\ alone' \subseteq alone
      /\ edits' \in Nat
  BY <1>1 DEF ByHand, ControlsTypes
<1>3. ASSUME NEW n \in Name, NEW e \in HandSettings, env' = [env EXCEPT ![n] = e],
             UNCHANGED <<ruleset, promised>>
      PROVE  Typed'
  <2>1. IsSettings(e) /\ PresentOrMissing(e)
    BY ControlsConstants DEF ControlsConstants
  <2>2. e.mode = "missing" => Range(e.policies) \subseteq {"main"}
    BY <2>1 DEF PresentOrMissing, Missing, Range
  <2>3. env' = [m \in Name |-> IF m = n THEN e ELSE env[m]]
    BY <1>1, <1>3 DEF ControlsTypes
  <2>4. env' = [m \in Name |-> env'[m]] /\ \A m \in Name : EnvType(env'[m])
    BY <1>1, <2>1, <2>2, <2>3 DEF ControlsTypes, EnvType
  <2>5. ControlsTypes'
    BY <1>1, <1>2, <1>3, <2>4 DEF ControlsTypes, EnvType
  <2>6. ShapeInv' /\ RulesInv'
    BY <1>1, <1>2, <1>3 DEF ShapeInv, Shape, ShapeAt, ShapeOf, RulesInv, Promises, Renamed
  <2> QED
    BY <2>5, <2>6 DEF Typed
<1>4. ASSUME NEW h \in HandRulesets, ruleset' = h, UNCHANGED env,
             promised' = [checks |-> promised.checks \cap h.checks,
                          approvals |-> IF h.approvals < promised.approvals
                                        THEN h.approvals ELSE promised.approvals]
      PROVE  Typed'
  <2>1. h.approvals \in Nat /\ promised.approvals \in Nat
    BY <1>1, ControlsConstants DEF ControlsConstants, ControlsTypes
  <2>2. /\ promised'.checks = promised.checks \cap h.checks
        /\ promised'.approvals \in Nat
        /\ promised'.approvals <= h.approvals /\ promised'.approvals <= promised.approvals
    BY <1>4, <2>1
  <2>3. ControlsTypes'
    BY <1>1, <1>2, <1>4, <2>1, <2>2 DEF ControlsTypes
  <2>4. ShapeInv'
    BY <1>1, <1>2 DEF ShapeInv, Shape, ShapeAt, ShapeOf
  <2>5. ASSUME NEW rules, Promises(rules)
        PROVE  /\ rules.approvals \in Nat /\ rules.approvals >= promised'.approvals
               /\ \A c \in promised'.checks :
                    \/ central /\ Renamed(c)[1] \in Retired
                    \/ \E d \in rules.checks : d[1] = c[1] /\ c[2] \in {None, d[2]}
    BY <2>1, <2>2, <2>5 DEF Promises
  <2>6. ASSUME NEW r \in Run, run[r].kind = "apply"
        PROVE  LET rules == run[r].payload
               IN  /\ rules.approvals \in Nat /\ rules.approvals >= promised'.approvals
                   /\ \A c \in promised'.checks :
                        \/ central /\ Renamed(c)[1] \in Retired
                        \/ \E d \in rules.checks : d[1] = c[1] /\ c[2] \in {None, d[2]}
    BY <1>1, <2>5, <2>6 DEF RulesInv
  <2>7. /\ h.approvals \in Nat /\ h.approvals >= promised'.approvals
        /\ \A c \in promised'.checks : \E d \in h.checks : d[1] = c[1] /\ c[2] \in {None, d[2]}
    BY <2>1, <2>2
  <2>8. \A c : Renamed(c)' = Renamed(c)
    BY <1>2 DEF Renamed
  <2>9. Promises(ruleset)'
    BY <1>2, <1>4, <2>7 DEF Promises
  <2>10. ASSUME NEW r \in Run, run'[r].kind = "apply"
         PROVE  Promises(run[r].payload)'
    BY <1>2, <2>6, <2>8, <2>10 DEF Promises
  <2>11. RulesInv'
    BY <2>9, <2>10 DEF RulesInv
  <2> QED
    BY <2>3, <2>4, <2>11 DEF Typed
<1> QED
  BY <1>3, <1>4 DEF ByHand

LEMMA TypedStutter ==
  ASSUME Typed, UNCHANGED vars
  PROVE  Typed'
<1>1. ControlsTypes'
  BY DEF Typed, ControlsTypes, vars
<1>2. ShapeInv'
  BY DEF Typed, ShapeInv, Shape, ShapeAt, ShapeOf, vars
<1>3. RulesInv'
  BY DEF Typed, RulesInv, Promises, Renamed, vars
<1> QED
  BY <1>1, <1>2, <1>3 DEF Typed

\* The settings and the runs keep their types, the lists their shape, the rules
\* their promises.
THEOREM TypedAlways == Spec => []Typed
<1>1. ASSUME Typed, [Next]_vars
      PROVE  Typed'
  BY <1>1, TypedStep, TypedByHand, TypedStutter DEF Next
<1> QED
  BY <1>1, TypedInit, PTL DEF Spec

-----------------------------------------------------------------------------
(* What the ruleset asks for. *)

\* A check or a number of approvals the ruleset required, and nobody dropped by
\* hand, is required after any runs of the tool, from the same issuer, except what
\* the central repository retires.
THEOREM RequirementsAreKept == Spec => []ChecksKept
<1>1. Typed => ChecksKept
  BY DEF Typed, RulesInv, Promises, ChecksKept
<1> QED
  BY <1>1, TypedAlways, PTL

-----------------------------------------------------------------------------
(* What may deploy. *)

OnlyMain ==
  \A n \in Name : \/ edits' # edits
                  \/ env[n].mode = "protected"
                  \/ Usable(env[n]') \subseteq Usable(env[n]) \cup {"main"}

\* No request of the tool lets a branch or tag use an environment that it could
\* not use before, but main; of an environment that was open to protected
\* branches nothing is said.
THEOREM NothingElseIsOpened == Spec => OnlyMainIsAdded
<1>1. ASSUME Typed, NEW r \in Run, Step(r)
      PROVE  OnlyMain
  <2>1. \/ env' = env
        \/ \E n \in Name : \E f : Changed(n, env[n], f) /\ env' = [env EXCEPT ![n] = f]
    BY <1>1, EnvironmentsKeep DEF Typed
  <2>2. env = [n \in Name |-> env[n]] /\ lastId \in Nat /\ \A n \in Name : EnvType(env[n])
    BY <1>1 DEF Typed, ControlsTypes, EnvType
  <2>3. ASSUME NEW n \in Name, NEW f, Changed(n, env[n], f), env' = [env EXCEPT ![n] = f]
        PROVE  OnlyMain
    <3>1. env[n].mode = "protected" \/ Usable(f) \subseteq Usable(env[n]) \cup {"main"}
      BY <2>2, <2>3, ChangedSettings
    <3>2. env' = [m \in Name |-> IF m = n THEN f ELSE env[m]]
      BY <2>2, <2>3
    <3> QED
      BY <3>1, <3>2 DEF OnlyMain, Usable
  <2> QED
    BY <2>1, <2>3 DEF OnlyMain, Usable
<1>2. ASSUME Typed, ByHand
      PROVE  OnlyMain
  <2>1. edits' = edits + 1 /\ edits \in Nat
    BY <1>2 DEF ByHand, Typed, ControlsTypes
  <2> QED
    BY <2>1 DEF OnlyMain
<1>3. ASSUME UNCHANGED vars
      PROVE  OnlyMain
  BY <1>3 DEF OnlyMain, Usable, vars
<1>4. ASSUME Typed, [Next]_vars
      PROVE  OnlyMain
  BY <1>1, <1>2, <1>3, <1>4 DEF Next
<1>5. Typed /\ [Next]_vars => [OnlyMain]_vars
  BY <1>4
<1> QED
  BY <1>5, TypedAlways, PTL DEF Spec, OnlyMainIsAdded, OnlyMain

-----------------------------------------------------------------------------
(* A list with its first request replaced. *)

\* The run y is the run x with X in the place of its first request.
Ahead(x, X, y) ==
  /\ x.todo \in Seq(Calls) /\ x.todo # <<>> /\ Shape(x)
  /\ X \in Seq(Calls) /\ y.todo = X \o Tail(x.todo)

Begun == {"delete", "post", "expectNone"}
Worked == {"list", "create", "delete", "post", "expectNone"}

\* What is set stays set; a list that is one policy, or was to become it now,
\* is one or is worked on.
Carries(t, u, e, f) ==
  /\ \A n \in Name : SettingsHold(n, e[n]) => SettingsHold(n, f[n])
  /\ t[1].what \in {"put", "create"} => SettingsHold(t[1].name, f[t[1].name])
  /\ \A n \in Name :
       OneMain(e[n].policies) \/ (t[1].what \in Worked /\ t[1].name = n) =>
         OneMain(f[n].policies) \/ (u[1].what \in Begun /\ u[1].name = n)

LEMMA AheadPlaces ==
  ASSUME NEW x, NEW X, NEW y, Ahead(x, X, y)
  PROVE  LET t == x.todo
             u == y.todo
             k == Len(X)
         IN  /\ u \in Seq(Calls) /\ Len(t) \in Nat \ {0} /\ k \in Nat
             /\ Len(u) = k + Len(t) - 1
             /\ t[1] \in Calls
             /\ \A i \in 1..k : u[i] = X[i]
             /\ \A i \in 2..Len(t) : i + k - 1 \in DOMAIN u /\ u[i + k - 1] = t[i]
             /\ \A p \in DOMAIN u : p \in 1..k \/ \E i \in 2..Len(t) : p = i + k - 1
             /\ \A i \in 1..Len(t) : ShapeOf(t[i], t[1], x.kind, i)
             /\ DOMAIN t = 1..Len(t)
<1> DEFINE t == x.todo
           u == y.todo
           k == Len(X)
<1>1. /\ t \in Seq(Calls) /\ t # <<>> /\ X \in Seq(Calls) /\ u = X \o Tail(t) /\ Shape(x)
  BY DEF Ahead
<1>2. /\ u \in Seq(Calls)
      /\ Len(t) \in Nat \ {0} /\ k \in Nat
      /\ Len(u) = k + Len(t) - 1
      /\ \A i \in 1..k : u[i] = X[i]
      /\ \A i \in 2..Len(t) : u[i + k - 1] = t[i]
      /\ \A p \in DOMAIN u : p \in 1..k \/ p + 1 - k \in 2..Len(t)
  BY <1>1, Splice
<1>3. DOMAIN t = 1..Len(t) /\ DOMAIN u = 1..Len(u)
  BY <1>1, <1>2
<1>4. \A i \in 1..Len(t) : ShapeOf(t[i], t[1], x.kind, i)
  BY <1>1, <1>3 DEF Shape, ShapeAt
<1> HIDE DEF t, u, k
<1>5. \A i \in 2..Len(t) : i + k - 1 \in DOMAIN u
  BY <1>2, <1>3
<1>6. ASSUME NEW p \in DOMAIN u, p \notin 1..k
      PROVE  \E i \in 2..Len(t) : p = i + k - 1
  <2>1. PICK i \in 2..Len(t) : i = p + 1 - k
    BY <1>2, <1>6
  <2>2. p \in Nat
    BY <1>2, <1>3
  <2>3. p = i + k - 1
    BY <1>2, <2>1, <2>2
  <2> QED
    BY <2>3
<1>7. t[1] \in Calls
  BY <1>1, <1>2, <1>3
<1> QED
  BY <1>2, <1>3, <1>4, <1>5, <1>6, <1>7 DEF t, u, k

LEMMA EarlierMoves ==
  ASSUME NEW x, NEW X, NEW y, Ahead(x, X, y), NEW i \in 2..Len(x.todo),
         NEW what, NEW n, Earlier(x.todo, i, what, n)
  PROVE  \/ x.todo[1].what \in what /\ x.todo[1].name = n
         \/ Earlier(y.todo, i + Len(X) - 1, what, n)
<1> DEFINE t == x.todo
           u == y.todo
           k == Len(X)
<1>1. /\ Len(t) \in Nat \ {0} /\ k \in Nat
      /\ \A j \in 2..Len(t) : u[j + k - 1] = t[j]
  BY AheadPlaces
<1>2. PICK j \in 1..(i - 1) : t[j].what \in what /\ t[j].name = n
  BY DEF Earlier
<1> HIDE DEF t, u, k
<1>3. CASE j = 1
  BY <1>2, <1>3 DEF t
<1>4. CASE j # 1
  <2>1. j \in 2..Len(t) /\ j + k - 1 \in 1..(i + k - 1 - 1)
    BY <1>1, <1>2, <1>4 DEF t
  <2>2. u[j + k - 1] = t[j]
    BY <1>1, <2>1
  <2> QED
    BY <1>2, <2>1, <2>2 DEF Earlier, u, k
<1> QED
  BY <1>3, <1>4

LEMMA SetMoves ==
  ASSUME NEW x, NEW X, NEW y, Ahead(x, X, y), NEW e, NEW f,
         Carries(x.todo, y.todo, e, f), NEW i \in 2..Len(x.todo), NEW n \in Name,
         WillBeSet(x.todo, i, n, e[n])
  PROVE  WillBeSet(y.todo, i + Len(X) - 1, n, f[n])
<1>1. CASE SettingsHold(n, e[n])
  BY <1>1 DEF Carries, WillBeSet
<1>2. CASE Earlier(x.todo, i, {"put", "create"}, n)
  <2>1. \/ x.todo[1].what \in {"put", "create"} /\ x.todo[1].name = n
        \/ Earlier(y.todo, i + Len(X) - 1, {"put", "create"}, n)
    BY <1>2, EarlierMoves
  <2> QED
    BY <2>1 DEF Carries, WillBeSet
<1> QED
  BY <1>1, <1>2 DEF WillBeSet

LEMMA PreparedMoves ==
  ASSUME NEW x, NEW X, NEW y, Ahead(x, X, y), NEW e, NEW f,
         Carries(x.todo, y.todo, e, f), NEW i \in 2..Len(x.todo), NEW n \in Name,
         Prepared(x.todo, i, n, e[n]), x.todo[i].what \notin Begun
  PROVE  Prepared(y.todo, i + Len(X) - 1, n, f[n])
<1>1. PICK u : u = y.todo
  OBVIOUS
<1>2. PICK p : p = i + Len(X) - 1
  OBVIOUS
<1>3. WillBeSet(u, p, n, f[n])
  BY <1>1, <1>2, SetMoves DEF Prepared
<1>4. p \in Nat /\ p >= 1 /\ u[p].what \notin Begun
  BY <1>1, <1>2, AheadPlaces
<1>5. ASSUME OneMain(f[n].policies) \/ (u[1].what \in Begun /\ u[1].name = n)
      PROVE  WillBeListed(u, p, n, f[n])
  BY <1>4, <1>5 DEF WillBeListed, Begun
<1>6. ASSUME OneMain(e[n].policies) \/ (x.todo[1].what \in Worked /\ x.todo[1].name = n)
      PROVE  WillBeListed(u, p, n, f[n])
  BY <1>1, <1>5, <1>6 DEF Carries
<1>7. ASSUME Earlier(x.todo, i, {"list", "create"}, n)
      PROVE  WillBeListed(u, p, n, f[n])
  <2>1. \/ x.todo[1].what \in {"list", "create"} /\ x.todo[1].name = n
        \/ Earlier(u, p, {"list", "create"}, n)
    BY <1>1, <1>2, <1>7, EarlierMoves
  <2>2. CASE Earlier(u, p, {"list", "create"}, n)
    BY <2>2 DEF WillBeListed
  <2>3. CASE x.todo[1].what \in {"list", "create"} /\ x.todo[1].name = n
    BY <1>6, <2>3 DEF Worked
  <2> QED
    BY <2>1, <2>2, <2>3
<1>8. WillBeListed(u, p, n, f[n])
  BY <1>6, <1>7 DEF Prepared, WillBeListed, Worked
<1> QED
  BY <1>1, <1>2, <1>3, <1>8 DEF Prepared

\* The work of the list goes on.
LEMMA WorkMoves ==
  ASSUME NEW x, NEW X, NEW y, Ahead(x, X, y), NEW e, NEW f,
         Carries(x.todo, y.todo, e, f), WorkInv(x, e),
         \A i \in 1..Len(X) : X[i].what \notin {"create", "list"},
         \A i \in 2..Len(x.todo) : x.todo[i].what = "create" =>
            f[x.todo[i].name] = e[x.todo[i].name],
         y.todo # <<>> /\ y.todo[1].what \in Begun =>
            LET n == y.todo[1].name
            IN  SettingsHold(n, f[n]) /\ InWork(y.todo, f[n].policies),
         y.todo # <<>> /\ y.todo[1].what = "readPolicies" => y.seen = f[y.todo[1].name]
  PROVE  WorkInv(y, f)
<1> DEFINE t == x.todo
           u == y.todo
           k == Len(X)
<1>1. /\ u \in Seq(Calls) /\ Len(t) \in Nat \ {0} /\ k \in Nat
      /\ \A i \in 1..k : u[i] = X[i]
      /\ \A i \in 2..Len(t) : i + k - 1 \in DOMAIN u /\ u[i + k - 1] = t[i]
      /\ \A p \in DOMAIN u : p \in 1..k \/ \E i \in 2..Len(t) : p = i + k - 1
      /\ \A i \in 1..Len(t) : ShapeOf(t[i], t[1], x.kind, i)
      /\ DOMAIN t = 1..Len(t)
  BY AheadPlaces
<1>2. \A i \in 1..Len(t) : WorkAt(t, e, i)
  BY <1>1 DEF WorkInv
<1>3. /\ \A i \in 1..k : u[i].what \notin {"create", "list"}
      /\ \A i \in 2..Len(t) : t[i].what = "create" => f[t[i].name] = e[t[i].name]
      /\ u # <<>> /\ u[1].what \in Begun =>
           SettingsHold(u[1].name, f[u[1].name]) /\ InWork(u, f[u[1].name].policies)
  BY <1>1
<1>4. ASSUME NEW i \in 2..Len(t), t[i].what = "list"
      PROVE  WillBeSet(u, i + k - 1, t[i].name, f[t[i].name])
  <2>1. i \in 1..Len(t)
    BY <1>1
  <2>2. WillBeSet(t, i, t[i].name, e[t[i].name]) /\ t[i].name \in Name
    BY <1>1, <1>2, <1>4, <2>1 DEF WorkAt, ShapeOf, OnEnvironment
  <2> QED
    BY <2>2, SetMoves
<1> HIDE DEF t, u, k
<1>5. ASSUME NEW p \in DOMAIN u, u[p].what = "create"
      PROVE  /\ f[u[p].name] = Missing
             /\ \A q \in DOMAIN u \ {p} : u[q].what = "create" => u[q].name # u[p].name
  <2>1. PICK i \in 2..Len(t) : p = i + k - 1
    BY <1>1, <1>3, <1>5
  <2>2. u[p] = t[i] /\ i \in 1..Len(t)
    BY <1>1, <2>1
  <2>3. f[t[i].name] = e[t[i].name] /\ e[t[i].name] = Missing
    BY <1>2, <1>3, <1>5, <2>2 DEF WorkAt
  <2>4. ASSUME NEW q \in DOMAIN u \ {p}, u[q].what = "create"
        PROVE  u[q].name # u[p].name
    <3>1. PICK j \in 2..Len(t) : q = j + k - 1
      BY <1>1, <1>3, <2>4
    <3>2. u[q] = t[j] /\ j \in DOMAIN t /\ j # i
      BY <1>1, <2>1, <3>1
    <3> QED
      BY <1>2, <1>5, <2>2, <2>4, <3>2 DEF WorkAt
  <2> QED
    BY <2>2, <2>3, <2>4
<1>6. ASSUME NEW p \in DOMAIN u, u[p].what = "list"
      PROVE  WillBeSet(u, p, u[p].name, f[u[p].name])
  <2>1. PICK i \in 2..Len(t) : p = i + k - 1
    BY <1>1, <1>3, <1>6
  <2>2. u[p] = t[i]
    BY <1>1, <2>1
  <2> QED
    BY <1>4, <1>6, <2>1, <2>2
<1>7. \A p \in DOMAIN u : WorkAt(u, f, p)
  <2> SUFFICES ASSUME NEW p \in DOMAIN u
               PROVE  WorkAt(u, f, p)
    OBVIOUS
  <2>1. u # <<>>
    BY <1>1
  <2>2. u[p].what \in Begun /\ p = 1 =>
           SettingsHold(u[p].name, f[u[p].name]) /\ InWork(u, f[u[p].name].policies)
    BY <1>3, <2>1
  <2> QED
    BY <1>5, <1>6, <2>2 DEF WorkAt, Begun
<1> QED
  BY <1>7 DEF WorkInv, u

\* What is still to be read will be found as it should be.
LEMMA SureMoves ==
  ASSUME NEW x, NEW X, NEW y, Ahead(x, X, y), NEW e, NEW f, NEW rules, NEW new,
         Carries(x.todo, y.todo, e, f), Sure(x, e, rules),
         RulesetHolds(rules) \/ x.todo[1].what = "putRuleset" => RulesetHolds(new),
         y.sound \/ (central /\ classic),
         \A i \in 1..Len(X) : SureAt(y, f, new, i)
  PROVE  Sure(y, f, new)
<1> DEFINE t == x.todo
           u == y.todo
           k == Len(X)
<1>1. /\ u \in Seq(Calls) /\ Len(t) \in Nat \ {0} /\ k \in Nat
      /\ \A i \in 2..Len(t) : i + k - 1 \in DOMAIN u /\ u[i + k - 1] = t[i]
      /\ \A p \in DOMAIN u : p \in 1..k \/ \E i \in 2..Len(t) : p = i + k - 1
      /\ \A i \in 1..Len(t) : ShapeOf(t[i], t[1], x.kind, i)
      /\ DOMAIN t = 1..Len(t)
  BY AheadPlaces
<1>2. ASSUME NEW i \in 2..Len(t)
      PROVE  SureAt(y, f, new, i + k - 1)
  <2>1. i \in 1..Len(t) /\ i # 1 /\ u[i + k - 1] = t[i]
    BY <1>1
  <2>2. SureAt(x, e, rules, i)
    BY <1>1, <2>1 DEF Sure
  <2>3. t[i].what \notin {"readPolicies", "putRuleset"}
    BY <1>1, <2>1 DEF ShapeOf
  <2>4. t[i].what = "read" => Prepared(u, i + k - 1, t[i].name, f[t[i].name])
    <3> SUFFICES ASSUME t[i].what = "read"
                 PROVE  Prepared(u, i + k - 1, t[i].name, f[t[i].name])
      OBVIOUS
    <3>1. t[i].name \in Name
      BY <1>1, <2>1 DEF ShapeOf, OnEnvironment
    <3>2. Prepared(t, i, t[i].name, e[t[i].name])
      BY <2>2 DEF SureAt
    <3> QED
      BY <3>1, <3>2, PreparedMoves DEF Begun
  <2>5. t[i].what = "readRuleset" => RulesetHolds(new)
    BY <2>2 DEF SureAt
  <2>6. t[i].what # "inventory"
    BY <2>2 DEF SureAt
  <2> HIDE DEF t, u, k
  <2> QED
    BY <2>1, <2>3, <2>4, <2>5, <2>6 DEF SureAt, u
<1>3. ASSUME NEW p \in DOMAIN u
      PROVE  SureAt(y, f, new, p)
  BY <1>1, <1>2
<1> QED
  BY <1>3 DEF Sure

-----------------------------------------------------------------------------
(* One request of a run that is alone, when all it reads will hold. *)

LEMMA ForwardAhead ==
  ASSUME ControlsTypes, ShapeInv, NEW r \in Run, NEW X, NEW w, NEW s, Forward(r, X, w, s)
  PROVE  /\ Ahead(run[r], X, run'[r]) /\ 1 \in DOMAIN run[r].todo
         /\ run'[r].wrote = w /\ run'[r].sound = s
         /\ run'[r].payload = run[r].payload /\ run'[r].outcome = run[r].outcome
<1>1. /\ run[r].todo \in Seq(Calls) /\ run[r].todo # <<>> /\ Shape(run[r])
  BY DEF Forward, ControlsTypes, RunType, ShapeInv
<1>2. /\ Follow(run[r].todo[1], X)
      /\ Turns(r, X \o Tail(run[r].todo), w, s, run[r].outcome)
  BY DEF Forward
<1>3. 1 \in DOMAIN run[r].todo /\ run[r].todo[1] \in Calls
  BY <1>1
<1>4. ShapeOf(run[r].todo[1], run[r].todo[1], run[r].kind, 1)
  BY <1>1, <1>3 DEF Shape, ShapeAt
<1>5. X \in Seq(Calls)
  BY <1>2, <1>3, <1>4, FollowType DEF ShapeOf
<1> QED
  BY <1>1, <1>2, <1>3, <1>5 DEF Ahead, Turns

LEMMA Moving ==
  ASSUME ControlsTypes, ShapeInv, NEW r \in Run
  PROVE  \A X, w, s : Forward(r, X, w, s) =>
           /\ Ahead(run[r], X, run'[r]) /\ run'[r].wrote = w /\ run'[r].sound = s
           /\ run'[r].outcome = run[r].outcome
BY ForwardAhead

\* The request behind the one that is answered.
LEMMA NextHead ==
  ASSUME NEW x, NEW y, Ahead(x, <<>>, y), y.todo # <<>>
  PROVE  /\ 2 \in 2..Len(x.todo) /\ y.todo[1] = x.todo[2]
         /\ Len(y.todo) = Len(x.todo) - 1
         /\ y.todo[1].what \notin {"delete", "expectNone", "readPolicies", "putRuleset"}
         /\ y.todo[1].what = "post" =>
              /\ x.todo[1].what \in {"delete", "expectNone"}
              /\ x.todo[1].name = y.todo[1].name
<1>1. PICK X : X = <<>> /\ Len(X) = 0 /\ Ahead(x, X, y)
  OBVIOUS
<1>2. /\ y.todo \in Seq(Calls) /\ Len(x.todo) \in Nat \ {0}
      /\ Len(y.todo) = Len(x.todo) - 1
      /\ \A i \in 2..Len(x.todo) : y.todo[i + 0 - 1] = x.todo[i]
      /\ \A i \in 1..Len(x.todo) : ShapeOf(x.todo[i], x.todo[1], x.kind, i)
  <2>1. /\ y.todo \in Seq(Calls) /\ Len(x.todo) \in Nat \ {0}
        /\ Len(y.todo) = Len(X) + Len(x.todo) - 1
    BY <1>1, AheadPlaces
  <2>2. \A i \in 2..Len(x.todo) : y.todo[i + Len(X) - 1] = x.todo[i]
    BY <1>1, AheadPlaces
  <2>3. \A i \in 1..Len(x.todo) : ShapeOf(x.todo[i], x.todo[1], x.kind, i)
    BY <1>1, AheadPlaces
  <2> QED
    BY <1>1, <2>1, <2>2, <2>3
<1>3. Len(y.todo) # 0
  BY <1>2
<1>4. 2 \in 2..Len(x.todo) /\ 2 \in 1..Len(x.todo)
  BY <1>2, <1>3
<1>5. y.todo[1] = x.todo[2]
  BY <1>2, <1>4
<1>6. ShapeOf(x.todo[2], x.todo[1], x.kind, 2)
  BY <1>2, <1>4
<1> QED
  BY <1>2, <1>4, <1>5, <1>6 DEF ShapeOf

LEMMA CarriesOne ==
  ASSUME NEW t, NEW u, NEW e, NEW f, NEW n, t[1].name = n,
         \A m \in Name : m # n => f[m] = e[m],
         SettingsHold(n, f[n]) \/ (t[1].what \notin {"put", "create"} /\ ~SettingsHold(n, e[n])),
         \/ OneMain(f[n].policies)
         \/ u[1].what \in Begun /\ u[1].name = n
         \/ t[1].what \notin Worked /\ f[n].policies = e[n].policies
  PROVE  Carries(t, u, e, f)
BY DEF Carries

LEMMA CarriesSame ==
  ASSUME NEW t, NEW u, NEW e, t[1].what \notin Worked \cup {"put"}
  PROVE  Carries(t, u, e, e)
BY DEF Carries, Worked

Peaceful == {"read", "readPolicies", "readRuleset", "readClassic", "decide", "inventory"}

\* A run that verifies or looks makes no request that writes.
LEMMA OnlySureWrites ==
  ASSUME NEW x, NEW e, NEW rules, RunInv(x, e, rules), 1 \in DOMAIN x.todo,
         x.todo \in Seq(Calls), x.todo[1].what \notin Peaceful
  PROVE  Sure(x, e, rules)
<1>1. ~Quiet(x)
  BY DEF Quiet, Peaceful
<1>2. ASSUME Looking(x, e)
      PROVE  FALSE
  <2>1. PICK d \in DOMAIN x.todo :
          /\ \A i \in 1..(d - 1) : x.todo[i].what \in {"read", "readPolicies"}
          /\ x.todo[d].what \in {"inventory", "decide"}
    BY <1>2 DEF Looking, LooksTo
  <2>2. d \in Nat /\ d >= 1
    OBVIOUS
  <2>3. CASE d = 1
    BY <2>1, <2>3 DEF Peaceful
  <2>4. CASE d # 1
    <3>1. 1 \in 1..(d - 1)
      BY <2>2, <2>4
    <3> QED
      BY <2>1, <3>1 DEF Peaceful
  <2> QED
    BY <2>3, <2>4
<1> QED
  BY <1>1, <1>2 DEF RunInv

LEMMA NamesDiffer ==
  /\ Range(Protected) \cap Range(Unattended) = {}
  /\ Evidence \notin Range(Protected) /\ Evidence \notin Range(Unattended)
BY ControlsConstants DEF ControlsConstants

LEMMA PutSettings ==
  ASSUME NEW n \in Name, NEW e, n \in Range(Unattended) => e = Missing
  PROVE  SettingsHold(n, SettingsOf(n, e)) /\ SettingsOf(n, e).policies = e.policies
<1>1. CASE n \in Range(Protected)
  BY <1>1, NamesDiffer DEF SettingsOf, ReviewerPayload, SettingsHold
<1>2. CASE n \notin Range(Protected)
  BY <1>2, NamesDiffer DEF SettingsOf, UnattendedPayload, SettingsHold, Missing
<1> QED
  BY <1>1, <1>2

LEMMA NothingIsNotMain ==
  /\ ~OneMain(<<>>)
  /\ \A p : DOMAIN p = {} => ~OneMain(p) /\ "main" \notin Range(p)
<1>1. DOMAIN <<>> = {}
  OBVIOUS
<1>2. \A p : DOMAIN p = {} => ~OneMain(p) /\ "main" \notin Range(p)
  BY DEF OneMain, Range
<1> QED
  BY <1>1, <1>2

LEMMA EnvAt ==
  ASSUME ControlsTypes, NEW n \in Name, NEW f, env' = [env EXCEPT ![n] = f]
  PROVE  env'[n] = f /\ \A m \in Name : m # n => env'[m] = env[m]
BY DEF ControlsTypes

\* A run that is sure stays sure: the settings of an environment are written.
LEMMA PutSure ==
  ASSUME Typed, NEW r \in Run, RunInv(run[r], env, ruleset), PutEnvironment(r), At(r, "put")
  PROVE  WorkInv(run'[r], env') /\ Sure(run'[r], env', ruleset')
<1> DEFINE x == run[r]
           y == run'[r]
           n == Here(r)
<1>1. ControlsTypes /\ ShapeInv
  BY DEF Typed
<1>2. /\ 1 \in DOMAIN x.todo /\ x.todo \in Seq(Calls) /\ n \in Name
      /\ x.todo[1].what = "put" /\ x.todo[1].name = n
  BY <1>1, AtHead DEF OnEnvironment
<1>3. /\ Forward(r, <<>>, TRUE, x.sound) /\ ruleset' = ruleset
      /\ env' = [env EXCEPT ![n] = SettingsOf(n, env[n])]
  BY <1>1, PutMoves
<1>4. Ahead(x, <<>>, y) /\ y.sound = x.sound
  <2>1. \A X, w, s : Forward(r, X, w, s) => Ahead(x, X, y) /\ y.sound = s
    BY <1>1, Moving
  <2> QED
    BY <1>3, <2>1, Zenon
<1>5. /\ \A i \in 1..Len(x.todo) : ShapeOf(x.todo[i], x.todo[1], x.kind, i)
      /\ 1 \in 1..Len(x.todo) /\ \A i \in 2..Len(x.todo) : i \in 1..Len(x.todo)
  BY <1>2, <1>4, AheadPlaces
<1>6. n \in Range(Protected) \cup {Evidence} /\ n \notin Range(Unattended)
  BY <1>2, <1>5, NamesDiffer DEF ShapeOf
<1>7. /\ SettingsHold(n, env'[n]) /\ env'[n].policies = env[n].policies
      /\ \A m \in Name : m # n => env'[m] = env[m]
  <2>1. PICK g : g = SettingsOf(n, env[n])
    OBVIOUS
  <2>2. SettingsHold(n, g) /\ g.policies = env[n].policies
    BY <1>2, <1>6, <2>1, PutSettings
  <2>3. env'[n] = g /\ \A m \in Name : m # n => env'[m] = env[m]
    BY <1>1, <1>2, <1>3, <2>1, EnvAt
  <2> QED
    BY <2>2, <2>3
<1>8. Sure(x, env, ruleset) /\ WorkInv(x, env)
  BY <1>2, OnlySureWrites DEF RunInv, Peaceful
<1> HIDE DEF x, y, n
<1>9. Carries(x.todo, y.todo, env, env')
  BY <1>2, <1>7, CarriesOne DEF Worked
<1>10. ASSUME NEW i \in 2..Len(x.todo), x.todo[i].what = "create"
       PROVE  env'[x.todo[i].name] = env[x.todo[i].name]
  <2>1. x.todo[i].name \in Range(Unattended) /\ x.todo[i].name \in Name
    BY <1>5, <1>10 DEF ShapeOf, OnEnvironment
  <2> QED
    BY <1>6, <1>7, <2>1
<1>11. y.todo # <<>> => y.todo[1].what \notin Begun \cup {"readPolicies"}
  BY <1>2, <1>4, NextHead DEF Begun
<1>12. \A i \in 1..Len(<<>>) : FALSE
  OBVIOUS
<1>13. WorkInv(y, env')
  BY <1>4, <1>8, <1>9, <1>10, <1>11, <1>12, WorkMoves
<1>14. Sure(y, env', ruleset')
  <2>1. x.todo[1].what # "putRuleset" /\ (y.sound \/ (central /\ classic))
    BY <1>2, <1>4, <1>8 DEF Sure
  <2> QED
    BY <1>3, <1>4, <1>8, <1>9, <1>12, <2>1, SureMoves
<1> QED
  BY <1>13, <1>14 DEF y

LEMMA Writing ==
  ASSUME Typed, NEW r \in Run, RunInv(run[r], env, ruleset), NEW what, At(r, what),
         what \notin Peaceful
  PROVE  LET x == run[r]
             n == Here(r)
         IN  /\ ControlsTypes /\ ShapeInv /\ Sure(x, env, ruleset) /\ WorkInv(x, env)
             /\ x.todo \in Seq(Calls) /\ x.todo # <<>>
             /\ x.todo[1].what = what /\ x.todo[1].name = n /\ x.todo[1] \in Calls
             /\ what \in OnEnvironment => n \in Name
             /\ WorkAt(x.todo, env, 1)
             /\ 1 \in 1..Len(x.todo) /\ \A i \in 2..Len(x.todo) : i \in 1..Len(x.todo)
             /\ \A i \in 1..Len(x.todo) : ShapeOf(x.todo[i], x.todo[1], x.kind, i)
             /\ x.sound \/ (central /\ classic)
<1>1. ControlsTypes /\ ShapeInv
  BY DEF Typed
<1>2. /\ run[r].todo \in Seq(Calls) /\ run[r].todo # <<>> /\ 1 \in DOMAIN run[r].todo
      /\ run[r].todo[1].what = what /\ run[r].todo[1].name = Here(r)
      /\ run[r].todo[1] \in Calls
      /\ what \in OnEnvironment => Here(r) \in Name
  BY <1>1, AtHead
<1>3. Sure(run[r], env, ruleset)
  BY <1>2, OnlySureWrites
<1>4. WorkInv(run[r], env) /\ WorkAt(run[r].todo, env, 1)
  BY <1>2 DEF RunInv, WorkInv
<1>5. DOMAIN run[r].todo = 1..Len(run[r].todo) /\ Len(run[r].todo) \in Nat
  BY <1>2
<1>6. \A i \in 1..Len(run[r].todo) :
        ShapeOf(run[r].todo[i], run[r].todo[1], run[r].kind, i)
  BY <1>1, <1>5 DEF ShapeInv, Shape, ShapeAt
<1>7. /\ 1 \in 1..Len(run[r].todo)
      /\ \A i \in 2..Len(run[r].todo) : i \in 1..Len(run[r].todo)
  BY <1>2, <1>5
<1>8. run[r].sound \/ (central /\ classic)
  BY <1>3 DEF Sure
<1> QED
  BY <1>1, <1>2, <1>3, <1>4, <1>6, <1>7, <1>8

\* An environment is made.
LEMMA CreateSure ==
  ASSUME Typed, NEW r \in Run, RunInv(run[r], env, ruleset), PutEnvironment(r),
         At(r, "create")
  PROVE  WorkInv(run'[r], env') /\ Sure(run'[r], env', ruleset')
<1> DEFINE x == run[r]
           y == run'[r]
           n == Here(r)
<1>1. /\ ControlsTypes /\ ShapeInv /\ Sure(x, env, ruleset) /\ WorkInv(x, env)
      /\ x.todo \in Seq(Calls) /\ x.todo # <<>>
      /\ x.todo[1].what = "create" /\ x.todo[1].name = n /\ n \in Name
      /\ WorkAt(x.todo, env, 1)
      /\ 1 \in 1..Len(x.todo) /\ \A i \in 2..Len(x.todo) : i \in 1..Len(x.todo)
      /\ \A i \in 1..Len(x.todo) : ShapeOf(x.todo[i], x.todo[1], x.kind, i)
      /\ x.sound \/ (central /\ classic)
  BY Writing DEF Peaceful, OnEnvironment
<1>2. PICK X : X = Create(n)
  OBVIOUS
<1>3. /\ Forward(r, X, TRUE, x.sound) /\ ruleset' = ruleset
      /\ env' = [env EXCEPT ![n] = SettingsOf(n, env[n])]
  BY <1>1, <1>2, PutMoves
<1>4. Ahead(x, X, y) /\ y.sound = x.sound
  <2>1. \A Z, w, s : Forward(r, Z, w, s) => Ahead(x, Z, y) /\ y.sound = s
    BY <1>1, Moving
  <2> QED
    BY <1>3, <2>1, Zenon
<1>5. n \in Range(Unattended) /\ env[n] = Missing
  BY <1>1 DEF ShapeOf, WorkAt
<1>6. /\ SettingsHold(n, env'[n]) /\ env'[n].policies = <<>>
      /\ \A m \in Name : m # n => env'[m] = env[m]
  <2>1. PICK g : g = SettingsOf(n, env[n])
    OBVIOUS
  <2>2. SettingsHold(n, g) /\ g.policies = <<>>
    BY <1>1, <1>5, <2>1, PutSettings DEF Missing
  <2>3. env'[n] = g /\ \A m \in Name : m # n => env'[m] = env[m]
    BY <1>1, <1>3, <2>1, EnvAt
  <2> QED
    BY <2>2, <2>3
<1> HIDE DEF x, y, n
<1>7. /\ X[1] = Call("expectNone", n) /\ X[2] = Call("post", n)
      /\ central => Len(X) = 4 /\ X[3] = Call("read", n) /\ X[4] = Call("decide", None)
      /\ ~central => Len(X) = 2
  BY <1>1, <1>2, CreateType
<1>8. /\ \A i \in 1..Len(X) : y.todo[i] = X[i]
      /\ Len(X) \in Nat /\ Len(y.todo) = Len(X) + Len(x.todo) - 1
      /\ Len(x.todo) \in Nat \ {0}
  BY <1>4, AheadPlaces
<1>9. /\ 1 \in 1..Len(X) /\ 2 \in 1..Len(X) /\ Len(y.todo) > 1
      /\ \A i \in 1..Len(X) : i = 1 \/ i = 2 \/ (central /\ (i = 3 \/ i = 4))
  BY <1>7, <1>8
<1>10. /\ y.todo[1].what = "expectNone" /\ y.todo[1].name = n
       /\ y.todo[2].what = "post" /\ y.todo[2].name = n
  BY <1>7, <1>8, <1>9 DEF Call
<1>11. Carries(x.todo, y.todo, env, env')
  <2>1. \A m \in Name : m # n => env'[m] = env[m]
    BY <1>6
  <2> QED
    BY <1>1, <1>6, <1>10, <2>1, CarriesOne DEF Begun
<1>12. ASSUME NEW i \in 2..Len(x.todo), x.todo[i].what = "create"
       PROVE  env'[x.todo[i].name] = env[x.todo[i].name]
  <2>1. x.todo[i].name \in Name /\ i \in DOMAIN x.todo \ {1}
    BY <1>1, <1>12 DEF ShapeOf, OnEnvironment
  <2>2. x.todo[i].name # n
    BY <1>1, <1>12, <2>1 DEF WorkAt
  <2> QED
    BY <1>6, <2>1, <2>2
<1>13. SettingsHold(n, env'[n]) /\ InWork(y.todo, env'[n].policies)
  BY <1>6, <1>9, <1>10 DEF InWork
<1>14. \A i \in 1..Len(X) : X[i].what \notin {"create", "list"}
  BY <1>7, <1>9 DEF Call
<1>15. WorkInv(y, env')
  BY <1>1, <1>4, <1>10, <1>11, <1>12, <1>13, <1>14, WorkMoves
<1>16. ASSUME NEW i \in 1..Len(X)
       PROVE  SureAt(y, env', ruleset', i)
  <2>1. CASE i = 1 \/ i = 2 \/ i = 4
    <3>1. y.todo[i].what \in {"expectNone", "post", "decide"}
      BY <1>7, <1>8, <1>9, <2>1 DEF Call
    <3> QED
      BY <3>1 DEF SureAt
  <2>2. CASE i = 3
    <3>1. y.todo[i].what = "read" /\ y.todo[i].name = n
      BY <1>7, <1>8, <1>9, <2>2 DEF Call
    <3>2. Prepared(y.todo, i, n, env'[n])
      BY <1>6, <1>10, <2>2 DEF Prepared, WillBeSet, WillBeListed
    <3> QED
      BY <3>1, <3>2 DEF SureAt
  <2> QED
    BY <1>9, <2>1, <2>2
<1>17. Sure(y, env', ruleset')
  <2>1. x.todo[1].what # "putRuleset" /\ (y.sound \/ (central /\ classic))
    BY <1>1, <1>4
  <2>2. RulesetHolds(ruleset) \/ x.todo[1].what = "putRuleset" => RulesetHolds(ruleset')
    BY <1>3, <2>1
  <2> QED
    BY <1>1, <1>4, <1>11, <1>16, <2>1, <2>2, SureMoves
<1> QED
  BY <1>15, <1>17 DEF y

LEMMA Least ==
  ASSUME NEW S, S \subseteq Nat, S # {}, NEW less, IsWellFoundedOn(less, Nat)
  PROVE  \E x \in S : \A y \in S : ~ (<<y, x>> \in less)
<1>1. \A R, T : IsWellFoundedOn(R, T) =>
        \A U : U \subseteq T /\ U # {} => \E x \in U : \A y \in U : ~ (<<y, x>> \in R)
  BY WFMin, Zenon
<1> QED
  BY <1>1, Zenon

LEMMA MinIn ==
  ASSUME NEW S, S \subseteq Nat, S # {}
  PROVE  Min(S) \in S /\ \A i \in S : Min(S) <= i
<1>1. \E i \in S : \A j \in S : i <= j
  <2>1. PICK less : less = {p \in Nat \X Nat : p[1] < p[2]}
    OBVIOUS
  <2>2. IsWellFoundedOn(less, Nat)
    BY <2>1, NatLessThanWellFounded, SMT DEF OpToRel
  <2>3. PICK i \in S : \A j \in S : ~ (<<j, i>> \in less)
    BY <2>2, Least, Zenon
  <2>4. ASSUME NEW j \in S
        PROVE  i <= j
    <3>1. i \in Nat /\ j \in Nat
      OBVIOUS
    <3>2. j < i => <<j, i>> \in less
      BY <2>1, <3>1
    <3> QED
      BY <2>3, <3>1, <3>2
  <2> QED
    BY <2>4
<1> QED
  BY <1>1 DEF Min

\* The list of policies of an environment, and what is superfluous in it.
LEMMA SuperfluousType ==
  ASSUME NEW p, DOMAIN p \subseteq Nat
  PROVE  LET ids == Superfluous(p)
         IN  /\ ids \subseteq DOMAIN p
             /\ "main" \notin Range(p) => ids = DOMAIN p
             /\ "main" \in Range(p) =>
                  \E i \in DOMAIN p : DOMAIN p \ ids = {i} /\ p[i] = "main"
<1> DEFINE mains == {i \in DOMAIN p : p[i] = "main"}
<1>1. Superfluous(p) = DOMAIN p \ (IF mains = {} THEN {} ELSE {Min(mains)})
  BY DEF Superfluous
<1>2. "main" \in Range(p) <=> mains # {}
  BY DEF Range
<1>3. CASE mains = {}
  BY <1>1, <1>2, <1>3
<1>4. CASE mains # {}
  <2>1. Min(mains) \in mains
    BY <1>4, MinIn
  <2> QED
    BY <1>1, <1>2, <1>4, <2>1
<1> QED
  BY <1>3, <1>4

\* The policies are listed, and what is superfluous goes before main is posted.
LEMMA ListSure ==
  ASSUME Typed, NEW r \in Run, RunInv(run[r], env, ruleset), ListPolicies(r)
  PROVE  WorkInv(run'[r], env') /\ Sure(run'[r], env', ruleset')
<1> DEFINE x == run[r]
           y == run'[r]
           n == Here(r)
           p == env[n].policies
           ids == Superfluous(p)
           del == [Call("delete", n) EXCEPT !.ids = ids]
<1>1. /\ ControlsTypes /\ ShapeInv /\ Sure(x, env, ruleset) /\ WorkInv(x, env)
      /\ x.todo \in Seq(Calls) /\ x.todo # <<>>
      /\ x.todo[1].what = "list" /\ x.todo[1].name = n /\ n \in Name
      /\ WorkAt(x.todo, env, 1)
      /\ 1 \in 1..Len(x.todo) /\ \A i \in 2..Len(x.todo) : i \in 1..Len(x.todo)
      /\ \A i \in 1..Len(x.todo) : ShapeOf(x.todo[i], x.todo[1], x.kind, i)
      /\ x.sound \/ (central /\ classic)
  BY Writing DEF Peaceful, OnEnvironment, ListPolicies
<1>2. Listed(r) /\ env' = env /\ ruleset' = ruleset
  BY <1>1, ListMoves DEF github
<1>3. SettingsHold(n, env[n])
  BY <1>1 DEF WorkAt, WillBeSet, Earlier
<1>4. /\ ids \subseteq DOMAIN p
      /\ "main" \notin Range(p) => ids = DOMAIN p
      /\ "main" \in Range(p) => \E i \in DOMAIN p : DOMAIN p \ ids = {i} /\ p[i] = "main"
  <2>1. DOMAIN p \subseteq Nat
    BY <1>1 DEF ControlsTypes, IsSettings
  <2> QED
    BY <2>1, SuperfluousType
<1>5. /\ del.what = "delete" /\ del.name = n /\ del.ids = ids
      /\ Call("post", n).what = "post" /\ Call("post", n).name = n
  BY DEF Call
<1>6. PICK X : /\ Forward(r, X, x.wrote, x.sound)
               /\ \/ ids = {} /\ "main" \in Range(p) /\ X = <<>>
                  \/ ids = {} /\ "main" \notin Range(p) /\ X = <<Call("post", n)>>
                  \/ ids # {} /\ "main" \in Range(p) /\ X = <<del>>
                  \/ ids # {} /\ "main" \notin Range(p) /\ X = <<del, Call("post", n)>>
  BY <1>2, Zenon DEF Listed
<1> HIDE DEF del
<1>7. Ahead(x, X, y) /\ y.sound = x.sound
  <2>1. \A Z, w, s : Forward(r, Z, w, s) => Ahead(x, Z, y) /\ y.sound = s
    BY <1>1, Moving
  <2> QED
    BY <1>6, <2>1, Zenon
<1> HIDE DEF x, y, n, p, ids
<1>8. /\ \A i \in 1..Len(X) : y.todo[i] = X[i]
      /\ Len(X) \in Nat /\ Len(y.todo) = Len(X) + Len(x.todo) - 1
      /\ Len(x.todo) \in Nat \ {0}
      /\ \A i \in 2..Len(x.todo) : y.todo[i + Len(X) - 1] = x.todo[i]
  BY <1>7, AheadPlaces
<1>9. \A i \in 1..Len(X) : X[i].what \in {"delete", "post"}
  <2>1. CASE X = <<>>
    BY <2>1
  <2>2. CASE X = <<Call("post", n)>>
    BY <1>5, <2>2
  <2>3. CASE X = <<del>>
    BY <1>5, <2>3
  <2>4. CASE X = <<del, Call("post", n)>>
    BY <1>5, <2>4
  <2> QED
    BY <1>6, <2>1, <2>2, <2>3, <2>4
<1>10. /\ OneMain(p) \/ (y.todo[1].what \in Begun /\ y.todo[1].name = n)
       /\ y.todo # <<>> /\ y.todo[1].what \in Begun =>
            y.todo[1].name = n /\ InWork(y.todo, p)
       /\ y.todo # <<>> => y.todo[1].what # "readPolicies"
  <2>1. CASE ids = {} /\ "main" \in Range(p) /\ X = <<>>
    <3>1. OneMain(p)
      BY <1>4, <2>1 DEF OneMain
    <3>2. y.todo # <<>> => y.todo[1].what \notin Begun \cup {"readPolicies"}
      BY <1>1, <1>7, <2>1, NextHead DEF Begun
    <3> QED
      BY <3>1, <3>2
  <2>2. CASE ids = {} /\ "main" \notin Range(p) /\ X = <<Call("post", n)>>
    <3>1. y.todo[1].what = "post" /\ y.todo[1].name = n
      <4>1. Len(X) = 1 /\ X[1] = Call("post", n)
        BY <2>2
      <4> QED
        BY <1>5, <1>8, <4>1
    <3>2. InWork(y.todo, p)
      BY <1>4, <2>2, <3>1 DEF InWork
    <3> QED
      BY <3>1, <3>2 DEF Begun
  <2>3. CASE ids # {} /\ "main" \in Range(p) /\ X = <<del>>
    <3>1. Len(X) = 1 /\ X[1] = del
      BY <2>3
    <3>2. y.todo[1].what = "delete" /\ y.todo[1].name = n /\ y.todo[1].ids = ids
      BY <1>5, <1>8, <3>1
    <3>3. Len(y.todo) > 1 => y.todo[2].what # "post"
      <4> SUFFICES ASSUME Len(y.todo) > 1
                   PROVE  y.todo[2].what # "post"
        OBVIOUS
      <4>1. 2 \in 2..Len(x.todo) /\ 2 + Len(X) - 1 = 2
        BY <1>8, <3>1
      <4>2. y.todo[2] = x.todo[2]
        BY <1>8, <4>1
      <4> QED
        BY <1>1, <4>1, <4>2 DEF ShapeOf
    <3>4. InWork(y.todo, p)
      BY <1>4, <2>3, <3>2, <3>3 DEF InWork
    <3> QED
      BY <3>2, <3>4 DEF Begun
  <2>4. CASE ids # {} /\ "main" \notin Range(p) /\ X = <<del, Call("post", n)>>
    <3>1. Len(X) = 2 /\ X[1] = del /\ X[2] = Call("post", n)
      BY <2>4
    <3>2. /\ y.todo[1].what = "delete" /\ y.todo[1].name = n /\ y.todo[1].ids = ids
          /\ y.todo[2].what = "post" /\ Len(y.todo) > 1
      BY <1>5, <1>8, <3>1
    <3>3. InWork(y.todo, p)
      BY <1>4, <2>4, <3>2 DEF InWork
    <3> QED
      BY <3>2, <3>3 DEF Begun
  <2> QED
    BY <1>6, <2>1, <2>2, <2>3, <2>4
<1>11. Carries(x.todo, y.todo, env, env)
  BY <1>1, <1>3, <1>10, CarriesOne DEF p
<1>12. y.todo # <<>> /\ y.todo[1].what \in Begun =>
          SettingsHold(y.todo[1].name, env[y.todo[1].name])
            /\ InWork(y.todo, env[y.todo[1].name].policies)
  BY <1>3, <1>10 DEF p
<1>13. WorkInv(y, env)
  BY <1>1, <1>7, <1>9, <1>10, <1>11, <1>12, WorkMoves
<1>14. Sure(y, env, ruleset)
  <2>1. x.todo[1].what # "putRuleset" /\ (y.sound \/ (central /\ classic))
    BY <1>1, <1>7
  <2>2. RulesetHolds(ruleset) \/ x.todo[1].what = "putRuleset" => RulesetHolds(ruleset)
    BY <2>1
  <2>3. \A i \in 1..Len(X) : SureAt(y, env, ruleset, i)
    BY <1>8, <1>9 DEF SureAt
  <2> QED
    BY <1>1, <1>7, <1>11, <2>1, <2>2, <2>3, SureMoves
<1> QED
  BY <1>2, <1>13, <1>14 DEF y

\* The list of a new environment is empty.
LEMMA ExpectSure ==
  ASSUME Typed, NEW r \in Run, RunInv(run[r], env, ruleset), ExpectNone(r)
  PROVE  /\ WorkInv(run'[r], env') /\ Sure(run'[r], env', ruleset')
         /\ run'[r].outcome = "active"
<1> DEFINE x == run[r]
           y == run'[r]
           n == Here(r)
<1>1. /\ ControlsTypes /\ ShapeInv /\ Sure(x, env, ruleset) /\ WorkInv(x, env)
      /\ x.todo \in Seq(Calls) /\ x.todo # <<>>
      /\ x.todo[1].what = "expectNone" /\ x.todo[1].name = n /\ n \in Name
      /\ WorkAt(x.todo, env, 1)
      /\ 1 \in 1..Len(x.todo) /\ \A i \in 2..Len(x.todo) : i \in 1..Len(x.todo)
      /\ \A i \in 1..Len(x.todo) : ShapeOf(x.todo[i], x.todo[1], x.kind, i)
      /\ x.sound \/ (central /\ classic)
  BY Writing DEF Peaceful, OnEnvironment, ExpectNone
<1>2. /\ SettingsHold(n, env[n]) /\ env[n].policies = <<>>
      /\ Len(x.todo) > 1 /\ x.todo[2].what = "post"
  BY <1>1 DEF WorkAt, InWork
<1>3. /\ Forward(r, <<>>, x.wrote, x.sound) /\ env' = env /\ ruleset' = ruleset
  BY <1>1, <1>2, ExpectMoves DEF github
<1>4. Ahead(x, <<>>, y) /\ y.sound = x.sound
  <2>1. \A Z, w, s : Forward(r, Z, w, s) => Ahead(x, Z, y) /\ y.sound = s
    BY <1>1, Moving
  <2> QED
    BY <1>3, <2>1, Zenon
<1> HIDE DEF x, y, n
<1>5. \A i \in 1..Len(<<>>) : FALSE
  OBVIOUS
<1>6. /\ y.todo # <<>> /\ y.todo[1].what = "post" /\ y.todo[1].name = n
  <2>1. y.todo \in Seq(Calls) /\ Len(y.todo) # 0
    <3>1. PICK X : X = <<>> /\ Len(X) = 0 /\ Ahead(x, X, y)
      BY <1>4
    <3>2. y.todo \in Seq(Calls) /\ Len(y.todo) = Len(x.todo) - 1 /\ Len(x.todo) \in Nat
      BY <3>1, AheadPlaces
    <3> QED
      BY <1>2, <3>2
  <2>2. y.todo # <<>>
    BY <2>1
  <2> QED
    BY <1>1, <1>2, <1>4, <2>2, NextHead
<1>7. InWork(y.todo, env[n].policies)
  <2>1. DOMAIN env[n].policies = {}
    BY <1>2
  <2> QED
    BY <1>6, <2>1 DEF InWork
<1>8. Carries(x.todo, y.todo, env, env)
  BY <1>1, <1>2, <1>6, CarriesOne DEF Begun
<1>9. WorkInv(y, env)
  BY <1>1, <1>2, <1>4, <1>5, <1>6, <1>7, <1>8, WorkMoves
<1>10. Sure(y, env, ruleset)
  <2>1. x.todo[1].what # "putRuleset" /\ (y.sound \/ (central /\ classic))
    BY <1>1, <1>4
  <2>2. RulesetHolds(ruleset) \/ x.todo[1].what = "putRuleset" => RulesetHolds(ruleset)
    BY <2>1
  <2> QED
    BY <1>1, <1>4, <1>5, <1>8, <2>1, <2>2, SureMoves
<1>11. run'[r].outcome = "active"
  BY <1>3 DEF Forward, Turns, Active
<1> QED
  BY <1>3, <1>9, <1>10, <1>11 DEF y

\* Settings do not depend on the list of policies.
LEMMA PoliciesApart ==
  ASSUME NEW n, NEW e, IsSettings(e), NEW p, NEW g, g = [e EXCEPT !.policies = p]
  PROVE  g.policies = p /\ (SettingsHold(n, g) <=> SettingsHold(n, e))
<1>1. /\ g.mode = e.mode /\ g.bypass = e.bypass /\ g.self = e.self
      /\ g.reviewers = e.reviewers /\ g.gate = e.gate /\ g.policies = p
  BY DEF IsSettings
<1> QED
  BY <1>1 DEF SettingsHold

\* Main is posted.
LEMMA PostSure ==
  ASSUME Typed, NEW r \in Run, RunInv(run[r], env, ruleset), PostMain(r)
  PROVE  WorkInv(run'[r], env') /\ Sure(run'[r], env', ruleset')
<1> DEFINE x == run[r]
           y == run'[r]
           n == Here(r)
<1>1. /\ ControlsTypes /\ ShapeInv /\ Sure(x, env, ruleset) /\ WorkInv(x, env)
      /\ x.todo \in Seq(Calls) /\ x.todo # <<>>
      /\ x.todo[1].what = "post" /\ x.todo[1].name = n /\ n \in Name
      /\ WorkAt(x.todo, env, 1)
      /\ 1 \in 1..Len(x.todo) /\ \A i \in 2..Len(x.todo) : i \in 1..Len(x.todo)
      /\ \A i \in 1..Len(x.todo) : ShapeOf(x.todo[i], x.todo[1], x.kind, i)
      /\ x.sound \/ (central /\ classic)
  BY Writing DEF Peaceful, OnEnvironment, PostMain
<1>2. SettingsHold(n, env[n]) /\ DOMAIN env[n].policies = {}
  BY <1>1 DEF WorkAt, InWork
<1>3. PICK p : p = WithMain(env[n].policies)
  OBVIOUS
<1>4. PICK g : g = [env[n] EXCEPT !.policies = p]
  OBVIOUS
<1>5. /\ Forward(r, <<>>, TRUE, x.sound) /\ ruleset' = ruleset
      /\ env' = [env EXCEPT ![n].policies = p]
  <2>1. "main" \notin Range(env[n].policies)
    BY <1>2, NothingIsNotMain
  <2> QED
    BY <1>1, <1>3, <2>1, PostMoves
<1>6. SettingsHold(n, g) /\ OneMain(g.policies)
  <2>1. IsSettings(env[n])
    BY <1>1 DEF ControlsTypes
  <2>2. DOMAIN p = {lastId + 1} /\ p[lastId + 1] = "main"
    BY <1>2, <1>3 DEF WithMain
  <2>3. OneMain(p)
    BY <2>2 DEF OneMain
  <2> QED
    BY <1>2, <1>4, <2>1, <2>3, PoliciesApart
<1>7. env'[n] = g /\ \A m \in Name : m # n => env'[m] = env[m]
  <2>1. env' = [env EXCEPT ![n] = g]
    BY <1>1, <1>4, <1>5 DEF ControlsTypes
  <2> QED
    BY <1>1, <2>1, EnvAt
<1>8. Ahead(x, <<>>, y) /\ y.sound = x.sound
  <2>1. \A Z, w, s : Forward(r, Z, w, s) => Ahead(x, Z, y) /\ y.sound = s
    BY <1>1, Moving
  <2> QED
    BY <1>5, <2>1, Zenon
<1> HIDE DEF x, y, n
<1>9. \A i \in 1..Len(<<>>) : FALSE
  OBVIOUS
<1>10. y.todo # <<>> => y.todo[1].what \notin Begun \cup {"readPolicies"}
  BY <1>1, <1>8, NextHead DEF Begun
<1>11. Carries(x.todo, y.todo, env, env')
  BY <1>1, <1>6, <1>7, CarriesOne
<1>12. ASSUME NEW i \in 2..Len(x.todo), x.todo[i].what = "create"
       PROVE  env'[x.todo[i].name] = env[x.todo[i].name]
  <2>1. x.todo[i].name \in Name /\ i \in DOMAIN x.todo
    BY <1>1, <1>12 DEF ShapeOf, OnEnvironment
  <2>2. env[x.todo[i].name] = Missing
    BY <1>1, <1>12, <2>1 DEF WorkInv, WorkAt
  <2>3. x.todo[i].name # n
    BY <1>2, <2>2 DEF SettingsHold, Missing
  <2> QED
    BY <1>7, <2>1, <2>3
<1>13. WorkInv(y, env')
  BY <1>1, <1>8, <1>9, <1>10, <1>11, <1>12, WorkMoves
<1>14. Sure(y, env', ruleset')
  <2>1. x.todo[1].what # "putRuleset" /\ (y.sound \/ (central /\ classic))
    BY <1>1, <1>8
  <2>2. RulesetHolds(ruleset) \/ x.todo[1].what = "putRuleset" => RulesetHolds(ruleset')
    BY <1>5, <2>1
  <2> QED
    BY <1>1, <1>8, <1>9, <1>11, <2>1, <2>2, SureMoves
<1> QED
  BY <1>13, <1>14 DEF y

\* Policies are deleted, one request each.
LEMMA DeleteSure ==
  ASSUME Typed, NEW r \in Run, RunInv(run[r], env, ruleset), DeletePolicy(r)
  PROVE  /\ WorkInv(run'[r], env') /\ Sure(run'[r], env', ruleset')
         /\ run'[r].outcome = "active"
<1> DEFINE x == run[r]
           y == run'[r]
           n == Here(r)
           ids == x.todo[1].ids
           q == env[n].policies
           i0 == Min(ids)
           del == [Call("delete", n) EXCEPT !.ids = ids \ {i0}]
<1>1. /\ ControlsTypes /\ ShapeInv /\ Sure(x, env, ruleset) /\ WorkInv(x, env)
      /\ x.todo \in Seq(Calls) /\ x.todo # <<>>
      /\ x.todo[1].what = "delete" /\ x.todo[1].name = n /\ n \in Name
      /\ WorkAt(x.todo, env, 1)
      /\ 1 \in 1..Len(x.todo) /\ \A i \in 2..Len(x.todo) : i \in 1..Len(x.todo)
      /\ \A i \in 1..Len(x.todo) : ShapeOf(x.todo[i], x.todo[1], x.kind, i)
      /\ x.sound \/ (central /\ classic)
  BY Writing DEF Peaceful, OnEnvironment, DeletePolicy
<1>2. SettingsHold(n, env[n]) /\ InWork(x.todo, q)
  BY <1>1 DEF WorkAt
<1>3. /\ ids # {} /\ ids \subseteq DOMAIN q
      /\ IF Len(x.todo) > 1 /\ x.todo[2].what = "post" THEN ids = DOMAIN q
         ELSE \E i \in DOMAIN q : DOMAIN q \ ids = {i} /\ q[i] = "main"
  BY <1>1, <1>2 DEF InWork
<1>4. i0 \in ids /\ i0 \in DOMAIN q
  <2>1. ids \subseteq Nat
    BY <1>1, <1>3 DEF ControlsTypes, IsSettings
  <2>2. Min(ids) \in ids
    BY <1>3, <2>1, MinIn
  <2> QED
    BY <1>3, <2>2
<1>5. Deleted(r) /\ ruleset' = ruleset
  BY <1>1, DeleteMoves
<1>6. del.what = "delete" /\ del.name = n /\ del.ids = ids \ {i0}
  BY DEF Call
<1>7. PICK X : /\ Forward(r, X, TRUE, x.sound)
               /\ \/ ids = {i0} /\ X = <<>>
                  \/ ids # {i0} /\ X = <<del>>
  BY <1>4, <1>5, Zenon DEF Deleted
<1>8. PICK p : p = Without(q, i0)
  OBVIOUS
<1>9. env' = [env EXCEPT ![n].policies = p]
  BY <1>4, <1>5, <1>8 DEF Deleted, Without
<1>10. PICK g : g = [env[n] EXCEPT !.policies = p]
  OBVIOUS
<1>11. SettingsHold(n, g) /\ g.policies = p
  <2>1. IsSettings(env[n])
    BY <1>1 DEF ControlsTypes
  <2> QED
    BY <1>2, <1>10, <2>1, PoliciesApart
<1>12. env'[n] = g /\ \A m \in Name : m # n => env'[m] = env[m]
  <2>1. env' = [env EXCEPT ![n] = g]
    BY <1>1, <1>9, <1>10 DEF ControlsTypes
  <2> QED
    BY <1>1, <2>1, EnvAt
<1>13. /\ DOMAIN p = DOMAIN q \ {i0}
       /\ \A j \in DOMAIN q \ {i0} : p[j] = q[j]
  BY <1>8 DEF Without
<1> HIDE DEF del
<1>14. Ahead(x, X, y) /\ y.sound = x.sound
  <2>1. \A Z, w, s : Forward(r, Z, w, s) => Ahead(x, Z, y) /\ y.sound = s
    BY <1>1, Moving
  <2> QED
    BY <1>7, <2>1, Zenon
<1> HIDE DEF x, y, n, ids, q, i0
<1>15. /\ \A i \in 1..Len(X) : y.todo[i] = X[i]
       /\ y.todo \in Seq(Calls)
       /\ Len(X) \in Nat /\ Len(y.todo) = Len(X) + Len(x.todo) - 1
       /\ Len(x.todo) \in Nat \ {0}
       /\ \A i \in 2..Len(x.todo) : y.todo[i + Len(X) - 1] = x.todo[i]
  <2>1. Ahead(x, X, y)
    BY <1>14
  <2>2. \A i \in 1..Len(X) : y.todo[i] = X[i]
    BY <2>1, AheadPlaces
  <2>3. /\ y.todo \in Seq(Calls) /\ Len(X) \in Nat
        /\ Len(y.todo) = Len(X) + Len(x.todo) - 1
        /\ Len(x.todo) \in Nat \ {0}
    BY <2>1, AheadPlaces
  <2>4. \A i \in 2..Len(x.todo) : y.todo[i + Len(X) - 1] = x.todo[i]
    BY <2>1, AheadPlaces
  <2> QED
    BY <2>2, <2>3, <2>4
<1>16. \A i \in 1..Len(X) : X[i].what = "delete"
  <2>1. CASE X = <<>>
    BY <2>1
  <2>2. CASE X = <<del>>
    BY <1>6, <2>2
  <2> QED
    BY <1>7, <2>1, <2>2
<1>17. /\ OneMain(p) \/ (y.todo[1].what \in Begun /\ y.todo[1].name = n)
       /\ y.todo # <<>> /\ y.todo[1].what \in Begun =>
            y.todo[1].name = n /\ InWork(y.todo, p)
       /\ y.todo # <<>> => y.todo[1].what # "readPolicies"
  <2>1. CASE ids = {i0} /\ X = <<>>
    <3>1. CASE Len(x.todo) > 1 /\ x.todo[2].what = "post"
      <4>1. DOMAIN p = {}
        BY <1>3, <1>13, <2>1, <3>1
      <4>2. y.todo # <<>>
        <5>1. Len(X) = 0
          BY <2>1
        <5>2. Len(y.todo) # 0
          BY <1>15, <3>1, <5>1
        <5> QED
          BY <1>15, <5>2
      <4>3. y.todo[1].what = "post" /\ y.todo[1].name = n
        BY <1>1, <1>14, <2>1, <3>1, <4>2, NextHead
      <4>4. InWork(y.todo, p)
        BY <4>1, <4>3 DEF InWork
      <4> QED
        BY <4>3, <4>4 DEF Begun
    <3>2. CASE ~(Len(x.todo) > 1 /\ x.todo[2].what = "post")
      <4>1. OneMain(p)
        <5>1. PICK i \in DOMAIN q : DOMAIN q \ ids = {i} /\ q[i] = "main"
          BY <1>3, <3>2
        <5> QED
          BY <1>13, <2>1, <5>1 DEF OneMain
      <4>2. ASSUME y.todo # <<>>
            PROVE  y.todo[1].what \notin Begun \cup {"readPolicies"}
        <5>1. /\ 2 \in 2..Len(x.todo) /\ y.todo[1] = x.todo[2]
              /\ y.todo[1].what \notin {"delete", "expectNone", "readPolicies", "putRuleset"}
          BY <1>14, <2>1, <4>2, NextHead
        <5>2. Len(x.todo) > 1
          BY <1>15, <5>1
        <5> QED
          BY <3>2, <5>1, <5>2 DEF Begun
      <4> QED
        BY <4>1, <4>2
    <3> QED
      BY <3>1, <3>2
  <2>2. CASE ids # {i0} /\ X = <<del>>
    <3>1. Len(X) = 1 /\ X[1] = del
      BY <2>2
    <3>2. y.todo[1].what = "delete" /\ y.todo[1].name = n /\ y.todo[1].ids = ids \ {i0}
      BY <1>6, <1>15, <3>1
    <3>3. Len(y.todo) = Len(x.todo) /\ (Len(x.todo) > 1 => y.todo[2] = x.todo[2])
      <4>1. Len(y.todo) = Len(x.todo)
        BY <1>15, <3>1
      <4>2. ASSUME Len(x.todo) > 1
            PROVE  y.todo[2] = x.todo[2]
        <5>1. 2 \in 2..Len(x.todo) /\ 2 + Len(X) - 1 = 2
          BY <1>15, <3>1, <4>2
        <5> QED
          BY <1>15, <5>1
      <4> QED
        BY <4>1, <4>2
    <3>4. ids \ {i0} # {} /\ ids \ {i0} \subseteq DOMAIN p
      BY <1>3, <1>4, <1>13, <2>2
    <3>5. IF Len(y.todo) > 1 /\ y.todo[2].what = "post" THEN ids \ {i0} = DOMAIN p
          ELSE \E i \in DOMAIN p : DOMAIN p \ (ids \ {i0}) = {i} /\ p[i] = "main"
      <4>1. CASE Len(x.todo) > 1 /\ x.todo[2].what = "post"
        BY <1>3, <1>13, <3>3, <4>1
      <4>2. CASE ~(Len(x.todo) > 1 /\ x.todo[2].what = "post")
        <5>1. PICK i \in DOMAIN q : DOMAIN q \ ids = {i} /\ q[i] = "main"
          BY <1>3, <4>2
        <5>2. i \in DOMAIN p /\ DOMAIN p \ (ids \ {i0}) = {i} /\ p[i] = "main"
          BY <1>4, <1>13, <5>1
        <5> QED
          BY <3>3, <4>2, <5>2
      <4> QED
        BY <4>1, <4>2
    <3>6. InWork(y.todo, p)
      BY <3>2, <3>4, <3>5 DEF InWork
    <3> QED
      BY <3>2, <3>6 DEF Begun
  <2> QED
    BY <1>7, <2>1, <2>2
<1>18. Carries(x.todo, y.todo, env, env')
  BY <1>1, <1>11, <1>12, <1>17, CarriesOne
<1>19. ASSUME NEW i \in 2..Len(x.todo), x.todo[i].what = "create"
       PROVE  env'[x.todo[i].name] = env[x.todo[i].name]
  <2>1. x.todo[i].name \in Name /\ i \in DOMAIN x.todo
    BY <1>1, <1>19 DEF ShapeOf, OnEnvironment
  <2>2. env[x.todo[i].name] = Missing
    BY <1>1, <1>19, <2>1 DEF WorkInv, WorkAt
  <2>3. x.todo[i].name # n
    BY <1>2, <2>2 DEF SettingsHold, Missing
  <2> QED
    BY <1>12, <2>1, <2>3
<1>20. y.todo # <<>> /\ y.todo[1].what \in Begun =>
          SettingsHold(y.todo[1].name, env'[y.todo[1].name])
            /\ InWork(y.todo, env'[y.todo[1].name].policies)
  BY <1>11, <1>12, <1>17
<1>21. WorkInv(y, env')
  BY <1>1, <1>14, <1>16, <1>17, <1>18, <1>19, <1>20, WorkMoves
<1>22. Sure(y, env', ruleset')
  <2>1. x.todo[1].what # "putRuleset" /\ (y.sound \/ (central /\ classic))
    BY <1>1, <1>14
  <2>2. RulesetHolds(ruleset) \/ x.todo[1].what = "putRuleset" => RulesetHolds(ruleset')
    BY <1>5, <2>1
  <2>3. \A i \in 1..Len(X) : SureAt(y, env', ruleset', i)
    BY <1>15, <1>16 DEF SureAt
  <2> QED
    BY <1>1, <1>14, <1>18, <2>1, <2>2, <2>3, SureMoves
<1>23. run'[r].outcome = "active"
  BY <1>7 DEF Forward, Turns, Active
<1> QED
  BY <1>21, <1>22, <1>23 DEF y

\* The ruleset is written.
LEMMA PutRulesetSure ==
  ASSUME Typed, NEW r \in Run, RunInv(run[r], env, ruleset), PutRuleset(r)
  PROVE  WorkInv(run'[r], env') /\ Sure(run'[r], env', ruleset')
<1> DEFINE x == run[r]
           y == run'[r]
<1>1. /\ ControlsTypes /\ ShapeInv /\ Sure(x, env, ruleset) /\ WorkInv(x, env)
      /\ x.todo \in Seq(Calls) /\ x.todo # <<>>
      /\ x.todo[1].what = "putRuleset"
      /\ 1 \in 1..Len(x.todo) /\ \A i \in 2..Len(x.todo) : i \in 1..Len(x.todo)
      /\ \A i \in 1..Len(x.todo) : ShapeOf(x.todo[i], x.todo[1], x.kind, i)
      /\ x.sound \/ (central /\ classic)
  BY Writing DEF Peaceful, PutRuleset
<1>2. Forward(r, <<>>, TRUE, x.sound) /\ env' = env /\ ruleset' = x.payload
  BY <1>1, PutRulesetMoves
<1>3. RulesetHolds(ruleset')
  BY <1>1, <1>2 DEF Sure, SureAt
<1>4. Ahead(x, <<>>, y) /\ y.sound = x.sound
  <2>1. \A Z, w, s : Forward(r, Z, w, s) => Ahead(x, Z, y) /\ y.sound = s
    BY <1>1, Moving
  <2> QED
    BY <1>2, <2>1, Zenon
<1> HIDE DEF x, y
<1>5. \A i \in 1..Len(<<>>) : FALSE
  OBVIOUS
<1>6. y.todo # <<>> => y.todo[1].what \notin Begun \cup {"readPolicies"}
  BY <1>1, <1>4, NextHead DEF Begun
<1>7. Carries(x.todo, y.todo, env, env)
  BY <1>1, CarriesSame DEF Worked
<1>8. WorkInv(y, env)
  BY <1>1, <1>4, <1>5, <1>6, <1>7, WorkMoves
<1>9. Sure(y, env, ruleset')
  BY <1>1, <1>3, <1>4, <1>5, <1>7, SureMoves
<1> QED
  BY <1>2, <1>8, <1>9 DEF y

-----------------------------------------------------------------------------
(* Requests that only read, of a run that is alone. *)

\* What a verification accepts is what the set-up makes.
LEMMA HoldsVerify ==
  ASSUME NEW n \in Name, NEW e, IsSettings(e)
  PROVE  EnvironmentHolds(n, e, e.policies) <=> Holds(n, e)
<1>1. PICK p : p = e.policies
  OBVIOUS
<1>2. MainOnly(e.mode, p) <=> e.mode = "custom" /\ OneMain(p)
  <2>1. PICK S : S = DOMAIN p /\ IsFiniteSet(S)
    BY <1>1 DEF IsSettings
  <2>2. Cardinality(S) = 1 <=> \E i : S = {i}
    BY <2>1, FS_Singleton
  <2>3. \A i : DOMAIN p = {i} => Range(p) = {p[i]}
    BY DEF Range
  <2>4. Cardinality(DOMAIN p) = 1 /\ Range(p) = {"main"} <=> OneMain(p)
    BY <2>1, <2>2, <2>3 DEF OneMain
  <2> QED
    BY <2>4 DEF MainOnly
<1>3. e.self \in BOOLEAN /\ e.bypass \in BOOLEAN /\ e.gate \in BOOLEAN
  BY DEF IsSettings
<1>4. CASE n = Evidence
  BY <1>1, <1>2, <1>4, NamesDiffer, Zenon
  DEF EnvironmentHolds, EvidenceHolds, Holds, SettingsHold
<1>5. CASE n \in Range(Protected)
  <2>1. n # Evidence /\ n \notin Range(Unattended)
    BY <1>5, NamesDiffer
  <2>2. EnvironmentHolds(n, e, e.policies) <=> ReviewedHolds(e, p)
    BY <1>1, <1>5, <2>1 DEF EnvironmentHolds
  <2> QED
    BY <1>1, <1>2, <1>5, <2>1, <2>2, Zenon DEF ReviewedHolds, Holds, SettingsHold
<1>6. CASE n \in Range(Unattended)
  <2>1. n # Evidence /\ n \notin Range(Protected)
    BY <1>6, NamesDiffer
  <2>2. EnvironmentHolds(n, e, e.policies) <=> UnattendedHolds(e, p)
    BY <1>1, <1>6, <2>1 DEF EnvironmentHolds
  <2> QED
    BY <1>1, <1>2, <1>6, <2>1, <2>2, Zenon DEF UnattendedHolds, Holds, SettingsHold
<1> QED
  BY <1>4, <1>5, <1>6 DEF Name

\* Nothing is before the first request.
LEMMA PreparedFirst ==
  ASSUME NEW t, NEW n, NEW e, Prepared(t, 1, n, e)
  PROVE  Holds(n, e)
<1>1. \A what : ~Earlier(t, 1, what, n)
  BY DEF Earlier
<1> QED
  BY <1>1 DEF Prepared, WillBeSet, WillBeListed, Holds

\* What a request of a run that is alone finds, when it only reads.
LEMMA Reading ==
  ASSUME Typed, NEW r \in Run, RunInv(run[r], env, ruleset), NEW what, At(r, what)
  PROVE  LET x == run[r]
             n == Here(r)
         IN  /\ ControlsTypes /\ ShapeInv /\ WorkInv(x, env)
             /\ x.todo \in Seq(Calls) /\ x.todo # <<>> /\ 1 \in DOMAIN x.todo
             /\ x.todo[1].what = what /\ x.todo[1].name = n /\ x.todo[1] \in Calls
             /\ what \in OnEnvironment => n \in Name
             /\ what = "readPolicies" => x.seen = env[n]
             /\ Quiet(x) \/ Looking(x, env) \/ Sure(x, env, ruleset)
             /\ x.outcome = "active"
<1>1. ControlsTypes /\ ShapeInv
  BY DEF Typed
<1>2. /\ run[r].todo \in Seq(Calls) /\ run[r].todo # <<>> /\ 1 \in DOMAIN run[r].todo
      /\ run[r].todo[1].what = what /\ run[r].todo[1].name = Here(r)
      /\ run[r].todo[1] \in Calls
      /\ what \in OnEnvironment => Here(r) \in Name
      /\ Active(r)
  BY <1>1, AtHead
<1>3. WorkInv(run[r], env)
  BY DEF RunInv
<1> QED
  BY <1>1, <1>2, <1>3 DEF RunInv, WorkInv, Active

\* The work goes on behind a request that is answered.
LEMMA WorkBehind ==
  ASSUME NEW x, NEW y, NEW e, Ahead(x, <<>>, y), WorkInv(x, e),
         x.todo[1].what \in Peaceful
  PROVE  WorkInv(y, e)
<1>1. Carries(x.todo, y.todo, e, e)
  BY CarriesSame DEF Peaceful, Worked
<1>2. y.todo # <<>> => y.todo[1].what \notin Begun \cup {"readPolicies"}
  BY NextHead DEF Begun, Peaceful
<1>3. \A i \in 1..Len(<<>>) : FALSE
  OBVIOUS
<1> QED
  BY <1>1, <1>2, <1>3, WorkMoves

\* The rest of a list, each request where it was.
LEMMA Behind ==
  ASSUME NEW x, NEW y, Ahead(x, <<>>, y)
  PROVE  \A p \in DOMAIN y.todo : \E i \in 2..Len(x.todo) :
           i \in DOMAIN x.todo /\ y.todo[p] = x.todo[i]
<1>1. PICK X : X = <<>> /\ Len(X) = 0 /\ Ahead(x, X, y)
  OBVIOUS
<1>2. /\ \A i \in 2..Len(x.todo) : y.todo[i + Len(X) - 1] = x.todo[i]
      /\ DOMAIN x.todo = 1..Len(x.todo) /\ Len(x.todo) \in Nat
  BY <1>1, AheadPlaces
<1>3. \A p \in DOMAIN y.todo :
        p \in 1..Len(X) \/ \E i \in 2..Len(x.todo) : p = i + Len(X) - 1
  BY <1>1, AheadPlaces
<1>4. \A i \in 2..Len(x.todo) : i \in DOMAIN x.todo
  BY <1>2
<1> QED
  BY <1>1, <1>2, <1>3, <1>4

LEMMA QuietBehind ==
  ASSUME NEW x, NEW y, Ahead(x, <<>>, y), Quiet(x), y.wrote = x.wrote
  PROVE  Quiet(y)
BY Behind DEF Quiet

\* A run that will find all it reads goes on to find it.
LEMMA SureBehind ==
  ASSUME NEW x, NEW y, NEW e, NEW rules, Ahead(x, <<>>, y), Sure(x, e, rules),
         x.todo[1].what \in Peaceful, y.sound \/ (central /\ classic)
  PROVE  Sure(y, e, rules)
<1>1. Carries(x.todo, y.todo, e, e)
  BY CarriesSame DEF Peaceful, Worked
<1>2. RulesetHolds(rules) \/ x.todo[1].what = "putRuleset" => RulesetHolds(rules)
  BY DEF Peaceful
<1>3. \A i \in 1..Len(<<>>) : FALSE
  OBVIOUS
<1> QED
  BY <1>1, <1>2, <1>3, SureMoves

\* The look before the first write.
LEMMA LookHead ==
  ASSUME NEW x, NEW e, x.todo \in Seq(Calls), NEW d \in DOMAIN x.todo, LooksTo(x, e, d)
  PROVE  \/ d = 1 /\ x.todo[1].what \in {"inventory", "decide"}
         \/ d \in 2..Len(x.todo) /\ x.todo[1].what \in {"read", "readPolicies"}
<1>1. d \in 1..Len(x.todo) /\ Len(x.todo) \in Nat
  OBVIOUS
<1>2. CASE d = 1
  BY <1>2 DEF LooksTo
<1>3. CASE d # 1
  <2>1. 1 \in 1..(d - 1) /\ d \in 2..Len(x.todo)
    BY <1>1, <1>3
  <2> QED
    BY <2>1 DEF LooksTo
<1> QED
  BY <1>2, <1>3

LEMMA KnownMoves ==
  ASSUME NEW x, NEW X, NEW y, Ahead(x, X, y), NEW e, x.todo[1].what \in Peaceful,
         NEW i \in 2..Len(x.todo), NEW d \in 2..Len(x.todo), x.todo[i].what \notin Begun,
         NEW n \in Name, Known(x.todo, i, d, n, e[n]),
         x.todo[1].name = n => Known(y.todo, i + Len(X) - 1, d + Len(X) - 1, n, e[n])
  PROVE  Known(y.todo, i + Len(X) - 1, d + Len(X) - 1, n, e[n])
<1>1. Carries(x.todo, y.todo, e, e)
  BY CarriesSame DEF Peaceful, Worked
<1>2. CASE Prepared(x.todo, i, n, e[n])
  <2>1. Prepared(y.todo, i + Len(X) - 1, n, e[n])
    BY <1>1, <1>2, PreparedMoves
  <2> QED
    BY <2>1 DEF Known
<1>3. ASSUME NEW j \in 1..(d - 1), x.todo[j].what \in {"read", "readPolicies"},
             x.todo[j].name = n
      PROVE  Known(y.todo, i + Len(X) - 1, d + Len(X) - 1, n, e[n])
  <2>1. CASE j = 1
    BY <1>3, <2>1
  <2>2. CASE j # 1
    <3>1. /\ Len(x.todo) \in Nat \ {0} /\ Len(X) \in Nat
          /\ \A m \in 2..Len(x.todo) : y.todo[m + Len(X) - 1] = x.todo[m]
      BY AheadPlaces
    <3>2. j \in 2..Len(x.todo) /\ j + Len(X) - 1 \in 1..((d + Len(X) - 1) - 1)
      BY <2>2, <3>1
    <3>3. y.todo[j + Len(X) - 1] = x.todo[j]
      BY <3>1, <3>2
    <3> QED
      BY <1>3, <3>2, <3>3 DEF Known
  <2> QED
    BY <2>1, <2>2
<1> QED
  BY <1>2, <1>3 DEF Known

\* What the first request was about is known if it was found as it should be.
Found(x, X, y, e, d) ==
  y.sound => \A i \in 2..Len(x.todo) :
    Known(y.todo, i + Len(X) - 1, d + Len(X) - 1, x.todo[1].name, e[x.todo[1].name])
ReadsPolicies(X) == \A i \in 1..Len(X) : X[i].what = "readPolicies"

LEMMA LooksBehind ==
  ASSUME NEW x, NEW X, NEW y, Ahead(x, X, y), NEW e,
         x.todo[1].what \in {"read", "readPolicies"},
         NEW d \in 2..Len(x.todo), LooksTo(x, e, d),
         x.sound \in BOOLEAN, y.sound => x.sound,
         ReadsPolicies(X), Found(x, X, y, e, d)
  PROVE  d + Len(X) - 1 \in DOMAIN y.todo /\ LooksTo(y, e, d + Len(X) - 1)
<1> DEFINE t == x.todo
           u == y.todo
           k == Len(X)
           c == d + k - 1
<1>1. /\ u \in Seq(Calls) /\ Len(t) \in Nat \ {0} /\ k \in Nat
      /\ Len(u) = k + Len(t) - 1
      /\ \A i \in 1..k : u[i] = X[i]
      /\ \A i \in 2..Len(t) : i + k - 1 \in DOMAIN u /\ u[i + k - 1] = t[i]
      /\ \A p \in DOMAIN u : p \in 1..k \/ \E i \in 2..Len(t) : p = i + k - 1
      /\ \A i \in 1..Len(t) : ShapeOf(t[i], t[1], x.kind, i)
      /\ DOMAIN t = 1..Len(t)
  <2>1. /\ u \in Seq(Calls) /\ Len(t) \in Nat \ {0} /\ k \in Nat
        /\ Len(u) = k + Len(t) - 1
    BY AheadPlaces
  <2>2. /\ \A i \in 1..k : u[i] = X[i]
        /\ \A i \in 2..Len(t) : i + k - 1 \in DOMAIN u /\ u[i + k - 1] = t[i]
    BY AheadPlaces
  <2>3. \A p \in DOMAIN u : p \in 1..k \/ \E i \in 2..Len(t) : p = i + k - 1
    BY AheadPlaces
  <2>4. /\ \A i \in 1..Len(t) : ShapeOf(t[i], t[1], x.kind, i)
        /\ DOMAIN t = 1..Len(t)
    BY AheadPlaces
  <2> QED
    BY <2>1, <2>2, <2>3, <2>4
<1>2. c \in DOMAIN u /\ u[c] = t[d] /\ DOMAIN u = 1..Len(u)
  BY <1>1
<1>3. ASSUME NEW i \in 2..Len(t), NEW n \in Name, y.sound, t[i].what \notin Begun,
             Known(t, i, d, n, e[n])
      PROVE  Known(u, i + k - 1, c, n, e[n])
  <2>1. t[1].what \in Peaceful
    BY DEF Peaceful
  <2>2. t[1].name = n => Known(u, i + k - 1, c, n, e[n])
    BY <1>3, Zenon DEF Found
  <2> QED
    BY <1>3, <2>1, <2>2, KnownMoves, Zenon
<1>4. /\ \A i \in 1..(d - 1) : t[i].what \in {"read", "readPolicies"}
      /\ \A i \in 1..k : u[i].what = "readPolicies"
  BY <1>1 DEF LooksTo, ReadsPolicies
<1> HIDE DEF t, u, k, c
<1>5. ASSUME NEW p \in 1..(c - 1)
      PROVE  u[p].what \in {"read", "readPolicies"}
  <2>1. c = d + k - 1 /\ p \in DOMAIN u
    BY <1>1, <1>2 DEF c
  <2>2. CASE p \in 1..k
    BY <1>4, <2>2
  <2>3. ASSUME NEW i \in 2..Len(t), p = i + k - 1
        PROVE  u[p].what \in {"read", "readPolicies"}
    <3>1. u[p] = t[i] /\ i \in 1..(d - 1)
      BY <1>1, <2>1, <2>3
    <3> QED
      BY <1>4, <3>1
  <2> QED
    BY <1>1, <2>1, <2>2, <2>3
<1>6. CASE t[d].what = "inventory"
  <2>1. d = Len(t) /\ c = Len(u)
    <3>1. d = Len(t)
      BY <1>6 DEF LooksTo, t
    <3> QED
      BY <1>1, <3>1 DEF c
  <2>2. ASSUME y.sound, ~central, NEW n \in Range(Protected)
        PROVE  Known(u, c, c, n, e[n])
    <3>1. Known(t, d, d, n, e[n]) /\ n \in Name
      BY <1>6, <2>2 DEF LooksTo, t, Name
    <3>2. t[d].what \notin Begun /\ d \in 2..Len(t)
      BY <1>6 DEF Begun, t
    <3> QED
      BY <1>3, <2>2, <3>1, <3>2 DEF c
  <2> QED
    BY <1>2, <1>5, <1>6, <2>1, <2>2 DEF LooksTo, u, c, k
<1>7. CASE t[d].what = "decide"
  <2>1. \A p \in DOMAIN u : u[p].what # "inventory"
    <3> SUFFICES ASSUME NEW p \in DOMAIN u
                 PROVE  u[p].what # "inventory"
      OBVIOUS
    <3>1. CASE p \in 1..k
      BY <1>4, <3>1
    <3>2. ASSUME NEW i \in 2..Len(t), p = i + k - 1
          PROVE  u[p].what # "inventory"
      <4>1. u[p] = t[i] /\ i \in DOMAIN t
        BY <1>1, <3>2
      <4> QED
        BY <1>7, <4>1 DEF LooksTo, t
    <3> QED
      BY <1>1, <3>1, <3>2
  <2>2. ASSUME y.sound, NEW p \in (c + 1)..Len(u), u[p].what = "read"
        PROVE  Known(u, p, c, u[p].name, e[u[p].name])
    <3>1. c = d + k - 1 /\ p \in DOMAIN u /\ d \in 2..Len(t)
      BY <1>1, <1>2 DEF c, t
    <3>2. PICK i \in 2..Len(t) : p = i + k - 1
      <4>1. p \notin 1..k
        BY <1>1, <3>1
      <4> QED
        BY <1>1, <3>1, <4>1
    <3>3. u[p] = t[i] /\ i \in (d + 1)..Len(t) /\ i \in 1..Len(t)
      BY <1>1, <3>1, <3>2
    <3>4. t[i].name \in Name
      BY <1>1, <2>2, <3>3 DEF ShapeOf, OnEnvironment
    <3>5. Known(t, i, d, t[i].name, e[t[i].name])
      BY <1>7, <2>2, <3>3 DEF LooksTo, t
    <3>6. t[i].what \notin Begun
      BY <2>2, <3>3 DEF Begun
    <3>7. Known(u, i + k - 1, c, t[i].name, e[t[i].name])
      BY <1>3, <2>2, <3>4, <3>5, <3>6
    <3> QED
      BY <3>2, <3>3, <3>7
  <2> QED
    BY <1>2, <1>5, <1>7, <2>1, <2>2 DEF LooksTo, u, c, k
<1> QED
  BY <1>2, <1>6, <1>7 DEF LooksTo, t, u, c, k

\* An environment is read, and its policies if they can be.
LEMMA ReadKeeps ==
  ASSUME Typed, NEW r \in Run, RunInv(run[r], env, ruleset), ReadEnvironment(r)
  PROVE  RunInv(run'[r], env, ruleset) /\ run'[r].outcome = "active"
<1> DEFINE x == run[r]
           y == run'[r]
           n == Here(r)
<1>1. /\ ControlsTypes /\ ShapeInv /\ WorkInv(x, env)
      /\ x.todo \in Seq(Calls) /\ x.todo # <<>> /\ 1 \in DOMAIN x.todo
      /\ x.todo[1].what = "read" /\ x.todo[1].name = n /\ n \in Name
      /\ Quiet(x) \/ Looking(x, env) \/ Sure(x, env, ruleset)
      /\ x.outcome = "active"
  BY Reading DEF ReadEnvironment, OnEnvironment
<1>2. PICK X : X = <<Call("readPolicies", n)>>
  OBVIOUS
<1>3. Forward(r, X, x.wrote, x.sound) /\ y.seen = env[n]
  BY <1>1, <1>2, ReadMoves
<1>4. Ahead(x, X, y) /\ y.wrote = x.wrote /\ y.sound = x.sound /\ y.outcome = "active"
  <2>1. \A Z, w, s : Forward(r, Z, w, s) =>
          /\ Ahead(x, Z, y) /\ y.wrote = w /\ y.sound = s /\ y.outcome = x.outcome
    BY <1>1, Moving
  <2> QED
    BY <1>1, <1>3, <2>1, Zenon
<1>5. /\ Len(X) = 1 /\ X[1] = Call("readPolicies", n)
      /\ X[1].what = "readPolicies" /\ X[1].name = n
  BY <1>2 DEF Call
<1> HIDE DEF x, y, n
<1>6. /\ y.todo \in Seq(Calls) /\ y.todo[1] = X[1] /\ y.todo # <<>>
      /\ \A i \in 2..Len(x.todo) : y.todo[i] = x.todo[i]
      /\ \A p \in DOMAIN y.todo : p = 1 \/ p \in 2..Len(x.todo)
      /\ Len(x.todo) \in Nat \ {0} /\ DOMAIN x.todo = 1..Len(x.todo)
  <2>1. /\ y.todo \in Seq(Calls) /\ Len(x.todo) \in Nat \ {0}
        /\ Len(y.todo) = 1 + Len(x.todo) - 1
    <3>1. /\ y.todo \in Seq(Calls) /\ Len(x.todo) \in Nat \ {0}
          /\ Len(y.todo) = Len(X) + Len(x.todo) - 1
      BY <1>4, AheadPlaces
    <3> QED
      BY <1>5, <3>1
  <2>2. /\ \A i \in 1..1 : y.todo[i] = X[i]
        /\ \A i \in 2..Len(x.todo) : y.todo[i + 1 - 1] = x.todo[i]
    BY <1>4, <1>5, AheadPlaces
  <2>3. y.todo # <<>> /\ DOMAIN y.todo = 1..Len(x.todo)
    BY <2>1
  <2>4. \A i \in 2..Len(x.todo) : i + 1 - 1 = i
    BY <2>1
  <2>5. \A p \in 1..Len(x.todo) : p = 1 \/ p \in 2..Len(x.todo)
    BY <2>1
  <2> QED
    BY <1>1, <2>1, <2>2, <2>3, <2>4, <2>5
<1>7. Carries(x.todo, y.todo, env, env)
  BY <1>1, CarriesSame DEF Worked
<1>8. WorkInv(y, env)
  <2>1. \A i \in 1..Len(X) : X[i].what \notin {"create", "list"}
    BY <1>5
  <2>2. y.todo[1].what \notin Begun
    BY <1>5, <1>6 DEF Begun
  <2>3. y.todo[1].what = "readPolicies" => y.seen = env[y.todo[1].name]
    BY <1>3, <1>5, <1>6 DEF y
  <2> QED
    BY <1>1, <1>4, <1>7, <2>1, <2>2, <2>3, WorkMoves
<1>9. ASSUME Quiet(x)
      PROVE  Quiet(y)
  <2>1. ~y.wrote
    BY <1>4, <1>9 DEF Quiet
  <2>2. ASSUME NEW p \in DOMAIN y.todo
        PROVE  y.todo[p].what \in
                 {"read", "readPolicies", "readRuleset", "readClassic", "decide"}
    <3>1. CASE p = 1
      BY <1>5, <1>6, <3>1
    <3>2. CASE p \in 2..Len(x.todo)
      <4>1. p \in DOMAIN x.todo /\ y.todo[p] = x.todo[p]
        BY <1>6, <3>2
      <4> QED
        BY <1>9, <4>1 DEF Quiet
    <3> QED
      BY <1>6, <3>1, <3>2
  <2> QED
    BY <2>1, <2>2 DEF Quiet
<1>10. ASSUME Looking(x, env)
       PROVE  Looking(y, env)
  <2>1. PICK d \in DOMAIN x.todo : LooksTo(x, env, d)
    BY <1>10 DEF Looking
  <2>2. d \in 2..Len(x.todo)
    BY <1>1, <2>1, LookHead
  <2>3. ASSUME NEW i \in 2..Len(x.todo)
        PROVE  Known(y.todo, i + Len(X) - 1, d + Len(X) - 1, n, env[n])
    <3>1. d + Len(X) - 1 = d /\ 1 \in 1..(d - 1)
      BY <1>5, <1>6, <2>2
    <3>2. y.todo[1].what \in {"read", "readPolicies"} /\ y.todo[1].name = n
      BY <1>5, <1>6
    <3> QED
      BY <3>1, <3>2 DEF Known
  <2>4. \E c \in DOMAIN y.todo : LooksTo(y, env, c)
    <3>1. x.sound \in BOOLEAN
      BY <1>1 DEF ControlsTypes, RunType, x
    <3>2. x.todo[1].what \in {"read", "readPolicies"} /\ ReadsPolicies(X)
      BY <1>1, <1>5 DEF ReadsPolicies
    <3>3. y.sound => x.sound
      BY <1>4
    <3>4. Found(x, X, y, env, d)
      BY <1>1, <2>3 DEF Found
    <3>5. d + Len(X) - 1 \in DOMAIN y.todo /\ LooksTo(y, env, d + Len(X) - 1)
      BY <1>4, <2>1, <2>2, <3>1, <3>2, <3>3, <3>4, LooksBehind
    <3> QED
      BY <3>5
  <2>5. ASSUME NEW p \in DOMAIN y.todo
        PROVE  y.todo[p].what # "readRuleset"
    <3>1. CASE p = 1
      BY <1>5, <1>6, <3>1
    <3>2. CASE p \in 2..Len(x.todo)
      <4>1. p \in DOMAIN x.todo /\ y.todo[p] = x.todo[p]
        BY <1>6, <3>2
      <4> QED
        BY <1>10, <4>1 DEF Looking
    <3> QED
      BY <1>6, <3>1, <3>2
  <2> QED
    BY <1>4, <1>10, <2>4, <2>5 DEF Looking
<1>11. ASSUME Sure(x, env, ruleset)
       PROVE  Sure(y, env, ruleset)
  <2>1. Holds(n, env[n])
    <3>1. SureAt(x, env, ruleset, 1)
      BY <1>1, <1>11 DEF Sure
    <3>2. Prepared(x.todo, 1, n, env[n])
      BY <1>1, <3>1 DEF SureAt
    <3> QED
      BY <3>2, PreparedFirst
  <2>2. \A i \in 1..Len(X) : SureAt(y, env, ruleset, i)
    BY <1>5, <1>6, <2>1 DEF SureAt
  <2>3. RulesetHolds(ruleset) \/ x.todo[1].what = "putRuleset" => RulesetHolds(ruleset)
    BY <1>1
  <2>4. y.sound \/ (central /\ classic)
    BY <1>4, <1>11 DEF Sure
  <2> QED
    BY <1>4, <1>7, <1>11, <2>2, <2>3, <2>4, SureMoves
<1> QED
  BY <1>1, <1>4, <1>8, <1>9, <1>10, <1>11 DEF RunInv, y

\* The policies of the environment are read.
LEMMA PoliciesKeep ==
  ASSUME Typed, NEW r \in Run, RunInv(run[r], env, ruleset), ReadPolicies(r)
  PROVE  RunInv(run'[r], env, ruleset) /\ run'[r].outcome = "active"
<1> DEFINE x == run[r]
           y == run'[r]
           n == Here(r)
<1>1. /\ ControlsTypes /\ ShapeInv /\ WorkInv(x, env)
      /\ x.todo \in Seq(Calls) /\ x.todo # <<>> /\ 1 \in DOMAIN x.todo
      /\ x.todo[1].what = "readPolicies" /\ x.todo[1].name = n /\ n \in Name
      /\ x.seen = env[n]
      /\ Quiet(x) \/ Looking(x, env) \/ Sure(x, env, ruleset)
      /\ x.outcome = "active"
  BY Reading DEF ReadPolicies, OnEnvironment
<1>2. PICK s \in BOOLEAN : s = (x.sound /\ EnvironmentHolds(n, x.seen, env[n].policies))
  OBVIOUS
<1>3. Forward(r, <<>>, x.wrote, s)
  BY <1>1, <1>2, ReadMoves, Zenon
<1>4. Ahead(x, <<>>, y) /\ y.wrote = x.wrote /\ y.sound = s /\ y.outcome = "active"
  <2>1. \A Z, w, t : Forward(r, Z, w, t) =>
          /\ Ahead(x, Z, y) /\ y.wrote = w /\ y.sound = t /\ y.outcome = x.outcome
    BY <1>1, Moving
  <2> QED
    BY <1>1, <1>3, <2>1, Zenon
<1>5. x.sound \in BOOLEAN /\ (y.sound <=> x.sound /\ Holds(n, env[n]))
  <2>1. IsSettings(env[n]) /\ x.sound \in BOOLEAN
    BY <1>1 DEF ControlsTypes, RunType
  <2>2. EnvironmentHolds(n, x.seen, env[n].policies) <=> Holds(n, env[n])
    BY <1>1, <2>1, HoldsVerify
  <2> QED
    BY <1>2, <1>4, <2>1, <2>2, Zenon
<1> HIDE DEF x, y, n
<1>6. WorkInv(y, env)
  BY <1>1, <1>4, WorkBehind DEF Peaceful
<1>7. Quiet(x) => Quiet(y)
  BY <1>4, QuietBehind
<1>8. ASSUME Looking(x, env)
      PROVE  Looking(y, env)
  <2>1. PICK d \in DOMAIN x.todo : LooksTo(x, env, d)
    BY <1>8 DEF Looking
  <2>2. d \in 2..Len(x.todo)
    BY <1>1, <2>1, LookHead
  <2>3. PICK X : X = <<>> /\ Len(X) = 0 /\ Ahead(x, X, y)
    BY <1>4
  <2>4. y.sound => \A i \in 2..Len(x.todo) :
          Known(y.todo, i + Len(X) - 1, d + Len(X) - 1, n, env[n])
    BY <1>5 DEF Known, Prepared, WillBeSet, WillBeListed, Holds
  <2>5. \E c \in DOMAIN y.todo : LooksTo(y, env, c)
    <3>1. x.todo[1].what \in {"read", "readPolicies"} /\ ReadsPolicies(X)
      BY <1>1, <2>3 DEF ReadsPolicies
    <3>2. y.sound => x.sound
      BY <1>5
    <3>3. Found(x, X, y, env, d)
      BY <1>1, <2>4 DEF Found
    <3>4. d + Len(X) - 1 \in DOMAIN y.todo /\ LooksTo(y, env, d + Len(X) - 1)
      BY <1>5, <2>1, <2>2, <2>3, <3>1, <3>2, <3>3, LooksBehind
    <3> QED
      BY <3>4
  <2>6. \A p \in DOMAIN y.todo : \E i \in 2..Len(x.todo) :
          i \in DOMAIN x.todo /\ y.todo[p] = x.todo[i]
    BY <1>4, Behind
  <2>7. \A p \in DOMAIN y.todo : y.todo[p].what # "readRuleset"
    BY <1>8, <2>6 DEF Looking
  <2> QED
    BY <1>4, <1>8, <2>5, <2>7 DEF Looking
<1>9. ASSUME Sure(x, env, ruleset)
      PROVE  Sure(y, env, ruleset)
  <2>1. SureAt(x, env, ruleset, 1)
    BY <1>1, <1>9 DEF Sure
  <2>2. Holds(n, env[n])
    BY <1>1, <2>1 DEF SureAt
  <2>3. y.sound \/ (central /\ classic)
    BY <1>5, <1>9, <2>2 DEF Sure
  <2> QED
    BY <1>1, <1>4, <1>9, <2>3, SureBehind DEF Peaceful
<1> QED
  BY <1>1, <1>4, <1>6, <1>7, <1>8, <1>9 DEF RunInv, y

\* A run that looks before its first write reads environments only.
LEMMA LooksFirst ==
  ASSUME NEW x, NEW e, Looking(x, e), x.todo \in Seq(Calls),
         x.todo[1].what \notin {"read", "readPolicies", "inventory", "decide"}
  PROVE  FALSE
<1>1. PICK d \in DOMAIN x.todo : LooksTo(x, e, d)
  BY DEF Looking
<1> QED
  BY <1>1, LookHead

\* The ruleset or the classic protection is read.
LEMMA RulesKeep ==
  ASSUME Typed, NEW r \in Run, RunInv(run[r], env, ruleset),
         ReadRuleset(r) \/ ReadClassic(r)
  PROVE  RunInv(run'[r], env, ruleset) /\ run'[r].outcome = "active"
<1> DEFINE x == run[r]
           y == run'[r]
<1>1. PICK what \in {"readRuleset", "readClassic"} : At(r, what)
  BY DEF ReadRuleset, ReadClassic
<1>2. /\ ControlsTypes /\ ShapeInv /\ WorkInv(x, env)
      /\ x.todo \in Seq(Calls) /\ x.todo # <<>> /\ 1 \in DOMAIN x.todo
      /\ x.todo[1].what = what
      /\ Quiet(x) \/ Looking(x, env) \/ Sure(x, env, ruleset)
      /\ x.outcome = "active"
  BY <1>1, Reading
<1>3. \E s \in BOOLEAN :
        /\ Forward(r, <<>>, x.wrote, s)
        /\ \/ s = (x.sound /\ RulesetHolds(ruleset)) /\ At(r, "readRuleset")
           \/ s = (x.sound /\ ~(central /\ classic)) /\ At(r, "readClassic")
  <2>1. (x.sound /\ RulesetHolds(ruleset)) \in BOOLEAN
    OBVIOUS
  <2>2. (x.sound /\ ~(central /\ classic)) \in BOOLEAN
    OBVIOUS
  <2> QED
    BY <1>2, <2>1, <2>2, ReadMoves, Zenon
<1>4. PICK s \in BOOLEAN :
        /\ Forward(r, <<>>, x.wrote, s)
        /\ \/ s = (x.sound /\ RulesetHolds(ruleset)) /\ At(r, "readRuleset")
           \/ s = (x.sound /\ ~(central /\ classic)) /\ At(r, "readClassic")
  BY <1>3
<1>5. Ahead(x, <<>>, y) /\ y.wrote = x.wrote /\ y.sound = s /\ y.outcome = "active"
  <2>1. \A Z, w, t : Forward(r, Z, w, t) =>
          /\ Ahead(x, Z, y) /\ y.wrote = w /\ y.sound = t /\ y.outcome = x.outcome
    BY <1>2, Moving
  <2> QED
    BY <1>2, <1>4, <2>1, Zenon
<1>6. At(r, "readRuleset") => x.todo[1].what = "readRuleset"
  BY <1>2, AtHead
<1> HIDE DEF x, y
<1>7. WorkInv(y, env)
  BY <1>2, <1>5, WorkBehind DEF Peaceful
<1>8. Quiet(x) => Quiet(y)
  BY <1>5, QuietBehind
<1>9. ~Looking(x, env)
  BY <1>2, LooksFirst
<1>10. ASSUME Sure(x, env, ruleset)
       PROVE  Sure(y, env, ruleset)
  <2>1. x.sound \/ (central /\ classic)
    BY <1>10 DEF Sure
  <2>2. x.todo[1].what = "readRuleset" => RulesetHolds(ruleset)
    <3>1. SureAt(x, env, ruleset, 1)
      BY <1>2, <1>10 DEF Sure
    <3> QED
      BY <3>1 DEF SureAt
  <2>3. s \/ (central /\ classic)
    BY <1>4, <1>6, <2>1, <2>2, Zenon
  <2>4. y.sound \/ (central /\ classic)
    BY <1>5, <2>3
  <2> QED
    BY <1>2, <1>5, <1>10, <2>4, SureBehind DEF Peaceful
<1> QED
  BY <1>5, <1>7, <1>8, <1>9, <1>10, <1>2 DEF RunInv, y

\* What a step of a run that was alone leaves of the run.
Kept(r) ==
  /\ run'[r].outcome = "active" => RunInv(run'[r], env', ruleset')
  /\ run'[r].outcome = "failed" => central /\ classic

LEMMA Outcomes ==
  ASSUME ControlsTypes, NEW r \in Run, NEW o, Ended(r, o)
  PROVE  run'[r].outcome = o
BY StepTurns DEF Turns

\* The run refuses only what it has not touched, or for a classic protection.
LEMMA ReportKeeps ==
  ASSUME Typed, NEW r \in Run, RunInv(run[r], env, ruleset), Report(r)
  PROVE  Kept(r)
<1> DEFINE x == run[r]
           y == run'[r]
<1>1. /\ ControlsTypes /\ ShapeInv /\ WorkInv(x, env)
      /\ x.todo \in Seq(Calls) /\ x.todo # <<>> /\ 1 \in DOMAIN x.todo
      /\ x.todo[1].what = "decide"
      /\ Quiet(x) \/ Looking(x, env) \/ Sure(x, env, ruleset)
      /\ x.outcome = "active"
  BY Reading DEF Report
<1>2. env' = env /\ ruleset' = ruleset /\ x.wrote \in BOOLEAN /\ x.sound \in BOOLEAN
  BY <1>1 DEF Report, github, ControlsTypes, RunType
<1>3. CASE ~x.sound /\ Refuse(r)
  <2>1. x.wrote => central /\ classic
    BY <1>1, <1>3 DEF Quiet, Looking, Sure
  <2>2. run'[r].outcome = IF x.wrote THEN "failed" ELSE "refused"
    BY <1>1, <1>3, Outcomes DEF Refuse
  <2> QED
    BY <2>1, <2>2 DEF Kept
<1>4. CASE Ended(r, "verified")
  BY <1>1, <1>4, Outcomes DEF Kept
<1>5. CASE x.sound /\ Forward(r, <<>>, x.wrote, x.sound)
  <2>1. Ahead(x, <<>>, y) /\ y.wrote = x.wrote /\ y.sound = x.sound /\ y.outcome = "active"
    <3>1. \A Z, w, t : Forward(r, Z, w, t) =>
            /\ Ahead(x, Z, y) /\ y.wrote = w /\ y.sound = t /\ y.outcome = x.outcome
      BY <1>1, Moving
    <3> QED
      BY <1>1, <1>5, <3>1, Zenon
  <2>2. x.sound
    BY <1>5
  <2> HIDE DEF x, y
  <2>3. WorkInv(y, env)
    BY <1>1, <2>1, WorkBehind DEF Peaceful
  <2>4. Quiet(x) => Quiet(y)
    BY <2>1, QuietBehind
  <2>5. Sure(x, env, ruleset) => Sure(y, env, ruleset)
    BY <1>1, <2>1, <2>2, SureBehind DEF Peaceful
  <2>6. ASSUME Looking(x, env)
        PROVE  Sure(x, env, ruleset)
    <3>1. PICK d \in DOMAIN x.todo : LooksTo(x, env, d)
      BY <2>6 DEF Looking
    <3>2. d = 1
      BY <1>1, <3>1, LookHead
    <3>3. ASSUME NEW i \in DOMAIN x.todo
          PROVE  SureAt(x, env, ruleset, i)
      <4>1. /\ x.todo[i].what \notin {"readRuleset", "inventory"}
            /\ x.todo[i].what \in {"readPolicies", "putRuleset"} => i = 1
        BY <1>1, <2>1, <2>6, <3>1, <3>2 DEF Looking, LooksTo, Ahead, Shape, ShapeAt, ShapeOf
      <4>2. x.todo[i].what = "read" =>
              Prepared(x.todo, i, x.todo[i].name, env[x.todo[i].name])
        <5> SUFFICES ASSUME x.todo[i].what = "read"
                     PROVE  Prepared(x.todo, i, x.todo[i].name, env[x.todo[i].name])
          OBVIOUS
        <5>1. i \in (1 + 1)..Len(x.todo)
          BY <1>1
        <5>2. Known(x.todo, i, 1, x.todo[i].name, env[x.todo[i].name])
          BY <1>1, <2>2, <3>1, <3>2, <5>1 DEF LooksTo
        <5> QED
          BY <5>2 DEF Known
      <4> QED
        BY <1>1, <4>1, <4>2 DEF SureAt
    <3> QED
      BY <2>2, <3>3 DEF Sure
  <2>7. RunInv(y, env, ruleset)
    BY <1>1, <2>3, <2>4, <2>5, <2>6 DEF RunInv
  <2> QED
    BY <1>2, <2>1, <2>7 DEF Kept, y
<1> QED
  BY <1>1, <1>3, <1>4, <1>5, ReportMoves

\* What is missing is made after a look, and looked at once it is made.
LEMMA MissingLooks ==
  ASSUME NEW absent, absent \subseteq Range(Unattended), NEW e,
         \A n \in absent : e[n] = Missing,
         NEW s \in InOrder(Range(Unattended) \ absent), NEW u \in InOrder(absent),
         NEW y, y.todo = CreateMissing(s, u), ~y.wrote,
         y.sound /\ ~central => \A n \in Range(Protected) : Holds(n, e[n])
  PROVE  WorkInv(y, e) /\ Looking(y, e)
<1>1. /\ s \in Seq(Name) /\ u \in Seq(Name)
      /\ Range(s) = Range(Unattended) \ absent /\ Range(u) = absent
      /\ \A i, j \in DOMAIN u : u[i] = u[j] => i = j
  BY OrderType
<1>2. PICK t : t = y.todo
  OBVIOUS
<1>3. t \in Seq(Calls) /\ MissingPlaces(t, s, u) /\ t = CreateMissing(s, u)
  BY <1>1, <1>2, CreateMissingType
<1>4. PICK a \in Nat : a = Len(s)
  BY <1>1
<1>5. PICK c \in Nat : c = Len(u)
  BY <1>1
<1>6. PICK p \in Nat : p = Len(Protected)
  BY NamesAreSequences
<1>7. PICK q \in Nat : q = Len(Unattended)
  BY NamesAreSequences
<1>8. PICK b \in Nat : b = a + 1 + c
  BY <1>4, <1>5
<1>9. /\ Len(t) = IF central THEN b ELSE b + p + q + 1
      /\ \A i \in 1..a : t[i] = Call("read", s[i])
      /\ t[a + 1] = Call("decide", None)
      /\ \A i \in 1..c : t[a + 1 + i] = Call("create", u[i])
      /\ DOMAIN t = 1..Len(t)
  BY <1>3, <1>4, <1>5, <1>6, <1>7, <1>8 DEF MissingPlaces
<1>10. \A i \in DOMAIN t :
         \/ i \in 1..a /\ t[i] = Call("read", s[i])
         \/ i = a + 1 /\ t[i] = Call("decide", None)
         \/ \E j \in 1..c : i = a + 1 + j /\ t[i] = Call("create", u[j])
         \/ /\ ~central
            /\ \E j \in 1..p : i = b + j /\ t[i] = Call("read", Protected[j])
         \/ /\ ~central
            /\ \E j \in 1..q : i = b + p + j /\ t[i] = Call("read", Unattended[j])
         \/ ~central /\ i = b + p + q + 1 /\ t[i] = Call("decide", None)
  BY <1>1, <1>3, <1>4, <1>5, <1>6, <1>7, <1>8, MissingCases
<1>11. a + 1 \in DOMAIN t
  BY <1>8, <1>9
<1>12. \A i \in DOMAIN t : t[i].what \in {"read", "decide", "create"}
  BY <1>10 DEF Call
<1>13. ASSUME NEW i \in DOMAIN t, t[i].what = "create"
       PROVE  \E j \in 1..c : i = a + 1 + j /\ t[i].name = u[j] /\ u[j] \in absent
  <2>1. PICK j \in 1..c : i = a + 1 + j /\ t[i] = Call("create", u[j])
    BY <1>10, <1>13 DEF Call
  <2>2. u[j] \in Range(u)
    BY <1>1, <1>5 DEF Range
  <2> QED
    BY <1>1, <2>1, <2>2 DEF Call
<1>14. /\ \A i \in 1..a : t[i].what = "read" /\ t[i].name = s[i]
       /\ \A i \in 1..c : t[a + 1 + i].what = "create" /\ t[a + 1 + i].name = u[i]
  <2>1. \A k, n : Call(k, n).what = k /\ Call(k, n).name = n
    BY DEF Call
  <2>2. \A i \in 1..a : t[i].what = "read" /\ t[i].name = s[i]
    BY <1>9, <2>1
  <2>3. \A i \in 1..c : t[a + 1 + i].what = "create" /\ t[a + 1 + i].name = u[i]
    BY <1>9, <2>1
  <2> QED
    BY <2>2, <2>3
<1>15. WorkInv(y, e)
  <2>1. ASSUME NEW i \in DOMAIN t, t[i].what = "create"
        PROVE  /\ e[t[i].name] = Missing
               /\ \A k \in DOMAIN t \ {i} : t[k].what = "create" => t[k].name # t[i].name
    <3>1. PICK j \in 1..c : i = a + 1 + j /\ t[i].name = u[j] /\ u[j] \in absent
      BY <1>13, <2>1
    <3>2. ASSUME NEW k \in DOMAIN t \ {i}, t[k].what = "create"
          PROVE  t[k].name # t[i].name
      <4>1. PICK m \in 1..c : k = a + 1 + m /\ t[k].name = u[m]
        BY <1>13, <3>2
      <4>2. m # j /\ m \in DOMAIN u /\ j \in DOMAIN u
        BY <1>1, <1>5, <3>1, <4>1
      <4> QED
        BY <1>1, <3>1, <4>1, <4>2
    <3> QED
      BY <3>1, <3>2
  <2>2. \A i \in DOMAIN t : WorkAt(t, e, i)
    BY <1>12, <2>1 DEF WorkAt
  <2>3. 1 \in DOMAIN t
    BY <1>9, <1>11
  <2> QED
    BY <1>2, <1>12, <2>2, <2>3 DEF WorkInv
<1>16. ASSUME y.sound, NEW i \in (a + 2)..Len(t), t[i].what = "read"
       PROVE  Known(t, i, a + 1, t[i].name, e[t[i].name])
  <2>1. i \in DOMAIN t /\ i \notin 1..(a + 1)
    BY <1>4, <1>9, <1>11
  <2>2. CASE ~central /\ \E j \in 1..p : i = b + j /\ t[i] = Call("read", Protected[j])
    <3>1. t[i].name \in Range(Protected)
      BY <1>6, <2>2, NamesAreSequences DEF Call
    <3>2. Holds(t[i].name, e[t[i].name])
      BY <1>16, <2>2, <3>1
    <3> QED
      BY <3>2 DEF Known, Prepared, WillBeSet, WillBeListed, Holds
  <2>3. CASE ~central /\ \E j \in 1..q : i = b + p + j /\ t[i] = Call("read", Unattended[j])
    <3>1. t[i].name \in Range(Unattended)
      BY <1>7, <2>3, NamesAreSequences DEF Call
    <3>2. CASE t[i].name \in Range(s)
      <4>1. PICK k \in 1..a : s[k] = t[i].name
        BY <1>1, <1>4, <3>2 DEF Range
      <4>2. t[k].what = "read" /\ t[k].name = t[i].name /\ k \in 1..((a + 1) - 1)
        BY <1>14, <4>1
      <4> QED
        BY <4>2 DEF Known
    <3>3. CASE t[i].name \in Range(u)
      <4>1. PICK k \in 1..c : u[k] = t[i].name
        BY <1>1, <1>5, <3>3 DEF Range
      <4>2. /\ t[a + 1 + k].what = "create" /\ t[a + 1 + k].name = t[i].name
        BY <1>14, <4>1
      <4>3. PICK j \in 1..q : i = b + p + j
        BY <2>3
      <4>4. a + 1 + k \in 1..(i - 1)
        BY <1>8, <4>1, <4>3
      <4> QED
        BY <4>2, <4>4 DEF Known, Prepared, WillBeSet, WillBeListed, Earlier
    <3> QED
      BY <1>1, <3>1, <3>2, <3>3
  <2> QED
    BY <1>10, <1>16, <2>1, <2>2, <2>3 DEF Call
<1>17. LooksTo(y, e, a + 1)
  <2>1. \A i \in 1..((a + 1) - 1) : t[i].what \in {"read", "readPolicies"}
    BY <1>14
  <2>2. t[a + 1].what = "decide"
    BY <1>9 DEF Call
  <2>3. (a + 1) + 1 = a + 2
    OBVIOUS
  <2> QED
    BY <1>2, <1>12, <1>16, <2>1, <2>2, <2>3 DEF LooksTo
<1> QED
  BY <1>2, <1>11, <1>12, <1>15, <1>17 DEF Looking

\* The inventory is made, and what is missing is to be created.
LEMMA InventoryKeeps ==
  ASSUME Typed, NEW r \in Run, RunInv(run[r], env, ruleset), Inventory(r)
  PROVE  RunInv(run'[r], env, ruleset) /\ run'[r].outcome = "active"
<1> DEFINE x == run[r]
           y == run'[r]
           absent == {n \in Range(Unattended) : env[n] = Missing}
<1>1. /\ ControlsTypes /\ ShapeInv /\ WorkInv(x, env)
      /\ x.todo \in Seq(Calls) /\ x.todo # <<>> /\ 1 \in DOMAIN x.todo
      /\ x.todo[1].what = "inventory"
      /\ Quiet(x) \/ Looking(x, env) \/ Sure(x, env, ruleset)
      /\ x.outcome = "active"
  BY Reading DEF Inventory
<1>2. PICK s \in InOrder(Range(Unattended) \ absent), u \in InOrder(absent) :
        Turns(r, CreateMissing(s, u), x.wrote, x.sound, x.outcome)
  BY <1>1, InventoryMoves DEF Inventoried
<1>3. y.todo = CreateMissing(s, u) /\ y.wrote = x.wrote /\ y.sound = x.sound
      /\ y.outcome = "active"
  BY <1>1, <1>2 DEF Turns
<1>4. absent \subseteq Range(Unattended) /\ \A n \in absent : env[n] = Missing
  OBVIOUS
<1> HIDE DEF x, y, absent
<1>5. ~Quiet(x) /\ ~Sure(x, env, ruleset)
  BY <1>1 DEF Quiet, Sure, SureAt
<1>6. PICK d \in DOMAIN x.todo : LooksTo(x, env, d) /\ ~x.wrote
  BY <1>1, <1>5 DEF Looking
<1>7. d = 1
  BY <1>1, <1>6, LookHead
<1>8. x.sound /\ ~central => \A n \in Range(Protected) : Holds(n, env[n])
  <2>1. ASSUME x.sound, ~central, NEW n \in Range(Protected)
        PROVE  Holds(n, env[n])
    <3>1. Known(x.todo, 1, 1, n, env[n])
      BY <1>1, <1>6, <1>7, <2>1 DEF LooksTo
    <3>2. Prepared(x.todo, 1, n, env[n])
      BY <3>1 DEF Known
    <3> QED
      BY <3>2, PreparedFirst
  <2> QED
    BY <2>1
<1>9. WorkInv(y, env) /\ Looking(y, env)
  <2>1. y.sound /\ ~central => \A n \in Range(Protected) : Holds(n, env[n])
    BY <1>3, <1>8
  <2>2. ~y.wrote
    BY <1>3, <1>6
  <2> QED
    BY <1>3, <1>4, <2>1, <2>2, MissingLooks
<1> QED
  BY <1>3, <1>9 DEF RunInv, y

\* A set-up starts by writing a ruleset that holds.
LEMMA PayloadHolds ==
  ASSUME NEW rules, rules.approvals \in Nat, Hardenable(rules)
  PROVE  RulesetHolds(RulesetPayload(rules))
<1> DEFINE new == RulesetPayload(rules)
           kept == KeptChecks(rules.checks)
<1>1. /\ new.checks = HardenedChecks(rules.checks) /\ new.strict /\ new.gates
      /\ new.approvals = (IF rules.approvals > 1 THEN rules.approvals ELSE 1)
      /\ new.bypass = (~central /\ rules.bypass) /\ new.active
      /\ new.deployments = KeptDeployments(rules)
  BY DEF RulesetPayload
<1>2. new.checks = kept \cup {<<c, IF c \in Issued THEN App ELSE None>> :
                                c \in Required \ Contexts(kept)}
  BY <1>1 DEF HardenedChecks
<1>3. \A c \in kept : \E d \in rules.checks : c = Bound(d) /\ ~(central /\ c[1] \in Retired)
  BY DEF KeptChecks
<1>4. \A d : Bound(d)[1] = Renamed(d)[1]
  BY DEF Bound
<1> HIDE DEF new, kept
<1>5. Required \subseteq Contexts(new.checks)
  <2>1. ASSUME NEW c \in Required
        PROVE  c \in Contexts(new.checks)
    <3>1. CASE c \in Contexts(kept)
      BY <1>2, <3>1 DEF Contexts
    <3>2. CASE c \notin Contexts(kept)
      <4>1. <<c, IF c \in Issued THEN App ELSE None>> \in new.checks
        BY <1>2, <2>1, <3>2
      <4> QED
        BY <4>1 DEF Contexts
    <3> QED
      BY <3>1, <3>2
  <2> QED
    BY <2>1
<1>6. ASSUME ~central
      PROVE  <<Governance, App>> \in new.checks
  <2>1. Governance \in Required /\ Governance \in Issued
    BY <1>6 DEF Required, Issued
  <2>2. CASE Governance \in Contexts(kept)
    <3>1. PICK c \in kept : c[1] = Governance
      BY <2>2 DEF Contexts
    <3>2. PICK d \in rules.checks : c = Bound(d)
      BY <1>3
    <3>3. Renamed(d)[1] \in Issued
      BY <1>4, <2>1, <3>1, <3>2
    <3>4. c = <<Governance, App>>
      BY <1>4, <3>1, <3>2, <3>3 DEF Bound
    <3> QED
      BY <1>2, <3>4
  <2>3. CASE Governance \notin Contexts(kept)
    BY <1>2, <2>1, <2>3
  <2> QED
    BY <2>2, <2>3
<1>7. new.approvals >= 1
  BY <1>1
<1>8. ASSUME central
      PROVE  CentralRulesetHolds(new)
  <2>1. ASSUME NEW c \in new.checks
        PROVE  c[1] \notin Retired \cup {Governance}
    <3>1. CASE c \in kept
      <4>1. PICK d \in rules.checks : c = Bound(d) /\ c[1] \notin Retired
        BY <1>3, <1>8, <3>1
      <4>2. Renamed(d)[1] # Governance
        BY <1>8 DEF Renamed, Governance, Infrastructure
      <4> QED
        BY <1>4, <4>1, <4>2
    <3>2. CASE c \notin kept
      <4>1. c[1] \in Required
        BY <1>2, <2>1, <3>2
      <4> QED
        BY <1>8, <4>1 DEF Required, Retired, Governance, Infrastructure, Account
    <3> QED
      BY <3>1, <3>2
  <2>2. KeptDeployments(new) = new.deployments
    BY <1>1, <1>8 DEF KeptDeployments
  <2> QED
    BY <1>1, <1>8, <2>1, <2>2 DEF CentralRulesetHolds, Contexts
<1> QED
  BY <1>1, <1>5, <1>6, <1>7, <1>8 DEF RulesetHolds, new

\* A set-up is sure from the start, a verification only reads, a create-only run
\* looks first.
LEMMA ApplySure ==
  ASSUME NEW x, x.todo = ApplyAll, x.sound, NEW e, NEW rules, RulesetHolds(x.payload)
  PROVE  WorkInv(x, e) /\ Sure(x, e, rules)
<1>1. PICK p \in Nat : p = Len(Protected)
  BY NamesAreSequences
<1>2. PICK t : t = ApplyAll
  OBVIOUS
<1>3. t \in Seq(Calls) /\ ApplyPlaces(t)
  BY <1>2, ApplyType
<1>4. \A k, n : Call(k, n).what = k /\ Call(k, n).name = n
  BY DEF Call
<1>5. /\ t[1].what = "putRuleset"
      /\ \A i \in 1..p : t[i + 1].what = "put" /\ t[i + 1].name = Protected[i]
      /\ \A i \in 1..p : t[p + 1 + i].what = "list" /\ t[p + 1 + i].name = Protected[i]
      /\ t[p + p + 2].what = "put" /\ t[p + p + 2].name = Evidence
      /\ t[p + p + 3].what = "list" /\ t[p + p + 3].name = Evidence
  BY <1>1, <1>3, <1>4 DEF ApplyPlaces
<1>6. \A i \in DOMAIN t :
        \/ i = 1 /\ t[i].what = "putRuleset"
        \/ t[i].what \in {"put", "readRuleset", "readClassic", "decide"}
        \/ \E j \in 1..p : i = p + 1 + j /\ t[i].what = "list" /\ t[i].name = Protected[j]
        \/ i = p + p + 3 /\ t[i].what = "list" /\ t[i].name = Evidence
        \/ \E j \in 1..p : /\ i = p + p + 4 + j
                           /\ t[i].what = "read" /\ t[i].name = Protected[j]
        \/ i = p + p + p + 6 /\ t[i].what = "read" /\ t[i].name = Evidence
  <2> SUFFICES ASSUME NEW i \in DOMAIN t
               PROVE  \/ i = 1 /\ t[i].what = "putRuleset"
                      \/ t[i].what \in {"put", "readRuleset", "readClassic", "decide"}
                      \/ \E j \in 1..p : /\ i = p + 1 + j /\ t[i].what = "list"
                                         /\ t[i].name = Protected[j]
                      \/ i = p + p + 3 /\ t[i].what = "list" /\ t[i].name = Evidence
                      \/ \E j \in 1..p : /\ i = p + p + 4 + j
                                         /\ t[i].what = "read" /\ t[i].name = Protected[j]
                      \/ i = p + p + p + 6 /\ t[i].what = "read" /\ t[i].name = Evidence
    OBVIOUS
  <2>1. \/ i = 1 /\ t[i] = Call("putRuleset", None)
        \/ \E j \in 1..p : i = j + 1 /\ t[i] = Call("put", Protected[j])
        \/ \E j \in 1..p : i = p + 1 + j /\ t[i] = Call("list", Protected[j])
        \/ i = p + p + 2 /\ t[i] = Call("put", Evidence)
        \/ i = p + p + 3 /\ t[i] = Call("list", Evidence)
        \/ i = p + p + 4 /\ t[i] = Call("readRuleset", None)
        \/ \E j \in 1..p : /\ i = p + p + 4 + j
                           /\ t[i] = Call("read", Protected[j])
        \/ i = p + p + p + 5 /\ t[i] = Call("readClassic", None)
        \/ i = p + p + p + 6 /\ t[i] = Call("read", Evidence)
        \/ i = p + p + p + 7 /\ t[i] = Call("decide", None)
    BY <1>1, <1>2, ApplyCases
  <2> QED
    BY <1>4, <2>1
<1>7. DOMAIN t = 1..Len(t) /\ Len(t) \in Nat /\ 1 \in DOMAIN t
  BY <1>1, <1>3 DEF ApplyPlaces
<1>8. ASSUME NEW j \in 1..p, NEW i \in Nat, i > j + 1
      PROVE  Earlier(t, i, {"put", "create"}, Protected[j])
  <2>1. j + 1 \in 1..(i - 1)
    BY <1>8
  <2> QED
    BY <1>5, <2>1 DEF Earlier
<1>9. ASSUME NEW j \in 1..p, NEW i \in Nat, i > p + 1 + j
      PROVE  Earlier(t, i, {"list", "create"}, Protected[j])
  <2>1. p + 1 + j \in 1..(i - 1)
    BY <1>9
  <2> QED
    BY <1>5, <2>1 DEF Earlier
<1>10. ASSUME NEW i \in Nat, i > p + p + 2
       PROVE  Earlier(t, i, {"put", "create"}, Evidence)
  <2>1. p + p + 2 \in 1..(i - 1)
    BY <1>10
  <2> QED
    BY <1>5, <2>1 DEF Earlier
<1>11. ASSUME NEW i \in Nat, i > p + p + 3
       PROVE  Earlier(t, i, {"list", "create"}, Evidence)
  <2>1. p + p + 3 \in 1..(i - 1)
    BY <1>11
  <2> QED
    BY <1>5, <2>1 DEF Earlier
<1>12. WorkInv(x, e)
  <2>1. ASSUME NEW i \in DOMAIN t, t[i].what = "list"
        PROVE  WillBeSet(t, i, t[i].name, e[t[i].name])
    <3>1. CASE \E j \in 1..p : i = p + 1 + j /\ t[i].name = Protected[j]
      <4>1. PICK j \in 1..p : i = p + 1 + j /\ t[i].name = Protected[j]
        BY <3>1
      <4>2. i \in Nat /\ i > j + 1
        BY <4>1, <1>7
      <4> QED
        BY <1>8, <4>1, <4>2 DEF WillBeSet
    <3>2. CASE i = p + p + 3 /\ t[i].name = Evidence
      <4>1. i \in Nat /\ i > p + p + 2
        BY <3>2
      <4> QED
        BY <1>10, <3>2, <4>1 DEF WillBeSet
    <3> QED
      BY <1>6, <2>1, <3>1, <3>2
  <2>2. \A i \in DOMAIN t :
          t[i].what \notin {"create", "delete", "post", "expectNone"}
    BY <1>6
  <2>3. \A i \in DOMAIN t : WorkAt(t, e, i)
    BY <2>1, <2>2 DEF WorkAt
  <2> QED
    BY <1>2, <1>5, <2>3 DEF WorkInv
<1>13. Sure(x, e, rules)
  <2>1. ASSUME NEW i \in DOMAIN t, t[i].what = "read"
        PROVE  Prepared(t, i, t[i].name, e[t[i].name])
    <3>1. CASE \E j \in 1..p : i = p + p + 4 + j /\ t[i].name = Protected[j]
      <4>1. PICK j \in 1..p : i = p + p + 4 + j /\ t[i].name = Protected[j]
        BY <3>1
      <4>2. i \in Nat /\ i > j + 1 /\ i > p + 1 + j
        BY <4>1, <1>7
      <4> QED
        BY <1>8, <1>9, <4>1, <4>2 DEF Prepared, WillBeSet, WillBeListed
    <3>2. CASE i = p + p + p + 6 /\ t[i].name = Evidence
      <4>1. i \in Nat /\ i > p + p + 2 /\ i > p + p + 3
        BY <3>2
      <4> QED
        BY <1>10, <1>11, <3>2, <4>1 DEF Prepared, WillBeSet, WillBeListed
    <3> QED
      BY <1>6, <2>1, <3>1, <3>2
  <2>2. \A i \in DOMAIN t : t[i].what \notin {"readPolicies", "inventory"}
    BY <1>6
  <2>3. ASSUME NEW i \in DOMAIN t
        PROVE  SureAt(x, e, rules, i)
    BY <1>2, <1>5, <2>1, <2>2 DEF SureAt
  <2> QED
    BY <1>2, <2>3 DEF Sure
<1> QED
  BY <1>12, <1>13

LEMMA VerifyQuiet ==
  ASSUME NEW x, x.todo = VerifyAll, ~x.wrote, NEW e
  PROVE  WorkInv(x, e) /\ Quiet(x)
<1>1. PICK t : t = VerifyAll
  OBVIOUS
<1>2. t \in Seq(Calls) /\ VerifyPlaces(t) /\ Len(Protected) \in Nat
  BY <1>1, VerifyType, NamesAreSequences
<1>3. \A k, n : Call(k, n).what = k
  BY DEF Call
<1>4. \A i \in DOMAIN t : t[i].what \in {"read", "readRuleset", "readClassic", "decide"}
  BY <1>1, <1>3, VerifyCases
<1>5. 1 \in DOMAIN t
  BY <1>2 DEF VerifyPlaces
<1>6. \A i \in DOMAIN t : WorkAt(t, e, i)
  BY <1>4 DEF WorkAt
<1> QED
  BY <1>1, <1>4, <1>5, <1>6 DEF WorkInv, Quiet

LEMMA FirstLooks ==
  ASSUME NEW x, x.todo = First, ~x.wrote, NEW e
  PROVE  WorkInv(x, e) /\ Looking(x, e)
<1>1. PICK t : t = First
  OBVIOUS
<1>2. PICK d \in Nat \ {0} : d = Len(t)
  BY <1>1, FirstType
<1>3. \A k, n : Call(k, n).what = k /\ Call(k, n).name = n
  BY DEF Call
<1>4. /\ t \in Seq(Calls) /\ t[d] = Call("inventory", None)
      /\ ~central => d = Len(Protected) + 1
      /\ \A i \in 1..(d - 1) :
           ~central /\ i \in 1..Len(Protected) /\ t[i] = Call("read", Protected[i])
  BY <1>1, <1>2, FirstType
<1>5. t[d].what = "inventory" /\ d \in DOMAIN t /\ DOMAIN t = 1..d
  BY <1>2, <1>3, <1>4
<1>6. \A i \in 1..(d - 1) : t[i].what = "read" /\ t[i].name = Protected[i]
  BY <1>3, <1>4
<1>7. \A i \in DOMAIN t : t[i].what \in {"read", "inventory"}
  <2>1. \A i \in 1..d : i = d \/ i \in 1..(d - 1)
    BY <1>2
  <2> QED
    BY <1>5, <1>6, <2>1
<1>8. ASSUME ~central, NEW n \in Range(Protected)
      PROVE  Known(t, d, d, n, e[n])
  <2>1. PICK i \in 1..Len(Protected) : Protected[i] = n
    BY NamesAreSequences
  <2>2. i \in 1..(d - 1)
    BY <1>4, <1>8, NamesAreSequences
  <2> QED
    BY <1>6, <2>1, <2>2 DEF Known
<1>9. LooksTo(x, e, d)
  BY <1>1, <1>2, <1>5, <1>6, <1>8 DEF LooksTo
<1>10. WorkInv(x, e)
  <2>1. \A i \in DOMAIN t : WorkAt(t, e, i)
    BY <1>7 DEF WorkAt
  <2>2. 1 \in DOMAIN t
    BY <1>2, <1>5
  <2> QED
    BY <1>1, <1>7, <2>1, <2>2 DEF WorkInv
<1> QED
  BY <1>1, <1>5, <1>7, <1>9, <1>10 DEF Looking

LEMMA StartKeeps ==
  ASSUME Typed, NEW r \in Run, StartApply(r) \/ StartVerify(r) \/ StartCreate(r)
  PROVE  Kept(r)
<1>1. ControlsTypes /\ ruleset.approvals \in Nat
  BY DEF Typed, ControlsTypes
<1>2. env' = env /\ ruleset' = ruleset
  BY DEF StartApply, StartVerify, StartCreate, github
<1>3. CASE Fresh(r, "apply", ApplyAll, RulesetPayload(ruleset)) /\ Hardenable(ruleset)
  <2>1. RulesetHolds(run'[r].payload)
    BY <1>1, <1>3, PayloadHolds DEF Fresh
  <2>2. WorkInv(run'[r], env) /\ Sure(run'[r], env, ruleset)
    BY <1>3, <2>1, ApplySure DEF Fresh
  <2> QED
    BY <1>2, <1>3, <2>2 DEF Kept, RunInv, Fresh
<1>4. CASE Fresh(r, "verify", VerifyAll, NoRuleset)
  <2>1. WorkInv(run'[r], env) /\ Quiet(run'[r])
    BY <1>4, VerifyQuiet DEF Fresh
  <2> QED
    BY <1>2, <1>4, <2>1 DEF Kept, RunInv, Fresh
<1>5. CASE Fresh(r, "create", First, NoRuleset)
  <2>1. WorkInv(run'[r], env) /\ Looking(run'[r], env)
    BY <1>5, FirstLooks DEF Fresh
  <2> QED
    BY <1>2, <1>5, <2>1 DEF Kept, RunInv, Fresh
<1>6. CASE Ended(r, "refused")
  BY <1>1, <1>6, Outcomes DEF Kept
<1>7. StartApply(r) =>
        \/ Fresh(r, "apply", ApplyAll, RulesetPayload(ruleset)) /\ Hardenable(ruleset)
        \/ Ended(r, "refused")
  BY <1>1, BeginMoves DEF StartApply
<1>8. StartVerify(r) => Fresh(r, "verify", VerifyAll, NoRuleset)
  BY <1>1, BeginMoves DEF StartVerify
<1>9. StartCreate(r) => Fresh(r, "create", First, NoRuleset)
  <2>1. StartCreate(r) => Begin(r, "create", First, NoRuleset)
    BY Zenon DEF StartCreate, First
  <2> QED
    BY <1>1, <2>1, BeginMoves
<1> QED
  BY <1>3, <1>4, <1>5, <1>6, <1>7, <1>8, <1>9

\* A run that was alone and goes on will find what it set up.
LEMMA StepKeeps ==
  ASSUME Typed, NEW r \in Run, Step(r), Active(r) => RunInv(run[r], env, ruleset)
  PROVE  Kept(r)
<1>1. ControlsTypes /\ ShapeInv
  BY DEF Typed
<1>2. ASSUME WorkInv(run'[r], env'), Sure(run'[r], env', ruleset'),
             run'[r].outcome = "active"
      PROVE  Kept(r)
  BY <1>2 DEF Kept, RunInv
<1>3. ASSUME RunInv(run'[r], env, ruleset), run'[r].outcome = "active", UNCHANGED github
      PROVE  Kept(r)
  BY <1>3 DEF Kept, github
<1>4. \A X, w, s : Forward(r, X, w, s) => run'[r].outcome = "active"
  BY DEF Forward, Turns, Active
<1>5. \A what : At(r, what) => RunInv(run[r], env, ruleset)
  BY DEF At
<1>6. CASE StartApply(r) \/ StartVerify(r) \/ StartCreate(r)
  BY <1>6, StartKeeps
<1>7. CASE Inventory(r)
  <2>1. UNCHANGED github /\ At(r, "inventory")
    BY <1>7 DEF Inventory
  <2> QED
    BY <1>3, <1>5, <1>7, <2>1, InventoryKeeps
<1>8. CASE PutRuleset(r)
  <2>1. At(r, "putRuleset") /\ run'[r].outcome = "active"
    BY <1>1, <1>4, <1>8, PutRulesetMoves, Zenon
  <2> QED
    BY <1>2, <1>5, <1>8, <2>1, PutRulesetSure
<1>9. CASE PutEnvironment(r)
  <2>1. CASE At(r, "put")
    <3>1. run'[r].outcome = "active"
      BY <1>1, <1>4, <1>9, <2>1, PutMoves, Zenon
    <3> QED
      BY <1>2, <1>5, <1>9, <2>1, <3>1, PutSure
  <2>2. CASE At(r, "create")
    <3>1. run'[r].outcome = "active"
      BY <1>1, <1>4, <1>9, <2>2, PutMoves, Zenon
    <3> QED
      BY <1>2, <1>5, <1>9, <2>2, <3>1, CreateSure
  <2> QED
    BY <1>9, <2>1, <2>2 DEF PutEnvironment
<1>10. CASE ListPolicies(r)
  <2>1. At(r, "list")
    BY <1>10 DEF ListPolicies
  <2>2. run'[r].outcome = "active"
    BY <1>1, <1>4, <1>10, ListMoves, Zenon DEF Listed
  <2> QED
    BY <1>2, <1>5, <1>10, <2>1, <2>2, ListSure
<1>11. CASE DeletePolicy(r)
  <2>1. At(r, "delete")
    BY <1>11 DEF DeletePolicy
  <2> QED
    BY <1>2, <1>5, <1>11, <2>1, DeleteSure
<1>12. CASE PostMain(r)
  <2>1. At(r, "post") /\ run'[r].outcome = "active"
    BY <1>1, <1>4, <1>12, PostMoves, Zenon
  <2> QED
    BY <1>2, <1>5, <1>12, <2>1, PostSure
<1>13. CASE ExpectNone(r)
  <2>1. At(r, "expectNone")
    BY <1>13 DEF ExpectNone
  <2> QED
    BY <1>2, <1>5, <1>13, <2>1, ExpectSure
<1>14. CASE ReadRuleset(r) \/ ReadClassic(r)
  <2>1. UNCHANGED github /\ RunInv(run[r], env, ruleset)
    BY <1>5, <1>14 DEF ReadRuleset, ReadClassic
  <2> QED
    BY <1>3, <1>14, <2>1, RulesKeep
<1>15. CASE ReadEnvironment(r)
  <2>1. UNCHANGED github /\ RunInv(run[r], env, ruleset)
    BY <1>5, <1>15 DEF ReadEnvironment
  <2> QED
    BY <1>3, <1>15, <2>1, ReadKeeps
<1>16. CASE ReadPolicies(r)
  <2>1. UNCHANGED github /\ RunInv(run[r], env, ruleset)
    BY <1>5, <1>16, Zenon DEF ReadPolicies
  <2> QED
    BY <1>3, <1>16, <2>1, PoliciesKeep
<1>17. CASE Report(r)
  <2>1. RunInv(run[r], env, ruleset)
    BY <1>5, <1>17 DEF Report
  <2> QED
    BY <1>17, <2>1, ReportKeeps
<1>18. CASE Stop(r)
  BY <1>1, <1>18, Outcomes DEF Stop, Kept
<1> QED
  BY <1>6, <1>7, <1>8, <1>9, <1>10, <1>11, <1>12, <1>13, <1>14, <1>15, <1>16, <1>17,
     <1>18 DEF Step

\* A step that writes leaves no other run under way alone.
LEMMA WritesShow ==
  ASSUME NEW r \in Run, Step(r)
  PROVE  UNCHANGED <<env, ruleset>> \/ Beside(r)
BY DEF Step, StartApply, StartVerify, StartCreate, Inventory, PutRuleset, PutEnvironment,
       ListPolicies, DeletePolicy, PostMain, ExpectNone, ReadRuleset, ReadEnvironment,
       ReadPolicies, ReadClassic, Report, Stop, github, Written

\* What is said of a run depends on nothing else that changes.
LEMMA SaidNext ==
  ASSUME NEW q, central' = central, classic' = classic,
         RunInv(run'[q], env', ruleset')
  PROVE  RunInv(run[q], env, ruleset)'
<1>1. RulesetHolds(ruleset') => RulesetHolds(ruleset)'
  BY DEF RulesetHolds, Required, CentralRulesetHolds, KeptDeployments
<1>2. WorkInv(run'[q], env') => WorkInv(run[q], env)'
  BY DEF WorkInv, WorkAt, WillBeSet, SettingsHold, Earlier, InWork
<1>3. Quiet(run'[q]) => Quiet(run[q])'
  BY DEF Quiet
<1>4. Looking(run'[q], env') => Looking(run[q], env)'
  BY DEF Looking, LooksTo, Known, Prepared, WillBeSet, WillBeListed, SettingsHold,
         OneMain, Earlier
<1>5. Sure(run'[q], env', ruleset') => Sure(run[q], env, ruleset)'
  <2>1. ASSUME NEW i, NEW n, Prepared(run'[q].todo, i, n, env'[n])
        PROVE  Prepared(run[q].todo, i, n, env[n])'
    BY <2>1 DEF Prepared, WillBeSet, WillBeListed, SettingsHold, OneMain, Earlier
  <2>2. ASSUME NEW n, Holds(n, env'[n])
        PROVE  Holds(n, env[n])'
    BY <2>2 DEF Holds, SettingsHold, OneMain
  <2>3. RulesetHolds(run'[q].payload) => RulesetHolds(run[q].payload)'
    BY DEF RulesetHolds, Required, CentralRulesetHolds, KeptDeployments
  <2>4. ASSUME NEW i, SureAt(run'[q], env', ruleset', i)
        PROVE  SureAt(run[q], env, ruleset, i)'
    BY <1>1, <2>1, <2>2, <2>3, <2>4 DEF SureAt
  <2> QED
    BY <2>4 DEF Sure
<1> QED
  BY <1>2, <1>3, <1>4, <1>5 DEF RunInv

\* Whatever step is taken, the runs nobody wrote beside stay as they are said.
LEMMA AloneStep ==
  ASSUME Typed, AloneInv, NEW r \in Run, Step(r)
  PROVE  AloneInv'
<1>1. /\ alone \subseteq Run /\ alone' \subseteq alone
      /\ central' = central /\ classic' = classic
      /\ \A q \in Run : q # r => run'[q] = run[q]
  BY OthersKeep, RunsKeep DEF Typed, ControlsTypes
<1>2. ASSUME NEW q \in alone'
      PROVE  /\ run'[q].outcome = "active" => RunInv(run'[q], env', ruleset')
             /\ run'[q].outcome = "failed" => central /\ classic
  <2>1. q \in alone /\ q \in Run
    BY <1>1
  <2>2. CASE q = r
    <3>1. Active(r) => RunInv(run[r], env, ruleset)
      BY <2>1, <2>2 DEF AloneInv
    <3> QED
      BY <2>2, <3>1, StepKeeps DEF Kept
  <2>3. CASE q # r
    <3>1. run'[q] = run[q]
      BY <1>1, <2>1, <2>3
    <3>2. Active(q) => UNCHANGED <<env, ruleset>>
      <4>1. Beside(r) => ~Active(q)
        BY <2>1, <2>3 DEF Beside
      <4> QED
        BY <4>1, WritesShow
    <3> QED
      BY <2>1, <3>1, <3>2 DEF AloneInv, Active
  <2> QED
    BY <2>2, <2>3
<1>3. ASSUME NEW q \in alone'
      PROVE  /\ Active(q)' => RunInv(run[q], env, ruleset)'
             /\ run'[q].outcome = "failed" => (central /\ classic)'
  BY <1>1, <1>2, SaidNext DEF Active
<1> QED
  BY <1>3 DEF AloneInv

-----------------------------------------------------------------------------
(* What a run leaves behind. *)

\* A run beside which nobody wrote refuses before its first write, or what it
\* wrote passes its own verification: it fails only on a classic protection, which
\* is not the tool's.
THEOREM WhatIsWrittenVerifies == Spec => []AppliedVerifies
<1>1. Init => AloneInv
  BY DEF Init, AloneInv, Waiting, Active
<1>2. ASSUME Typed, AloneInv, [Next]_vars
      PROVE  AloneInv'
  <2>1. CASE ByHand
    <3>1. /\ alone' = alone \ {q \in Run : Active(q)} /\ run' = run
          /\ central' = central /\ classic' = classic
      BY <2>1 DEF ByHand
    <3>2. \A q \in alone' : ~Active(q)' /\ q \in alone
      BY <1>2, <3>1 DEF Active, Typed, ControlsTypes
    <3> QED
      BY <1>2, <3>1, <3>2 DEF AloneInv
  <2>2. ASSUME NEW r \in Run, Step(r)
        PROVE  AloneInv'
    BY <1>2, <2>2, AloneStep
  <2>3. CASE UNCHANGED vars
    <3>1. /\ alone' = alone /\ run' = run /\ env' = env /\ ruleset' = ruleset
          /\ central' = central /\ classic' = classic
      BY <2>3 DEF vars
    <3>2. \A q \in alone : Active(q)' => RunInv(run[q], env, ruleset)'
      BY <1>2, <3>1, SaidNext DEF AloneInv, Active
    <3> QED
      BY <1>2, <3>1, <3>2 DEF AloneInv
  <2> QED
    BY <1>2, <2>1, <2>2, <2>3 DEF Next
<1>3. AloneInv => AppliedVerifies
  BY DEF AloneInv, AppliedVerifies
<1>4. Typed /\ Typed' /\ AloneInv /\ [Next]_vars => AloneInv'
  BY <1>2
<1> QED
  BY <1>1, <1>3, <1>4, TypedAlways, PTL DEF Spec

-----------------------------------------------------------------------------
(* The alerts. *)

USE DEF sqs, tracker, work, Goto

Pc == {"idle", "queued"} \cup Working \cup Over

-----------------------------------------------------------------------------
(* Types. *)

\* Every alert is classified.
LEMMA DispositionType ==
  ASSUME NEW e
  PROVE  Disposition(e) \in {"actionable", "benign", "quarantine"} \/ e \notin Event
BY EventAssumption, SMTT(30) DEF Disposition, DetailDisposition

\* A benign alert is the harmless one of the documentation.
LEMMA BenignIsHarmless ==
  ASSUME NEW e \in Event, Disposition(e) = "benign"
  PROVE  Harmless(e)
BY EventAssumption, SMTT(30) DEF Disposition, DetailDisposition, Harmless

\* A new issue is added behind the others.
LEMMA AppendIssue ==
  ASSUME NEW T, NEW q \in Seq(T), NEW x \in T
  PROVE  /\ Append(q, x) \in Seq(T)
         /\ DOMAIN q \subseteq DOMAIN Append(q, x)
         /\ \A i \in DOMAIN Append(q, x) :
              \/ i \in DOMAIN q /\ Append(q, x)[i] = q[i]
              \/ i = Len(q) + 1 /\ Append(q, x)[i] = x
OBVIOUS

LEMMA SequenceIsFunction ==
  ASSUME NEW T, NEW q \in Seq(T)
  PROVE  /\ q \in [1..Len(q) -> T] /\ Len(q) \in Nat /\ DOMAIN q = 1..Len(q)
         /\ \A f \in [1..Len(q) -> T] : f \in Seq(T)
OBVIOUS

\* Closing an issue keeps its place and its stream.
LEMMA CloseIssue ==
  ASSUME NEW S, NEW q \in Seq([stream: S, open: BOOLEAN]), NEW i \in DOMAIN q
  PROVE  /\ [q EXCEPT ![i].open = FALSE] \in Seq([stream: S, open: BOOLEAN])
         /\ DOMAIN [q EXCEPT ![i].open = FALSE] = DOMAIN q
         /\ \A k \in DOMAIN q :
              /\ [q EXCEPT ![i].open = FALSE][k].stream = q[k].stream
              /\ [q EXCEPT ![i].open = FALSE][k].open => q[k].open
<1> DEFINE T == [stream: S, open: BOOLEAN]
<1>1. /\ q \in [1..Len(q) -> T] /\ Len(q) \in Nat /\ DOMAIN q = 1..Len(q)
      /\ \A f \in [1..Len(q) -> T] : f \in Seq(T)
  BY SequenceIsFunction
<1>2. [q EXCEPT ![i].open = FALSE] \in [1..Len(q) -> T]
  BY <1>1
<1>3. [q EXCEPT ![i].open = FALSE] \in Seq(T)
  BY <1>1, <1>2
<1>4. QED
  BY <1>1, <1>3

LEMMA TakeTypes ==
  ASSUME TypeOK, NEW r \in TriageRun, NEW S \in SUBSET Message, Take(r, S)
  PROVE  /\ queue' \in [Message -> {"unsent", "visible", "hidden", "deleted"}]
         /\ receipt' \in [Message -> 0..MaxReceipt]
         /\ batch' \in [TriageRun -> SUBSET Receipts]
         /\ pages' \in [TriageRun -> Nat]
<1>1. \A m \in S : receipt[m] + 1 \in 1..MaxReceipt
  BY BoundAssumption DEF TypeOK, Take
<1>2. {<<m, receipt[m] + 1>> : m \in S} \subseteq Receipts
  BY <1>1 DEF Receipts
<1>3. batch' \in [TriageRun -> SUBSET Receipts]
  BY <1>2 DEF TypeOK, Take
<1>4. receipt' \in [Message -> 0..MaxReceipt]
  BY <1>1, BoundAssumption DEF TypeOK, Take
<1>5. QED
  BY <1>3, <1>4 DEF TypeOK, Take

LEMMA TypesInit == ASSUME TriageInit PROVE TypeOK
BY WorkflowAssumption, StreamAssumption, BoundAssumption
   DEF TriageInit, TypeOK, Working, Over, Receipts

LEMMA TypesPreserved ==
  ASSUME TypeOK, [TriageNext]_triageVars
  PROVE  TypeOK'
<1> USE DEF TypeOK, Working, Over
<1>1. ASSUME NEW r \in TriageRun, Join(r) \/ TakeGroup(r) \/ Fail(r) \/ StopReceiving(r)
                              \/ Finish(r)
      PROVE  TypeOK'
  BY <1>1 DEF Join, TakeGroup, Fail, StopReceiving, Finish
<1>2. ASSUME NEW r \in TriageRun, ReceivePage(r)
      PROVE  TypeOK'
  <2>1. PICK S \in SUBSET Message : Take(r, S)
    BY <1>2 DEF ReceivePage, Visible
  <2>2. QED
    BY <1>2, <2>1, TakeTypes DEF ReceivePage
<1>3. ASSUME NEW r \in TriageRun, ReceiveBatch(r)
      PROVE  TypeOK'
  <2>1. PICK S \in SUBSET Message :
          /\ Take(r, S)
          /\ todo' = [todo EXCEPT ![r] = StreamsOf(With(batch'[r], "actionable"))]
          /\ Goto(r, IF S = {} THEN "succeeded"
                     ELSE IF todo'[r] = {} THEN "audit" ELSE "search")
    BY <1>3 DEF ReceiveBatch, Visible
  <2>2. batch' \in [TriageRun -> SUBSET Receipts]
    BY <2>1, TakeTypes
  <2>3. StreamsOf(With(batch'[r], "actionable")) \subseteq Stream
    BY <2>2, EventAssumption DEF StreamsOf, With, Receipts
  <2>4. todo' \in [TriageRun -> SUBSET Stream]
    BY <2>1, <2>3
  <2>5. QED
    BY <1>3, <2>1, <2>4, TakeTypes DEF ReceiveBatch
<1>4. ASSUME NEW r \in TriageRun, Search(r)
      PROVE  TypeOK'
  <2>1. PICK s \in todo[r] :
          /\ found' = [found EXCEPT ![r] = <<s, Matches(s)>>]
          /\ blind' = IF OpenIssues(s) \subseteq index THEN blind ELSE blind \cup {s}
    BY <1>4 DEF Search
  <2>2. Matches(s) \subseteq DOMAIN issues /\ s \in Stream
    BY DEF Matches
  <2>3. found' \in [TriageRun -> (Stream \cup {Unmarked}) \X SUBSET DOMAIN issues]
    BY <2>1, <2>2
  <2>4. blind' \subseteq Stream
    BY <2>1, <2>2
  <2>5. QED
    BY <1>4, <2>3, <2>4 DEF Search
<1>5. ASSUME NEW r \in TriageRun, WriteCanonical(r)
      PROVE  TypeOK'
  <2> DEFINE T == [stream: Stream \cup {Unmarked}, open: BOOLEAN]
             new == [stream |-> found[r][1], open |-> TRUE]
  <2>1. new \in T /\ issues \in Seq(T)
    OBVIOUS
  <2>9. Append(issues, new) \in Seq(T) /\ DOMAIN issues \subseteq DOMAIN Append(issues, new)
    BY <2>1, AppendIssue
  <2>2. issues' \in Seq(T) /\ DOMAIN issues \subseteq DOMAIN issues'
    BY <1>5, <2>1, <2>9 DEF WriteCanonical
  <2>3. Group(r, found[r][1]) \subseteq Receipts
    BY DEF Group, With
  <2>4. writes' \subseteq
          [run: TriageRun, stream: Stream \cup {Unmarked}, receipts: SUBSET Receipts]
    BY <1>5, <2>3 DEF WriteCanonical
  <2>5. todo' \in [TriageRun -> SUBSET Stream]
    BY <1>5 DEF WriteCanonical
  <2>6. pc' \in [TriageRun -> Pc]
    BY <1>5 DEF WriteCanonical, Pc
  <2>7. QED
    BY <1>5, <2>2, <2>4, <2>5, <2>6 DEF WriteCanonical, Pc
<1>6. ASSUME NEW r \in TriageRun, WriteUnmarked(r)
      PROVE  TypeOK'
  <2> DEFINE T == [stream: Stream \cup {Unmarked}, open: BOOLEAN]
             new == [stream |-> Unmarked, open |-> TRUE]
  <2>1. new \in T /\ issues \in Seq(T)
    OBVIOUS
  <2>2. issues' \in Seq(T) /\ DOMAIN issues \subseteq DOMAIN issues'
    BY <1>6, <2>1, AppendIssue DEF WriteUnmarked
  <2>3. writes' \subseteq
          [run: TriageRun, stream: Stream \cup {Unmarked}, receipts: SUBSET Receipts]
    BY <1>6 DEF WriteUnmarked
  <2>4. QED
    BY <1>6, <2>2, <2>3 DEF WriteUnmarked
<1>7. ASSUME NEW r \in TriageRun, Audit(r)
      PROVE  TypeOK'
  BY <1>7 DEF Audit, With
<1>8. ASSUME NEW r \in TriageRun, Acknowledge(r)
      PROVE  TypeOK'
  <2>1. PICK x \in acks[r] :
          /\ acks' = [acks EXCEPT ![r] = @ \ {x}]
          /\ \/ queue' = [queue EXCEPT ![x[1]] = "deleted"]
             \/ x[2] < receipt[x[1]] /\ UNCHANGED queue
    BY <1>8 DEF Acknowledge
  <2>2. queue' \in [Message -> {"unsent", "visible", "hidden", "deleted"}]
    BY <2>1
  <2>3. QED
    BY <1>8, <2>1, <2>2 DEF Acknowledge
<1>9. ASSUME NEW m \in Message, Publish(m) \/ Reappear(m)
      PROVE  TypeOK'
  BY <1>9 DEF Publish, Reappear
<1>10. ASSUME NEW i \in DOMAIN issues, Close(i)
       PROVE  TypeOK'
  <2>1. issues' \in Seq([stream: Stream \cup {Unmarked}, open: BOOLEAN])
        /\ DOMAIN issues' = DOMAIN issues
    BY <1>10, CloseIssue DEF Close
  <2>2. QED
    BY <1>10, <2>1 DEF Close
<1>13. ASSUME NEW i \in DOMAIN issues, Refresh(i)
       PROVE  TypeOK'
  BY <1>13 DEF Refresh
<1>11. CASE UNCHANGED triageVars
  BY <1>11 DEF triageVars
<1>12. QED
  BY <1>1, <1>2, <1>3, <1>4, <1>5, <1>6, <1>7, <1>8, <1>9, <1>10, <1>11, <1>13
     DEF TriageNext, TriageStep

\* The queue, the issues and the runs keep their types.
THEOREM TriageTypeCorrect == TriageSpec => []TypeOK
<1>1. TriageInit => TypeOK
  BY TypesInit
<1>2. TypeOK /\ [TriageNext]_triageVars => TypeOK'
  BY TypesPreserved
<1>3. QED
  BY <1>1, <1>2, PTL DEF TriageSpec

-----------------------------------------------------------------------------
(* The group. *)

MutexInv == \A r, k \in TriageRun : pc[r] \in Working /\ pc[k] \in Working => r = k

\* A run becomes active only by beginning, when no run is active.
LEMMA ActiveByBegin ==
  ASSUME TypeOK, [TriageNext]_triageVars, NEW k \in TriageRun, pc'[k] \in Working, pc[k] \notin Working
  PROVE  TakeGroup(k)
<1> USE DEF TypeOK, Working
<1>1. ASSUME NEW r \in TriageRun, TriageStep(r)
      PROVE  TakeGroup(k)
  BY <1>1 DEF TriageStep, Join, TakeGroup, Fail, StopReceiving, Finish, ReceivePage,
     ReceiveBatch, Search, WriteCanonical, WriteUnmarked, Audit, Acknowledge
<1>2. ASSUME NEW m \in Message, Publish(m) \/ Reappear(m)
      PROVE  TakeGroup(k)
  BY <1>2 DEF Publish, Reappear
<1>3. ASSUME NEW i \in DOMAIN issues, Close(i) \/ Refresh(i)
      PROVE  TakeGroup(k)
  BY <1>3 DEF Close, Refresh
<1>4. CASE UNCHANGED triageVars
  BY <1>4 DEF triageVars
<1>5. QED
  BY <1>1, <1>2, <1>3, <1>4 DEF TriageNext

LEMMA MutexPreserved ==
  ASSUME TypeOK, MutexInv, [TriageNext]_triageVars
  PROVE  MutexInv'
<1> SUFFICES ASSUME NEW r \in TriageRun, NEW k \in TriageRun,
                    pc'[r] \in Working, pc'[k] \in Working, r # k
             PROVE  FALSE
  BY DEF MutexInv
<1>1. ASSUME NEW a \in TriageRun, NEW b \in TriageRun, a # b, pc'[b] \in Working, TakeGroup(a)
      PROVE  FALSE
  BY <1>1 DEF TakeGroup, GroupFree, TypeOK
<1>2. TakeGroup(r) \/ TakeGroup(k)
  BY ActiveByBegin DEF MutexInv
<1>3. QED
  BY <1>1, <1>2

-----------------------------------------------------------------------------
(* No alert is lost. *)

\* Why a message may be deleted.
Settled(m) == Recorded(m) \/ Disposition(event[m]) = "benign"

\* What is acknowledged is settled; what a staged run has not written yet is
\* still to do.
SettledInv ==
  /\ \A m \in Message : queue[m] = "deleted" => Settled(m)
  /\ \A r \in TriageRun :
       /\ pc[r] = "acknowledge" => \A x \in acks[r] : Settled(x[1])
       /\ Workflow[r] = "staged" /\ pc[r] \in {"search", "write", "audit"} =>
            \A x \in batch[r] : Disposition(event[x[1]]) = "actionable" =>
              event[x[1]].stream \in todo[r] \/ Recorded(x[1])
       /\ pc[r] = "audit" => todo[r] = {} /\ Workflow[r] = "staged"
       /\ pc[r] = "search" => Workflow[r] # "installed"

\* Alerts do not change and what is written stays.
LEMMA SettledGrows ==
  ASSUME UNCHANGED event, writes \subseteq writes'
  PROVE  /\ \A m : Recorded(m) => Recorded(m)'
         /\ \A m : Settled(m) => Settled(m)'
         /\ \A m : Disposition(event[m])' = Disposition(event[m])
BY DEF Recorded, Settled

LEMMA SettledPreserved ==
  ASSUME TypeOK, SettledInv, [TriageNext]_triageVars
  PROVE  SettledInv'
<1>0. UNCHANGED event /\ writes \subseteq writes'
  BY DEF TriageNext, TriageStep, Join, TakeGroup, Fail, StopReceiving, Finish, ReceivePage,
     ReceiveBatch, Search, WriteCanonical, WriteUnmarked, Audit, Acknowledge,
     Publish, Reappear, Close, Refresh, Take, triageVars
<1> USE SettledGrows, <1>0
<1>1. ASSUME NEW r \in TriageRun, Join(r) \/ TakeGroup(r) \/ Fail(r) \/ StopReceiving(r)
                              \/ Finish(r)
      PROVE  SettledInv'
  <2>1. UNCHANGED <<queue, batch, todo, acks>>
    BY <1>1 DEF Join, TakeGroup, Fail, StopReceiving, Finish, sqs, work
  <2>2. ASSUME NEW k \in TriageRun, pc'[k] # pc[k]
        PROVE  /\ pc'[k] \notin {"acknowledge", "audit"}
               /\ pc'[k] = "search" => Workflow[k] = "backfill"
               /\ pc'[k] = "write" => Workflow[k] = "installed"
    BY <1>1, <2>2 DEF Join, TakeGroup, Fail, StopReceiving, Finish, Goto, TypeOK
  <2>3. QED
    BY <2>1, <2>2 DEF SettledInv
<1>2. ASSUME NEW r \in TriageRun, ReceivePage(r)
      PROVE  SettledInv'
  BY <1>2 DEF SettledInv, ReceivePage, Take, Visible, TypeOK
<1>3. ASSUME NEW r \in TriageRun, ReceiveBatch(r)
      PROVE  SettledInv'
  <2>1. PICK S \in SUBSET Visible :
          /\ Take(r, S)
          /\ todo' = [todo EXCEPT ![r] = StreamsOf(With(batch'[r], "actionable"))]
          /\ Goto(r, IF S = {} THEN "succeeded"
                     ELSE IF todo'[r] = {} THEN "audit" ELSE "search")
    BY <1>3 DEF ReceiveBatch
  <2>2. \A x \in batch'[r] : Disposition(event[x[1]]) = "actionable" =>
          event[x[1]].stream \in todo'[r]
    BY <2>1 DEF StreamsOf, With, TypeOK
  <2>3. \A m \in Message : queue'[m] = "deleted" => queue[m] = "deleted"
    BY <2>1 DEF Take, Visible, TypeOK
  <2>4. \A k \in TriageRun \ {r} : /\ pc'[k] = pc[k] /\ batch'[k] = batch[k]
                                   /\ todo'[k] = todo[k] /\ acks'[k] = acks[k]
    BY <1>3, <2>1 DEF ReceiveBatch, Take, TypeOK
  <2>5. pc'[r] \in {"succeeded", "audit", "search"}
        /\ (pc'[r] = "audit" => todo'[r] = {})
    BY <2>1 DEF TypeOK
  <2>6. Workflow[r] = "staged"
    BY <1>3 DEF ReceiveBatch
  <2>7. ASSUME NEW k \in TriageRun
        PROVE  /\ pc'[k] = "acknowledge" => \A x \in acks'[k] : Settled(x[1])'
               /\ Workflow[k] = "staged" /\ pc'[k] \in {"search", "write", "audit"} =>
                    \A x \in batch'[k] : (Disposition(event[x[1]]) = "actionable")' =>
                      (event[x[1]].stream \in todo[k] \/ Recorded(x[1]))'
               /\ pc'[k] = "audit" => todo'[k] = {} /\ Workflow[k] = "staged"
               /\ pc'[k] = "search" => Workflow[k] # "installed"
    BY <2>2, <2>4, <2>5, <2>6 DEF SettledInv
  <2>8. QED
    BY <2>3, <2>7 DEF SettledInv
<1>4. ASSUME NEW r \in TriageRun, Search(r)
      PROVE  SettledInv'
  BY <1>4 DEF SettledInv, Search, TypeOK
<1>5. ASSUME NEW r \in TriageRun, WriteCanonical(r)
      PROVE  SettledInv'
  <2> DEFINE s == found[r][1]
             w == [run |-> r, stream |-> s, receipts |-> Group(r, s)]
  <2>1. ASSUME NEW x \in batch[r], Disposition(event[x[1]]) = "actionable",
               event[x[1]].stream = s
        PROVE  Recorded(x[1])'
    <3>1. x \in w.receipts /\ w \in writes'
      BY <1>5, <2>1 DEF WriteCanonical, Group, With
    <3>2. QED
      BY <3>1 DEF Recorded
  <2>2. /\ todo' = [todo EXCEPT ![r] = @ \ {s}]
        /\ pc' = [pc EXCEPT ![r] =
             IF todo'[r] # {} THEN "search"
             ELSE IF Workflow[r] = "staged" THEN "audit" ELSE "succeeded"]
        /\ pc[r] = "write" /\ Workflow[r] # "installed"
        /\ UNCHANGED <<queue, batch, acks>>
    BY <1>5 DEF WriteCanonical
  <2>3. QED
    BY <2>1, <2>2 DEF SettledInv, TypeOK
<1>6. ASSUME NEW r \in TriageRun, WriteUnmarked(r)
      PROVE  SettledInv'
  <2> DEFINE w == [run |-> r, stream |-> Unmarked, receipts |-> batch[r]]
  <2>1. ASSUME NEW x \in batch[r]
        PROVE  Recorded(x[1])'
    <3>1. x \in w.receipts /\ w \in writes'
      BY <1>6 DEF WriteUnmarked
    <3>2. QED
      BY <3>1 DEF Recorded
  <2>2. QED
    BY <1>6, <2>1 DEF SettledInv, TypeOK, WriteUnmarked, Settled
<1>7. ASSUME NEW r \in TriageRun, Audit(r)
      PROVE  SettledInv'
  <2>1. ASSUME NEW x \in acks'[r]
        PROVE  Settled(x[1])
    <3>1. x \in batch[r] /\ event[x[1]] \in Event
          /\ Disposition(event[x[1]]) # "quarantine"
      BY <1>7, <2>1 DEF Audit, With, TypeOK, Receipts
    <3>2. Disposition(event[x[1]]) \in {"actionable", "benign"}
      BY <3>1, DispositionType
    <3>3. QED
      BY <1>7, <3>1, <3>2 DEF SettledInv, Settled, Audit
  <2>2. QED
    BY <1>7, <2>1 DEF SettledInv, Audit, TypeOK
<1>8. ASSUME NEW r \in TriageRun, Acknowledge(r)
      PROVE  SettledInv'
  <2>1. PICK x \in acks[r] :
          /\ acks' = [acks EXCEPT ![r] = @ \ {x}]
          /\ \/ queue' = [queue EXCEPT ![x[1]] = "deleted"]
             \/ x[2] < receipt[x[1]] /\ UNCHANGED queue
    BY <1>8 DEF Acknowledge
  <2>2. Settled(x[1])
    BY <1>8, <2>1 DEF SettledInv, Acknowledge
  <2>3. \A m \in Message : queue'[m] = "deleted" => Settled(m)
    BY <2>1, <2>2 DEF SettledInv, TypeOK
  <2>4. QED
    BY <1>8, <2>1, <2>3 DEF SettledInv, Acknowledge, TypeOK
<1>9. ASSUME NEW m \in Message, Publish(m) \/ Reappear(m)
      PROVE  SettledInv'
  BY <1>9 DEF SettledInv, Publish, Reappear, TypeOK
<1>10. ASSUME NEW i \in DOMAIN issues, Close(i) \/ Refresh(i)
       PROVE  SettledInv'
  BY <1>10 DEF SettledInv, Close, Refresh
<1>11. CASE UNCHANGED triageVars
  BY <1>11 DEF SettledInv, triageVars
<1>12. QED
  BY <1>1, <1>2, <1>3, <1>4, <1>5, <1>6, <1>7, <1>8, <1>9, <1>10, <1>11
     DEF TriageNext, TriageStep

\* A message that is deleted is shown by an issue, or is harmless.
THEOREM NoAlertIsLost == TriageSpec => []DeletedIsRecorded
<1>1. TriageInit => TypeOK /\ SettledInv
  <2>1. TriageInit => TypeOK
    BY TypesInit
  <2>2. TriageInit => SettledInv
    BY DEF TriageInit, SettledInv
  <2>3. QED
    BY <2>1, <2>2
<1>2. TypeOK /\ SettledInv /\ [TriageNext]_triageVars => TypeOK' /\ SettledInv'
  BY TypesPreserved, SettledPreserved
<1>3. TypeOK /\ SettledInv => DeletedIsRecorded
  BY BenignIsHarmless DEF TypeOK, SettledInv, Settled, DeletedIsRecorded
<1>4. QED
  BY <1>1, <1>2, <1>3, PTL DEF TriageSpec
-----------------------------------------------------------------------------
(* One canonical issue. *)

\* A run that is about to create an issue has found that there is none, unless
\* the index lagged; nobody else creates one meanwhile.
IssueInv ==
  /\ OneOpenIssue
  /\ \A r \in TriageRun :
       pc[r] = "write" /\ Workflow[r] # "installed" /\ found[r][2] = {} =>
         found[r][1] \in blind \/ OpenIssues(found[r][1]) = {}

LEMMA IssuePreserved ==
  ASSUME TypeOK, MutexInv, IssueInv, [TriageNext]_triageVars
  PROVE  IssueInv'
<1>1. ASSUME UNCHANGED <<issues, found, blind>>,
             \A r \in TriageRun : pc'[r] = "write" /\ Workflow[r] # "installed" => pc[r] = "write"
      PROVE  IssueInv'
  BY <1>1 DEF IssueInv, OneOpenIssue, OpenIssues
<1>2. ASSUME NEW r \in TriageRun, Join(r) \/ TakeGroup(r) \/ Fail(r) \/ StopReceiving(r)
                              \/ ReceivePage(r) \/ ReceiveBatch(r) \/ Audit(r)
                              \/ Acknowledge(r) \/ Finish(r)
      PROVE  IssueInv'
  <2>1. UNCHANGED <<issues, found, blind>>
    BY <1>2 DEF Join, TakeGroup, Fail, StopReceiving, Finish, ReceivePage, ReceiveBatch,
       Audit, Acknowledge
  <2>2. \A k \in TriageRun : pc'[k] = "write" /\ Workflow[k] # "installed" => pc[k] = "write"
    BY <1>2 DEF Join, TakeGroup, Fail, StopReceiving, Finish, ReceivePage, ReceiveBatch,
       Audit, Acknowledge, TypeOK
  <2>3. QED
    BY <1>1, <2>1, <2>2
<1>3. ASSUME NEW r \in TriageRun, Search(r)
      PROVE  IssueInv'
  <2>1. PICK s \in todo[r] :
          /\ found' = [found EXCEPT ![r] = <<s, Matches(s)>>]
          /\ blind' = IF OpenIssues(s) \subseteq index THEN blind ELSE blind \cup {s}
    BY <1>3 DEF Search
  <2>2. /\ issues' = issues /\ blind \subseteq blind'
        /\ \A t : OpenIssues(t)' = OpenIssues(t)
    BY <1>3, <2>1 DEF Search, OpenIssues
  <2>3. Matches(s) = {} => s \in blind' \/ OpenIssues(s) = {}
    BY <2>1 DEF Matches, OpenIssues
  <2>4. ASSUME NEW k \in TriageRun, k # r
        PROVE  pc'[k] # "write"
    BY <1>3, <2>4 DEF Search, MutexInv, Working, TypeOK
  <2>5. found'[r] = <<s, Matches(s)>>
    BY <2>1 DEF TypeOK
  <2>6. OneOpenIssue'
    BY <2>2 DEF IssueInv, OneOpenIssue
  <2>7. QED
    BY <2>2, <2>3, <2>4, <2>5, <2>6 DEF IssueInv
<1>4. ASSUME NEW r \in TriageRun, NEW s, pc[r] = "write", pc'[r] # "write",
             \A k \in TriageRun \ {r} : pc'[k] = pc[k],
             issues' = Append(issues, [stream |-> s, open |-> TRUE]),
             s \in Stream \cup {Unmarked}, UNCHANGED <<found, blind>>,
             s \in Stream \ blind => OpenIssues(s) = {}
      PROVE  IssueInv'
  <2> DEFINE T == [stream: Stream \cup {Unmarked}, open: BOOLEAN]
             new == [stream |-> s, open |-> TRUE]
  <2>1. issues \in Seq(T) /\ new \in T
    BY <1>4 DEF TypeOK
  <2>2. \A i \in DOMAIN issues' :
          \/ i \in DOMAIN issues /\ issues'[i] = issues[i]
          \/ i = Len(issues) + 1 /\ issues'[i] = new
    BY <1>4, <2>1, AppendIssue
  <2>3. \A t \in Stream \ {s} : OpenIssues(t)' \subseteq OpenIssues(t)
    BY <2>2 DEF OpenIssues
  <2>4. s \in Stream \ blind => OpenIssues(s)' \subseteq {Len(issues) + 1}
    BY <1>4, <2>2 DEF OpenIssues
  <2>5. OneOpenIssue'
    BY <1>4, <2>3, <2>4 DEF IssueInv, OneOpenIssue
  <2>6. ASSUME NEW k \in TriageRun
        PROVE  pc'[k] # "write"
    BY <1>4 DEF MutexInv, Working
  <2>7. QED
    BY <2>5, <2>6 DEF IssueInv
<1>5. ASSUME NEW r \in TriageRun, WriteCanonical(r)
      PROVE  IssueInv'
  <2>1. /\ pc[r] = "write" /\ pc'[r] # "write"
        /\ \A k \in TriageRun \ {r} : pc'[k] = pc[k]
        /\ UNCHANGED <<found, blind>> /\ Workflow[r] # "installed"
        /\ found[r][1] \in Stream \cup {Unmarked}
    BY <1>5 DEF WriteCanonical, TypeOK
  <2>2. CASE found[r][2] # {}
    <3>1. issues' = issues
      BY <1>5, <2>2 DEF WriteCanonical
    <3>2. \A k \in TriageRun : pc'[k] = "write" => pc[k] = "write"
      BY <2>1
    <3>3. QED
      BY <1>1, <2>1, <3>1, <3>2
  <2>3. CASE found[r][2] = {}
    <3>1. issues' = Append(issues, [stream |-> found[r][1], open |-> TRUE])
      BY <1>5, <2>3 DEF WriteCanonical
    <3>2. found[r][1] \in Stream \ blind => OpenIssues(found[r][1]) = {}
      BY <2>1, <2>3 DEF IssueInv
    <3>3. QED
      BY <1>4, <2>1, <3>1, <3>2
  <2>4. QED
    BY <2>2, <2>3
<1>6. ASSUME NEW r \in TriageRun, WriteUnmarked(r)
      PROVE  IssueInv'
  <2>1. /\ pc[r] = "write" /\ pc'[r] # "write"
        /\ \A k \in TriageRun \ {r} : pc'[k] = pc[k]
        /\ UNCHANGED <<found, blind>>
        /\ issues' = Append(issues, [stream |-> Unmarked, open |-> TRUE])
    BY <1>6 DEF WriteUnmarked, TypeOK
  <2>2. QED
    BY <1>4, <2>1, StreamAssumption
<1>7. ASSUME NEW m \in Message, Publish(m) \/ Reappear(m)
      PROVE  IssueInv'
  BY <1>1, <1>7 DEF Publish, Reappear
<1>8. ASSUME NEW i \in DOMAIN issues, Close(i)
      PROVE  IssueInv'
  <2>1. \A s : OpenIssues(s)' \subseteq OpenIssues(s)
    BY <1>8, CloseIssue DEF Close, OpenIssues, TypeOK
  <2>2. QED
    BY <1>8, <2>1 DEF Close, IssueInv, OneOpenIssue
<1>9. ASSUME NEW i \in DOMAIN issues, Refresh(i)
      PROVE  IssueInv'
  BY <1>1, <1>9 DEF Refresh
<1>10. CASE UNCHANGED triageVars
  BY <1>1, <1>10 DEF triageVars
<1>11. QED
  BY <1>2, <1>3, <1>5, <1>6, <1>7, <1>8, <1>9, <1>10 DEF TriageNext, TriageStep

\* Staged runs and backfills create one open issue for a stream, unless a
\* search missed one.
THEOREM StreamHasOneIssue == TriageSpec => []OneOpenIssue
<1>1. TriageInit => TypeOK /\ MutexInv /\ IssueInv
  <2>1. TriageInit => TypeOK
    BY TypesInit
  <2>2. TriageInit => MutexInv /\ IssueInv
    BY DEF TriageInit, MutexInv, Working, IssueInv, OneOpenIssue, OpenIssues
  <2>3. QED
    BY <2>1, <2>2
<1>2. TypeOK /\ MutexInv /\ IssueInv /\ [TriageNext]_triageVars => TypeOK' /\ MutexInv' /\ IssueInv'
  BY TypesPreserved, MutexPreserved, IssuePreserved
<1>3. IssueInv => OneOpenIssue
  BY DEF IssueInv
<1>4. QED
  BY <1>1, <1>2, <1>3, PTL DEF TriageSpec
-----------------------------------------------------------------------------
(* Repetitions. *)

\* Receipts are held by runs that received; while a run is active nobody else
\* receives, so it holds the latest receipt of each of its messages, and nobody
\* else deletes.
HoldInv ==
  \A r \in TriageRun :
    /\ pc[r] \in {"idle", "queued", "displaced"} \/ Workflow[r] = "backfill" =>
         batch[r] = {}
    /\ pc[r] \in Working =>
         \A x \in batch[r] : <<x[1], receipt[x[1]]>> \in batch[r]
    /\ pc[r] \in Working \ {"acknowledge"} =>
         \A x \in batch[r] : queue[x[1]] # "deleted"

\* What a run wrote it received; when it has ended well, its messages are
\* deleted, and while it acknowledges, they are or their latest receipt is
\* still to be used.
WriteInv ==
  \A w \in writes :
    /\ w.receipts \subseteq batch[w.run]
    /\ pc[w.run] \in {"search", "write", "audit", "acknowledge", "succeeded", "failed"}
    /\ Workflow[w.run] = "staged" =>
         \A x \in w.receipts : Disposition(event[x[1]]) = "actionable"
    /\ pc[w.run] = "acknowledge" =>
         \A x \in w.receipts :
           queue[x[1]] = "deleted" \/ <<x[1], receipt[x[1]]>> \in acks[w.run]
    /\ pc[w.run] = "succeeded" =>
         \A x \in w.receipts : queue[x[1]] = "deleted"

\* A deleted message stays deleted.
LEMMA DeletedStays ==
  ASSUME TypeOK, [TriageNext]_triageVars, NEW m \in Message, queue[m] = "deleted"
  PROVE  queue'[m] = "deleted"
<1>1. ASSUME NEW r \in TriageRun, TriageStep(r)
      PROVE  queue'[m] = "deleted"
  <2>1. ASSUME NEW S \in SUBSET Visible, Take(r, S)
        PROVE  queue'[m] = "deleted"
    BY <2>1 DEF Take, Visible
  <2>2. CASE ReceivePage(r) \/ ReceiveBatch(r)
    BY <2>1, <2>2 DEF ReceivePage, ReceiveBatch
  <2>3. CASE Acknowledge(r)
    BY <2>3 DEF Acknowledge, TypeOK
  <2>4. CASE Join(r) \/ TakeGroup(r) \/ Fail(r) \/ StopReceiving(r) \/ Search(r)
             \/ WriteCanonical(r) \/ WriteUnmarked(r) \/ Audit(r) \/ Finish(r)
    BY <2>4 DEF Join, TakeGroup, Fail, StopReceiving, Search, WriteCanonical,
       WriteUnmarked, Audit, Finish
  <2>5. QED
    BY <1>1, <2>2, <2>3, <2>4 DEF TriageStep
<1>2. ASSUME NEW k \in Message, Publish(k) \/ Reappear(k)
      PROVE  queue'[m] = "deleted"
  BY <1>2 DEF Publish, Reappear, TypeOK
<1>3. ASSUME NEW i \in DOMAIN issues, Close(i) \/ Refresh(i)
      PROVE  queue'[m] = "deleted"
  BY <1>3 DEF Close, Refresh
<1>4. CASE UNCHANGED triageVars
  BY <1>4 DEF triageVars
<1>5. QED
  BY <1>1, <1>2, <1>3, <1>4 DEF TriageNext

\* A receive of an active run in the state "receive".
LEMMA HoldAfterTake ==
  ASSUME TypeOK, MutexInv, HoldInv, NEW r \in TriageRun, NEW S \in SUBSET Visible,
         Take(r, S), pc[r] = "receive", Workflow[r] # "backfill",
         \A k \in TriageRun \ {r} : pc'[k] = pc[k],
         pc'[r] \in {"receive", "succeeded", "audit", "search"}
  PROVE  HoldInv'
<1>1. /\ \A k \in TriageRun \ {r} : batch'[k] = batch[k] /\ pc[k] \notin Working
      /\ batch'[r] = batch[r] \cup {<<m, receipt[m] + 1>> : m \in S}
  BY DEF Take, MutexInv, Working, TypeOK
<1>2. /\ \A m \in Message : receipt'[m] = IF m \in S THEN receipt[m] + 1 ELSE receipt[m]
      /\ \A m \in Message : queue'[m] = IF m \in S THEN "hidden" ELSE queue[m]
  BY DEF Take
<1>3. ASSUME NEW x \in batch'[r]
      PROVE  <<x[1], receipt'[x[1]]>> \in batch'[r] /\ queue'[x[1]] # "deleted"
  <2>1. CASE x \in batch[r]
    <3>1. x[1] \in Message
      BY <2>1 DEF TypeOK, Receipts
    <3>3. <<x[1], receipt[x[1]]>> \in batch[r] /\ queue[x[1]] # "deleted"
      BY <2>1 DEF HoldInv, Working
    <3>2. QED
      BY <1>1, <1>2, <3>1, <3>3
  <2>2. CASE x \notin batch[r]
    <3>1. x[1] \in S /\ x[1] \in Message
      BY <1>1, <1>3, <2>2 DEF Visible
    <3>2. QED
      BY <1>1, <1>2, <3>1
  <2>3. QED
    BY <2>1, <2>2
<1>4. ASSUME NEW k \in TriageRun
      PROVE  /\ pc'[k] \in {"idle", "queued", "displaced"} \/ Workflow[k] = "backfill" =>
                  batch'[k] = {}
             /\ pc'[k] \in Working =>
                  \A x \in batch'[k] : <<x[1], receipt'[x[1]]>> \in batch'[k]
             /\ pc'[k] \in Working \ {"acknowledge"} =>
                  \A x \in batch'[k] : queue'[x[1]] # "deleted"
  <2>1. CASE k = r
    BY <1>3, <2>1
  <2>2. CASE k # r
    BY <1>1, <2>2 DEF HoldInv
  <2>3. QED
    BY <2>1, <2>2
<1>5. QED
  BY <1>4 DEF HoldInv

LEMMA HoldPreserved ==
  ASSUME TypeOK, MutexInv, HoldInv, [TriageNext]_triageVars
  PROVE  HoldInv'
<1>1. ASSUME UNCHANGED <<batch, receipt>>,
             \A m \in Message : queue'[m] = "deleted" => queue[m] = "deleted",
             \A r \in TriageRun : /\ pc'[r] \in Working => pc[r] \in Working \/ pc[r] = "queued"
                                  /\ pc'[r] \in {"idle", "queued", "displaced"} =>
                                       pc[r] \in {"idle", "queued"} \/ pc[r] = pc'[r]
                                  /\ pc[r] = "acknowledge" => pc'[r] \notin Working \ {"acknowledge"}
      PROVE  HoldInv'
  <2> SUFFICES ASSUME NEW r \in TriageRun
               PROVE  /\ pc'[r] \in {"idle", "queued", "displaced"}
                           \/ Workflow[r] = "backfill" => batch[r] = {}
                      /\ pc'[r] \in Working =>
                           \A x \in batch[r] : <<x[1], receipt[x[1]]>> \in batch[r]
                      /\ pc'[r] \in Working \ {"acknowledge"} =>
                           \A x \in batch[r] : queue'[x[1]] # "deleted"
    BY <1>1 DEF HoldInv
  <2>1. \A x \in batch[r] : x[1] \in Message
    BY DEF TypeOK, Receipts
  <2>2. pc[r] = "queued" => batch[r] = {}
    BY DEF HoldInv
  <2>3. QED
    BY <1>1, <2>1, <2>2 DEF HoldInv
<1>2. ASSUME NEW r \in TriageRun, Join(r) \/ TakeGroup(r) \/ Fail(r) \/ StopReceiving(r)
                              \/ Search(r) \/ WriteCanonical(r) \/ WriteUnmarked(r)
                              \/ Audit(r) \/ Finish(r)
      PROVE  HoldInv'
  <2>1. UNCHANGED <<batch, receipt, queue>>
    BY <1>2 DEF Join, TakeGroup, Fail, StopReceiving, Search, WriteCanonical,
       WriteUnmarked, Audit, Finish
  <2>2. ASSUME NEW k \in TriageRun
        PROVE  /\ pc'[k] \in Working => pc[k] \in Working \/ pc[k] = "queued"
               /\ pc'[k] \in {"idle", "queued", "displaced"} =>
                    pc[k] \in {"idle", "queued"} \/ pc[k] = pc'[k]
               /\ pc[k] = "acknowledge" => pc'[k] \notin Working \ {"acknowledge"}
    BY <1>2 DEF Join, TakeGroup, Fail, StopReceiving, Search, WriteCanonical,
       WriteUnmarked, Audit, Finish, TypeOK, Working
  <2>3. QED
    BY <1>1, <2>1, <2>2
<1>3. ASSUME NEW r \in TriageRun, ReceivePage(r)
      PROVE  HoldInv'
  BY <1>3, HoldAfterTake DEF ReceivePage
<1>4. ASSUME NEW r \in TriageRun, ReceiveBatch(r)
      PROVE  HoldInv'
  <2>1. PICK S \in SUBSET Visible :
          /\ Take(r, S)
          /\ Goto(r, IF S = {} THEN "succeeded"
                     ELSE IF todo'[r] = {} THEN "audit" ELSE "search")
    BY <1>4 DEF ReceiveBatch
  <2>2. /\ pc'[r] \in {"receive", "succeeded", "audit", "search"}
        /\ \A k \in TriageRun \ {r} : pc'[k] = pc[k]
    BY <2>1 DEF TypeOK
  <2>3. QED
    BY <1>4, <2>1, <2>2, HoldAfterTake DEF ReceiveBatch
<1>5. ASSUME NEW r \in TriageRun, Acknowledge(r)
      PROVE  HoldInv'
  <2>1. UNCHANGED <<batch, receipt, pc>> /\ pc[r] = "acknowledge"
    BY <1>5 DEF Acknowledge
  <2>2. \A k \in TriageRun : pc[k] \notin Working \ {"acknowledge"}
    BY <2>1 DEF MutexInv, Working
  <2>3. QED
    BY <2>1, <2>2 DEF HoldInv
<1>6. ASSUME NEW m \in Message, Publish(m) \/ Reappear(m)
      PROVE  HoldInv'
  BY <1>1, <1>6 DEF Publish, Reappear, TypeOK
<1>7. ASSUME NEW i \in DOMAIN issues, Close(i) \/ Refresh(i)
      PROVE  HoldInv'
  BY <1>1, <1>7 DEF Close, Refresh
<1>8. CASE UNCHANGED triageVars
  BY <1>1, <1>8 DEF triageVars
<1>9. QED
  BY <1>2, <1>3, <1>4, <1>5, <1>6, <1>7, <1>8 DEF TriageNext, TriageStep
\* A step without a write, a receive or a deletion.
LEMMA WriteKept ==
  ASSUME TypeOK, WriteInv, [TriageNext]_triageVars, UNCHANGED <<writes, event, batch, receipt>>,
         \A w \in writes :
           /\ pc'[w.run] = pc[w.run] \/ pc'[w.run] \in {"search", "write", "audit", "failed"}
           /\ acks'[w.run] = acks[w.run]
  PROVE  WriteInv'
<1>1. \A w \in writes : \A x \in w.receipts : x[1] \in Message
  BY DEF TypeOK, Receipts
<1>2. \A m \in Message : queue[m] = "deleted" => queue'[m] = "deleted"
  BY DeletedStays
<1>3. QED
  BY <1>1, <1>2 DEF WriteInv

\* Receiving leaves the runs that have written alone.
LEMMA WriteKeptByTake ==
  ASSUME TypeOK, MutexInv, WriteInv, [TriageNext]_triageVars, NEW r \in TriageRun, NEW S \in SUBSET Visible,
         Take(r, S), pc[r] = "receive", UNCHANGED <<writes, event, acks>>,
         \A k \in TriageRun \ {r} : pc'[k] = pc[k]
  PROVE  WriteInv'
<1>1. ASSUME NEW w \in writes
      PROVE  /\ w.run \in TriageRun \ {r} /\ pc[w.run] # "acknowledge"
             /\ batch'[w.run] = batch[w.run]
             /\ \A x \in w.receipts : x[1] \in Message
  BY <1>1 DEF WriteInv, MutexInv, Working, Take, TypeOK, Receipts
<1>2. \A m \in Message : queue[m] = "deleted" => queue'[m] = "deleted"
  BY DeletedStays
<1>3. QED
  BY <1>1, <1>2 DEF WriteInv

LEMMA WritePreserved ==
  ASSUME TypeOK, MutexInv, SettledInv, HoldInv, WriteInv, [TriageNext]_triageVars
  PROVE  WriteInv'
<1>1. ASSUME NEW r \in TriageRun, Join(r) \/ TakeGroup(r) \/ Fail(r) \/ StopReceiving(r)
                              \/ Search(r)
      PROVE  WriteInv'
  <2>1. UNCHANGED <<writes, event, batch, receipt, acks>>
    BY <1>1 DEF Join, TakeGroup, Fail, StopReceiving, Search
  <2>2. ASSUME NEW w \in writes
        PROVE  pc'[w.run] = pc[w.run] \/ pc'[w.run] \in {"search", "write", "audit", "failed"}
    BY <1>1 DEF Join, TakeGroup, Fail, StopReceiving, Search, WriteInv, TypeOK
  <2>3. QED
    BY <2>1, <2>2, WriteKept
<1>2. ASSUME NEW r \in TriageRun, ReceivePage(r) \/ ReceiveBatch(r)
      PROVE  WriteInv'
  <2>1. PICK S \in SUBSET Visible : Take(r, S)
    BY <1>2 DEF ReceivePage, ReceiveBatch
  <2>2. /\ pc[r] = "receive" /\ UNCHANGED <<writes, event, acks>>
        /\ \A k \in TriageRun \ {r} : pc'[k] = pc[k]
    BY <1>2 DEF ReceivePage, ReceiveBatch, TypeOK
  <2>3. QED
    BY <2>1, <2>2, WriteKeptByTake
<1>3. ASSUME NEW r \in TriageRun, WriteCanonical(r)
      PROVE  WriteInv'
  <2> DEFINE new == [run |-> r, stream |-> found[r][1], receipts |-> Group(r, found[r][1])]
  <2>1. /\ writes' = writes \cup {new} /\ UNCHANGED <<queue, event, batch, receipt, acks>>
        /\ pc[r] = "write" /\ Workflow[r] # "installed"
        /\ \A k \in TriageRun \ {r} : pc'[k] = pc[k]
        /\ pc'[r] = IF todo'[r] # {} THEN "search"
                    ELSE IF Workflow[r] = "staged" THEN "audit" ELSE "succeeded"
    BY <1>3 DEF WriteCanonical, TypeOK
  <2>2. /\ new.run = r /\ new.receipts \subseteq batch[r]
        /\ \A x \in new.receipts : Disposition(event[x[1]]) = "actionable"
    BY DEF Group, With
  <2>3. Workflow[r] # "staged" => batch[r] = {}
    BY <2>1, WorkflowAssumption DEF HoldInv
  <2>4. ASSUME NEW w \in writes'
        PROVE  /\ w.receipts \subseteq batch[w.run]
               /\ pc'[w.run] \in {"search", "write", "audit", "acknowledge",
                                  "succeeded", "failed"}
               /\ Workflow[w.run] = "staged" =>
                    \A x \in w.receipts : Disposition(event[x[1]]) = "actionable"
               /\ pc'[w.run] = "acknowledge" =>
                    \A x \in w.receipts :
                      queue[x[1]] = "deleted" \/ <<x[1], receipt[x[1]]>> \in acks[w.run]
               /\ pc'[w.run] = "succeeded" =>
                    \A x \in w.receipts : queue[x[1]] = "deleted"
    <3>1. CASE w = new
      BY <2>1, <2>2, <2>3, <3>1
    <3>2. CASE w \in writes /\ w.run = r
      BY <2>1, <2>3, <3>2 DEF WriteInv
    <3>3. CASE w \in writes /\ w.run # r
      <4>1. w.run \in TriageRun \ {r}
        BY <3>3 DEF TypeOK
      <4>2. QED
        BY <2>1, <3>3, <4>1 DEF WriteInv
    <3>4. QED
      BY <2>1, <3>1, <3>2, <3>3
  <2>5. \A e : Disposition(e)' = Disposition(e)
    BY DEF Disposition, DetailDisposition
  <2>6. QED
    BY <2>1, <2>4, <2>5 DEF WriteInv
<1>4. ASSUME NEW r \in TriageRun, WriteUnmarked(r)
      PROVE  WriteInv'
  <2> DEFINE new == [run |-> r, stream |-> Unmarked, receipts |-> batch[r]]
  <2>1. /\ writes' = writes \cup {new} /\ UNCHANGED <<queue, event, batch, receipt>>
        /\ pc[r] = "write" /\ Workflow[r] = "installed"
        /\ \A k \in TriageRun \ {r} : pc'[k] = pc[k] /\ acks'[k] = acks[k]
        /\ pc'[r] = "acknowledge" /\ acks'[r] = batch[r]
    BY <1>4 DEF WriteUnmarked, TypeOK
  <2>2. \A x \in batch[r] : <<x[1], receipt[x[1]]>> \in batch[r]
    BY <2>1 DEF HoldInv, Working
  <2>3. ASSUME NEW w \in writes'
        PROVE  /\ w.receipts \subseteq batch[w.run]
               /\ pc'[w.run] \in {"search", "write", "audit", "acknowledge",
                                  "succeeded", "failed"}
               /\ Workflow[w.run] = "staged" =>
                    \A x \in w.receipts : Disposition(event[x[1]]) = "actionable"
               /\ pc'[w.run] = "acknowledge" =>
                    \A x \in w.receipts :
                      queue[x[1]] = "deleted" \/ <<x[1], receipt[x[1]]>> \in acks'[w.run]
               /\ pc'[w.run] = "succeeded" =>
                    \A x \in w.receipts : queue[x[1]] = "deleted"
    <3>1. CASE w.run = r
      <4>1. w.receipts \subseteq batch[r]
        BY <2>1, <3>1 DEF WriteInv
      <4>2. QED
        BY <2>1, <2>2, <3>1, <4>1
    <3>2. CASE w.run # r
      <4>1. w \in writes /\ w.run \in TriageRun \ {r}
        BY <2>1, <3>2 DEF TypeOK
      <4>2. QED
        BY <2>1, <4>1 DEF WriteInv
    <3>3. QED
      BY <3>1, <3>2
  <2>4. \A e : Disposition(e)' = Disposition(e)
    BY DEF Disposition, DetailDisposition
  <2>5. QED
    BY <2>1, <2>3, <2>4 DEF WriteInv
<1>5. ASSUME NEW r \in TriageRun, Audit(r)
      PROVE  WriteInv'
  <2>1. /\ UNCHANGED <<queue, event, batch, receipt, writes>> /\ pc[r] = "audit"
        /\ \A k \in TriageRun \ {r} : pc'[k] = pc[k] /\ acks'[k] = acks[k]
        /\ pc'[r] = "acknowledge"
        /\ acks'[r] = batch[r] \ With(batch[r], "quarantine")
        /\ Workflow[r] = "staged"
    BY <1>5 DEF Audit, TypeOK, SettledInv
  <2>2. \A x \in batch[r] : <<x[1], receipt[x[1]]>> \in batch[r]
    BY <2>1 DEF HoldInv, Working
  <2>3. ASSUME NEW w \in writes, w.run = r, NEW x \in w.receipts
        PROVE  <<x[1], receipt[x[1]]>> \in acks'[r]
    <3>1. x \in batch[r] /\ Disposition(event[x[1]]) = "actionable"
      BY <2>1, <2>3 DEF WriteInv
    <3>2. QED
      BY <2>1, <2>2, <3>1 DEF With
  <2>4. \A e : Disposition(e)' = Disposition(e)
    BY DEF Disposition, DetailDisposition
  <2>5. \A w \in writes : w.run \in TriageRun
    BY DEF TypeOK
  <2>6. QED
    BY <2>1, <2>3, <2>4, <2>5 DEF WriteInv
<1>6. ASSUME NEW r \in TriageRun, Acknowledge(r)
      PROVE  WriteInv'
  <2>1. PICK x \in acks[r] :
          /\ acks' = [acks EXCEPT ![r] = @ \ {x}]
          /\ \/ queue' = [queue EXCEPT ![x[1]] = "deleted"]
             \/ x[2] < receipt[x[1]] /\ UNCHANGED queue
    BY <1>6 DEF Acknowledge
  <2>2. UNCHANGED <<event, batch, receipt, writes, pc>>
    BY <1>6 DEF Acknowledge
  <2>3. \A m \in Message : queue[m] = "deleted" => queue'[m] = "deleted"
    BY DeletedStays
  <2>4. x \in Message \X (1..MaxReceipt) /\ x = <<x[1], x[2]>> /\ receipt[x[1]] \in Nat
    BY <2>1, BoundAssumption DEF TypeOK, Receipts
  <2>5. queue'[x[1]] = "deleted" \/ x # <<x[1], receipt[x[1]]>>
    BY <2>1, <2>4 DEF TypeOK
  <2>6. ASSUME NEW w \in writes, NEW y \in w.receipts, pc[w.run] = "acknowledge"
        PROVE  queue'[y[1]] = "deleted" \/ <<y[1], receipt[y[1]]>> \in acks'[w.run]
    <3>1. y[1] \in Message /\ w.run \in TriageRun
      BY DEF TypeOK, Receipts
    <3>2. queue[y[1]] = "deleted" \/ <<y[1], receipt[y[1]]>> \in acks[w.run]
      BY <2>6 DEF WriteInv
    <3>3. CASE <<y[1], receipt[y[1]]>> = x
      BY <2>5, <3>3
    <3>4. CASE <<y[1], receipt[y[1]]>> # x
      BY <2>1, <2>3, <3>1, <3>2, <3>4 DEF TypeOK
    <3>5. QED
      BY <3>3, <3>4
  <2>7. ASSUME NEW w \in writes, NEW y \in w.receipts, pc[w.run] = "succeeded"
        PROVE  queue'[y[1]] = "deleted"
    BY <2>3, <2>7 DEF WriteInv, TypeOK, Receipts
  <2>8. \A e : Disposition(e)' = Disposition(e)
    BY DEF Disposition, DetailDisposition
  <2>9. QED
    BY <2>2, <2>6, <2>7, <2>8 DEF WriteInv
<1>7. ASSUME NEW r \in TriageRun, Finish(r)
      PROVE  WriteInv'
  <2>1. /\ UNCHANGED <<queue, event, batch, receipt, writes, acks>>
        /\ pc[r] = "acknowledge" /\ acks[r] = {} /\ pc'[r] \in {"failed", "succeeded"}
        /\ \A k \in TriageRun \ {r} : pc'[k] = pc[k]
    BY <1>7 DEF Finish, TypeOK
  <2>2. \A w \in writes : w.run = r => \A x \in w.receipts : queue[x[1]] = "deleted"
    BY <2>1 DEF WriteInv
  <2>3. \A e : Disposition(e)' = Disposition(e)
    BY DEF Disposition, DetailDisposition
  <2>4. \A w \in writes : w.run \in TriageRun
    BY DEF TypeOK
  <2>5. QED
    BY <2>1, <2>2, <2>3, <2>4 DEF WriteInv
<1>8. ASSUME NEW m \in Message, Publish(m) \/ Reappear(m)
      PROVE  WriteInv'
  BY <1>8, WriteKept DEF Publish, Reappear
<1>9. ASSUME NEW i \in DOMAIN issues, Close(i) \/ Refresh(i)
      PROVE  WriteInv'
  BY <1>9, WriteKept DEF Close, Refresh
<1>10. CASE UNCHANGED triageVars
  BY <1>10, WriteKept DEF triageVars
<1>11. QED
  BY <1>1, <1>2, <1>3, <1>4, <1>5, <1>6, <1>7, <1>8, <1>9, <1>10 DEF TriageNext, TriageStep
\* A run that writes holds messages that are not deleted; a run that wrote one of
\* them before is not active, and has not ended well.
LEMMA EarlierWriterFailed ==
  ASSUME TypeOK, MutexInv, HoldInv, WriteInv,
         NEW r \in TriageRun, pc[r] = "write", NEW w \in writes, w.run # r,
         NEW x \in w.receipts, NEW y \in batch[r], x[1] = y[1]
  PROVE  pc[w.run] = "failed"
<1>1. w.run \in TriageRun /\ pc[w.run] \notin Working
  BY DEF TypeOK, MutexInv, Working
<1>2. queue[x[1]] # "deleted"
  BY DEF HoldInv, Working
<1>3. QED
  BY <1>1, <1>2 DEF WriteInv, Working

LEMMA RepeatPreserved ==
  ASSUME TypeOK, MutexInv, HoldInv, WriteInv, RepeatedAfterFailure, [TriageNext]_triageVars
  PROVE  RepeatedAfterFailure'
<1>1. \A k \in TriageRun : pc[k] = "failed" => pc'[k] = "failed"
  <2>1. ASSUME NEW k \in TriageRun, pc[k] = "failed", NEW r \in TriageRun, TriageStep(r)
        PROVE  pc'[k] = "failed"
    BY <2>1 DEF TriageStep, Join, TakeGroup, Fail, StopReceiving, Finish, ReceivePage, ReceiveBatch,
       Search, WriteCanonical, WriteUnmarked, Audit, Acknowledge, TypeOK, Working
  <2>2. ASSUME NEW m \in Message, Publish(m) \/ Reappear(m)
        PROVE  UNCHANGED pc
    BY <2>2 DEF Publish, Reappear
  <2>3. ASSUME NEW i \in DOMAIN issues, Close(i) \/ Refresh(i)
        PROVE  UNCHANGED pc
    BY <2>3 DEF Close, Refresh
  <2>4. QED
    BY <2>1, <2>2, <2>3 DEF TriageNext, triageVars
<1>2. \A w \in writes : w.run \in TriageRun
  BY DEF TypeOK
<1>3. ASSUME writes' = writes
      PROVE  RepeatedAfterFailure'
  BY <1>1, <1>2, <1>3 DEF RepeatedAfterFailure
<1>4. ASSUME NEW r \in TriageRun, NEW new, pc[r] = "write", new.run = r,
             new.receipts \subseteq batch[r], writes' = writes \cup {new}
      PROVE  RepeatedAfterFailure'
  <2>1. ASSUME NEW w \in writes, w.run # r, NEW x \in w.receipts, NEW y \in new.receipts,
               x[1] = y[1]
        PROVE  pc'[w.run] = "failed"
    BY <1>1, <1>2, <1>4, <2>1, EarlierWriterFailed
  <2>2. ASSUME NEW v \in writes', NEW w \in writes', v.run # w.run,
               NEW x \in v.receipts, NEW y \in w.receipts, x[1] = y[1]
        PROVE  pc'[v.run] = "failed" \/ pc'[w.run] = "failed"
    <3>1. CASE v \in writes /\ w \in writes
      BY <1>1, <1>2, <2>2, <3>1 DEF RepeatedAfterFailure
    <3>2. CASE v = new \/ w = new
      BY <1>4, <2>1, <2>2, <3>2
    <3>3. QED
      BY <1>4, <3>1, <3>2
  <2>3. QED
    BY <2>2 DEF RepeatedAfterFailure
<1>5. ASSUME NEW r \in TriageRun, WriteCanonical(r)
      PROVE  RepeatedAfterFailure'
  <2> DEFINE new == [run |-> r, stream |-> found[r][1], receipts |-> Group(r, found[r][1])]
  <2>1. writes' = writes \cup {new} /\ pc[r] = "write"
    BY <1>5 DEF WriteCanonical
  <2>2. new.run = r /\ new.receipts \subseteq batch[r]
    BY DEF Group, With
  <2>3. QED
    BY <1>4, <2>1, <2>2
<1>6. ASSUME NEW r \in TriageRun, WriteUnmarked(r)
      PROVE  RepeatedAfterFailure'
  <2> DEFINE new == [run |-> r, stream |-> Unmarked, receipts |-> batch[r]]
  <2>1. writes' = writes \cup {new} /\ pc[r] = "write"
    BY <1>6 DEF WriteUnmarked
  <2>2. new.run = r /\ new.receipts \subseteq batch[r]
    OBVIOUS
  <2>3. QED
    BY <1>4, <2>1, <2>2
<1>7. writes' = writes \/ \E r \in TriageRun : WriteCanonical(r) \/ WriteUnmarked(r)
  BY DEF TriageNext, TriageStep, Join, TakeGroup, Fail, StopReceiving, Finish, ReceivePage,
     ReceiveBatch, Search, Audit, Acknowledge, Publish, Reappear, Close, Refresh, triageVars
<1>8. QED
  BY <1>3, <1>5, <1>6, <1>7

\* Of the runs that wrote a message, at most one has not failed.
THEOREM RepetitionMeansFailure == TriageSpec => []RepeatedAfterFailure
<1> DEFINE Inv == TypeOK /\ MutexInv /\ SettledInv /\ HoldInv /\ WriteInv
                  /\ RepeatedAfterFailure
<1>1. TriageInit => Inv
  <2>1. TriageInit => TypeOK
    BY TypesInit
  <2>2. TriageInit => MutexInv /\ SettledInv /\ HoldInv /\ WriteInv /\ RepeatedAfterFailure
    BY DEF TriageInit, MutexInv, Working, SettledInv, HoldInv, WriteInv, RepeatedAfterFailure
  <2>3. QED
    BY <2>1, <2>2
<1>2. Inv /\ [TriageNext]_triageVars => Inv'
  BY TypesPreserved, MutexPreserved, SettledPreserved, HoldPreserved, WritePreserved,
     RepeatPreserved
<1>3. Inv => RepeatedAfterFailure
  OBVIOUS
<1>4. QED
  BY <1>1, <1>2, <1>3, PTL DEF TriageSpec
=============================================================================
