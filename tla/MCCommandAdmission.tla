------------------------- MODULE MCCommandAdmission -------------------------
(***************************************************************************)
(* Instances of CommandAdmission for TLC: two pull requests that share a   *)
(* head, a head whose listing is cut off and has an unclassified file, and *)
(* the reviewed comparison.                                                *)
(***************************************************************************)
EXTENDS CommandAdmission, TLC

CONSTANTS p1, p2, c1, m1, m2, h1, h2, h3

Paths == {"app", "doc", "shared", "new"}

Classes == "app" :> "platform" @@ "doc" :> "document" @@ "shared" :> "shared"
             @@ "new" :> "unknown"

Content(app, doc, shared, new) ==
  "app" :> app @@ "doc" :> doc @@ "shared" :> shared @@ "new" :> new

\* h1 moves the platform program into the documentation, h2 changes shared code
\* and a document, and h3 adds a file of no class to that.
Trees ==
  m1 :> Content(1, Missing, 1, Missing)
    @@ m2 :> Content(2, Missing, 1, Missing)
    @@ h1 :> Content(Missing, 1, 1, Missing)
    @@ h2 :> Content(1, 2, 2, Missing)
    @@ h3 :> Content(1, 2, 2, 1)

MergeBases == [x \in Commit \X Commit |-> m1]

Up   == [action |-> "up", target |-> "prod"]
Plan == [action |-> "plan", target |-> "test"]
Operations == {Up, Plan}
Commands == {<<"writer", Up>>, <<"writer", Plan>>, <<"owner", Up>>}

Heads == p1 :> h1 @@ p2 :> h1
Pulls == [c \in Comment |-> p1]
=============================================================================
