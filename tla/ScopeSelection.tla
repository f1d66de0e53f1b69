--------------------------- MODULE ScopeSelection ---------------------------
(***************************************************************************)
(* Which stacks and validations a set of changed files selects             *)
(* (deployment_scopes.py), and GitHub's comparison of two commits that     *)
(* the selection is computed from.  Pure definitions: no state.            *)
(*                                                                         *)
(* A path stands for its class: the list of the source that names it.  The *)
(* lists overlap as in the source (the README of the policy project is     *)
(* documentation and a policy file), so that the order in which they are   *)
(* consulted matters.                                                      *)
(***************************************************************************)
EXTENDS FiniteSets, Naturals

CONSTANTS
  Path,        \* paths of the repository
  ClassOf,     \* the class of each path
  Commit,      \* commits of the repository
  Tree,        \* the content of each path in each commit
  Missing,     \* the content of a path a commit does not have
  MergeBase,   \* the merge base of two commits
  ListLimit,   \* files GitHub lists in one comparison, 300
  TrustBase, TrustHead, TrustPaths, TrustPath  \* the reviewed comparison

Stack == {"operator", "governance", "platform"}

\* Lists of the source by class.  "runner" is a file of the central execution
\* list only, "copied" one of the scaffold list only, "copied_runner" is in
\* both; policy files are in both by their prefix.
ScaffoldInput    == {"scaffold"}
ScaffoldRuntime  == {"copied", "copied_runner", "policy", "policy_readme"}
CentralExecution ==
  {"runner", "catalog_runner", "copied_runner", "policy", "policy_readme"}
Documentation    == {"document", "policy_readme"}
ValidationOnly   == {"security_workflow"}
SharedRuntime    == {"shared", "governance_catalog"}
Catalog == {"governance_catalog", "bootstrap_catalog", "catalog_schema"}
Class == ScaffoldInput \cup ScaffoldRuntime \cup CentralExecution
           \cup Documentation \cup ValidationOnly \cup SharedRuntime \cup Catalog
           \cup Stack \cup {"unknown"}

ASSUME PathAssumption == ClassOf \in [Path -> Class]
ASSUME CommitAssumption ==
  /\ \A c \in Commit : DOMAIN Tree[c] = Path
  /\ MergeBase \in [Commit \X Commit -> Commit]
  /\ ListLimit \in Nat

Classified(p) == ClassOf[p] # "unknown"

\* The projects select their own stack, shared runtime code all of them.
CentralImpact(c) ==
  IF c \in SharedRuntime THEN Stack
  ELSE IF c = "bootstrap_catalog" THEN {"operator", "platform"}
  ELSE Stack \cap {c}

\* The scaffold and the documentation are consulted before the runner.
PathStacks(c) ==
  IF c \in ScaffoldInput \cup Documentation THEN {}
  ELSE IF c \in CentralExecution THEN Stack
  ELSE CentralImpact(c)

PathValidations(c) ==
  {v \in {"scaffold", "execution", "catalog"} :
    \/ v = "scaffold" /\ c \in ScaffoldInput \cup ScaffoldRuntime
    \/ /\ v = "execution"
       /\ c \in (CentralExecution \cup ScaffoldRuntime \cup ValidationOnly)
                  \ Documentation
    \/ v = "catalog" /\ c \in Catalog \cup {"catalog_runner"}}

(***************************************************************************)
(* GitHub's comparison: the files that differ from the merge base.  A file *)
(* that vanished and one that appeared with the same content are one       *)
(* renamed file.                                                           *)
(***************************************************************************)
Touched(b, h) ==
  {p \in Path : Tree[MergeBase[<<b, h>>]][p] # Tree[h][p]}

Source(b, h, p) ==
  LET old == Tree[MergeBase[<<b, h>>]]
      new == Tree[h]
  IN  IF old[p] # Missing THEN {}
      ELSE {q \in Touched(b, h) : new[q] = Missing /\ old[q] = new[p]}

\* The reviewed comparison adds and modifies files, it renames none
\* (test_exact_reviewed_pr276_comparison_selects_governance_only), so that it
\* has a record for each of its paths; a repository has finitely many paths.
ASSUME CutoverAssumption ==
  /\ IsFiniteSet(Path)
  /\ \A p \in Touched(TrustBase, TrustHead) : Source(TrustBase, TrustHead, p) = {}

Compare(b, h) ==
  LET old == Tree[MergeBase[<<b, h>>]]
      new == Tree[h]
      moved == {p \in Touched(b, h) : Source(b, h, p) # {}}
      Status(p) == IF p \in moved THEN "renamed"
                   ELSE IF old[p] = Missing THEN "added"
                   ELSE IF new[p] = Missing THEN "removed" ELSE "modified"
  IN  {[filename |-> p, status |-> Status(p), previous |-> Source(b, h, p)] :
         p \in Touched(b, h) \ UNION {Source(b, h, q) : q \in moved}}

\* The comparison lists at most ListLimit files; which ones is not specified.
Listings(b, h) ==
  IF Cardinality(Compare(b, h)) <= ListLimit THEN {Compare(b, h)}
  ELSE {l \in SUBSET Compare(b, h) : Cardinality(l) = ListLimit}

\* Mutant: the source of a rename is dropped.
RecordDestination(r) == {r.filename}

\* The source of a rename or copy is a changed path as well.
RecordPaths(r) == {r.filename} \cup r.previous

\* A complete, nonempty snapshot of two revisions: one record per file.
SnapshotValid(records, base, head, count) ==
  /\ base # head
  /\ count > 0
  /\ Cardinality(records) = count
  /\ \A r, s \in records : r.filename = s.filename => r = s
  /\ \A r \in records : r.filename \notin r.previous

SnapshotPaths(records) == UNION {RecordPaths(r) : r \in records}

\* The one reviewed comparison whose shared file selects governance only.
ReviewedCutover(paths, base, head, count) ==
  /\ base = TrustBase
  /\ head = TrustHead
  /\ count = Cardinality(TrustPaths)
  /\ paths = TrustPaths

\* Mutant: all paths are recorded, the destinations are classified.
SelectDestinations(records, base, head, count) ==
  LET paths == SnapshotPaths(records)
      classes == {ClassOf[r.filename] : r \in records}
  IN  IF SnapshotValid(records, base, head, count)
         /\ \A p \in paths : Classified(p)
      THEN {[stacks |-> UNION {PathStacks(c) : c \in classes},
             validations |-> UNION {PathValidations(c) : c \in classes},
             paths |-> paths]}
      ELSE {}

\* The selection, or an empty set of selections when the snapshot is refused.
SelectScopes(records, base, head, count) ==
  LET paths == SnapshotPaths(records)
      Stacks(p) ==
        IF p = TrustPath /\ ReviewedCutover(paths, base, head, count)
        THEN {"governance"} ELSE PathStacks(ClassOf[p])
      Validations(p) ==
        IF p = TrustPath /\ ReviewedCutover(paths, base, head, count)
        THEN {} ELSE PathValidations(ClassOf[p])
  IN  IF SnapshotValid(records, base, head, count)
         /\ \A p \in paths : Classified(p)
      THEN {[stacks |-> UNION {Stacks(p) : p \in paths},
             validations |-> UNION {Validations(p) : p \in paths},
             paths |-> paths]}
      ELSE {}
=============================================================================
