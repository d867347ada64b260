------------------------------- MODULE Mirror -------------------------------
(***************************************************************************)
(* What of a workspace goes where in a task's tree.  Walk finds the        *)
(* repositories down to a depth; PlanFor decides for each entry whether it *)
(* becomes a worktree, a link or a copy; Preflight's walk and git decide   *)
(* later what in the tree is whose.  A workspace is a function from paths  *)
(* to kinds, a path a sequence of names.                                   *)
(***************************************************************************)
EXTENDS Integers, SequencesExt

CONSTANTS
  Paths,        \* the paths a workspace or a tree may have something at
  Regenerable,  \* those whose name says that a tool makes them again
  Ignored,      \* those the repositories' ignore rules match by name
  Target,       \* where the workspace's symlinks lead to
  MaxDepth      \* how deep Walk looks for a repository

ASSUME PathsAssumption ==
  \A p \in Paths : /\ p \in Seq(STRING) /\ p # <<>>
                   /\ Len(p) > 1 => Front(p) \in Paths
ASSUME NamesAssumption == Regenerable \cup Ignored \cup {Target} \subseteq Paths
ASSUME DepthAssumption == MaxDepth \in Nat

\* A "checkout" has a .git file, a linked worktree's; a "repo" a .git
\* directory; a "big" file is over MaxCopyBytes; an "alias" is a symlink.
Kinds == {"none", "dir", "repo", "checkout", "file", "big", "alias"}
Folders == {"dir", "repo", "checkout"}

Below(p, q) == IsStrictPrefix(q, p)
Within(p, q) == IsPrefix(q, p)

\* Something stands only where there is a directory to hold it.
Standing(ws, p) == \A q \in Paths : Below(p, q) => ws[q] \in Folders
Workspaces ==
  {ws \in [Paths -> Kinds] :
     \A p \in Paths : ws[p] # "none" => Standing(ws, p)}

-----------------------------------------------------------------------------
(* Discovery.                                                              *)

\* The repositories whose marker Walk comes to.
Discovered(ws) == {p \in Paths : ws[p] = "repo" /\ Len(p) <= MaxDepth}

\* markNested, classify: one inside another does not count as a repository.
Nested(found) == {p \in found : \E q \in found : Below(p, q)}
Repositories(ws) == Discovered(ws) \ Nested(Discovered(ws))

\* (mutant) a symlink is not resolved before one looks below it.
Hides_Unresolved(ws, p) ==
  ws[p] \in Folders /\
  \E q \in Paths : Within(q, p) /\ ws[q] \in {"repo", "checkout"}

\* findNestedRepo, below where a symlink leads if p is one.
Hides(ws, p) ==
  LET top == IF ws[p] = "alias" THEN Target ELSE p
  IN ws[top] \in Folders /\
     \E q \in Paths : Within(q, top) /\ ws[q] \in {"repo", "checkout"}

-----------------------------------------------------------------------------
(* The plan.                                                               *)

\* (mutant) directories on the way to a worktree only.
Ancestors_OfWorktrees(repos, selected) ==
  {d \in Paths : \E r \in selected : Below(r, d)}

\* Directories on the way to something placed stay real directories.
Ancestors(repos, selected) == {d \in Paths : \E r \in repos : Below(r, d)}

\* planDir: what stands beside the ancestors, and is neither an ancestor nor
\* a repository.
Leaves(ws, repos, selected) ==
  LET way == Ancestors(repos, selected)
  IN {p \in Paths \ (repos \cup way) :
        ws[p] # "none" /\ (Len(p) = 1 \/ Front(p) \in way)}

\* An ancestor that is no directory any more cannot be read.
Unreadable(ws, repos, selected) ==
  \E d \in Ancestors(repos, selected) :
    ws[d] \notin Folders \cup {"none"} /\ Standing(ws, d)

\* strays: the .git file of an ancestor is a loose file like any other.
PlanFor(ws, repos, selected) ==
  LET leaves == Leaves(ws, repos, selected)
  IN [backFill |-> repos \ selected,
      linkDirs |-> {p \in leaves : ws[p] # "file"},
      copyFiles |-> {p \in leaves \ Regenerable : ws[p] = "file"},
      strays |-> {d \in Ancestors(repos, selected) : ws[d] = "checkout"}]

\* carry.Plan: files the developer's checkouts ignore (all of them are named
\* in .wktinclude).
RuledOut(p, r) == \E q \in Ignored : Below(q, r) /\ Within(p, q)
CarryPlan(ws, selected) ==
  {p \in Paths : ws[p] \in {"file", "big"} /\
                 \E r \in selected : Below(p, r) /\ RuledOut(p, r)}

-----------------------------------------------------------------------------
(* What the records about a tree are made of.  A tree is a function from   *)
(* paths to things; git answers for what is below a worktree.              *)

Things == [is : {"none", "dir", "file", "link"},
           by : {"wkt", "base", "carry", "agent", "script"}]

\* git reports what its rules match at the highest name they match.
Cut(p, r) ==
  CHOOSE q \in Ignored : /\ Below(q, r) /\ Within(p, q)
                         /\ \A o \in Ignored : Below(o, r) /\ Below(q, o) => ~Within(p, o)

Remade(p) == \E q \in Regenerable : Within(p, q)

\* git status --ignored=matching in the worktree at r.
IgnoredIn(tree, base, r) ==
  {Cut(p, r) : p \in {p \in Paths \ base : Below(p, r) /\ RuledOut(p, r)
                                          /\ tree[p].is \in {"file", "link"}}}

\* (mutant) git is asked, the tree around the repositories is not walked.
Snapshot_OfRepos(tree, base, selected, attached) ==
  UNION {IgnoredIn(tree, base, r) : r \in attached}

\* postcreate.Snapshot: what is ignored in the worktrees git answers for, and
\* what is outside of all worktrees, a directory tools make again as one.
Snapshot(tree, base, selected, attached) ==
  (UNION {IgnoredIn(tree, base, r) : r \in attached}) \cup
  {p \in Paths : /\ tree[p].is \in {"dir", "file"}
                 /\ \A r \in selected : ~Within(p, r)
                 /\ ~\E q \in Regenerable : Below(p, q)}

-----------------------------------------------------------------------------
(* What the plan is for, stated without it: from a path of the tree one    *)
(* comes to what the same path of the workspace is.                        *)

Should(ws, repos, selected, p) ==
  IF \E r \in selected : Within(p, r) THEN "own"
  ELSE IF \E r \in repos : Below(r, p) THEN "dir"
  ELSE IF ws[p] = "none" THEN "none"
  ELSE IF \E r \in repos : Within(p, r) THEN "workspace"
  ELSE IF ws[p] = "file" /\ (Len(p) = 1 \/ \E r \in repos : Below(r, Front(p)))
    THEN IF p \in Regenerable THEN "none" ELSE "copy"
  ELSE "workspace"

\* From p of the workspace one comes to a repository without another symlink.
Shares(ws, p) ==
  \E q \in Paths : /\ ws[q] \in {"repo", "checkout"}
                   /\ \/ Within(q, p)
                      \/ ws[p] = "alias" /\ Within(q, Target)

\* A repository that is neither known nor inside of a known one, or a
\* symlink to one: no task can be made.
Hopeless(ws, repos) ==
  \E q \in Paths :
    \/ ws[q] = "alias" /\ Shares(ws, q)
    \/ /\ ws[q] \in {"repo", "checkout"}
       /\ \A r \in repos : ~Within(q, r) /\ ~Below(r, q)
=============================================================================
