------------------------------- MODULE Removal -------------------------------
(***************************************************************************)
(* wkt rm and the work in the tree.  Preflight asks one question after the *)
(* other of every worktree and then walks the tree; a verdict is made of   *)
(* all the answers; one rename takes the tree into staging; and            *)
(* finishRemove prunes the worktrees, parks what the branches held and     *)
(* deletes branches, tree and record.  The removal holds the container     *)
(* lock and the task's, but the agent takes no locks: he goes on between   *)
(* any two steps, in the staged tree too, since his working directory      *)
(* moves along with the rename.                                            *)
(*                                                                         *)
(* A work is something somebody would miss: a change, a file, a commit.    *)
(***************************************************************************)
EXTENDS Integers, Sequences

CONSTANTS
  Works,    \* pieces of work
  N,        \* repositories of the task, in the order of its record
  Moves,    \* what agent and user do: "switch", "back", "wipe", "reuse",
            \* "close"
  Faults    \* what may go wrong: "check", "prune", "keep", "delete", "crash"

AllMoves == {"switch", "back", "wipe", "reuse", "close"}
AllFaults == {"check", "prune", "keep", "delete", "crash"}

ASSUME NAssumption == N \in Nat \ {0}
ASSUME MovesAssumption == Moves \subseteq AllMoves
ASSUME FaultsAssumption == Faults \subseteq AllFaults

Repos == 1..N

VARIABLES
  in,      \* the repository a work belongs to
  where,   \* where it is
  head,    \* HEAD of each worktree: "branch", "detached" or "other"
  gone,    \* worktrees whose directory somebody has deleted
  admin,   \* worktrees registered in their store
  branch,  \* stores that have the task's branch
  tree,    \* the task's tree: "none", "placed" or "staged"
  rec,     \* the task has a record
  force,   \* the removal that judged the tree was given --force
  pc, at,  \* the removal: its step, and the repository it has come to
  found,   \* what Preflight has reported so far
  closed,  \* works in a directory that cannot be read at the moment
  fresh,   \* works made, or moved against the order of the checks, since
  unread,  \* works a check has passed over in a directory it could not read
  silent   \* repositories where an error of git has been ignored

disk == <<in, head, gone, admin, branch, tree, rec>>
vars == <<in, where, head, gone, admin, branch, tree, rec, force, pc, at,
          found, closed, fresh, unread, silent>>

\* Deleted with the tree; kept in the worktree's admin directory; commits.
InTree == {"file", "ignored", "foreign", "root", "copy"}
InAdmin == {"paused", "detached", "submodule"}
Places == InTree \cup InAdmin \cup
          {"unborn", "branch", "other", "remote", "parked", "dropped", "lost"}

\* (mutant) the commits are counted before the changes are looked for.
Checks_CommitsFirst == <<"unpushed", "dirty", "ignored", "paused", "submodule">>

\* The questions asked of a worktree, in order.
Checks == <<"dirty", "ignored", "paused", "unpushed", "submodule">>

\* (mutant) the tip is parked while the agent can still commit.
Ends_KeepFirst == <<"keep", "prune", "drop">>

\* What is done for each repository once the tree is gone, in order.
Ends == <<"prune", "keep", "drop">>

Blockers == {"failed", "missing", "dirty", "ignored", "paused", "unpushed",
             "submodule", "foreign", "root", "copy"}
Steps == {Checks[i] : i \in 1..5} \cup {Ends[i] : i \in 1..3} \cup
         {"idle", "walk", "slots", "verdict", "fence", "delete", "forget"}

Init ==
  /\ in \in [Works -> Repos]
  /\ where = [w \in Works |-> "unborn"]
  /\ head = [r \in Repos |-> "branch"]
  /\ gone = {} /\ admin = Repos /\ branch = Repos
  /\ tree = "placed" /\ rec = TRUE /\ force = FALSE
  /\ pc = "idle" /\ at = 1 /\ found = {} /\ closed = {} /\ fresh = {}
  /\ unread = {} /\ silent = {}

In(r) == {w \in Works : in[w] = r}
At(r, places) == {w \in In(r) : where[w] \in places}

\* The works S are now here.
Put(S, here) == where' = [w \in Works |-> IF w \in S THEN here ELSE where[w]]

-----------------------------------------------------------------------------
(* Remove: the record, the shortcut for a tree that is gone, Preflight.    *)

Goto(l) == pc' = l /\ UNCHANGED at
Stop == pc' = "idle" /\ at' = 1 /\ found' = {}

\* A tree that is gone needs no verdict: what is left of a removal that was
\* cut short, or of a tree somebody deleted, is finished.
Begin(forced) ==
  /\ pc = "idle" /\ rec
  /\ IF tree = "placed"
       THEN /\ force' = forced /\ fresh' = {} /\ unread' = {} /\ silent' = {}
            /\ Goto(Checks[1])
       ELSE Goto(Ends[1]) /\ UNCHANGED <<force, fresh, unread, silent>>
  /\ UNCHANGED <<disk, where, found, closed>>

\* (mutant) one repository too many.
NextRepo_OneTooFar(first, l) ==
  IF at <= N THEN at' = at + 1 /\ pc' = first ELSE at' = 1 /\ pc' = l

\* On to the first step of the next repository, or after the last one to l.
NextRepo(first, l) ==
  IF at < N THEN at' = at + 1 /\ pc' = first ELSE at' = 1 /\ pc' = l

\* After the i-th of the steps for one repository comes the next of them.
After(steps, i, l) ==
  IF i < Len(steps) THEN Goto(steps[i + 1]) ELSE NextRepo(steps[1], l)

\* Commits HEAD leads to.
Reach(r) == [branch |-> {"branch"}, detached |-> {"branch", "detached"},
             other |-> {"other"}][head[r]]

\* Where the check with this name finds work.
Sees(r, check) ==
  IF check = "dirty" THEN {"file"}
  ELSE IF check = "unpushed" THEN Reach(r) ELSE {check}

\* One check of one worktree.  One that cannot be made is reported as such;
\* of a worktree that is not there nothing is asked.  git status itself says
\* nothing of what lies in a directory it cannot read, and ends well.
Check ==
  /\ \E i \in 1..Len(Checks) :
       /\ pc = Checks[i]
       /\ \/ /\ i = 1 /\ at \in gone
             /\ found' = found \cup {"missing"}
             /\ NextRepo(Checks[1], "walk")
             /\ UNCHANGED unread
          \/ /\ at \notin gone
             /\ LET seen == At(at, Sees(at, pc)) IN
                  /\ found' = found \cup {c \in {pc} : seen \ closed # {}}
                  /\ unread' = unread \cup (seen \cap closed)
             /\ After(Checks, i, "walk")
          \/ /\ IF at \in gone THEN i > 1 ELSE "check" \in Faults
             /\ found' = found \cup {"failed"}
             /\ After(Checks, i, "walk")
             /\ UNCHANGED unread
  /\ UNCHANGED <<disk, where, force, closed, fresh, silent>>

\* The walk over the tree fails open: an error is passed over, and with it
\* the rest of the directory it has come to.  A copy that cannot be hashed
\* counts as changed.
Walk ==
  /\ pc = "walk"
  /\ LET seen == {w \in Works : where[w] \in {"foreign", "root", "copy"}} IN
       /\ found' = found \cup {where[w] : w \in seen \ closed}
       /\ unread' = unread \cup (seen \cap closed)
  /\ Goto("slots")
  /\ UNCHANGED <<disk, where, force, closed, fresh, silent>>

\* And then the slots once more.
Slots ==
  /\ pc = "slots"
  /\ found' = found \cup {where[w] : w \in {v \in Works : where[v] = "copy"}}
  /\ Goto("verdict")
  /\ UNCHANGED <<disk, where, force, closed, fresh, unread, silent>>

\* (mutant) --force overrides everything but a submodule.
Refused_ForceTakesForeign == IF force THEN "submodule" \in found ELSE found # {}

\* A repository wkt did not create refuses always, a submodule in spite of
\* --force, anything else without it.
Refused ==
  IF force THEN found \cap {"foreign", "submodule"} # {} ELSE found # {}

Verdict ==
  /\ pc = "verdict"
  /\ IF Refused THEN Stop ELSE Goto("fence") /\ UNCHANGED found
  /\ UNCHANGED <<disk, where, force, closed, fresh, unread, silent>>

\* os.Rename(tree, staged), which fails on a tree that has gone meanwhile.
Fence ==
  /\ pc = "fence"
  /\ IF tree = "placed"
       THEN tree' = "staged" /\ Goto(Ends[1]) /\ UNCHANGED found
       ELSE Stop /\ UNCHANGED tree
  /\ UNCHANGED <<in, where, head, gone, admin, branch, rec, force, closed,
                 fresh, unread, silent>>

-----------------------------------------------------------------------------
(* finishRemove.                                                           *)

\* worktree unlock, worktree prune.  With the admin directory go its HEAD,
\* its paused operations and its submodules' objects.  Errors are ignored, and a
\* worktree that could not be unlocked is not pruned.
Prune ==
  /\ \/ /\ admin' = admin \ {at}
        /\ Put(IF at \in admin THEN At(at, InAdmin) ELSE {}, "lost")
        /\ UNCHANGED silent
     \/ /\ "prune" \in Faults
        /\ silent' = silent \cup {at}
        /\ UNCHANGED <<admin, where>>
  /\ UNCHANGED branch

\* keepUnpushed: a tip with commits no remote has is parked under the task's
\* name, and what an earlier task of the name had parked there goes.  When
\* git fails there is nothing to keep.
Keep ==
  /\ \/ /\ where' = [w \in Works |->
              IF at \notin branch \/ At(at, {"branch"}) = {} \/ in[w] # at
                THEN where[w]
              ELSE IF where[w] = "branch" THEN "parked"
              ELSE IF where[w] = "parked" THEN "lost" ELSE where[w]]
        /\ UNCHANGED silent
     \/ /\ "keep" \in Faults
        /\ silent' = silent \cup {at}
        /\ UNCHANGED where
  /\ UNCHANGED <<admin, branch>>

\* branch -D, refused while a registered worktree has the branch checked
\* out; the pin in the workspace repository is not looked at here.
Drop ==
  /\ IF at \in admin /\ head[at] = "branch"
       THEN UNCHANGED <<branch, where>>
       ELSE /\ branch' = branch \ {at}
            /\ Put(At(at, {"branch"}), "lost")
  /\ UNCHANGED <<admin, silent>>

End ==
  /\ \E i \in 1..Len(Ends) :
       /\ pc = Ends[i]
       /\ \/ pc = "prune" /\ Prune
          \/ pc = "keep" /\ Keep
          \/ pc = "drop" /\ Drop
       /\ After(Ends, i, "delete")
  /\ UNCHANGED <<in, head, gone, tree, rec, force, found, closed, fresh,
                 unread>>

\* os.RemoveAll(staged).  When it fails, as it does of a directory that
\* cannot be read, part of the tree is left in staging and so is the record.
Delete ==
  LET doomed == {w \in Works : where[w] \in InTree} IN
  /\ pc = "delete"
  /\ \/ /\ doomed \cap closed = {}
        /\ tree' = "none"
        /\ Put(doomed, "lost")
        /\ Goto("forget")
        /\ UNCHANGED found
     \/ /\ "delete" \in Faults \/ doomed \cap closed # {}
        /\ tree = "staged"
        /\ \E S \in SUBSET (doomed \ closed) : Put(S, "lost")
        /\ Stop
        /\ UNCHANGED tree
  /\ UNCHANGED <<in, head, gone, admin, branch, rec, force, closed, fresh,
                 unread, silent>>

\* The record goes last.  What a worktree that was not pruned still holds
\* goes with the next prune.
Forget ==
  /\ pc = "forget"
  /\ rec' = FALSE
  /\ Put({w \in Works : where[w] \in InAdmin}, "lost")
  /\ Stop
  /\ UNCHANGED <<in, head, gone, admin, branch, tree, force, closed, fresh,
                 unread, silent>>

Crash ==
  /\ "crash" \in Faults /\ pc # "idle"
  /\ Stop
  /\ UNCHANGED <<disk, where, force, closed, fresh, unread, silent>>

-----------------------------------------------------------------------------
(* Agent and user, who take no locks.                                      *)

\* The worktree of the work is there, in its place or in staging.
Workable(w) == tree # "none" /\ in[w] \notin gone
Registered(w) == Workable(w) /\ in[w] \in admin

\* What cannot be read cannot be moved either.
Move(w, here) ==
  /\ w \notin closed
  /\ Put({w}, here)
  /\ UNCHANGED <<disk, force, pc, at, found, closed, unread, silent>>

Make(w) ==
  /\ where[w] = "unborn" /\ Workable(w)
  /\ \E here \in InTree \cup {"paused", "submodule"} :
       /\ here \in InAdmin => Registered(w)
       /\ Move(w, here)
  /\ fresh' = fresh \cup {w}

\* Towards what is looked at later: git commit and rebase --continue, an
\* ignore rule, mv out of the repository, git push, git switch -C.
Forward(w) ==
  /\ \/ /\ where[w] \in {"file", "paused"} /\ Registered(w)
        /\ head[in[w]] = "branch" => in[w] \in branch
        /\ Move(w, head[in[w]])
     \/ /\ where[w] = "file" /\ Workable(w)
        /\ \E here \in {"ignored", "root"} : Move(w, here)
     \/ /\ where[w] \in Reach(in[w]) \cup {"foreign", "submodule"}
        /\ Registered(w)
        /\ Move(w, "remote")
     \/ where[w] = "parked" /\ Move(w, "remote")
  /\ UNCHANGED fresh

\* Towards what has been looked at before: git reset, no more ignored, mv
\* into the repository.
Back(w) ==
  /\ "back" \in Moves
  /\ \/ where[w] \in Reach(in[w]) \cup {"paused"} /\ Registered(w)
     \/ where[w] \in {"ignored", "root"} /\ Workable(w)
  /\ Move(w, "file")
  /\ fresh' = fresh \cup {w}

\* git switch.  Commits made on a detached HEAD are left behind, knowingly.
Switch(r) ==
  /\ "switch" \in Moves
  /\ tree # "none" /\ r \in admin \ gone
  /\ \E h \in {"branch", "detached", "other"} \ {head[r]} :
       /\ h = "branch" => r \in branch
       /\ h = "detached" => head[r] = "branch"
       /\ head' = [head EXCEPT ![r] = h]
  /\ Put(At(r, {"detached"}), "dropped")
  /\ UNCHANGED <<in, gone, admin, branch, tree, rec, force, pc, at, found,
                 closed, fresh, unread, silent>>

\* A directory of the tree can no longer be read, or can be again: chmod, a
\* container of another user that writes there, a mount that hangs.
Close(w) ==
  /\ "close" \in Moves
  /\ where[w] \in {"file", "ignored", "foreign", "root"} /\ Workable(w)
  /\ w \notin closed
  /\ closed' = closed \cup {w}
  /\ UNCHANGED <<disk, where, force, pc, at, found, fresh, unread, silent>>

Open(w) ==
  /\ w \in closed
  /\ closed' = closed \ {w}
  /\ UNCHANGED <<disk, where, force, pc, at, found, fresh, unread, silent>>

\* Somebody deletes a worktree or the whole tree by hand, what can be read
\* of it.
Wipe ==
  /\ "wipe" \in Moves
  /\ tree = "placed"
  /\ \/ \E r \in Repos \ gone :
          /\ In(r) \cap closed = {}
          /\ gone' = gone \cup {r}
          /\ Put(At(r, {"file", "ignored"}), "dropped")
          /\ fresh' = fresh \cup In(r)
          /\ UNCHANGED tree
     \/ /\ closed = {}
        /\ tree' = "none" /\ gone' = Repos
        /\ Put({w \in Works : where[w] \in InTree}, "dropped")
        /\ fresh' = Works
  /\ UNCHANGED <<in, head, admin, branch, rec, force, pc, at, found, closed,
                 unread, silent>>

\* wkt new with the name of a task that is gone; a branch of the name that
\* is still there refuses.
Reuse ==
  /\ "reuse" \in Moves
  /\ pc = "idle" /\ ~rec /\ tree = "none" /\ branch = {}
  /\ rec' = TRUE /\ tree' = "placed" /\ gone' = {}
  /\ admin' = Repos /\ branch' = Repos
  /\ head' = [r \in Repos |-> "branch"]
  /\ UNCHANGED <<in, where, force, pc, at, found, closed, fresh, unread, silent>>

Next ==
  \/ \E forced \in BOOLEAN : Begin(forced)
  \/ Check \/ Walk \/ Slots \/ Verdict \/ Fence \/ End \/ Delete \/ Forget
  \/ Crash
  \/ \E w \in Works : Make(w) \/ Forward(w) \/ Back(w) \/ Close(w) \/ Open(w)
  \/ (\E r \in Repos : Switch(r)) \/ Wipe \/ Reuse

Spec == Init /\ [][Next]_vars

-----------------------------------------------------------------------------
(* Properties.                                                             *)

\* Every variable stays in its range.
TypeOK ==
  /\ in \in [Works -> Repos]
  /\ where \in [Works -> Places]
  /\ head \in [Repos -> {"branch", "detached", "other"}]
  /\ gone \in SUBSET Repos /\ admin \in SUBSET Repos
  /\ branch \in SUBSET Repos
  /\ tree \in {"none", "placed", "staged"}
  /\ rec \in BOOLEAN /\ force \in BOOLEAN
  /\ pc \in Steps /\ at \in Repos
  /\ found \in SUBSET Blockers /\ closed \in SUBSET Works
  /\ fresh \in SUBSET Works /\ unread \in SUBSET Works
  /\ silent \in SUBSET Repos

Loses(w) == where[w] # "lost" /\ where'[w] = "lost"

\* "Refuses while anything would be lost": without --force, whatever git
\* command fails or crash comes between, only work is lost that was made
\* after the removal began, or went behind the checks' back since, or that a
\* check could not read.  Work that only moves on, from a file to a commit to
\* a remote, never slips between two checks.  (What an earlier task of the
\* name has parked is another matter, and so are commits of a branch that
\* HEAD has left: see BranchKept.)
NothingLost ==
  [][\A w \in Works : Loses(w) /\ ~force =>
       \/ w \in fresh \cup unread \/ where[w] = "parked"
       \/ where[w] = "branch" /\ in[w] \in silent]_vars

\* "This is the one refusal --force does not cover": a repository that was
\* created in the tree before the removal began, and that the walk could
\* read its way to, is never deleted.
ForeignSpared ==
  [][\A w \in Works : Loses(w) /\ where[w] = "foreign" =>
       w \in fresh \cup unread]_vars

\* "Before dropping the branch, keep whatever it held that exists nowhere
\* else": no removal, forced or not, loses a commit of the task's branch,
\* not even one the agent makes while the removal is under way, unless git
\* has failed and the failure was ignored.
BranchKept ==
  [][\A w \in Works : Loses(w) /\ where[w] = "branch" => in[w] \in silent]_vars

\* "A failed check of any kind is treated as 'would lose work'" does not hold
\* of what lies in a directory that cannot be read: Check and Walk pass over
\* it, Delete stumbles over it, and once it can be read again the next wkt rm
\* finds the tree staged and deletes it unasked.
UnreadIsKept ==
  [][\A w \in Works : Loses(w) /\ ~force => w \notin unread \ fresh]_vars

\* "Never a submodule (its object store lives under the doomed worktree)."
SubmoduleSpared ==
  [][\A w \in Works : Loses(w) /\ where[w] = "submodule" => w \in fresh]_vars
=============================================================================
