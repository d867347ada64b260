------------------------------ MODULE Lifecycle ------------------------------
(***************************************************************************)
(* The container of one workspace, shared by several wkt processes: the    *)
(* container lock and the per-task locks, one record per task under        *)
(* state/tasks, the task trees, the worktrees and branches the stores hold *)
(* for them, the base pins in the workspace's repositories and the         *)
(* back-fill links of every tree.                                          *)
(*                                                                         *)
(* Every verb is cut where it lets go of something another process can     *)
(* change: at each lock, between the Load and the Save of a record, around *)
(* the post-create script, and at each step of a removal.  A verb that     *)
(* takes no lock in the code takes none here.                              *)
(***************************************************************************)
EXTENDS Integers

CONSTANTS
  Procs,      \* wkt processes
  Tasks,      \* task names
  Repos,      \* repositories of the workspace, each selectable by a task
  Verbs,      \* the verbs these processes are invoked with
  Faults,     \* what may go wrong: "build", "refresh", "delete", "crash"
  HasScript,  \* the workspace has a post-create script
  None        \* no process, no task, no record

AllVerbs == {"new", "add", "post-create", "rm", "worktree-remove",
             "session-start", "repair", "doctor"}

\* The verbs that take the container lock, the task's lock, or both.
LockedVerbs == {"new", "add", "post-create", "rm"}

\* What state/tasks/<name>.json holds, as far as other processes can tell:
\* the repositories with a worktree (the others are symlink slots), whether
\* "produced" slots are recorded, and the siblings the recorded perimeter
\* hash stands for.
Record == [repos: SUBSET Repos, produced: BOOLEAN, names: SUBSET Tasks]

ASSUME VerbsAssumption == Verbs \subseteq AllVerbs
ASSUME FaultsAssumption == Faults \subseteq {"build", "refresh", "delete", "crash"}
ASSUME ScriptAssumption == HasScript \in BOOLEAN
ASSUME NoneAssumption == None \notin Procs \cup Tasks \cup Record

VARIABLES
  cLock,      \* holder of <root>/.wkt.lock
  tLock,      \* holders of <root>/locks/<task>.lock
  rec,        \* the task records
  tree,       \* trees/<task>: "none", "full", or "shell" once re-created by
              \* a write into a tree that had been moved away
  staged,     \* staging/<task> exists
  git,        \* repositories whose store holds the task's branch and worktree
  pin,        \* repositories holding refs/wkt/base/<task>
  links,      \* back-fill links present in the tree
  perim,      \* the siblings named by the settings files in the tree
  missed,     \* (history) tasks whose last refresh failed or was cut short
  pc, cmd,    \* per process: where it is, and its verb and arguments
  mem         \* per process: what it has read and not yet written back

locks == <<cLock, tLock>>
disk  == <<tree, staged, git, pin, links, perim, missed>>
vars  == <<cLock, tLock, rec, tree, staged, git, pin, links, perim, missed,
           pc, cmd, mem>>

-----------------------------------------------------------------------------
\* snap: the record last loaded; cur: the task it belongs to in a refresh;
\* todo: tasks still to refresh; names: the task list last read;
\* taken: the links withdrawn for the script.
Blank == [snap |-> None, cur |-> None, todo |-> {}, names |-> {}, taken |-> {}]
NoCmd == [verb |-> "none", task |-> None, repos |-> {}]

Labels == {"idle",
           "new.lock", "new.check", "new.pin", "new.worktrees",
           "new.perimeter", "new.save",
           "add.lock", "add.load", "add.graft", "add.save", "add.seam",
           "add.reload", "seam.lock", "post.load", "post.lock",
           "seam.withdraw", "seam.script", "seam.load", "seam.save",
           "seam.restore",
           "rm.lock", "rm.task", "rm.load", "rm.fence", "rm.git",
           "rm.delete", "rm.forget",
           "refresh.load", "refresh.save",
           "start.load", "start.write", "start.save",
           "repair.load", "repair.links", "doctor.list", "doctor.sweep"}

\* state.List: the tasks that have a record.
Recorded == {t \in Tasks : rec[t] # None}

\* The tree directory after something was written below it.
Touched(t) == IF tree[t] = "none" THEN "shell" ELSE tree[t]

\* perimeter.Write: every covered directory receives the settings file, and
\* the directories leading to it are created.
WritePerimeter(t, names) ==
  /\ perim' = [perim EXCEPT ![t] = names \ {t}]
  /\ tree' = [tree EXCEPT ![t] = Touched(t)]

Goto(p, l) == pc' = [pc EXCEPT ![p] = l]

\* The process ends, in whatever way: the locks it holds are dropped.
Exit(p) ==
  /\ Goto(p, "idle")
  /\ cmd' = [cmd EXCEPT ![p] = NoCmd]
  /\ mem' = [mem EXCEPT ![p] = Blank]
  /\ cLock' = IF cLock = p THEN None ELSE cLock
  /\ tLock' = [t \in Tasks |-> IF tLock[t] = p THEN None ELSE tLock[t]]

Init ==
  /\ cLock = None
  /\ tLock = [t \in Tasks |-> None]
  /\ rec = [t \in Tasks |-> None]
  /\ tree = [t \in Tasks |-> "none"]
  /\ staged = [t \in Tasks |-> FALSE]
  /\ git = [t \in Tasks |-> {}]
  /\ pin = [t \in Tasks |-> {}]
  /\ links = [t \in Tasks |-> {}]
  /\ perim = [t \in Tasks |-> {}]
  /\ missed = {}
  /\ pc = [p \in Procs |-> "idle"]
  /\ cmd = [p \in Procs |-> NoCmd]
  /\ mem = [p \in Procs |-> Blank]

-----------------------------------------------------------------------------
(* A command begins; flock, its deadline, and the death of a process.      *)

Entry == [v \in AllVerbs |->
  CASE v = "new" -> "new.lock"
    [] v = "add" -> "add.lock"
    [] v = "post-create" -> "post.load"
    [] v = "rm" -> "rm.lock"
    [] v = "worktree-remove" -> "rm.load"
    [] v = "session-start" -> "start.load"
    [] v = "repair" -> "repair.load"
    [] v = "doctor" -> "doctor.list"]

\* new and add name at least one repository, the other verbs none.
Selections(v) == IF v \in {"new", "add"} THEN (SUBSET Repos) \ {{}} ELSE {{}}

Start(p) ==
  /\ pc[p] = "idle"
  /\ \E v \in Verbs, t \in Tasks : \E s \in Selections(v) :
       /\ cmd' = [cmd EXCEPT ![p] = [verb |-> v, task |-> t, repos |-> s]]
       /\ Goto(p, Entry[v])
  /\ UNCHANGED <<locks, rec, disk, mem>>

\* (mutant) rm goes on without the task's lock.
AfterContainer_NoTaskLock == [l \in {"new.lock", "add.lock", "rm.lock"} |->
  CASE l = "new.lock" -> "new.check"
    [] l = "add.lock" -> "add.load"
    [] l = "rm.lock" -> "rm.load"]

AfterContainer == [l \in {"new.lock", "add.lock", "rm.lock"} |->
  CASE l = "new.lock" -> "new.check"
    [] l = "add.lock" -> "add.load"
    [] l = "rm.lock" -> "rm.task"]

\* (mutant) the flock is opened but does not exclude.
LockContainer_Shared(p) ==
  /\ pc[p] \in {"new.lock", "add.lock", "rm.lock"}
  /\ cLock' = p
  /\ Goto(p, AfterContainer[pc[p]])
  /\ UNCHANGED <<tLock, rec, disk, cmd, mem>>

\* container.Lock: a poll that finds the flock free takes it.
LockContainer(p) ==
  /\ pc[p] \in {"new.lock", "add.lock", "rm.lock"}
  /\ cLock = None
  /\ cLock' = p
  /\ Goto(p, AfterContainer[pc[p]])
  /\ UNCHANGED <<tLock, rec, disk, cmd, mem>>

\* (mutant) every verb drops the container lock once it has the task's.
LockTask_DropsContainer(p) ==
  /\ pc[p] \in {"seam.lock", "post.lock", "rm.task"}
  /\ tLock[cmd[p].task] = None
  /\ tLock' = [tLock EXCEPT ![cmd[p].task] = p]
  /\ cLock' = IF pc[p] = "post.lock" THEN cLock ELSE None
  /\ \/ pc[p] = "rm.task" /\ Goto(p, "rm.load")
     \/ pc[p] # "rm.task" /\ cmd[p].verb = "add" /\ Goto(p, "add.reload")
     \/ pc[p] # "rm.task" /\ cmd[p].verb # "add" /\ Goto(p, "seam.withdraw")
  /\ UNCHANGED <<rec, disk, cmd, mem>>

\* (mutant) a task lock that is already held does not stop the next holder.
LockTask_Shared(p) ==
  /\ pc[p] \in {"seam.lock", "post.lock", "rm.task"}
  /\ tLock' = [tLock EXCEPT ![cmd[p].task] = p]
  /\ cLock' = IF pc[p] = "seam.lock" THEN None ELSE cLock
  /\ \/ pc[p] = "rm.task" /\ Goto(p, "rm.load")
     \/ pc[p] # "rm.task" /\ cmd[p].verb = "add" /\ Goto(p, "add.reload")
     \/ pc[p] # "rm.task" /\ cmd[p].verb # "add" /\ Goto(p, "seam.withdraw")
  /\ UNCHANGED <<rec, disk, cmd, mem>>

\* container.LockTask.  new and add hold the container lock while they wait
\* and drop it once they have the task's; rm keeps both; post-create never
\* had the first.  new may have been told --no-post-create.
LockTask(p) ==
  /\ pc[p] \in {"seam.lock", "post.lock", "rm.task"}
  /\ tLock[cmd[p].task] = None
  /\ tLock' = [tLock EXCEPT ![cmd[p].task] = p]
  /\ cLock' = IF pc[p] = "seam.lock" THEN None ELSE cLock
  /\ \/ pc[p] = "rm.task" /\ Goto(p, "rm.load")
     \/ pc[p] # "rm.task" /\ cmd[p].verb = "add" /\ Goto(p, "add.reload")
     \/ pc[p] # "rm.task" /\ cmd[p].verb # "add" /\ Goto(p, "seam.withdraw")
  /\ UNCHANGED <<rec, disk, cmd, mem>>

\* (mutant) the poll has no deadline.
GiveUp_Never(p) == FALSE /\ Exit(p) /\ UNCHANGED <<rec, disk>>

\* A poll that finds the flock held after the deadline: WKT_LOCKED.
GiveUp(p) ==
  /\ \/ pc[p] \in {"new.lock", "add.lock", "rm.lock"} /\ cLock # None
     \/ pc[p] \in {"seam.lock", "post.lock", "rm.task"}
        /\ tLock[cmd[p].task] # None
  /\ Exit(p)
  /\ UNCHANGED <<rec, disk>>

\* The kernel drops a dead process's flocks; nothing else is undone.
Crash(p) ==
  /\ "crash" \in Faults
  /\ pc[p] # "idle"
  /\ missed' = missed \cup
       {t \in Tasks : /\ pc[p] \in {"refresh.load", "refresh.save"}
                      /\ t \in mem[p].todo \cup {mem[p].cur}}
  /\ Exit(p)
  /\ UNCHANGED <<rec, tree, staged, git, pin, links, perim>>

-----------------------------------------------------------------------------
(* wkt new, and the worktree-create hook.                                  *)

\* task.Create and Validate: a recorded task, a tree nobody owns or a branch
\* of that name left in a store refuses.
NewCheck(p) ==
  LET t == cmd[p].task IN
  /\ pc[p] = "new.check"
  /\ IF rec[t] # None \/ tree[t] # "none" \/ git[t] \cap cmd[p].repos # {}
       THEN Exit(p)
       ELSE Goto(p, "new.pin") /\ UNCHANGED <<locks, cmd, mem>>
  /\ UNCHANGED <<rec, disk>>

\* The tree directory, then the base pins store.Ensure writes first.
NewPin(p) ==
  LET t == cmd[p].task IN
  /\ pc[p] = "new.pin"
  /\ tree' = [tree EXCEPT ![t] = "full"]
  /\ pin' = [pin EXCEPT ![t] = @ \cup cmd[p].repos]
  /\ Goto(p, "new.worktrees")
  /\ UNCHANGED <<locks, rec, staged, git, links, perim, missed, cmd, mem>>

\* Branches and worktrees, then the links tree.Materialise lays down for
\* every repository that was not selected.
NewWorktrees(p) ==
  LET t == cmd[p].task IN
  /\ pc[p] = "new.worktrees"
  /\ git' = [git EXCEPT ![t] = @ \cup cmd[p].repos]
  /\ links' = [links EXCEPT ![t] = Repos \ cmd[p].repos]
  /\ Goto(p, "new.perimeter")
  /\ UNCHANGED <<locks, rec, tree, staged, pin, perim, missed, cmd, mem>>

NewPerimeter(p) ==
  LET t == cmd[p].task IN
  /\ pc[p] = "new.perimeter"
  /\ WritePerimeter(t, Recorded)
  /\ mem' = [mem EXCEPT ![p].snap =
       [repos |-> cmd[p].repos, produced |-> FALSE, names |-> Recorded \ {t}]]
  /\ Goto(p, "new.save")
  /\ UNCHANGED <<locks, rec, staged, git, pin, links, missed, cmd>>

\* state.Save, then refreshSiblings lists the tasks it will visit.
NewSave(p) ==
  LET t == cmd[p].task IN
  /\ pc[p] = "new.save"
  /\ rec' = [rec EXCEPT ![t] = mem[p].snap]
  /\ mem' = [mem EXCEPT ![p].todo = Recorded \ {t},
                        ![p].names = Recorded \cup {t}]
  /\ Goto(p, "refresh.load")
  /\ missed' = missed \ {t}
  /\ UNCHANGED <<locks, tree, staged, git, pin, links, perim, cmd>>

\* Any step of the build fails: the undos run in reverse order and leave
\* neither worktrees, branches, pins nor tree.
NewFail(p) ==
  LET t == cmd[p].task IN
  /\ "build" \in Faults
  /\ pc[p] \in {"new.worktrees", "new.perimeter", "new.save"}
  /\ tree' = [tree EXCEPT ![t] = "none"]
  /\ git' = [git EXCEPT ![t] = @ \ cmd[p].repos]
  /\ pin' = [pin EXCEPT ![t] = @ \ cmd[p].repos]
  /\ links' = [links EXCEPT ![t] = {}]
  /\ Exit(p)
  /\ UNCHANGED <<rec, staged, perim, missed>>

\* refreshSiblings and refreshAfterRemoval, one task at a time: Load and
\* perimeter.Write, then Save.  A task whose record is gone is skipped.
RefreshLoad(p) ==
  /\ pc[p] = "refresh.load"
  /\ \E n \in mem[p].todo :
       /\ mem' = [mem EXCEPT ![p].todo = @ \ {n},
                   ![p].cur = IF rec[n] = None THEN None ELSE n,
                   ![p].snap = rec[n]]
       /\ IF rec[n] = None
            THEN UNCHANGED <<pc, tree, perim>>
            ELSE WritePerimeter(n, mem[p].names) /\ Goto(p, "refresh.save")
  /\ UNCHANGED <<locks, rec, staged, git, pin, links, missed, cmd>>

\* The Load, the perimeter.Write or the Save of one sibling fails: the error
\* is dropped, its record is not written, whatever copies were, and the next
\* one is visited.
RefreshFails(p) ==
  /\ "refresh" \in Faults
  /\ pc[p] = "refresh.load"
  /\ \E n \in mem[p].todo :
       /\ rec[n] # None
       /\ mem' = [mem EXCEPT ![p].todo = @ \ {n}]
       /\ missed' = missed \cup {n}
       /\ UNCHANGED <<tree, perim>> \/ WritePerimeter(n, mem[p].names)
  /\ UNCHANGED <<locks, rec, staged, git, pin, links, pc, cmd>>

RefreshSave(p) ==
  LET n == mem[p].cur IN
  /\ pc[p] = "refresh.save"
  /\ rec' = [rec EXCEPT ![n] =
               [mem[p].snap EXCEPT !.names = mem[p].names \ {n}]]
  /\ mem' = [mem EXCEPT ![p].snap = None, ![p].cur = None]
  /\ Goto(p, "refresh.load")
  /\ missed' = missed \ {n}
  /\ UNCHANGED <<locks, tree, staged, git, pin, links, perim, cmd>>

\* After a creation comes the seam, after a removal nothing.
RefreshDone(p) ==
  /\ pc[p] = "refresh.load"
  /\ mem[p].todo = {}
  /\ IF cmd[p].verb = "new"
       THEN /\ Goto(p, "seam.lock")
            /\ mem' = [mem EXCEPT ![p] = [Blank EXCEPT !.snap =
                 [repos |-> cmd[p].repos, produced |-> FALSE, names |-> {}]]]
            /\ UNCHANGED <<locks, cmd>>
       ELSE Exit(p)
  /\ UNCHANGED <<rec, disk>>

-----------------------------------------------------------------------------
(* wkt add.                                                                *)

\* task.Add for the next repository of the list: Load, and refuse one that
\* is in the task or whose branch exists in its store (validateOne).
AddLoad(p) ==
  LET t == cmd[p].task IN
  /\ pc[p] = "add.load"
  /\ \E r \in cmd[p].repos :
       IF rec[t] = None \/ r \in git[t] \/ (rec[t] # None /\ r \in rec[t].repos)
         THEN Exit(p)
         ELSE /\ mem' = [mem EXCEPT ![p].snap = rec[t], ![p].cur = r]
              /\ Goto(p, "add.graft")
              /\ UNCHANGED <<locks, cmd>>
  /\ UNCHANGED <<rec, disk>>

\* Pin, branch, the link out of the way, worktree; then the perimeter.
AddGraft(p) ==
  LET t == cmd[p].task
      r == mem[p].cur IN
  /\ pc[p] = "add.graft"
  /\ pin' = [pin EXCEPT ![t] = @ \cup {r}]
  /\ git' = [git EXCEPT ![t] = @ \cup {r}]
  /\ links' = [links EXCEPT ![t] = @ \ {r}]
  /\ WritePerimeter(t, Recorded)
  /\ mem' = [mem EXCEPT ![p].names = Recorded \ {t}]
  /\ Goto(p, "add.save")
  /\ UNCHANGED <<locks, rec, staged, missed, cmd>>

\* (mutant) the record receives the task's name where the repository's
\* belongs.
AddSave_WrongName(p) ==
  LET t == cmd[p].task
      r == mem[p].cur IN
  /\ pc[p] = "add.save"
  /\ rec' = [rec EXCEPT ![t] = [mem[p].snap EXCEPT
               !.repos = @ \cup {t}, !.names = mem[p].names]]
  /\ cmd' = [cmd EXCEPT ![p].repos = @ \ {r}]
  /\ mem' = [mem EXCEPT ![p] = Blank]
  /\ Goto(p, IF cmd[p].repos = {r} THEN "add.seam" ELSE "add.load")
  /\ missed' = missed \ {t}
  /\ UNCHANGED <<locks, tree, staged, git, pin, links, perim>>

AddSave(p) ==
  LET t == cmd[p].task
      r == mem[p].cur IN
  /\ pc[p] = "add.save"
  /\ rec' = [rec EXCEPT ![t] = [mem[p].snap EXCEPT
               !.repos = @ \cup {r}, !.names = mem[p].names]]
  /\ cmd' = [cmd EXCEPT ![p].repos = @ \ {r}]
  /\ mem' = [mem EXCEPT ![p] = Blank]
  /\ Goto(p, IF cmd[p].repos = {r} THEN "add.seam" ELSE "add.load")
  /\ missed' = missed \ {t}
  /\ UNCHANGED <<locks, tree, staged, git, pin, links, perim>>

\* A step of the graft fails: worktree, branch and pin are undone and the
\* link is put back.  The settings files in the tree keep what was written.
AddFail(p) ==
  LET t == cmd[p].task
      r == mem[p].cur IN
  /\ "build" \in Faults
  /\ pc[p] = "add.save"
  /\ git' = [git EXCEPT ![t] = @ \ {r}]
  /\ pin' = [pin EXCEPT ![t] = @ \ {r}]
  /\ links' = [links EXCEPT ![t] = @ \cup {r}]
  /\ Exit(p)
  /\ UNCHANGED <<rec, tree, staged, perim, missed>>

\* --no-post-create ends here, before the task lock; otherwise the seam.
AddSeam(p) ==
  /\ pc[p] = "add.seam"
  /\ \/ Exit(p)
     \/ Goto(p, "seam.lock") /\ UNCHANGED <<locks, cmd, mem>>
  /\ UNCHANGED <<rec, disk>>

\* Both locks were taken in turn; the grafted set is read back from state.
AddReload(p) ==
  LET t == cmd[p].task IN
  /\ pc[p] = "add.reload"
  /\ IF rec[t] = None
       THEN Exit(p)
       ELSE /\ mem' = [mem EXCEPT ![p].snap = rec[t]]
            /\ Goto(p, "seam.withdraw")
            /\ UNCHANGED <<locks, cmd>>
  /\ UNCHANGED <<rec, disk>>

-----------------------------------------------------------------------------
(* The post-create seam, and wkt post-create.                              *)

\* post-create loads the task before it waits for the task's lock.
PostLoad(p) ==
  LET t == cmd[p].task IN
  /\ pc[p] = "post.load"
  /\ IF rec[t] = None
       THEN Exit(p)
       ELSE /\ mem' = [mem EXCEPT ![p].snap = rec[t]]
            /\ Goto(p, "post.lock")
            /\ UNCHANGED <<locks, cmd>>
  /\ UNCHANGED <<rec, disk>>

\* The slots the record in hand calls symlinks.
Slots(p) == Repos \ mem[p].snap.repos

\* WithdrawBackFill: a slot that holds a real worktree refuses; missing
\* links are passed over; the others are removed and remembered.
SeamWithdraw(p) ==
  LET t == cmd[p].task IN
  /\ pc[p] = "seam.withdraw"
  /\ IF tree[t] # "none" /\ Slots(p) \cap git[t] # {}
       THEN Exit(p) /\ UNCHANGED links
       ELSE /\ links' = [links EXCEPT ![t] = @ \ Slots(p)]
            /\ mem' = [mem EXCEPT ![p] =
                         [Blank EXCEPT !.taken = links[t] \cap Slots(p)]]
            /\ Goto(p, IF HasScript THEN "seam.script" ELSE "seam.restore")
            /\ UNCHANGED <<locks, cmd>>
  /\ UNCHANGED <<rec, tree, staged, git, pin, perim, missed>>

\* wkt new --no-post-create keeps the task lock to its end and does nothing.
SeamSkip(p) ==
  /\ pc[p] = "seam.withdraw"
  /\ cmd[p].verb = "new"
  /\ Exit(p)
  /\ UNCHANGED <<rec, disk>>

\* (mutant) the write-back waits for the container lock, task lock in hand.
SeamScript_LocksContainer(p) ==
  /\ pc[p] = "seam.script"
  /\ \/ Goto(p, "seam.restore")
     \/ tree[cmd[p].task] # "none" /\ Goto(p, "add.lock")
  /\ UNCHANGED <<locks, rec, disk, cmd, mem>>

\* The script ends, in whatever way; it left new content behind or not.
SeamScript(p) ==
  /\ pc[p] = "seam.script"
  /\ \/ Goto(p, "seam.restore")
     \/ tree[cmd[p].task] # "none" /\ Goto(p, "seam.load")
  /\ UNCHANGED <<locks, rec, disk, cmd, mem>>

\* The record is read again before what was produced is added to it; a task
\* that is gone stays gone.
SeamLoad(p) ==
  LET t == cmd[p].task IN
  /\ pc[p] = "seam.load"
  /\ IF rec[t] = None
       THEN Goto(p, "seam.restore") /\ UNCHANGED mem
       ELSE /\ mem' = [mem EXCEPT ![p].snap = rec[t]]
            /\ Goto(p, "seam.save")
  /\ UNCHANGED <<locks, rec, disk, cmd>>

SeamSave(p) ==
  /\ pc[p] = "seam.save"
  /\ rec' = [rec EXCEPT ![cmd[p].task] =
               [mem[p].snap EXCEPT !.produced = TRUE]]
  /\ mem' = [mem EXCEPT ![p].snap = None]
  /\ Goto(p, "seam.restore")
  /\ UNCHANGED <<locks, disk, cmd>>

\* os.Symlink for every link taken: it fails where something stands in the
\* way, and where the tree is gone.
SeamRestore(p) ==
  LET t == cmd[p].task IN
  /\ pc[p] = "seam.restore"
  /\ links' = [links EXCEPT ![t] =
       IF tree[t] = "none" THEN @ ELSE @ \cup (mem[p].taken \ git[t])]
  /\ Exit(p)
  /\ UNCHANGED <<rec, tree, staged, git, pin, perim, missed>>

-----------------------------------------------------------------------------
(* wkt rm, and the worktree-remove hook, which takes neither lock.         *)

\* Remove: Load; a tree that is gone goes straight to the cleanup; otherwise
\* Preflight.  It refuses a worktree the record does not know, force or not,
\* and may refuse for other work at risk; without force it always refuses a
\* tree that has lost its worktrees.
RmLoad(p) ==
  LET t == cmd[p].task
      foreign == rec[t] # None /\ git[t] \ rec[t].repos # {} IN
  /\ pc[p] = "rm.load"
  /\ \/ /\ rec[t] = None \/ tree[t] # "none"
        /\ Exit(p)
     \/ /\ rec[t] # None
        /\ tree[t] # "none" => ~foreign
        /\ tree[t] = "shell" => cmd[p].verb = "rm"
        /\ mem' = [mem EXCEPT ![p].snap = rec[t]]
        /\ Goto(p, IF tree[t] = "none" THEN "rm.git" ELSE "rm.fence")
        /\ UNCHANGED <<locks, cmd>>
  /\ UNCHANGED <<rec, disk>>

\* os.Rename(tree, staging/<task>): fails on a tree that is gone and onto a
\* staged tree that is not empty.
RmFence(p) ==
  LET t == cmd[p].task IN
  /\ pc[p] = "rm.fence"
  /\ IF tree[t] = "none" \/ staged[t]
       THEN Exit(p) /\ UNCHANGED <<tree, staged, links>>
       ELSE /\ tree' = [tree EXCEPT ![t] = "none"]
            /\ staged' = [staged EXCEPT ![t] = TRUE]
            /\ links' = [links EXCEPT ![t] = {}]
            /\ Goto(p, "rm.git")
            /\ UNCHANGED <<locks, cmd, mem>>
  /\ UNCHANGED <<rec, git, pin, perim, missed>>

\* (mutant) the base pins in the workspace's repositories are left behind.
RmGit_KeepsPins(p) ==
  LET t == cmd[p].task IN
  /\ pc[p] = "rm.git"
  /\ git' = [git EXCEPT ![t] =
               IF tree[t] = "full" THEN @ ELSE @ \ mem[p].snap.repos]
  /\ Goto(p, "rm.delete")
  /\ UNCHANGED <<locks, rec, tree, staged, pin, links, perim, missed, cmd, mem>>

\* finishRemove: per recorded repository unlock, prune, branch -D and the
\* pin.  branch -D refuses a branch whose worktree is still in its place.
RmGit(p) ==
  LET t == cmd[p].task IN
  /\ pc[p] = "rm.git"
  /\ git' = [git EXCEPT ![t] =
               IF tree[t] = "full" THEN @ ELSE @ \ mem[p].snap.repos]
  /\ pin' = [pin EXCEPT ![t] = @ \ mem[p].snap.repos]
  /\ Goto(p, "rm.delete")
  /\ UNCHANGED <<locks, rec, tree, staged, links, perim, missed, cmd, mem>>

\* (mutant) a failing delete is ignored and the record goes all the same.
RmDelete_IgnoresFailure(p) ==
  LET t == cmd[p].task IN
  /\ pc[p] = "rm.delete"
  /\ \/ staged' = [staged EXCEPT ![t] = FALSE]
     \/ "delete" \in Faults /\ UNCHANGED staged
  /\ Goto(p, "rm.forget")
  /\ UNCHANGED <<locks, rec, tree, git, pin, links, perim, missed, cmd, mem>>

\* os.RemoveAll(staged): on failure the record stays, so rm can be repeated.
RmDelete(p) ==
  LET t == cmd[p].task IN
  /\ pc[p] = "rm.delete"
  /\ \/ /\ staged' = [staged EXCEPT ![t] = FALSE]
        /\ Goto(p, "rm.forget")
        /\ UNCHANGED <<locks, cmd, mem>>
     \/ /\ "delete" \in Faults
        /\ staged[t]
        /\ Exit(p)
        /\ UNCHANGED staged
  /\ UNCHANGED <<rec, tree, git, pin, links, perim, missed>>

\* (mutant) the survivors are listed before the record is removed.
RmForget_ListsFirst(p) ==
  LET t == cmd[p].task IN
  /\ pc[p] = "rm.forget"
  /\ rec' = [rec EXCEPT ![t] = None]
  /\ mem' = [mem EXCEPT ![p].snap = None, ![p].todo = Recorded \ {t},
                        ![p].names = Recorded]
  /\ Goto(p, "refresh.load")
  /\ UNCHANGED <<locks, disk, cmd>>

\* The record goes last; refreshAfterRemoval then lists the survivors.
RmForget(p) ==
  LET t == cmd[p].task IN
  /\ pc[p] = "rm.forget"
  /\ rec' = [rec EXCEPT ![t] = None]
  /\ mem' = [mem EXCEPT ![p].snap = None, ![p].todo = Recorded \ {t},
                        ![p].names = Recorded \ {t}]
  /\ Goto(p, "refresh.load")
  /\ UNCHANGED <<locks, disk, cmd>>

-----------------------------------------------------------------------------
(* The verbs that take no lock and are not removals.                       *)

\* The session-start hook and wkt perimeter: Load, List and Write, Save.
StartLoad(p) ==
  LET t == cmd[p].task IN
  /\ pc[p] = "start.load"
  /\ IF rec[t] = None
       THEN Exit(p)
       ELSE /\ mem' = [mem EXCEPT ![p].snap = rec[t]]
            /\ Goto(p, "start.write")
            /\ UNCHANGED <<locks, cmd>>
  /\ UNCHANGED <<rec, disk>>

StartWrite(p) ==
  LET t == cmd[p].task IN
  /\ pc[p] = "start.write"
  /\ WritePerimeter(t, Recorded)
  /\ mem' = [mem EXCEPT ![p].names = Recorded \ {t}]
  /\ Goto(p, "start.save")
  /\ UNCHANGED <<locks, rec, staged, git, pin, links, missed, cmd>>

StartSave(p) ==
  /\ pc[p] = "start.save"
  /\ rec' = [rec EXCEPT ![cmd[p].task] =
               [mem[p].snap EXCEPT !.names = mem[p].names]]
  /\ Exit(p)
  /\ missed' = missed \ {cmd[p].task}
  /\ UNCHANGED <<tree, staged, git, pin, links, perim>>

\* wkt repair on a container that has not moved: links missing from their
\* slots are made again, with the directories leading to them.
RepairLoad(p) ==
  LET t == cmd[p].task IN
  /\ pc[p] = "repair.load"
  /\ IF rec[t] = None
       THEN Exit(p)
       ELSE /\ mem' = [mem EXCEPT ![p].snap = rec[t]]
            /\ Goto(p, "repair.links")
            /\ UNCHANGED <<locks, cmd>>
  /\ UNCHANGED <<rec, disk>>

RepairLinks(p) ==
  LET t == cmd[p].task IN
  /\ pc[p] = "repair.links"
  /\ links' = [links EXCEPT ![t] = @ \cup
       {r \in Slots(p) : tree[t] = "none" \/ r \notin git[t]}]
  /\ tree' = [tree EXCEPT ![t] = IF Slots(p) = {} THEN @ ELSE Touched(t)]
  /\ Exit(p)
  /\ UNCHANGED <<rec, staged, git, pin, perim, missed>>

\* wkt doctor --fix: the pins of every task that had no record when the
\* records were listed are deleted.
DoctorList(p) ==
  /\ pc[p] = "doctor.list"
  /\ mem' = [mem EXCEPT ![p].names = Recorded]
  /\ Goto(p, "doctor.sweep")
  /\ UNCHANGED <<locks, rec, disk, cmd>>

DoctorSweep(p) ==
  /\ pc[p] = "doctor.sweep"
  /\ pin' = [t \in Tasks |-> IF t \in mem[p].names THEN pin[t] ELSE {}]
  /\ Exit(p)
  /\ UNCHANGED <<rec, tree, staged, git, links, perim, missed>>

-----------------------------------------------------------------------------
\* Everything a running process does by itself.
Step(p) ==
  \/ LockContainer(p) \/ LockTask(p) \/ GiveUp(p)
  \/ NewCheck(p) \/ NewPin(p) \/ NewWorktrees(p) \/ NewPerimeter(p)
  \/ NewSave(p) \/ NewFail(p)
  \/ RefreshLoad(p) \/ RefreshFails(p) \/ RefreshSave(p) \/ RefreshDone(p)
  \/ AddLoad(p) \/ AddGraft(p) \/ AddSave(p) \/ AddFail(p) \/ AddSeam(p)
  \/ AddReload(p)
  \/ PostLoad(p) \/ SeamWithdraw(p) \/ SeamSkip(p) \/ SeamScript(p)
  \/ SeamLoad(p) \/ SeamSave(p) \/ SeamRestore(p)
  \/ RmLoad(p) \/ RmFence(p) \/ RmGit(p) \/ RmDelete(p) \/ RmForget(p)
  \/ StartLoad(p) \/ StartWrite(p) \/ StartSave(p)
  \/ RepairLoad(p) \/ RepairLinks(p) \/ DoctorList(p) \/ DoctorSweep(p)

Next == \E p \in Procs : Start(p) \/ Step(p) \/ Crash(p)

Spec == Init /\ [][Next]_vars

\* A running process takes its next step: the operating system schedules it,
\* git and the file system answer, and the script ends (the hook stops it
\* after eight minutes; on the command line the user can).
FairSpec == Spec /\ \A p \in Procs : WF_vars(Step(p))

-----------------------------------------------------------------------------
(* Properties.                                                             *)

LocksOK ==
  /\ cLock \in Procs \cup {None}
  /\ tLock \in [Tasks -> Procs \cup {None}]

DiskOK ==
  /\ rec \in [Tasks -> Record \cup {None}]
  /\ tree \in [Tasks -> {"none", "full", "shell"}]
  /\ staged \in [Tasks -> BOOLEAN]
  /\ git \in [Tasks -> SUBSET Repos]
  /\ pin \in [Tasks -> SUBSET Repos]
  /\ links \in [Tasks -> SUBSET Repos]
  /\ perim \in [Tasks -> SUBSET Tasks]
  /\ missed \in SUBSET Tasks

Command == [verb: AllVerbs \cup {"none"}, task: Tasks \cup {None},
            repos: SUBSET Repos]
Memory == [snap: Record \cup {None}, cur: Tasks \cup Repos \cup {None},
           todo: SUBSET Tasks, names: SUBSET Tasks, taken: SUBSET Repos]

ProcsOK ==
  /\ pc \in [Procs -> Labels]
  /\ cmd \in [Procs -> Command]
  /\ mem \in [Procs -> Memory]

\* Every variable stays in its range (the fields of a record, what a command
\* may have read of it).
TypeOK == LocksOK /\ DiskOK /\ ProcsOK

ContainerWait == {"new.lock", "add.lock", "rm.lock"}
TaskWait == {"seam.lock", "post.lock", "rm.task"}

BlockedBy(p, q) ==
  \/ pc[p] \in ContainerWait /\ cLock = q
  \/ pc[p] \in TaskWait /\ tLock[cmd[p].task] = q

\* Two locks are taken in turn, and new, add and rm hold the container while
\* they wait for a task.  Whoever is at the end of two waits is running, so
\* that no circle of processes, of any length, sits out its deadlines
\* (container.Lock and container.LockTask as cli.go's verbs nest them).
NoCircularWait ==
  \A p, q, r \in Procs :
    BlockedBy(p, q) /\ BlockedBy(q, r) => pc[r] \notin ContainerWait \cup TaskWait

\* A record comes into being only when a creation commits it: "a task that
\* is gone stays gone", whatever another process had loaded before (the seam
\* in cli.go, refreshSiblings, refreshAfterRemoval and task.Add all write
\* back a record read earlier).
NoRevival ==
  [][\A t \in Tasks : rec[t] = None /\ rec'[t] # None =>
       \E p \in Procs : pc[p] = "new.save" /\ cmd[p].task = t]_vars

\* What lies in staging/ belongs to a record, so that a removal cut short by
\* a crash or by a failing delete can be found and repeated (finishRemove
\* removes the record last).
StagedOwned == \A t \in Tasks : staged[t] => rec[t] # None

\* A tree is taken away only by the removal of its recorded task, or by the
\* rollback of a creation whose task has no record yet: never another
\* command's tree (task.Create refuses an existing tree because its undo is
\* a RemoveAll; task.Remove moves the tree it checked).
TreeTakenByOwner ==
  [][\A t \in Tasks : tree[t] # "none" /\ tree'[t] = "none" =>
       \E p \in Procs : /\ cmd[p].task = t
                        /\ \/ pc[p] = "rm.fence" /\ rec[t] = mem[p].snap
                           \/ cmd[p].verb = "new" /\ rec[t] = None]_vars

\* Whoever is about to move a tree into staging finds no earlier one there:
\* the next wkt rm resumes an interrupted delete instead of failing at its
\* own fence (task.Remove's shortcut for a tree that is gone).
RemovalResumes ==
  \A p \in Procs : pc[p] = "rm.fence" => ~staged[cmd[p].task]

\* A worktree recorded once stays recorded as long as the task does: no
\* command writes an older record over it.
GraftsSurvive ==
  [][\A t \in Tasks : rec[t] # None /\ rec'[t] # None =>
       rec[t].repos \subseteq rec'[t].repos]_vars

\* With the container at rest every recorded task has a whole tree, its
\* stores, pins and record name the same repositories, and once no script
\* runs there every other repository has its link.
RecordMatchesDisk ==
  cLock = None => \A t \in Tasks :
    IF rec[t] = None
      THEN tree[t] = "none" /\ git[t] = {} /\ pin[t] = {}
      ELSE /\ tree[t] = "full" /\ git[t] = rec[t].repos /\ pin[t] = rec[t].repos
           /\ tLock[t] = None => links[t] = Repos \ rec[t].repos

\* With the container at rest no perimeter is stale (it names exactly the
\* other tasks) and none diverges from the hash recorded for it, but for the
\* tasks whose refresh failed, or whose refresher died, with no write since:
\* refreshSiblings and refreshAfterRemoval drop the error without a word and
\* leave those to the next wkt perimeter.
PerimeterCurrent ==
  cLock = None => \A t \in Recorded \ missed :
    rec[t].names = Recorded \ {t} /\ perim[t] = rec[t].names

\* No link into the workspace is in the tree while the script runs there.
ScriptIsolated ==
  \A p \in Procs : pc[p] = "seam.script" => links[cmd[p].task] = {}

\* The tree and the record a script works for outlive the script.
ScriptKeepsTree ==
  \A p \in Procs : pc[p] \in {"seam.script", "seam.load", "seam.save"} =>
    rec[cmd[p].task] # None /\ tree[cmd[p].task] # "none"

\* Every command ends: whoever waits for a lock gets it or gives up.
CommandsEnd == \A p \in Procs : pc[p] # "idle" ~> pc[p] = "idle"
=============================================================================
