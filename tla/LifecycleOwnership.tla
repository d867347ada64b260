------------------------ MODULE LifecycleOwnership -------------------------
(***************************************************************************)
(* Proofs about Lifecycle: what belongs to whom, and what holds when       *)
(* nobody is at work.  For any processes, tasks and repositories, under    *)
(* the hypotheses each theorem names:                                      *)
(*   - what is staged has a record, a removed record stays removed and a   *)
(*     tree leaves with its owner;                                         *)
(*   - a script has a task, a tree and no link into the workspace;         *)
(*   - no worktree is lost from a record;                                  *)
(*   - with the container at rest the records agree with the disk, and     *)
(*     every tree is told of exactly the other tasks.                      *)
(***************************************************************************)
EXTENDS LifecycleProofs

InContainer == {"new.check", "new.pin", "new.worktrees", "new.perimeter",
  "new.save", "refresh.load", "refresh.save", "add.load", "add.graft",
  "add.save", "add.seam", "seam.lock", "rm.task", "rm.load", "rm.fence",
  "rm.git", "rm.delete", "rm.forget"}

InTask == {"add.reload", "seam.withdraw", "seam.script", "seam.load",
  "seam.save", "seam.restore", "rm.load", "rm.fence", "rm.git", "rm.delete",
  "rm.forget"}

Outside == {"idle", "new.lock", "add.lock", "rm.lock", "post.load", "post.lock"}

Exclusion ==
  \A p \in Procs :
    /\ pc[p] \in InContainer => cLock = p
    /\ pc[p] \in InTask => tLock[cmd[p].task] = p
    /\ pc[p] \in InContainer \cup InTask \cup Outside

Building == {"new.pin", "new.worktrees", "new.perimeter", "new.save"}
Removing == {"rm.fence", "rm.git", "rm.delete", "rm.forget"}

Hold ==
  \A p \in Procs :
    /\ pc[p] \in Building => rec[cmd[p].task] = None
    /\ pc[p] \in {"add.graft", "add.save", "seam.save"} \cup Removing =>
         rec[cmd[p].task] # None
    /\ pc[p] = "refresh.save" => rec[mem[p].cur] # None
    /\ pc[p] = "rm.fence" => mem[p].snap = rec[cmd[p].task]
    /\ pc[p] \in Building \cup {"new.lock", "new.check"} => cmd[p].verb = "new"

Staging ==
  /\ \A t \in Tasks : staged[t] => rec[t] # None
  /\ \A p \in Procs : pc[p] = "rm.forget" => ~staged[cmd[p].task]

OwnInv == Exclusion /\ Hold /\ Staging

LEMMA OwnInit == Init => OwnInv
BY NoneAssumption DEF Init, OwnInv, Exclusion, Hold, Staging, InContainer, InTask, Outside, Building, Removing

LEMMA OwnStep ==
  ASSUME Verbs \subseteq LockedVerbs, TypeInv, OwnInv, [Next]_vars
  PROVE  OwnInv'
<1> USE NoneAssumption DEF TypeInv, TypeOK, OwnInv, LocksOK, InHand, WithSnap, InContainer, InTask, Outside, Building, Removing
<1>t. \A p \in Procs : pc[p] # "idle" => cmd[p].task \in Tasks
  BY DEF InHand
<1>1. ASSUME NEW p \in Procs, Start(p) PROVE OwnInv'
  <2>1. Exclusion'
    BY <1>1 DEF Start, Entry, AllVerbs, Selections, LockedVerbs, Exclusion, ProcsOK, Goto, Exit, locks
  <2>2. Hold'
    BY <1>1 DEF Start, Entry, AllVerbs, Selections, LockedVerbs, Exclusion, Hold, DiskOK, ProcsOK, Goto, Exit, Blank
  <2>3. Staging'
    BY <1>1 DEF Start, Entry, AllVerbs, Selections, LockedVerbs, Exclusion, Hold, Staging, DiskOK, ProcsOK, Goto, Exit, disk
  <2> QED BY <2>1, <2>2, <2>3
<1>2. ASSUME NEW p \in Procs, LockContainer(p) PROVE OwnInv'
  <2>1. Exclusion'
    BY <1>2 DEF LockContainer, AfterContainer, Exclusion, ProcsOK, Goto, Exit, locks
  <2>2. Hold'
    BY <1>2 DEF LockContainer, AfterContainer, Exclusion, Hold, DiskOK, ProcsOK, Goto, Exit, Blank
  <2>3. Staging'
    BY <1>2 DEF LockContainer, AfterContainer, Exclusion, Hold, Staging, DiskOK, ProcsOK, Goto, Exit, disk
  <2> QED BY <2>1, <2>2, <2>3
<1>3. ASSUME NEW p \in Procs, LockTask(p) PROVE OwnInv'
  <2>1. Exclusion'
    BY <1>3 DEF LockTask, Exclusion, ProcsOK, Goto, Exit, locks
  <2>2. Hold'
    BY <1>3 DEF LockTask, Exclusion, Hold, DiskOK, ProcsOK, Goto, Exit, Blank
  <2>3. Staging'
    BY <1>3 DEF LockTask, Exclusion, Hold, Staging, DiskOK, ProcsOK, Goto, Exit, disk
  <2> QED BY <2>1, <2>2, <2>3
<1>4. ASSUME NEW p \in Procs, GiveUp(p) PROVE OwnInv'
  <2>1. Exclusion'
    BY <1>4 DEF GiveUp, Exclusion, ProcsOK, Goto, Exit, locks
  <2>2. Hold'
    BY <1>4 DEF GiveUp, Exclusion, Hold, DiskOK, ProcsOK, Goto, Exit, Blank
  <2>3. Staging'
    BY <1>4 DEF GiveUp, Exclusion, Hold, Staging, DiskOK, ProcsOK, Goto, Exit, disk
  <2> QED BY <2>1, <2>2, <2>3
<1>5. ASSUME NEW p \in Procs, Crash(p) PROVE OwnInv'
  <2>1. Exclusion'
    BY <1>5 DEF Crash, Exclusion, ProcsOK, Goto, Exit, locks
  <2>2. Hold'
    BY <1>5 DEF Crash, Exclusion, Hold, DiskOK, ProcsOK, Goto, Exit, Blank
  <2>3. Staging'
    BY <1>5 DEF Crash, Exclusion, Hold, Staging, DiskOK, ProcsOK, Goto, Exit, disk
  <2> QED BY <2>1, <2>2, <2>3
<1>6. ASSUME NEW p \in Procs, NewCheck(p) PROVE OwnInv'
  <2>1. Exclusion'
    BY <1>6 DEF NewCheck, Exclusion, ProcsOK, Goto, Exit, locks
  <2>2. Hold'
    BY <1>6 DEF NewCheck, Exclusion, Hold, DiskOK, ProcsOK, Goto, Exit, Blank
  <2>3. Staging'
    BY <1>6 DEF NewCheck, Exclusion, Hold, Staging, DiskOK, ProcsOK, Goto, Exit, disk
  <2> QED BY <2>1, <2>2, <2>3
<1>7. ASSUME NEW p \in Procs, NewPin(p) PROVE OwnInv'
  <2>1. Exclusion'
    BY <1>7 DEF NewPin, Exclusion, ProcsOK, Goto, Exit, locks
  <2>2. Hold'
    BY <1>7 DEF NewPin, Exclusion, Hold, DiskOK, ProcsOK, Goto, Exit, Blank
  <2>3. Staging'
    BY <1>7 DEF NewPin, Exclusion, Hold, Staging, DiskOK, ProcsOK, Goto, Exit, disk
  <2> QED BY <2>1, <2>2, <2>3
<1>8. ASSUME NEW p \in Procs, NewWorktrees(p) PROVE OwnInv'
  <2>1. Exclusion'
    BY <1>8 DEF NewWorktrees, Exclusion, ProcsOK, Goto, Exit, locks
  <2>2. Hold'
    BY <1>8 DEF NewWorktrees, Exclusion, Hold, DiskOK, ProcsOK, Goto, Exit, Blank
  <2>3. Staging'
    BY <1>8 DEF NewWorktrees, Exclusion, Hold, Staging, DiskOK, ProcsOK, Goto, Exit, disk
  <2> QED BY <2>1, <2>2, <2>3
<1>9. ASSUME NEW p \in Procs, NewPerimeter(p) PROVE OwnInv'
  <2>1. Exclusion'
    BY <1>9 DEF NewPerimeter, Exclusion, ProcsOK, Goto, Exit, locks
  <2>2. Hold'
    BY <1>9 DEF NewPerimeter, Exclusion, Hold, DiskOK, ProcsOK, Goto, Exit, Blank
  <2>3. Staging'
    BY <1>9 DEF NewPerimeter, Exclusion, Hold, Staging, DiskOK, ProcsOK, Goto, Exit, disk
  <2> QED BY <2>1, <2>2, <2>3
<1>10. ASSUME NEW p \in Procs, NewSave(p) PROVE OwnInv'
  <2>1. Exclusion'
    BY <1>10 DEF NewSave, Exclusion, ProcsOK, Goto, Exit, locks
  <2>2. Hold'
    BY <1>10 DEF NewSave, Exclusion, Hold, DiskOK, ProcsOK, Goto, Exit, Blank
  <2>3. Staging'
    BY <1>10 DEF NewSave, Exclusion, Hold, Staging, DiskOK, ProcsOK, Goto, Exit, disk
  <2> QED BY <2>1, <2>2, <2>3
<1>11. ASSUME NEW p \in Procs, NewFail(p) PROVE OwnInv'
  <2>1. Exclusion'
    BY <1>11 DEF NewFail, Exclusion, ProcsOK, Goto, Exit, locks
  <2>2. Hold'
    BY <1>11 DEF NewFail, Exclusion, Hold, DiskOK, ProcsOK, Goto, Exit, Blank
  <2>3. Staging'
    BY <1>11 DEF NewFail, Exclusion, Hold, Staging, DiskOK, ProcsOK, Goto, Exit, disk
  <2> QED BY <2>1, <2>2, <2>3
<1>12. ASSUME NEW p \in Procs, RefreshLoad(p) PROVE OwnInv'
  <2>1. Exclusion'
    BY <1>12 DEF RefreshLoad, Exclusion, ProcsOK, Goto, Exit, locks
  <2>2. Hold'
    BY <1>12 DEF RefreshLoad, Exclusion, Hold, DiskOK, ProcsOK, Goto, Exit, Blank
  <2>3. Staging'
    BY <1>12 DEF RefreshLoad, Exclusion, Hold, Staging, DiskOK, ProcsOK, Goto, Exit, disk
  <2> QED BY <2>1, <2>2, <2>3
<1>13. ASSUME NEW p \in Procs, RefreshSave(p) PROVE OwnInv'
  <2>0. /\ mem[p].cur \in Tasks
        /\ rec'[mem[p].cur] # None
        /\ \A t \in Tasks \ {mem[p].cur} : rec'[t] = rec[t]
    <3>1. /\ mem[p].snap \in Record /\ mem[p].names \in SUBSET Tasks
          /\ mem[p].cur \in Tasks
      BY <1>13, <1>t, MemoryFields DEF RefreshSave, ProcsOK
    <3>2. [mem[p].snap EXCEPT !.names = mem[p].names \ {mem[p].cur}] \in Record
      BY <3>1, RecordUpdates
    <3> QED
      BY <1>13, <3>1, <3>2 DEF RefreshSave, DiskOK
  <2>1. Exclusion'
    BY <1>13 DEF RefreshSave, Exclusion, ProcsOK, Goto, Exit, locks
  <2>2. Hold'
    BY <2>0, <1>13 DEF RefreshSave, Exclusion, Hold, DiskOK, ProcsOK, Goto, Exit, Blank
  <2>3. Staging'
    BY <2>0, <1>13 DEF RefreshSave, Exclusion, Hold, Staging, DiskOK, ProcsOK, Goto, Exit, disk
  <2> QED BY <2>1, <2>2, <2>3
<1>14. ASSUME NEW p \in Procs, RefreshDone(p) PROVE OwnInv'
  <2>1. Exclusion'
    BY <1>14 DEF RefreshDone, Exclusion, ProcsOK, Goto, Exit, locks
  <2>2. Hold'
    BY <1>14 DEF RefreshDone, Exclusion, Hold, DiskOK, ProcsOK, Goto, Exit, Blank
  <2>3. Staging'
    BY <1>14 DEF RefreshDone, Exclusion, Hold, Staging, DiskOK, ProcsOK, Goto, Exit, disk
  <2> QED BY <2>1, <2>2, <2>3
<1>15. ASSUME NEW p \in Procs, AddLoad(p) PROVE OwnInv'
  <2>1. Exclusion'
    BY <1>15 DEF AddLoad, Exclusion, ProcsOK, Goto, Exit, locks
  <2>2. Hold'
    BY <1>15 DEF AddLoad, Exclusion, Hold, DiskOK, ProcsOK, Goto, Exit, Blank
  <2>3. Staging'
    BY <1>15 DEF AddLoad, Exclusion, Hold, Staging, DiskOK, ProcsOK, Goto, Exit, disk
  <2> QED BY <2>1, <2>2, <2>3
<1>16. ASSUME NEW p \in Procs, AddGraft(p) PROVE OwnInv'
  <2>1. Exclusion'
    BY <1>16 DEF AddGraft, Exclusion, ProcsOK, Goto, Exit, locks
  <2>2. Hold'
    BY <1>16 DEF AddGraft, Exclusion, Hold, DiskOK, ProcsOK, Goto, Exit, Blank
  <2>3. Staging'
    BY <1>16 DEF AddGraft, Exclusion, Hold, Staging, DiskOK, ProcsOK, Goto, Exit, disk
  <2> QED BY <2>1, <2>2, <2>3
<1>17. ASSUME NEW p \in Procs, AddSave(p) PROVE OwnInv'
  <2>0. /\ rec'[cmd[p].task] # None
        /\ \A t \in Tasks \ {cmd[p].task} : rec'[t] = rec[t]
    <3>1. /\ mem[p].snap \in Record /\ mem[p].names \in SUBSET Tasks
          /\ mem[p].cur \in Repos /\ cmd[p].task \in Tasks
      BY <1>17, <1>t, MemoryFields DEF AddSave, ProcsOK
    <3>2. [mem[p].snap EXCEPT !.repos = @ \cup {mem[p].cur}, !.names = mem[p].names] \in Record
      BY <3>1, RecordUpdates
    <3> QED
      BY <1>17, <3>1, <3>2 DEF AddSave, DiskOK
  <2>1. Exclusion'
    BY <1>17 DEF AddSave, Exclusion, ProcsOK, Goto, Exit, locks
  <2>2. Hold'
    BY <2>0, <1>17 DEF AddSave, Exclusion, Hold, DiskOK, ProcsOK, Goto, Exit, Blank
  <2>3. Staging'
    BY <2>0, <1>17 DEF AddSave, Exclusion, Hold, Staging, DiskOK, ProcsOK, Goto, Exit, disk
  <2> QED BY <2>1, <2>2, <2>3
<1>18. ASSUME NEW p \in Procs, AddFail(p) PROVE OwnInv'
  <2>1. Exclusion'
    BY <1>18 DEF AddFail, Exclusion, ProcsOK, Goto, Exit, locks
  <2>2. Hold'
    BY <1>18 DEF AddFail, Exclusion, Hold, DiskOK, ProcsOK, Goto, Exit, Blank
  <2>3. Staging'
    BY <1>18 DEF AddFail, Exclusion, Hold, Staging, DiskOK, ProcsOK, Goto, Exit, disk
  <2> QED BY <2>1, <2>2, <2>3
<1>19. ASSUME NEW p \in Procs, AddSeam(p) PROVE OwnInv'
  <2>1. Exclusion'
    BY <1>19 DEF AddSeam, Exclusion, ProcsOK, Goto, Exit, locks
  <2>2. Hold'
    BY <1>19 DEF AddSeam, Exclusion, Hold, DiskOK, ProcsOK, Goto, Exit, Blank
  <2>3. Staging'
    BY <1>19 DEF AddSeam, Exclusion, Hold, Staging, DiskOK, ProcsOK, Goto, Exit, disk
  <2> QED BY <2>1, <2>2, <2>3
<1>20. ASSUME NEW p \in Procs, AddReload(p) PROVE OwnInv'
  <2>1. Exclusion'
    BY <1>20 DEF AddReload, Exclusion, ProcsOK, Goto, Exit, locks
  <2>2. Hold'
    BY <1>20 DEF AddReload, Exclusion, Hold, DiskOK, ProcsOK, Goto, Exit, Blank
  <2>3. Staging'
    BY <1>20 DEF AddReload, Exclusion, Hold, Staging, DiskOK, ProcsOK, Goto, Exit, disk
  <2> QED BY <2>1, <2>2, <2>3
<1>21. ASSUME NEW p \in Procs, PostLoad(p) PROVE OwnInv'
  <2>1. Exclusion'
    BY <1>21 DEF PostLoad, Exclusion, ProcsOK, Goto, Exit, locks
  <2>2. Hold'
    BY <1>21 DEF PostLoad, Exclusion, Hold, DiskOK, ProcsOK, Goto, Exit, Blank
  <2>3. Staging'
    BY <1>21 DEF PostLoad, Exclusion, Hold, Staging, DiskOK, ProcsOK, Goto, Exit, disk
  <2> QED BY <2>1, <2>2, <2>3
<1>22. ASSUME NEW p \in Procs, SeamWithdraw(p) PROVE OwnInv'
  <2>1. Exclusion'
    BY <1>22 DEF SeamWithdraw, Exclusion, ProcsOK, Goto, Exit, locks
  <2>2. Hold'
    BY <1>22 DEF SeamWithdraw, Exclusion, Hold, DiskOK, ProcsOK, Goto, Exit, Blank
  <2>3. Staging'
    BY <1>22 DEF SeamWithdraw, Exclusion, Hold, Staging, DiskOK, ProcsOK, Goto, Exit, disk
  <2> QED BY <2>1, <2>2, <2>3
<1>23. ASSUME NEW p \in Procs, SeamSkip(p) PROVE OwnInv'
  <2>1. Exclusion'
    BY <1>23 DEF SeamSkip, Exclusion, ProcsOK, Goto, Exit, locks
  <2>2. Hold'
    BY <1>23 DEF SeamSkip, Exclusion, Hold, DiskOK, ProcsOK, Goto, Exit, Blank
  <2>3. Staging'
    BY <1>23 DEF SeamSkip, Exclusion, Hold, Staging, DiskOK, ProcsOK, Goto, Exit, disk
  <2> QED BY <2>1, <2>2, <2>3
<1>24. ASSUME NEW p \in Procs, SeamScript(p) PROVE OwnInv'
  <2>1. Exclusion'
    BY <1>24 DEF SeamScript, Exclusion, ProcsOK, Goto, Exit, locks
  <2>2. Hold'
    BY <1>24 DEF SeamScript, Exclusion, Hold, DiskOK, ProcsOK, Goto, Exit, Blank
  <2>3. Staging'
    BY <1>24 DEF SeamScript, Exclusion, Hold, Staging, DiskOK, ProcsOK, Goto, Exit, disk
  <2> QED BY <2>1, <2>2, <2>3
<1>25. ASSUME NEW p \in Procs, SeamLoad(p) PROVE OwnInv'
  <2>1. Exclusion'
    BY <1>25 DEF SeamLoad, Exclusion, ProcsOK, Goto, Exit, locks
  <2>2. Hold'
    BY <1>25 DEF SeamLoad, Exclusion, Hold, DiskOK, ProcsOK, Goto, Exit, Blank
  <2>3. Staging'
    BY <1>25 DEF SeamLoad, Exclusion, Hold, Staging, DiskOK, ProcsOK, Goto, Exit, disk
  <2> QED BY <2>1, <2>2, <2>3
<1>26. ASSUME NEW p \in Procs, SeamSave(p) PROVE OwnInv'
  <2>0. /\ rec'[cmd[p].task] # None
        /\ \A t \in Tasks \ {cmd[p].task} : rec'[t] = rec[t]
    <3>1. /\ mem[p].snap \in Record /\ mem[p].names \in SUBSET Tasks
          /\ cmd[p].task \in Tasks
      BY <1>26, <1>t, MemoryFields DEF SeamSave, ProcsOK
    <3>2. [mem[p].snap EXCEPT !.produced = TRUE] \in Record
      BY <3>1, RecordUpdates
    <3> QED
      BY <1>26, <3>1, <3>2 DEF SeamSave, DiskOK
  <2>1. Exclusion'
    BY <1>26 DEF SeamSave, Exclusion, ProcsOK, Goto, Exit, locks
  <2>2. Hold'
    BY <2>0, <1>26 DEF SeamSave, Exclusion, Hold, DiskOK, ProcsOK, Goto, Exit, Blank
  <2>3. Staging'
    BY <2>0, <1>26 DEF SeamSave, Exclusion, Hold, Staging, DiskOK, ProcsOK, Goto, Exit, disk
  <2> QED BY <2>1, <2>2, <2>3
<1>27. ASSUME NEW p \in Procs, SeamRestore(p) PROVE OwnInv'
  <2>1. Exclusion'
    BY <1>27 DEF SeamRestore, Exclusion, ProcsOK, Goto, Exit, locks
  <2>2. Hold'
    BY <1>27 DEF SeamRestore, Exclusion, Hold, DiskOK, ProcsOK, Goto, Exit, Blank
  <2>3. Staging'
    BY <1>27 DEF SeamRestore, Exclusion, Hold, Staging, DiskOK, ProcsOK, Goto, Exit, disk
  <2> QED BY <2>1, <2>2, <2>3
<1>28. ASSUME NEW p \in Procs, RmLoad(p) PROVE OwnInv'
  <2>1. Exclusion'
    BY <1>28 DEF RmLoad, Exclusion, ProcsOK, Goto, Exit, locks
  <2>2. Hold'
    <3>1. CASE Goto(p, "idle")
      BY <1>28, <3>1 DEF RmLoad, Exclusion, Hold, ProcsOK, Goto, Exit, Blank
    <3>2. CASE /\ rec[cmd[p].task] # None
               /\ mem' = [mem EXCEPT ![p].snap = rec[cmd[p].task]]
               /\ pc' \in {[pc EXCEPT ![p] = "rm.git"], [pc EXCEPT ![p] = "rm.fence"]}
               /\ UNCHANGED <<rec, cmd>>
      <4>1. /\ mem'[p].snap = rec[cmd[p].task]
            /\ \A q \in Procs \ {p} : mem'[q] = mem[q] /\ pc'[q] = pc[q]
            /\ pc'[p] \in {"rm.git", "rm.fence"}
        BY <3>2 DEF ProcsOK, Memory
      <4> QED
        BY <3>2, <4>1 DEF Hold
    <3> QED
      BY <1>28, <3>1, <3>2 DEF RmLoad, Goto, Exit
  <2>3. Staging'
    BY <1>28 DEF RmLoad, Exclusion, Hold, Staging, DiskOK, ProcsOK, Goto, Exit, disk
  <2> QED BY <2>1, <2>2, <2>3
<1>29. ASSUME NEW p \in Procs, RmFence(p) PROVE OwnInv'
  <2>1. Exclusion'
    BY <1>29 DEF RmFence, Exclusion, ProcsOK, Goto, Exit, locks
  <2>2. Hold'
    BY <1>29 DEF RmFence, Exclusion, Hold, DiskOK, ProcsOK, Goto, Exit, Blank
  <2>3. Staging'
    BY <1>29 DEF RmFence, Exclusion, Hold, Staging, DiskOK, ProcsOK, Goto, Exit, disk
  <2> QED BY <2>1, <2>2, <2>3
<1>30. ASSUME NEW p \in Procs, RmGit(p) PROVE OwnInv'
  <2>1. Exclusion'
    BY <1>30 DEF RmGit, Exclusion, ProcsOK, Goto, Exit, locks
  <2>2. Hold'
    BY <1>30 DEF RmGit, Exclusion, Hold, DiskOK, ProcsOK, Goto, Exit, Blank
  <2>3. Staging'
    BY <1>30 DEF RmGit, Exclusion, Hold, Staging, DiskOK, ProcsOK, Goto, Exit, disk
  <2> QED BY <2>1, <2>2, <2>3
<1>31. ASSUME NEW p \in Procs, RmDelete(p) PROVE OwnInv'
  <2>1. Exclusion'
    BY <1>31 DEF RmDelete, Exclusion, ProcsOK, Goto, Exit, locks
  <2>2. Hold'
    BY <1>31 DEF RmDelete, Exclusion, Hold, DiskOK, ProcsOK, Goto, Exit, Blank
  <2>3. Staging'
    BY <1>31 DEF RmDelete, Exclusion, Hold, Staging, DiskOK, ProcsOK, Goto, Exit, disk
  <2> QED BY <2>1, <2>2, <2>3
<1>32. ASSUME NEW p \in Procs, RmForget(p) PROVE OwnInv'
  <2>1. Exclusion'
    BY <1>32 DEF RmForget, Exclusion, ProcsOK, Goto, Exit, locks
  <2>2. Hold'
    BY <1>32 DEF RmForget, Exclusion, Hold, DiskOK, ProcsOK, Goto, Exit, Blank
  <2>3. Staging'
    BY <1>32 DEF RmForget, Exclusion, Hold, Staging, DiskOK, ProcsOK, Goto, Exit, disk
  <2> QED BY <2>1, <2>2, <2>3
<1>33. ASSUME NEW p \in Procs,
         StartLoad(p) \/ StartWrite(p) \/ StartSave(p) \/ RepairLoad(p) \/ RepairLinks(p) \/ DoctorList(p) \/ DoctorSweep(p)
       PROVE FALSE
  BY <1>33 DEF Exclusion, StartLoad, StartWrite, StartSave, RepairLoad, RepairLinks, DoctorList, DoctorSweep
<1>34. CASE UNCHANGED vars
  BY <1>34 DEF vars, Exclusion, Hold, Staging
<1>35. ASSUME NEW p \in Procs, RefreshFails(p) PROVE OwnInv'
  <2>1. Exclusion'
    BY <1>35 DEF RefreshFails, Exclusion, ProcsOK, locks
  <2>2. Hold'
    BY <1>35 DEF RefreshFails, Exclusion, Hold, DiskOK, ProcsOK
  <2>3. Staging'
    BY <1>35 DEF RefreshFails, Exclusion, Hold, Staging, DiskOK, ProcsOK
  <2> QED BY <2>1, <2>2, <2>3
<1> QED
  BY <1>1, <1>2, <1>3, <1>4, <1>5, <1>6, <1>7, <1>8, <1>9, <1>10, <1>11, <1>12, <1>13, <1>14, <1>15, <1>16, <1>17, <1>18, <1>19, <1>20, <1>21, <1>22, <1>23, <1>24, <1>25, <1>26, <1>27, <1>28, <1>29, <1>30, <1>31, <1>32, <1>33, <1>34, <1>35 DEF Next, Step

\* The invariant of every behaviour of the locked verbs.
LEMMA OwnInvariant ==
  ASSUME Verbs \subseteq LockedVerbs
  PROVE  Spec => [](TypeInv /\ OwnInv)
<1>1. Init => TypeInv /\ OwnInv
  BY TypeInit, OwnInit
<1>2. TypeInv /\ OwnInv /\ [Next]_vars => (TypeInv /\ OwnInv)'
  BY TypeStep, OwnStep
<1> QED
  BY <1>1, <1>2, PTL DEF Spec

\* With the verbs that lock, a staged tree always has the record by which the
\* removal can be found and finished, crashes and failed deletes included.
THEOREM StagedHasRecord ==
  ASSUME Verbs \subseteq LockedVerbs
  PROVE  Spec => []StagedOwned
<1>1. OwnInv => StagedOwned
  BY DEF OwnInv, Staging, StagedOwned
<1> QED
  BY <1>1, OwnInvariant, PTL

\* With the verbs that lock, no write-back of a record read earlier brings a
\* removed task back.
THEOREM RemovedStaysRemoved ==
  ASSUME Verbs \subseteq LockedVerbs
  PROVE  Spec => NoRevival
<1> DEFINE Created ==
      \A t \in Tasks : rec[t] = None /\ rec'[t] # None =>
        \E p \in Procs : pc[p] = "new.save" /\ cmd[p].task = t
<1>1. TypeInv /\ OwnInv /\ [Next]_vars => [Created]_vars
  <2> SUFFICES ASSUME TypeInv, OwnInv, Next PROVE Created
    OBVIOUS
  <2> USE DEF OwnInv, Hold, Exclusion, InContainer, InTask, Outside
  <2>1. PICK p \in Procs : Start(p) \/ Step(p) \/ Crash(p)
    BY DEF Next
  <2>2. CASE UNCHANGED rec
    BY <2>2
  <2>3. CASE NewSave(p)
    BY <2>3 DEF NewSave, TypeInv, TypeOK, DiskOK
  <2>4. CASE RefreshSave(p)
    BY <2>4 DEF RefreshSave, TypeInv, TypeOK, DiskOK
  <2>5. CASE AddSave(p)
    BY <2>5 DEF AddSave, TypeInv, TypeOK, DiskOK
  <2>6. CASE SeamSave(p)
    BY <2>6 DEF SeamSave, TypeInv, TypeOK, DiskOK
  <2>7. CASE RmForget(p)
    BY <2>7 DEF RmForget, TypeInv, TypeOK, DiskOK
  <2>8. ~StartSave(p)
    BY DEF StartSave
  <2> QED
    BY <2>1, <2>2, <2>3, <2>4, <2>5, <2>6, <2>7, <2>8 DEF Step, Start, Crash,
       LockContainer, LockTask, GiveUp, NewCheck, NewPin, NewWorktrees,
       NewPerimeter, NewFail, RefreshLoad, RefreshFails, RefreshDone, AddLoad, AddGraft,
       AddFail, AddSeam, AddReload, PostLoad, SeamWithdraw, SeamSkip,
       SeamScript, SeamLoad, SeamRestore, RmLoad, RmFence, RmGit, RmDelete,
       StartLoad, StartWrite, RepairLoad, RepairLinks, DoctorList, DoctorSweep, disk
<1>2. Spec => [](TypeInv /\ OwnInv)
  BY OwnInvariant
<1> QED
  BY <1>1, <1>2, PTL DEF Spec, NoRevival

\* With the verbs that lock, a tree leaves its place only as the tree the
\* removal has checked, or as the unrecorded tree of a failed creation.
THEOREM TreeLeavesWithOwner ==
  ASSUME Verbs \subseteq LockedVerbs
  PROVE  Spec => TreeTakenByOwner
<1> DEFINE Taken ==
      \A t \in Tasks : tree[t] # "none" /\ tree'[t] = "none" =>
        \E p \in Procs : /\ cmd[p].task = t
                         /\ \/ pc[p] = "rm.fence" /\ rec[t] = mem[p].snap
                            \/ cmd[p].verb = "new" /\ rec[t] = None
<1>1. TypeInv /\ OwnInv /\ [Next]_vars => [Taken]_vars
  <2> SUFFICES ASSUME TypeInv, OwnInv, Next PROVE Taken
    OBVIOUS
  <2> USE DEF OwnInv, Hold, Exclusion, InContainer, InTask, Outside, Building
  <2>1. PICK p \in Procs : Start(p) \/ Step(p) \/ Crash(p)
    BY DEF Next
  <2>2. CASE UNCHANGED tree
    BY <2>2
  <2>3. CASE \E t \in Tasks : tree' = [tree EXCEPT ![t] = Touched(t)]
    BY <2>3 DEF Touched, TypeInv, TypeOK, DiskOK
  <2>4. CASE NewPin(p)
    BY <2>4 DEF NewPin, TypeInv, TypeOK, DiskOK
  <2>5. CASE NewFail(p)
    BY <2>5 DEF NewFail, TypeInv, TypeOK, DiskOK
  <2>6. CASE RmFence(p)
    BY <2>6 DEF RmFence, TypeInv, TypeOK, DiskOK
  <2>7. ~StartWrite(p) /\ ~RepairLinks(p)
    BY DEF StartWrite, RepairLinks
  <2>8. pc[p] # "idle" => cmd[p].task \in Tasks
    BY DEF TypeInv, InHand
  <2>9. mem[p].todo \subseteq Tasks
    BY MemoryFields DEF TypeInv, TypeOK, ProcsOK
  <2> QED
    BY <2>1, <2>2, <2>3, <2>4, <2>5, <2>6, <2>7, <2>8, <2>9 DEF Step, Start,
       Crash, LockContainer, LockTask, GiveUp, NewCheck, NewWorktrees,
       NewPerimeter, NewSave, RefreshLoad, RefreshFails, RefreshSave, RefreshDone, AddLoad,
       AddGraft, AddSave, AddFail, AddSeam, AddReload, PostLoad, SeamWithdraw,
       SeamSkip, SeamScript, SeamLoad, SeamSave, SeamRestore, RmLoad, RmGit,
       RmDelete, RmForget, StartLoad, StartSave, RepairLoad, DoctorList,
       DoctorSweep, WritePerimeter, disk
<1>2. Spec => [](TypeInv /\ OwnInv)
  BY OwnInvariant
<1> QED
  BY <1>1, <1>2, PTL DEF Spec, TreeTakenByOwner
-----------------------------------------------------------------------------
(* The post-create script, with the verbs that keep both locks in turn.    *)

Seam == {"add.reload", "seam.withdraw", "seam.script", "seam.load",
         "seam.save", "seam.restore"}

\* The command works for a task that is there.
AtWork(p) ==
  \/ pc[p] \in Seam \cup {"add.seam", "seam.lock"}
  \/ pc[p] \in {"refresh.load", "refresh.save"} /\ cmd[p].verb = "new"

Alive(t) == rec[t] # None /\ tree[t] # "none"

Standing ==
  \A p \in Procs :
    /\ pc[p] \notin {"post.load", "post.lock"}
    /\ AtWork(p) => Alive(cmd[p].task)
    /\ pc[p] \in {"new.worktrees", "new.perimeter", "new.save", "add.save"} =>
         tree[cmd[p].task] # "none"

\* Who acts on a process's own part of the state.
Mine(p) == \A q \in Procs \ {p} : pc'[q] = pc[q] /\ cmd'[q] = cmd[q] /\ mem'[q] = mem[q]

LEMMA StepsAreMine ==
  ASSUME TypeInv, NEW p \in Procs, Start(p) \/ Step(p) \/ Crash(p)
  PROVE  Mine(p)
<1> USE DEF TypeInv, TypeOK, ProcsOK, Mine, Goto, Exit
<1>1. CASE Start(p)
  BY <1>1 DEF Start
<1>2. CASE LockContainer(p) \/ LockTask(p) \/ GiveUp(p) \/ Crash(p)
  BY <1>2 DEF LockContainer, LockTask, GiveUp, Crash
<1>3. CASE NewCheck(p) \/ NewPin(p) \/ NewWorktrees(p) \/ NewPerimeter(p) \/ NewSave(p) \/ NewFail(p)
  BY <1>3 DEF NewCheck, NewPin, NewWorktrees, NewPerimeter, NewSave, NewFail
<1>4. CASE RefreshLoad(p) \/ RefreshFails(p) \/ RefreshSave(p) \/ RefreshDone(p)
  BY <1>4 DEF RefreshLoad, RefreshFails, RefreshSave, RefreshDone
<1>5. CASE AddLoad(p) \/ AddGraft(p) \/ AddSave(p) \/ AddFail(p) \/ AddSeam(p) \/ AddReload(p)
  BY <1>5 DEF AddLoad, AddGraft, AddSave, AddFail, AddSeam, AddReload
<1>6. CASE \/ PostLoad(p) \/ SeamWithdraw(p) \/ SeamSkip(p) \/ SeamScript(p)
           \/ SeamLoad(p) \/ SeamSave(p) \/ SeamRestore(p)
  BY <1>6 DEF PostLoad, SeamWithdraw, SeamSkip, SeamScript, SeamLoad, SeamSave, SeamRestore
<1>7. CASE RmLoad(p) \/ RmFence(p) \/ RmGit(p) \/ RmDelete(p) \/ RmForget(p)
  BY <1>7 DEF RmLoad, RmFence, RmGit, RmDelete, RmForget
<1>8. CASE \/ StartLoad(p) \/ StartWrite(p) \/ StartSave(p) \/ RepairLoad(p)
           \/ RepairLinks(p) \/ DoctorList(p) \/ DoctorSweep(p)
  BY <1>8 DEF StartLoad, StartWrite, StartSave, RepairLoad, RepairLinks, DoctorList, DoctorSweep
<1> QED
  BY <1>1, <1>2, <1>3, <1>4, <1>5, <1>6, <1>7, <1>8 DEF Step

\* Only a removal forgets a record or moves a tree, and the undo of a creation
\* takes one away.
LEMMA Taking ==
  ASSUME TypeInv, OwnInv, NEW p \in Procs, Start(p) \/ Step(p) \/ Crash(p), NEW t \in Tasks
  PROVE  /\ rec[t] # None /\ rec'[t] = None => pc[p] = "rm.forget" /\ cmd[p].task = t
         /\ tree[t] # "none" /\ tree'[t] = "none" =>
              /\ cmd[p].task = t
              /\ pc[p] = "rm.fence" \/ (pc[p] \in Building /\ rec[t] = None)
<1> USE NoneAssumption DEF OwnInv, Hold, Building
<1>1. pc[p] # "idle" => cmd[p].task \in Tasks
  BY DEF TypeInv, InHand
<1>2. mem[p] \in Memory
  BY DEF TypeInv, TypeOK, ProcsOK
<1>3. mem[p].todo \subseteq Tasks /\ mem[p].names \subseteq Tasks
  BY <1>2, MemoryFields
<1>4. rec[t] # None /\ rec'[t] = None => pc[p] = "rm.forget" /\ cmd[p].task = t
  <2>1. CASE UNCHANGED rec
    BY <2>1
  <2>2. CASE NewSave(p)
    BY <1>1, <2>2 DEF NewSave, TypeInv, TypeOK, DiskOK, InHand, WithSnap
  <2>3. CASE RefreshSave(p)
    <3>1. mem[p].snap \in Record /\ mem[p].cur \in Tasks /\ mem[p].names \ {mem[p].cur} \in SUBSET Tasks
      BY <2>3, <1>3 DEF RefreshSave, TypeInv, InHand, WithSnap
    <3>2. [mem[p].snap EXCEPT !.names = mem[p].names \ {mem[p].cur}] \in Record
      BY <3>1, RecordUpdates
    <3> QED
      BY <2>3, <3>1, <3>2 DEF RefreshSave, TypeInv, TypeOK, DiskOK
  <2>4. CASE AddSave(p)
    <3>1. mem[p].snap \in Record /\ mem[p].cur \in Repos
      BY <2>4 DEF AddSave, TypeInv, InHand, WithSnap
    <3>2. [mem[p].snap EXCEPT !.repos = @ \cup {mem[p].cur}, !.names = mem[p].names] \in Record
      BY <1>3, <3>1, RecordUpdates
    <3> QED
      BY <2>4, <3>1, <3>2 DEF AddSave, TypeInv, TypeOK, DiskOK
  <2>5. CASE SeamSave(p)
    <3>1. mem[p].snap \in Record
      BY <2>5 DEF SeamSave, TypeInv, InHand, WithSnap
    <3>2. [mem[p].snap EXCEPT !.produced = TRUE] \in Record
      BY <3>1, RecordUpdates
    <3> QED
      BY <2>5, <3>1, <3>2 DEF SeamSave, TypeInv, TypeOK, DiskOK
  <2>6. CASE RmForget(p)
    BY <2>6 DEF RmForget, TypeInv, TypeOK, DiskOK
  <2>7. ~StartSave(p)
    BY DEF StartSave, Exclusion, InContainer, InTask, Outside
  <2> QED
    BY <2>1, <2>2, <2>3, <2>4, <2>5, <2>6, <2>7 DEF Step, Start, Crash,
       LockContainer, LockTask, GiveUp, NewCheck, NewPin, NewWorktrees,
       NewPerimeter, NewFail, RefreshLoad, RefreshFails, RefreshDone, AddLoad, AddGraft,
       AddFail, AddSeam, AddReload, PostLoad, SeamWithdraw, SeamSkip,
       SeamScript, SeamLoad, SeamRestore, RmLoad, RmFence, RmGit, RmDelete,
       StartLoad, StartWrite, RepairLoad, RepairLinks, DoctorList, DoctorSweep, disk
<1>5. tree[t] # "none" /\ tree'[t] = "none" =>
        /\ cmd[p].task = t
        /\ pc[p] = "rm.fence" \/ (pc[p] \in Building /\ rec[t] = None)
  <2>1. CASE UNCHANGED tree
    BY <2>1
  <2>2. CASE \E u \in Tasks : tree' = [tree EXCEPT ![u] = Touched(u)]
    BY <2>2 DEF Touched, TypeInv, TypeOK, DiskOK
  <2>3. CASE NewPin(p)
    BY <2>3 DEF NewPin, TypeInv, TypeOK, DiskOK
  <2>4. CASE NewFail(p)
    BY <2>4 DEF NewFail, TypeInv, TypeOK, DiskOK
  <2>5. CASE RmFence(p)
    BY <2>5 DEF RmFence, TypeInv, TypeOK, DiskOK
  <2>6. ~StartWrite(p) /\ ~RepairLinks(p)
    BY DEF StartWrite, RepairLinks, Exclusion, InContainer, InTask, Outside
  <2> QED
    BY <1>1, <1>3, <2>1, <2>2, <2>3, <2>4, <2>5, <2>6 DEF Step, Start,
       Crash, LockContainer, LockTask, GiveUp, NewCheck, NewWorktrees,
       NewPerimeter, NewSave, RefreshLoad, RefreshFails, RefreshSave, RefreshDone, AddLoad,
       AddGraft, AddSave, AddFail, AddSeam, AddReload, PostLoad, SeamWithdraw,
       SeamSkip, SeamScript, SeamLoad, SeamSave, SeamRestore, RmLoad, RmGit,
       RmDelete, RmForget, StartLoad, StartSave, RepairLoad, DoctorList,
       DoctorSweep, WritePerimeter, disk
<1> QED
  BY <1>4, <1>5

\* The others stand as they did: what they work for is not taken away.
LEMMA OthersStand ==
  ASSUME TypeInv, OwnInv, Standing, NEW p \in Procs, Start(p) \/ Step(p) \/ Crash(p),
         NEW q \in Procs \ {p}
  PROVE  /\ pc'[q] \notin {"post.load", "post.lock"}
         /\ AtWork(q)' => Alive(cmd[q].task)'
         /\ pc'[q] \in {"new.worktrees", "new.perimeter", "new.save", "add.save"} =>
              tree'[cmd'[q].task] # "none"
<1> USE DEF OwnInv, Exclusion, InContainer, InTask, Building
<1>1. pc'[q] = pc[q] /\ cmd'[q] = cmd[q]
  BY StepsAreMine DEF Mine
<1>2. pc[q] # "idle" => cmd[q].task \in Tasks
  BY DEF TypeInv, InHand
<1>3. ASSUME AtWork(q)
      PROVE  rec'[cmd[q].task] # None /\ tree'[cmd[q].task] # "none"
  <2>1. pc[q] # "idle" /\ Alive(cmd[q].task)
    BY <1>3 DEF Standing, AtWork, Seam
  <2>2. ~(pc[p] \in {"rm.forget", "rm.fence"} /\ cmd[p].task = cmd[q].task)
    <3>1. pc[p] \in {"rm.forget", "rm.fence"} => cLock = p /\ tLock[cmd[p].task] = p
      OBVIOUS
    <3>2. cLock = q \/ tLock[cmd[q].task] = q
      BY <1>3 DEF AtWork, Seam
    <3> QED
      BY <3>1, <3>2
  <2> QED
    BY <1>2, <2>1, <2>2, Taking DEF Alive
<1>4. ASSUME pc[q] \in {"new.worktrees", "new.perimeter", "new.save", "add.save"}
      PROVE  tree'[cmd[q].task] # "none"
  <2>1. tree[cmd[q].task] # "none" /\ cLock = q
    BY <1>4 DEF Standing
  <2>2. pc[p] \notin {"rm.fence", "new.pin", "new.worktrees", "new.perimeter", "new.save"}
    BY <2>1
  <2> QED
    BY <1>2, <1>4, <2>1, <2>2, Taking
<1> QED
  BY <1>1, <1>3, <1>4 DEF Standing, AtWork, Alive

LEMMA StandingStep ==
  ASSUME Verbs \subseteq {"new", "add", "rm"}, TypeInv, TypeInv', Nesting, OwnInv,
         Standing, [Next]_vars
  PROVE  Standing'
<1>1. CASE UNCHANGED vars
  BY <1>1 DEF vars, Standing, AtWork, Alive
<1> SUFFICES ASSUME NEW p \in Procs, Start(p) \/ Step(p) \/ Crash(p)
             PROVE  Standing'
  BY <1>1 DEF Next
<1> DEFINE Stands ==
      /\ pc'[p] \notin {"post.load", "post.lock"}
      /\ AtWork(p)' => Alive(cmd[p].task)'
      /\ pc'[p] \in {"new.worktrees", "new.perimeter", "new.save", "add.save"} =>
           tree'[cmd[p].task] # "none"
<1>2. pc[p] # "idle" => cmd[p].task \in Tasks
  BY DEF TypeInv, InHand
<1>3. ASSUME pc'[p] = "idle" PROVE Standing'
  BY <1>3, OthersStand DEF Standing, AtWork, Seam
<1>4. ASSUME Stands, cmd'[p].task = cmd[p].task PROVE Standing'
  BY <1>4, OthersStand DEF Standing, AtWork, Alive
<1> USE DEF TypeInv, TypeOK, DiskOK, ProcsOK, Goto, Exit
<1>5. CASE Start(p)
  <2>1. pc'[p] \in {"new.lock", "add.lock", "rm.lock"}
    <3>1. PICK v \in Verbs : pc' = [pc EXCEPT ![p] = Entry[v]]
      BY <1>5 DEF Start
    <3>2. v \in {"new", "add", "rm"} /\ v \in AllVerbs
      BY DEF AllVerbs
    <3> QED
      BY <3>1, <3>2 DEF Entry, AllVerbs
  <2> QED
    BY <2>1, OthersStand DEF Standing, AtWork, Seam
<1>6. CASE LockContainer(p) \/ LockTask(p) \/ GiveUp(p) \/ Crash(p)
  <2>1. UNCHANGED <<rec, tree>>
    BY <1>6 DEF LockContainer, LockTask, GiveUp, Crash, disk
  <2>2. pc'[p] = "idle" \/ cmd'[p].task = cmd[p].task
    BY <1>6 DEF LockContainer, LockTask, GiveUp, Crash
  <2>3. CASE LockContainer(p)
    BY <1>4, <2>1, <2>3 DEF LockContainer, AfterContainer, AtWork, Seam, Standing
  <2>4. CASE LockTask(p)
    BY <1>4, <2>1, <2>4 DEF LockTask, AtWork, Alive, Seam, Standing
  <2>5. CASE GiveUp(p) \/ Crash(p)
    BY <1>3, <2>5 DEF GiveUp, Crash
  <2> QED
    BY <1>6, <2>3, <2>4, <2>5
<1>7. CASE NewCheck(p) \/ NewPin(p) \/ NewWorktrees(p) \/ NewPerimeter(p) \/ NewFail(p)
  BY <1>2, <1>3, <1>4, <1>7 DEF NewCheck, NewPin, NewWorktrees, NewPerimeter, NewFail,
     WritePerimeter, Touched, AtWork, Seam, Standing
<1>8. CASE NewSave(p)
  <2>1. mem[p].snap # None
    BY <1>8, NoneAssumption DEF NewSave, InHand, WithSnap
  <2> QED
    BY <1>2, <1>4, <1>8, <2>1 DEF NewSave, disk, AtWork, Alive, Seam, Standing
<1>9. CASE RefreshLoad(p) \/ RefreshFails(p) \/ RefreshSave(p) \/ RefreshDone(p)
  <2>1. cmd[p].verb = "new" => rec'[cmd[p].task] # None /\ tree'[cmd[p].task] # "none"
    <3>1. cmd[p].verb = "new" => Alive(cmd[p].task)
      BY <1>9 DEF RefreshLoad, RefreshFails, RefreshSave, RefreshDone, Standing, AtWork
    <3>2. pc[p] \in {"refresh.load", "refresh.save"}
      BY <1>9 DEF RefreshLoad, RefreshFails, RefreshSave, RefreshDone
    <3> QED
      BY <1>2, <3>1, <3>2, Taking DEF Alive, Building
  <2>2. pc'[p] \in {"refresh.load", "refresh.save", "seam.lock", "idle"}
    BY <1>9 DEF RefreshLoad, RefreshFails, RefreshSave, RefreshDone
  <2>3. pc'[p] = "idle" \/ (cmd'[p] = cmd[p] /\ (pc'[p] = "seam.lock" => cmd[p].verb = "new"))
    BY <1>9 DEF RefreshLoad, RefreshFails, RefreshSave, RefreshDone
  <2> QED
    BY <1>3, <1>4, <2>1, <2>2, <2>3 DEF AtWork, Alive, Seam
<1>10. CASE AddLoad(p) \/ AddGraft(p) \/ AddFail(p) \/ AddSeam(p) \/ AddReload(p)
  BY <1>2, <1>3, <1>4, <1>10 DEF AddLoad, AddGraft, AddFail, AddSeam, AddReload,
     WritePerimeter, Touched, AtWork, Alive, Seam, Standing, disk
<1>11. CASE AddSave(p)
  <2>1. rec'[cmd[p].task] # None /\ tree' = tree
    <3>1. mem[p].snap \in Record /\ mem[p].cur \in Repos /\ mem[p].names \in SUBSET Tasks
      BY <1>11, MemoryFields DEF AddSave, InHand, WithSnap
    <3>2. [mem[p].snap EXCEPT !.repos = @ \cup {mem[p].cur}, !.names = mem[p].names] \in Record
      BY <3>1, RecordUpdates
    <3> QED
      BY <1>2, <1>11, <3>2, NoneAssumption DEF AddSave, disk
  <2>2. tree[cmd[p].task] # "none" /\ pc'[p] \in {"add.seam", "add.load"}
        /\ cmd'[p].task = cmd[p].task
    BY <1>11 DEF AddSave, Standing, Command
  <2> QED
    BY <1>4, <2>1, <2>2 DEF AtWork, Alive, Seam
<1>12. CASE \/ PostLoad(p) \/ SeamWithdraw(p) \/ SeamSkip(p) \/ SeamScript(p)
            \/ SeamLoad(p) \/ SeamSave(p) \/ SeamRestore(p)
  <2>1. ~PostLoad(p)
    BY DEF PostLoad, Standing
  <2>2. rec'[cmd[p].task] # None /\ tree'[cmd[p].task] # "none"
    <3>1. Alive(cmd[p].task) /\ pc[p] \in Seam
      BY <1>12, <2>1 DEF Standing, AtWork, Seam, SeamWithdraw, SeamSkip, SeamScript,
         SeamLoad, SeamSave, SeamRestore
    <3> QED
      BY <1>2, <3>1, Taking DEF Alive, Building, Seam
  <2>3. pc'[p] = "idle" \/ (cmd'[p] = cmd[p] /\ pc'[p] \in Seam)
    BY <1>12, <2>1 DEF Seam, SeamWithdraw, SeamSkip, SeamScript, SeamLoad, SeamSave, SeamRestore
  <2> QED
    BY <1>3, <1>4, <2>2, <2>3 DEF Alive, Seam
<1>13. CASE RmLoad(p) \/ RmFence(p) \/ RmGit(p) \/ RmDelete(p) \/ RmForget(p)
  <2>1. pc[p] \in {"rm.load"} \cup Removing
    BY <1>13 DEF RmLoad, RmFence, RmGit, RmDelete, RmForget, Removing
  <2>2. cmd[p].verb # "new"
    BY <1>2, <2>1 DEF OwnInv, Exclusion, InTask, Removing, Nesting, RemovalStages
  <2>3. pc'[p] \in {"idle", "refresh.load"} \cup Removing /\ (pc'[p] = "idle" \/ cmd'[p] = cmd[p])
    BY <1>13 DEF RmLoad, RmFence, RmGit, RmDelete, RmForget, Removing
  <2> QED
    BY <1>3, <1>4, <2>2, <2>3 DEF AtWork, Seam, Removing
<1>14. ~(\/ StartLoad(p) \/ StartWrite(p) \/ StartSave(p) \/ RepairLoad(p)
         \/ RepairLinks(p) \/ DoctorList(p) \/ DoctorSweep(p))
  BY DEF StartLoad, StartWrite, StartSave, RepairLoad, RepairLinks, DoctorList,
     DoctorSweep, OwnInv, Exclusion, InContainer, InTask, Outside
<1> QED
  BY <1>5, <1>6, <1>7, <1>8, <1>9, <1>10, <1>11, <1>12, <1>13, <1>14 DEF Step

LEMMA StandingInvariant ==
  ASSUME Verbs \subseteq {"new", "add", "rm"}
  PROVE  Spec => [](TypeInv /\ Nesting /\ OwnInv /\ Standing)
<1>1. Init => TypeInv /\ Nesting /\ OwnInv /\ Standing
  BY TypeInit, NestingInit, OwnInit DEF Init, Standing, AtWork, Seam
<1>2. TypeInv /\ Nesting /\ OwnInv /\ Standing /\ [Next]_vars
        => (TypeInv /\ Nesting /\ OwnInv /\ Standing)'
  BY TypeStep, NestingStep, OwnStep, StandingStep DEF LockedVerbs
<1> QED
  BY <1>1, <1>2, PTL DEF Spec

\* The post-create script of a creation or a graft runs for a task that stays:
\* no removal gets in between, whatever fails or dies.
THEOREM ScriptsHaveATask ==
  ASSUME Verbs \subseteq {"new", "add", "rm"}
  PROVE  Spec => []ScriptKeepsTree
<1>1. Standing => ScriptKeepsTree
  BY DEF Standing, AtWork, Alive, Seam, ScriptKeepsTree
<1> QED
  BY <1>1, StandingInvariant, PTL

-----------------------------------------------------------------------------
(* Where the links are that a script must not meet.                        *)

\* p has a record of t in hand that it will act upon.
HasRecord(p, t) ==
  \/ /\ pc[p] \in {"new.save", "add.graft", "add.save", "seam.withdraw", "seam.save"}
     /\ cmd[p].task = t
  \/ pc[p] = "seam.lock" /\ cmd[p].verb # "add" /\ cmd[p].task = t
  \/ pc[p] = "refresh.save" /\ mem[p].cur = t

Creating(p, t) ==
  /\ cmd[p].verb = "new" /\ cmd[p].task = t
  /\ pc[p] \in {"new.perimeter", "new.save", "refresh.load", "refresh.save"}

\* The links withdrawn from t are in p's hands.
Away(p, t) ==
  /\ pc[p] \in {"seam.script", "seam.load", "seam.save", "seam.restore"}
  /\ cmd[p].task = t

\* None of these repositories has a link in t, nor gets one back.
Free(t, X) ==
  /\ links[t] \cap X = {}
  /\ \A q \in Procs : Away(q, t) => mem[q].taken \cap X \subseteq git[t]

Apart ==
  /\ \A t \in Tasks : rec[t] # None => Free(t, rec[t].repos)
  /\ \A p \in Procs, t \in Tasks :
       /\ HasRecord(p, t) => Free(t, mem[p].snap.repos)
       /\ Creating(p, t) => Free(t, cmd[p].repos)
       /\ pc[p] = "add.save" /\ cmd[p].task = t =>
            mem[p].cur \in git[t] /\ Free(t, {mem[p].cur})
       /\ pc[p] = "seam.script" /\ cmd[p].task = t => links[t] = {}

ScriptBase == TypeInv /\ Nesting /\ OwnInv /\ Standing

\* Nobody else is at the links of a task while a creation lays them down.
LEMMA Alone ==
  ASSUME ScriptBase, NEW p \in Procs, pc[p] = "new.worktrees",
         NEW q \in Procs \ {p}
  PROVE  ~HasRecord(q, cmd[p].task) /\ ~Creating(q, cmd[p].task) /\ ~Away(q, cmd[p].task)
         /\ ~(pc[q] = "add.save")
<1>1. rec[cmd[p].task] = None /\ cLock = p
  BY DEF ScriptBase, OwnInv, Hold, Building, Exclusion, InContainer
<1>2. pc[q] \notin InContainer
  BY <1>1 DEF ScriptBase, OwnInv, Exclusion
<1>3. cmd[q].task = cmd[p].task => pc[q] \notin Seam
  BY <1>1 DEF ScriptBase, Standing, AtWork, Alive
<1> QED
  BY <1>2, <1>3 DEF HasRecord, Creating, Away, InContainer, Seam

\* Who has withdrawn links keeps the removal of the task from its stores.
LEMMA AwayHolds ==
  ASSUME ScriptBase, NEW q \in Procs, NEW t, Away(q, t)
  PROVE  tLock[t] = q
BY DEF ScriptBase, OwnInv, Exclusion, InTask, Away

\* What every step does to links and stores.
LEMMA LinkSteps ==
  ASSUME ScriptBase, "build" \notin Faults, NEW p \in Procs, Start(p) \/ Step(p) \/ Crash(p),
         NEW t \in Tasks
  PROVE  \/ /\ links'[t] \subseteq links[t] /\ git[t] \subseteq git'[t]
            /\ Away(p, t)' => Away(p, t) /\ mem'[p].taken = mem[p].taken
         \/ NewWorktrees(p) /\ cmd[p].task = t
         \/ SeamWithdraw(p) /\ cmd[p].task = t
         \/ SeamRestore(p) /\ cmd[p].task = t
         \/ RmGit(p) /\ cmd[p].task = t
<1> USE DEF ScriptBase, TypeInv, TypeOK, DiskOK, ProcsOK
<1>1. pc[p] # "idle" => cmd[p].task \in Tasks
  BY DEF InHand
<1>2. ASSUME UNCHANGED <<links, git>>, pc'[p] \notin {"seam.script", "seam.load", "seam.save", "seam.restore"}
      PROVE  /\ links'[t] \subseteq links[t] /\ git[t] \subseteq git'[t]
             /\ Away(p, t)' => Away(p, t) /\ mem'[p].taken = mem[p].taken
  BY <1>2 DEF Away
<1>3. CASE Start(p)
  <2>1. PICK v \in Verbs : pc' = [pc EXCEPT ![p] = Entry[v]]
    BY <1>3 DEF Start, Goto
  <2>2. Entry[v] \in {"new.lock", "add.lock", "post.load", "rm.lock", "rm.load",
                     "start.load", "repair.load", "doctor.list"}
    BY VerbsAssumption DEF Entry, AllVerbs
  <2> QED
    BY <1>2, <1>3, <2>1, <2>2 DEF Start, disk
<1>4. CASE LockContainer(p) \/ LockTask(p) \/ GiveUp(p) \/ Crash(p)
  BY <1>2, <1>4 DEF LockContainer, LockTask, GiveUp, Crash, disk, Goto, Exit, AfterContainer
<1>5. CASE NewCheck(p) \/ NewPin(p) \/ NewPerimeter(p) \/ NewSave(p)
  BY <1>2, <1>5 DEF NewCheck, NewPin, NewPerimeter, NewSave, disk, Goto, Exit
<1>6. CASE NewWorktrees(p)
  BY <1>1, <1>2, <1>6 DEF NewWorktrees, Goto, Away
<1>7. CASE RefreshLoad(p) \/ RefreshFails(p) \/ RefreshSave(p) \/ RefreshDone(p)
  BY <1>2, <1>7 DEF RefreshLoad, RefreshFails, RefreshSave, RefreshDone, disk, Goto, Exit
<1>8. CASE AddLoad(p) \/ AddSave(p) \/ AddSeam(p) \/ AddReload(p)
  BY <1>2, <1>8 DEF AddLoad, AddSave, AddSeam, AddReload, disk, Goto, Exit
<1>9. CASE AddGraft(p)
  BY <1>1, <1>9 DEF AddGraft, Goto, Away
<1>10. CASE PostLoad(p) \/ SeamSkip(p)
  BY <1>2, <1>10 DEF PostLoad, SeamSkip, disk, Goto, Exit
<1>11. CASE SeamScript(p) \/ SeamLoad(p) \/ SeamSave(p)
  <2>1. UNCHANGED <<links, git, cmd>> /\ mem'[p].taken = mem[p].taken
    BY <1>11 DEF SeamScript, SeamLoad, SeamSave, disk, Memory
  <2>2. pc[p] \in {"seam.script", "seam.load", "seam.save"}
    BY <1>11 DEF SeamScript, SeamLoad, SeamSave
  <2> QED
    BY <2>1, <2>2 DEF Away
<1>12. CASE SeamWithdraw(p) \/ SeamRestore(p)
  BY <1>1, <1>12 DEF SeamWithdraw, SeamRestore, Away, Goto, Exit
<1>13. CASE RmLoad(p) \/ RmDelete(p) \/ RmForget(p)
  BY <1>2, <1>13 DEF RmLoad, RmDelete, RmForget, disk, Goto, Exit
<1>14. CASE RmFence(p) \/ RmGit(p)
  BY <1>1, <1>2, <1>14 DEF RmFence, RmGit, Goto, Exit, Away
<1>15. ~NewFail(p) /\ ~AddFail(p)
  BY DEF NewFail, AddFail
<1>16. ~(\/ StartLoad(p) \/ StartWrite(p) \/ StartSave(p) \/ RepairLoad(p)
         \/ RepairLinks(p) \/ DoctorList(p) \/ DoctorSweep(p))
  BY DEF StartLoad, StartWrite, StartSave, RepairLoad, RepairLinks, DoctorList,
     DoctorSweep, OwnInv, Exclusion, InContainer, InTask, Outside
<1> QED
  BY <1>3, <1>4, <1>5, <1>6, <1>7, <1>8, <1>9, <1>10, <1>11, <1>12, <1>13, <1>14,
     <1>15, <1>16 DEF Step

\* What has no link gets none, but from a creation.
LEMMA FreeStays ==
  ASSUME ScriptBase, "build" \notin Faults, NEW p \in Procs, Start(p) \/ Step(p) \/ Crash(p),
         NEW t \in Tasks, NEW X, Free(t, X),
         ~(NewWorktrees(p) /\ cmd[p].task = t)
  PROVE  links'[t] \cap X = {} /\ \A q \in Procs : Away(q, t)' => mem'[q].taken \cap X \subseteq git'[t]
<1> USE DEF ScriptBase, TypeInv, TypeOK, DiskOK, ProcsOK
<1>1. \A q \in Procs \ {p} : (Away(q, t)' <=> Away(q, t)) /\ mem'[q] = mem[q]
  BY StepsAreMine DEF Mine, Away
<1>2. CASE /\ links'[t] \subseteq links[t] /\ git[t] \subseteq git'[t]
           /\ Away(p, t)' => Away(p, t) /\ mem'[p].taken = mem[p].taken
  BY <1>1, <1>2 DEF Free
<1>3. CASE SeamWithdraw(p) /\ cmd[p].task = t
  <2>1. git' = git /\ links'[t] \subseteq links[t]
    BY <1>3 DEF SeamWithdraw
  <2>2. Away(p, t)' => mem'[p].taken \subseteq links[t]
    BY <1>3 DEF SeamWithdraw, Away, Exit, Goto, Blank
  <2> QED
    BY <1>1, <2>1, <2>2 DEF Free
<1>4. CASE SeamRestore(p) /\ cmd[p].task = t
  <2>1. git' = git /\ links'[t] \subseteq links[t] \cup (mem[p].taken \ git[t])
    BY <1>4 DEF SeamRestore
  <2>2. Away(p, t) /\ ~Away(p, t)'
    BY <1>4 DEF SeamRestore, Away, Exit, Goto
  <2> QED
    BY <1>1, <2>1, <2>2 DEF Free
<1>5. CASE RmGit(p) /\ cmd[p].task = t
  <2>1. links' = links /\ pc[p] = "rm.git" /\ pc'[p] = "rm.delete"
    BY <1>5 DEF RmGit, Goto
  <2>2. tLock[t] = p
    BY <1>5, <2>1 DEF OwnInv, Exclusion, InTask
  <2>3. \A q \in Procs : ~Away(q, t)'
    BY <1>1, <2>1, <2>2, AwayHolds DEF Away
  <2> QED
    BY <2>1, <2>3 DEF Free
<1> QED
  BY <1>2, <1>3, <1>4, <1>5, LinkSteps

\* What a record names later it names now, or somebody has it in hand.
LEMMA RecordSteps ==
  ASSUME ScriptBase, NEW p \in Procs, Start(p) \/ Step(p) \/ Crash(p),
         NEW t \in Tasks, rec'[t] # None
  PROVE  \/ rec'[t] = rec[t]
         \/ HasRecord(p, t) /\ pc[p] # "add.save" /\ rec'[t].repos = mem[p].snap.repos
         \/ /\ pc[p] = "add.save" /\ cmd[p].task = t
            /\ rec'[t].repos = mem[p].snap.repos \cup {mem[p].cur}
<1> USE DEF ScriptBase, TypeInv, TypeOK, DiskOK, ProcsOK
<1>1. pc[p] # "idle" => cmd[p].task \in Tasks
  BY DEF InHand
<1>2. CASE UNCHANGED rec
  BY <1>2
<1>3. CASE NewSave(p)
  BY <1>1, <1>3 DEF NewSave, HasRecord
<1>4. CASE RefreshSave(p)
  <2>1. mem[p].snap \in Record /\ mem[p].cur \in Tasks
    BY <1>4 DEF RefreshSave, InHand, WithSnap
  <2>2. [mem[p].snap EXCEPT !.names = mem[p].names \ {mem[p].cur}].repos = mem[p].snap.repos
    BY <2>1 DEF Record
  <2> QED
    BY <1>4, <2>1, <2>2 DEF RefreshSave, HasRecord
<1>5. CASE AddSave(p)
  <2>1. mem[p].snap \in Record
    BY <1>5 DEF AddSave, InHand, WithSnap
  <2>2. [mem[p].snap EXCEPT !.repos = @ \cup {mem[p].cur}, !.names = mem[p].names].repos
          = mem[p].snap.repos \cup {mem[p].cur}
    BY <2>1 DEF Record
  <2> QED
    BY <1>1, <1>5, <2>2 DEF AddSave
<1>6. CASE SeamSave(p)
  <2>1. mem[p].snap \in Record
    BY <1>6 DEF SeamSave, InHand, WithSnap
  <2>2. [mem[p].snap EXCEPT !.produced = TRUE].repos = mem[p].snap.repos
    BY <2>1 DEF Record
  <2> QED
    BY <1>1, <1>6, <2>2 DEF SeamSave, HasRecord
<1>7. CASE RmForget(p)
  BY <1>1, <1>7 DEF RmForget
<1>8. ~StartSave(p)
  BY DEF StartSave, OwnInv, Exclusion, InContainer, InTask, Outside
<1> QED
  BY <1>2, <1>3, <1>4, <1>5, <1>6, <1>7, <1>8 DEF Step, Start, Crash,
     LockContainer, LockTask, GiveUp, NewCheck, NewPin, NewWorktrees,
     NewPerimeter, NewFail, RefreshLoad, RefreshFails, RefreshDone, AddLoad, AddGraft,
     AddFail, AddSeam, AddReload, PostLoad, SeamWithdraw, SeamSkip,
     SeamScript, SeamLoad, SeamRestore, RmLoad, RmFence, RmGit, RmDelete,
     StartLoad, StartWrite, RepairLoad, RepairLinks, DoctorList, DoctorSweep, disk

\* Which record a process has in hand it has had before, or it is the one on
\* disk, or what it creates.
LEMMA HandSteps ==
  ASSUME ScriptBase, NEW p \in Procs, Start(p) \/ Step(p) \/ Crash(p),
         NEW t \in Tasks, HasRecord(p, t)'
  PROVE  \/ HasRecord(p, t) /\ mem'[p].snap.repos = mem[p].snap.repos
         \/ rec[t] # None /\ mem'[p].snap = rec[t]
         \/ Creating(p, t) /\ mem'[p].snap.repos = cmd[p].repos
<1> USE DEF ScriptBase, TypeInv, TypeOK, DiskOK, ProcsOK
<1> DEFINE Hands == {"new.save", "add.graft", "add.save", "seam.withdraw", "seam.save",
                     "seam.lock", "refresh.save"}
<1>1. pc'[p] \in Hands
  BY DEF HasRecord
<1>2. CASE Start(p)
  <2>1. PICK v \in Verbs : pc' = [pc EXCEPT ![p] = Entry[v]]
    BY <1>2 DEF Start, Goto
  <2>2. Entry[v] \in {"new.lock", "add.lock", "post.load", "rm.lock", "rm.load",
                     "start.load", "repair.load", "doctor.list"}
    BY VerbsAssumption DEF Entry, AllVerbs
  <2> QED
    BY <1>1, <2>1, <2>2
<1>3. CASE LockContainer(p) \/ GiveUp(p) \/ Crash(p)
  BY <1>1, <1>3 DEF LockContainer, GiveUp, Crash, Goto, Exit, AfterContainer
<1>4. CASE LockTask(p)
  <2>1. pc[p] = "seam.lock" /\ cmd[p].verb # "add" /\ pc'[p] = "seam.withdraw"
        /\ UNCHANGED <<cmd, mem>>
    BY <1>1, <1>4 DEF LockTask, Goto, Standing
  <2> QED
    BY <2>1 DEF HasRecord
<1>5. CASE NewCheck(p) \/ NewPin(p) \/ NewWorktrees(p) \/ NewSave(p) \/ NewFail(p)
  BY <1>1, <1>5 DEF NewCheck, NewPin, NewWorktrees, NewSave, NewFail, Goto, Exit
<1>6. CASE NewPerimeter(p)
  <2>1. pc[p] = "new.perimeter" /\ cmd[p].verb = "new" /\ pc'[p] = "new.save" /\ cmd' = cmd
        /\ mem'[p].snap.repos = cmd[p].repos
    BY <1>6 DEF NewPerimeter, Goto, OwnInv, Hold, Building, Memory
  <2> QED
    BY <2>1 DEF HasRecord, Creating
<1>7. CASE RefreshLoad(p)
  <2>1. PICK n \in mem[p].todo :
          /\ mem' = [mem EXCEPT ![p].todo = @ \ {n},
                      ![p].cur = IF rec[n] = None THEN None ELSE n,
                      ![p].snap = rec[n]]
          /\ pc' = pc \/ (pc' = [pc EXCEPT ![p] = "refresh.save"] /\ rec[n] # None)
          /\ rec[n] = None => pc' = pc
    BY <1>7 DEF RefreshLoad, Goto
  <2>2. pc'[p] = "refresh.save" /\ rec[n] # None
    BY <1>1, <1>7, <2>1 DEF RefreshLoad
  <2>3. mem'[p].cur = n /\ mem'[p].snap = rec[n]
    BY <2>1, <2>2 DEF Memory
  <2> QED
    BY <2>2, <2>3 DEF HasRecord
<1>8. CASE RefreshSave(p)
  BY <1>1, <1>8 DEF RefreshSave, Goto
<1>9. CASE RefreshDone(p)
  <2>1. pc[p] = "refresh.load" /\ cmd[p].verb = "new" /\ pc'[p] = "seam.lock" /\ cmd' = cmd
    BY <1>1, <1>9 DEF RefreshDone, Goto, Exit
  <2>2. mem'[p].snap.repos = cmd[p].repos
    BY <1>9, <2>1 DEF RefreshDone, Blank
  <2> QED
    BY <2>1, <2>2 DEF HasRecord, Creating
<1>10. CASE AddLoad(p)
  <2>1. pc'[p] = "add.graft" /\ cmd' = cmd /\ rec[cmd[p].task] # None
        /\ mem'[p].snap = rec[cmd[p].task]
    BY <1>1, <1>10 DEF AddLoad, Goto, Exit, Memory
  <2> QED
    BY <2>1 DEF HasRecord
<1>11. CASE AddGraft(p)
  BY <1>11 DEF AddGraft, Goto, HasRecord, Memory
<1>12. CASE AddSave(p) \/ AddFail(p)
  BY <1>1, <1>12 DEF AddSave, AddFail, Goto, Exit
<1>13. CASE AddSeam(p)
  <2>1. pc'[p] = "seam.lock" /\ cmd' = cmd /\ cmd[p].verb = "add"
    BY <1>1, <1>13 DEF AddSeam, Goto, Exit, InHand
  <2> QED
    BY <2>1 DEF HasRecord
<1>14. CASE AddReload(p)
  <2>1. pc'[p] = "seam.withdraw" /\ cmd' = cmd /\ rec[cmd[p].task] # None
        /\ mem'[p].snap = rec[cmd[p].task]
    BY <1>1, <1>14 DEF AddReload, Goto, Exit, Memory
  <2> QED
    BY <2>1 DEF HasRecord
<1>15. CASE PostLoad(p) \/ SeamWithdraw(p) \/ SeamSkip(p) \/ SeamScript(p) \/ SeamSave(p) \/ SeamRestore(p)
  BY <1>1, <1>15 DEF PostLoad, SeamWithdraw, SeamSkip, SeamScript, SeamSave, SeamRestore, Goto, Exit
<1>16. CASE SeamLoad(p)
  <2>1. pc'[p] = "seam.save" /\ cmd' = cmd /\ rec[cmd[p].task] # None
        /\ mem'[p].snap = rec[cmd[p].task]
    BY <1>1, <1>16 DEF SeamLoad, Goto, Memory
  <2> QED
    BY <2>1 DEF HasRecord
<1>17. CASE RmLoad(p) \/ RmFence(p) \/ RmGit(p) \/ RmDelete(p) \/ RmForget(p)
  BY <1>1, <1>17 DEF RmLoad, RmFence, RmGit, RmDelete, RmForget, Goto, Exit
<1>18. ~(\/ StartLoad(p) \/ StartWrite(p) \/ StartSave(p) \/ RepairLoad(p)
         \/ RepairLinks(p) \/ DoctorList(p) \/ DoctorSweep(p))
  BY DEF StartLoad, StartWrite, StartSave, RepairLoad, RepairLinks, DoctorList,
     DoctorSweep, OwnInv, Exclusion, InContainer, InTask, Outside
<1>19. CASE RefreshFails(p)
  BY <1>1, <1>19 DEF RefreshFails
<1> QED
  BY <1>2, <1>3, <1>4, <1>5, <1>6, <1>7, <1>8, <1>9, <1>10, <1>11, <1>12, <1>13, <1>14,
     <1>15, <1>16, <1>17, <1>18, <1>19 DEF Step

\* Where a creation, a graft and a script come from.
LEMMA CreatingSteps ==
  ASSUME ScriptBase, NEW p \in Procs, Start(p) \/ Step(p) \/ Crash(p),
         NEW t \in Tasks, Creating(p, t)', ~(NewWorktrees(p) /\ cmd[p].task = t)
  PROVE  Creating(p, t) /\ cmd' = cmd
<1> USE DEF ScriptBase, TypeInv, TypeOK, ProcsOK
<1>1. pc'[p] \in {"new.perimeter", "new.save", "refresh.load", "refresh.save"}
  BY DEF Creating
<1>2. CASE Start(p)
  BY <1>1, <1>2, VerbsAssumption DEF Start, Entry, AllVerbs, Goto
<1>3. CASE LockContainer(p) \/ LockTask(p) \/ GiveUp(p) \/ Crash(p)
  BY <1>1, <1>3 DEF LockContainer, LockTask, GiveUp, Crash, AfterContainer, Goto, Exit
<1>4. CASE NewCheck(p) \/ NewPin(p) \/ NewWorktrees(p) \/ NewPerimeter(p) \/ NewSave(p) \/ NewFail(p)
  BY <1>1, <1>4 DEF NewCheck, NewPin, NewWorktrees, NewPerimeter, NewSave, NewFail, Creating, Goto, Exit
<1>5. CASE RefreshLoad(p) \/ RefreshFails(p) \/ RefreshSave(p) \/ RefreshDone(p)
  BY <1>1, <1>5 DEF RefreshLoad, RefreshFails, RefreshSave, RefreshDone, Creating, Goto, Exit
<1>6. CASE AddLoad(p) \/ AddGraft(p) \/ AddSave(p) \/ AddFail(p) \/ AddSeam(p) \/ AddReload(p)
  BY <1>1, <1>6 DEF AddLoad, AddGraft, AddSave, AddFail, AddSeam, AddReload, Goto, Exit
<1>7. CASE \/ PostLoad(p) \/ SeamWithdraw(p) \/ SeamSkip(p) \/ SeamScript(p)
           \/ SeamLoad(p) \/ SeamSave(p) \/ SeamRestore(p)
  BY <1>1, <1>7 DEF PostLoad, SeamWithdraw, SeamSkip, SeamScript, SeamLoad, SeamSave, SeamRestore, Goto, Exit
<1>8. CASE RmLoad(p) \/ RmFence(p) \/ RmGit(p) \/ RmDelete(p)
  BY <1>1, <1>8 DEF RmLoad, RmFence, RmGit, RmDelete, Goto, Exit
<1>9. ~RmForget(p)
  <2>1. ASSUME RmForget(p) PROVE FALSE
    <3>1. pc[p] = "rm.forget" /\ cmd' = cmd /\ cmd[p].task \in Tasks
      BY <2>1 DEF RmForget, InHand
    <3>2. cmd[p].verb # "new"
      BY <3>1 DEF OwnInv, Exclusion, InTask, Nesting, RemovalStages
    <3> QED
      BY <3>1, <3>2 DEF Creating
  <2> QED
    BY <2>1
<1>10. ~(\/ StartLoad(p) \/ StartWrite(p) \/ StartSave(p) \/ RepairLoad(p)
         \/ RepairLinks(p) \/ DoctorList(p) \/ DoctorSweep(p))
  BY DEF StartLoad, StartWrite, StartSave, RepairLoad, RepairLinks, DoctorList,
     DoctorSweep, OwnInv, Exclusion, InContainer, InTask, Outside
<1> QED
  BY <1>2, <1>3, <1>4, <1>5, <1>6, <1>7, <1>8, <1>9, <1>10 DEF Step

LEMMA StepTo ==
  ASSUME TypeInv, NEW p \in Procs, Start(p) \/ Step(p) \/ Crash(p),
         pc'[p] \in {"add.save", "seam.script"}
  PROVE  \/ pc'[p] = "add.save" /\ AddGraft(p)
         \/ pc'[p] = "seam.script" /\ SeamWithdraw(p) /\ cmd' = cmd
<1> USE DEF TypeInv, TypeOK, ProcsOK
<1>1. CASE Start(p)
  BY <1>1, VerbsAssumption DEF Start, Entry, AllVerbs, Goto
<1>2. CASE LockContainer(p) \/ LockTask(p) \/ GiveUp(p) \/ Crash(p)
  BY <1>2 DEF LockContainer, LockTask, GiveUp, Crash, AfterContainer, Goto, Exit
<1>3. CASE NewCheck(p) \/ NewPin(p) \/ NewWorktrees(p) \/ NewPerimeter(p) \/ NewSave(p) \/ NewFail(p)
  BY <1>3 DEF NewCheck, NewPin, NewWorktrees, NewPerimeter, NewSave, NewFail, Goto, Exit
<1>4. CASE RefreshLoad(p) \/ RefreshFails(p) \/ RefreshSave(p) \/ RefreshDone(p)
  BY <1>4 DEF RefreshLoad, RefreshFails, RefreshSave, RefreshDone, Goto, Exit
<1>5. CASE AddLoad(p) \/ AddGraft(p) \/ AddSave(p) \/ AddFail(p) \/ AddSeam(p) \/ AddReload(p)
  BY <1>5 DEF AddLoad, AddGraft, AddSave, AddFail, AddSeam, AddReload, Goto, Exit
<1>6. CASE \/ PostLoad(p) \/ SeamWithdraw(p) \/ SeamSkip(p) \/ SeamScript(p)
           \/ SeamLoad(p) \/ SeamSave(p) \/ SeamRestore(p)
  BY <1>6 DEF PostLoad, SeamWithdraw, SeamSkip, SeamScript, SeamLoad, SeamSave, SeamRestore, Goto, Exit
<1>7. CASE RmLoad(p) \/ RmFence(p) \/ RmGit(p) \/ RmDelete(p) \/ RmForget(p)
  BY <1>7 DEF RmLoad, RmFence, RmGit, RmDelete, RmForget, Goto, Exit
<1>8. CASE \/ StartLoad(p) \/ StartWrite(p) \/ StartSave(p) \/ RepairLoad(p)
           \/ RepairLinks(p) \/ DoctorList(p) \/ DoctorSweep(p)
  BY <1>8 DEF StartLoad, StartWrite, StartSave, RepairLoad, RepairLinks, DoctorList, DoctorSweep, Goto, Exit
<1> QED
  BY <1>1, <1>2, <1>3, <1>4, <1>5, <1>6, <1>7, <1>8 DEF Step

LEMMA ApartStep ==
  ASSUME ScriptBase, ScriptBase', "build" \notin Faults, Apart, [Next]_vars
  PROVE  Apart'
<1>1. CASE UNCHANGED vars
  BY <1>1 DEF vars, Apart, Free, HasRecord, Creating, Away
<1> SUFFICES ASSUME NEW p \in Procs, Start(p) \/ Step(p) \/ Crash(p)
             PROVE  Apart'
  BY <1>1 DEF Next
<1> DEFINE FreeThen(t, X) ==
      /\ links'[t] \cap X = {}
      /\ \A q \in Procs : Away(q, t)' => mem'[q].taken \cap X \subseteq git'[t]
<1> SUFFICES ASSUME NEW t \in Tasks
             PROVE  /\ rec'[t] # None => FreeThen(t, rec'[t].repos)
                    /\ \A q \in Procs :
                         /\ HasRecord(q, t)' => FreeThen(t, mem'[q].snap.repos)
                         /\ Creating(q, t)' => FreeThen(t, cmd'[q].repos)
                         /\ pc'[q] = "add.save" /\ cmd'[q].task = t =>
                              mem'[q].cur \in git'[t] /\ FreeThen(t, {mem'[q].cur})
                         /\ pc'[q] = "seam.script" /\ cmd'[q].task = t => links'[t] = {}
  BY DEF Apart, Free
<1>2. \A q \in Procs \ {p} : pc'[q] = pc[q] /\ cmd'[q] = cmd[q] /\ mem'[q] = mem[q]
  BY StepsAreMine DEF ScriptBase, Mine
<1>3. \A q \in Procs \ {p} : (HasRecord(q, t)' <=> HasRecord(q, t)) /\ (Creating(q, t)' <=> Creating(q, t))
                             /\ (Away(q, t)' <=> Away(q, t))
  BY <1>2 DEF HasRecord, Creating, Away
<1>4. pc[p] # "idle" => cmd[p].task \in Tasks
  BY DEF ScriptBase, TypeInv, InHand
<1>5. CASE NewWorktrees(p) /\ cmd[p].task = t
  <2>1. /\ rec' = rec /\ cmd' = cmd /\ mem' = mem /\ pc[p] = "new.worktrees" /\ pc'[p] = "new.perimeter"
        /\ links'[t] = Repos \ cmd[p].repos
    BY <1>4, <1>5 DEF NewWorktrees, Goto, ScriptBase, TypeInv, TypeOK, DiskOK, ProcsOK
  <2>2. rec[t] = None
    BY <1>5, <2>1 DEF ScriptBase, OwnInv, Hold, Building
  <2>3. \A q \in Procs \ {p} : ~HasRecord(q, t) /\ ~Creating(q, t) /\ ~Away(q, t) /\ pc[q] # "add.save"
    BY <1>5, <2>1, Alone
  <2>4. ~HasRecord(p, t)' /\ ~Away(p, t)'
    BY <2>1 DEF HasRecord, Away
  <2>5. FreeThen(t, cmd[p].repos)
    BY <1>3, <2>1, <2>3, <2>4
  <2>6. \A q \in Procs \ {p} : ~(pc'[q] = "seam.script" /\ cmd'[q].task = t)
    BY <1>2, <2>3 DEF Away
  <2>7. \A q \in Procs \ {p} : ~HasRecord(q, t)' /\ ~Creating(q, t)' /\ pc'[q] # "add.save"
    BY <1>2, <1>3, <2>3
  <2> HIDE DEF FreeThen
  <2> QED
    BY <2>1, <2>2, <2>4, <2>5, <2>6, <2>7
<1>6. CASE ~(NewWorktrees(p) /\ cmd[p].task = t)
  <2>1. ASSUME NEW X, Free(t, X) PROVE FreeThen(t, X)
    BY <1>6, <2>1, FreeStays
  <2>2. ASSUME NEW X, NEW Y, FreeThen(t, X), FreeThen(t, Y) PROVE FreeThen(t, X \cup Y)
    BY <2>2
  <2>3. FreeThen(t, {})
    OBVIOUS
  <2> HIDE DEF FreeThen
  <2>4. rec'[t] # None => FreeThen(t, rec'[t].repos)
    <3> SUFFICES ASSUME rec'[t] # None PROVE FreeThen(t, rec'[t].repos)
      OBVIOUS
    <3>1. CASE rec'[t] = rec[t]
      BY <2>1, <3>1 DEF Apart
    <3>2. CASE HasRecord(p, t) /\ rec'[t].repos = mem[p].snap.repos
      BY <2>1, <3>2 DEF Apart
    <3>3. CASE /\ pc[p] = "add.save" /\ cmd[p].task = t
               /\ rec'[t].repos = mem[p].snap.repos \cup {mem[p].cur}
      <4>1. FreeThen(t, mem[p].snap.repos) /\ FreeThen(t, {mem[p].cur})
        BY <2>1, <3>3 DEF Apart, HasRecord
      <4> QED
        BY <2>2, <3>3, <4>1
    <3> QED
      BY <3>1, <3>2, <3>3, RecordSteps
  <2>5. ASSUME NEW q \in Procs, HasRecord(q, t)' PROVE FreeThen(t, mem'[q].snap.repos)
    <3>1. CASE q # p
      BY <1>2, <1>3, <2>1, <2>5, <3>1 DEF Apart
    <3>2. CASE q = p
      BY <2>1, <2>5, <3>2, HandSteps DEF Apart
    <3> QED
      BY <3>1, <3>2
  <2>6. ASSUME NEW q \in Procs, Creating(q, t)' PROVE FreeThen(t, cmd'[q].repos)
    <3>1. CASE q # p
      BY <1>2, <1>3, <2>1, <2>6, <3>1 DEF Apart
    <3>2. CASE q = p
      <4>1. Creating(p, t) /\ cmd' = cmd
        BY <1>6, <2>6, <3>2, CreatingSteps
      <4> QED
        BY <2>1, <3>2, <4>1 DEF Apart
    <3> QED
      BY <3>1, <3>2
  <2>7. ASSUME NEW q \in Procs, pc'[q] = "add.save", cmd'[q].task = t
        PROVE  mem'[q].cur \in git'[t] /\ FreeThen(t, {mem'[q].cur})
    <3>1. CASE q # p
      <4>1. pc[q] = "add.save" /\ cmd[q].task = t /\ mem'[q] = mem[q]
        BY <1>2, <2>7, <3>1
      <4>2. mem[q].cur \in git[t] /\ FreeThen(t, {mem[q].cur})
        BY <2>1, <4>1 DEF Apart
      <4>3. ~(SeamWithdraw(p) \/ SeamRestore(p)) => git[t] \subseteq git'[t]
        <5>1. pc[p] \notin {"rm.git", "new.worktrees"}
          BY <3>1, <4>1 DEF ScriptBase, OwnInv, Exclusion, InContainer
        <5> QED
          BY <5>1, LinkSteps DEF RmGit, NewWorktrees
      <4>4. SeamWithdraw(p) \/ SeamRestore(p) => git' = git
        BY DEF SeamWithdraw, SeamRestore
      <4> QED
        BY <4>1, <4>2, <4>3, <4>4
    <3>2. CASE q = p
      <4>1. AddGraft(p)
        BY <2>7, <3>2, StepTo DEF ScriptBase
      <4>2. /\ cmd' = cmd /\ mem'[p].cur = mem[p].cur /\ git'[t] = git[t] \cup {mem[p].cur}
            /\ links'[t] = links[t] \ {mem[p].cur}
        BY <2>7, <3>2, <4>1 DEF AddGraft, ScriptBase, TypeInv, TypeOK, DiskOK, ProcsOK, Memory
      <4>3. FreeThen(t, {mem[p].cur})
        BY <4>2 DEF FreeThen
      <4> QED
        BY <3>2, <4>2, <4>3
    <3> QED
      BY <3>1, <3>2
  <2>8. ASSUME NEW q \in Procs, pc'[q] = "seam.script", cmd'[q].task = t
        PROVE  links'[t] = {}
    <3>1. CASE q # p
      <4>0. pc[q] = "seam.script" /\ cmd[q].task = t
        BY <1>2, <2>8, <3>1
      <4>1. pc[q] = "seam.script" /\ cmd[q].task = t /\ links[t] = {}
        BY <4>0 DEF Apart
      <4>2. ~(cmd[p].task = t /\ pc[p] \in {"seam.withdraw", "seam.restore", "rm.git"})
        BY <3>1, <4>1 DEF ScriptBase, OwnInv, Exclusion, InTask
      <4> QED
        BY <1>6, <4>1, <4>2, LinkSteps DEF SeamWithdraw, SeamRestore, RmGit
    <3>2. CASE q = p
      <4>1. SeamWithdraw(p) /\ cmd[p].task = t
        BY <2>8, <3>2, StepTo DEF ScriptBase
      <4>2. HasRecord(p, t) /\ links'[t] = links[t] \ (Repos \ mem[p].snap.repos)
        BY <2>8, <3>2, <4>1 DEF SeamWithdraw, Slots, HasRecord, Exit, Goto, ScriptBase,
           TypeInv, TypeOK, DiskOK, ProcsOK
      <4>3. links[t] \cap mem[p].snap.repos = {} /\ links[t] \subseteq Repos
        BY <4>2 DEF Apart, Free, ScriptBase, TypeInv, TypeOK, DiskOK
      <4> QED
        BY <4>2, <4>3
    <3> QED
      BY <3>1, <3>2
  <2> QED
    BY <2>4, <2>5, <2>6, <2>7, <2>8
<1> QED
  BY <1>5, <1>6

\* With the verbs that keep both locks in turn, and unless a graft fails (its
\* undo puts a link back whoever is at work there), no script ever meets a
\* link into the workspace, whatever dies: WithdrawBackFill has taken them all,
\* from a record that tells of every repository with a link.
THEOREM ScriptsMeetNoLink ==
  ASSUME Verbs \subseteq {"new", "add", "rm"}, "build" \notin Faults
  PROVE  Spec => []ScriptIsolated
<1>1. Init => Apart
  BY DEF Init, Apart, Free, HasRecord, Creating, Away
<1>2. Spec => []ScriptBase
  BY StandingInvariant DEF ScriptBase
<1>3. ScriptBase /\ ScriptBase' /\ Apart /\ [Next]_vars => Apart'
  BY ApartStep
<1>4. ScriptBase /\ Apart => ScriptIsolated
  BY DEF ScriptBase, TypeInv, InHand, Apart, ScriptIsolated
<1> QED
  BY <1>1, <1>2, <1>3, <1>4, PTL DEF Spec
-----------------------------------------------------------------------------
(* Without a script to write a record back, only the holder of the         *)
(* container lock changes one.                                             *)

Frank ==
  \A p \in Procs :
    /\ pc[p] \notin {"seam.script", "seam.load", "seam.save"}
    /\ pc[p] \in {"add.graft", "add.save", "rm.git"} => mem[p].snap = rec[cmd[p].task]
    /\ pc[p] \in {"add.graft", "add.save"} => mem[p].cur \notin rec[cmd[p].task].repos
    /\ pc[p] = "refresh.save" => mem[p].snap = rec[mem[p].cur]

QuietBase == TypeInv /\ Nesting /\ OwnInv /\ Frank

\* Steps that leave the records alone.
LEMMA RecordsRest ==
  ASSUME TypeInv, OwnInv, Frank, NEW p \in Procs, Start(p) \/ Step(p) \/ Crash(p)
  PROVE  UNCHANGED rec \/ NewSave(p) \/ RefreshSave(p) \/ AddSave(p) \/ RmForget(p)
<1>1. ~SeamSave(p) /\ ~StartSave(p)
  BY DEF SeamSave, StartSave, Frank, OwnInv, Exclusion, InContainer, InTask, Outside
<1> QED
  BY <1>1 DEF Step, Start, Crash,
     LockContainer, LockTask, GiveUp, NewCheck, NewPin, NewWorktrees,
     NewPerimeter, NewFail, RefreshLoad, RefreshFails, RefreshDone, AddLoad, AddGraft,
     AddFail, AddSeam, AddReload, PostLoad, SeamWithdraw, SeamSkip,
     SeamScript, SeamLoad, SeamRestore, RmLoad, RmFence, RmGit, RmDelete,
     StartLoad, StartWrite, RepairLoad, RepairLinks, DoctorList, DoctorSweep, disk

LEMMA FrankStep ==
  ASSUME Verbs \subseteq LockedVerbs, HasScript = FALSE, TypeInv, TypeInv', OwnInv, Frank, [Next]_vars
  PROVE  Frank'
<1>1. CASE UNCHANGED vars
  BY <1>1 DEF vars, Frank
<1> SUFFICES ASSUME NEW p \in Procs, Start(p) \/ Step(p) \/ Crash(p)
             PROVE  Frank'
  BY <1>1 DEF Next
<1> USE DEF TypeInv, TypeOK, ProcsOK, DiskOK
<1>2. \A q \in Procs \ {p} : pc'[q] = pc[q] /\ cmd'[q] = cmd[q] /\ mem'[q] = mem[q]
  BY StepsAreMine DEF Mine
<1>3. ASSUME NEW q \in Procs \ {p}, pc[q] \in {"add.graft", "add.save", "rm.git", "refresh.save"}
      PROVE  rec' = rec
  <2>1. cLock = q
    BY <1>3 DEF OwnInv, Exclusion, InContainer
  <2>2. pc[p] \notin InContainer
    BY <2>1 DEF OwnInv, Exclusion
  <2> QED
    BY <2>2, RecordsRest DEF NewSave, RefreshSave, AddSave, RmForget, InContainer
<1>4. ASSUME NEW q \in Procs \ {p}
      PROVE  /\ pc'[q] \notin {"seam.script", "seam.load", "seam.save"}
             /\ pc'[q] \in {"add.graft", "add.save", "rm.git"} => mem'[q].snap = rec'[cmd'[q].task]
             /\ pc'[q] \in {"add.graft", "add.save"} => mem'[q].cur \notin rec'[cmd'[q].task].repos
             /\ pc'[q] = "refresh.save" => mem'[q].snap = rec'[mem'[q].cur]
  BY <1>2, <1>3 DEF Frank
<1>5. ASSUME pc'[p] \notin {"seam.script", "seam.load", "seam.save", "add.graft",
                            "add.save", "rm.git", "refresh.save"}
      PROVE  Frank'
  BY <1>4, <1>5 DEF Frank
<1>6. CASE Start(p)
  <2>1. PICK v \in Verbs : pc' = [pc EXCEPT ![p] = Entry[v]]
    BY <1>6 DEF Start, Goto
  <2>2. Entry[v] \in {"new.lock", "add.lock", "post.load", "rm.lock", "rm.load",
                     "start.load", "repair.load", "doctor.list"}
    BY VerbsAssumption DEF Entry, AllVerbs
  <2> QED
    BY <1>5, <2>1, <2>2
<1>7. CASE LockContainer(p) \/ LockTask(p) \/ GiveUp(p) \/ Crash(p)
  BY <1>5, <1>7 DEF LockContainer, LockTask, GiveUp, Crash, AfterContainer, Goto, Exit
<1>8. CASE NewCheck(p) \/ NewPin(p) \/ NewWorktrees(p) \/ NewPerimeter(p) \/ NewSave(p) \/ NewFail(p)
  BY <1>5, <1>8 DEF NewCheck, NewPin, NewWorktrees, NewPerimeter, NewSave, NewFail, Goto, Exit
<1>9. CASE RefreshLoad(p)
  <2>1. CASE pc'[p] = "refresh.save"
    <3>1. PICK n \in mem[p].todo :
            /\ mem' = [mem EXCEPT ![p].todo = @ \ {n},
                        ![p].cur = IF rec[n] = None THEN None ELSE n,
                        ![p].snap = rec[n]]
            /\ rec[n] = None => pc' = pc
      BY <1>9 DEF RefreshLoad
    <3>2. rec[n] # None
      BY <1>9, <2>1, <3>1 DEF RefreshLoad
    <3>3. mem'[p].cur = n /\ mem'[p].snap = rec[n] /\ rec' = rec
      BY <1>9, <3>1, <3>2 DEF RefreshLoad, Memory
    <3> QED
      BY <1>4, <2>1, <3>3 DEF Frank
  <2>2. CASE pc'[p] # "refresh.save"
    BY <1>5, <1>9, <2>2 DEF RefreshLoad, Goto
  <2> QED
    BY <2>1, <2>2
<1>10. CASE RefreshSave(p) \/ RefreshDone(p) \/ AddSave(p) \/ AddFail(p) \/ AddSeam(p) \/ AddReload(p)
  BY <1>5, <1>10 DEF RefreshSave, RefreshDone, AddSave, AddFail, AddSeam, AddReload, Goto, Exit
<1>11. CASE AddLoad(p)
  <2>1. CASE pc'[p] = "add.graft"
    <3>1. /\ mem'[p].snap = rec[cmd[p].task] /\ cmd' = cmd /\ rec' = rec
          /\ mem'[p].cur \notin rec[cmd[p].task].repos
      BY <1>11, <2>1 DEF AddLoad, Exit, Goto, Memory
    <3> QED
      BY <1>4, <2>1, <3>1 DEF Frank
  <2>2. CASE pc'[p] # "add.graft"
    BY <1>5, <1>11, <2>2 DEF AddLoad, Exit, Goto
  <2> QED
    BY <2>1, <2>2
<1>12. CASE AddGraft(p)
  <2>1. /\ pc[p] = "add.graft" /\ pc'[p] = "add.save" /\ cmd' = cmd /\ rec' = rec
        /\ mem'[p].snap = mem[p].snap /\ mem'[p].cur = mem[p].cur
    BY <1>12 DEF AddGraft, Goto, Memory
  <2> QED
    BY <1>4, <2>1 DEF Frank
<1>13. CASE \/ PostLoad(p) \/ SeamWithdraw(p) \/ SeamSkip(p) \/ SeamScript(p)
            \/ SeamLoad(p) \/ SeamSave(p) \/ SeamRestore(p)
  <2>1. ~SeamScript(p) /\ ~SeamLoad(p) /\ ~SeamSave(p)
    BY DEF SeamScript, SeamLoad, SeamSave, Frank
  <2> QED
    BY <1>5, <1>13, <2>1 DEF PostLoad, SeamWithdraw, SeamSkip, SeamRestore, Goto, Exit
<1>14. CASE RmLoad(p)
  <2>1. CASE pc'[p] = "rm.git"
    <3>1. mem'[p].snap = rec[cmd[p].task] /\ cmd' = cmd /\ rec' = rec
      BY <1>14, <2>1 DEF RmLoad, Exit, Goto, Memory
    <3> QED
      BY <1>4, <2>1, <3>1 DEF Frank
  <2>2. CASE pc'[p] # "rm.git"
    BY <1>5, <1>14, <2>2 DEF RmLoad, Exit, Goto
  <2> QED
    BY <2>1, <2>2
<1>15. CASE RmFence(p)
  <2>1. CASE pc'[p] = "rm.git"
    <3>1. pc[p] = "rm.fence" /\ mem' = mem /\ cmd' = cmd /\ rec' = rec
      BY <1>15, <2>1 DEF RmFence, Exit, Goto
    <3> QED
      BY <1>4, <2>1, <3>1 DEF Frank, OwnInv, Hold
  <2>2. CASE pc'[p] # "rm.git"
    BY <1>5, <1>15, <2>2 DEF RmFence, Exit, Goto
  <2> QED
    BY <2>1, <2>2
<1>16. CASE RmGit(p) \/ RmDelete(p) \/ RmForget(p)
  BY <1>5, <1>16 DEF RmGit, RmDelete, RmForget, Exit, Goto
<1>17. ~(\/ StartLoad(p) \/ StartWrite(p) \/ StartSave(p) \/ RepairLoad(p)
         \/ RepairLinks(p) \/ DoctorList(p) \/ DoctorSweep(p))
  BY DEF StartLoad, StartWrite, StartSave, RepairLoad, RepairLinks, DoctorList,
     DoctorSweep, OwnInv, Exclusion, InContainer, InTask, Outside
<1>18. CASE RefreshFails(p)
  BY <1>5, <1>18 DEF RefreshFails
<1> QED
  BY <1>6, <1>7, <1>8, <1>9, <1>10, <1>11, <1>12, <1>13, <1>14, <1>15, <1>16, <1>17, <1>18 DEF Step

LEMMA QuietInvariant ==
  ASSUME Verbs \subseteq LockedVerbs, HasScript = FALSE
  PROVE  Spec => []QuietBase
<1>1. Init => QuietBase
  BY TypeInit, NestingInit, OwnInit DEF Init, QuietBase, Frank
<1>2. QuietBase /\ [Next]_vars => QuietBase'
  BY TypeStep, NestingStep, OwnStep, FrankStep DEF QuietBase
<1> QED
  BY <1>1, <1>2, PTL DEF Spec

\* In a workspace without a post-create script no write-back loses a worktree
\* that another command has recorded (task.Add, refreshSiblings and
\* refreshAfterRemoval save what they loaded under the same lock), whatever
\* fails or dies.
THEOREM RecordsKeepGrafts ==
  ASSUME Verbs \subseteq LockedVerbs, HasScript = FALSE
  PROVE  Spec => GraftsSurvive
<1> DEFINE Kept == \A t \in Tasks : rec[t] # None /\ rec'[t] # None =>
                     rec[t].repos \subseteq rec'[t].repos
<1>1. QuietBase /\ [Next]_vars => [Kept]_vars
  <2> SUFFICES ASSUME QuietBase, Next PROVE Kept
    OBVIOUS
  <2> SUFFICES ASSUME NEW p \in Procs, Start(p) \/ Step(p) \/ Crash(p),
                      NEW t \in Tasks, rec[t] # None, rec'[t] # None
               PROVE  rec[t].repos \subseteq rec'[t].repos
    BY DEF Next
  <2> USE DEF QuietBase, TypeInv, TypeOK, DiskOK
  <2>1. CASE NewSave(p)
    BY <2>1 DEF NewSave, OwnInv, Hold, Building
  <2>2. CASE RefreshSave(p)
    <3>1. mem[p].snap \in Record /\ mem[p].snap = rec[mem[p].cur]
      BY <2>2 DEF RefreshSave, Frank, InHand, WithSnap
    <3>2. [mem[p].snap EXCEPT !.names = mem[p].names \ {mem[p].cur}].repos = mem[p].snap.repos
      BY <3>1 DEF Record
    <3> QED
      BY <2>2, <3>1, <3>2 DEF RefreshSave
  <2>3. CASE AddSave(p)
    <3>1. mem[p].snap \in Record /\ mem[p].snap = rec[cmd[p].task]
      BY <2>3 DEF AddSave, Frank, InHand, WithSnap
    <3>2. [mem[p].snap EXCEPT !.repos = @ \cup {mem[p].cur}, !.names = mem[p].names].repos
            = mem[p].snap.repos \cup {mem[p].cur}
      BY <3>1 DEF Record
    <3> QED
      BY <2>3, <3>1, <3>2 DEF AddSave
  <2>4. CASE RmForget(p)
    BY <2>4 DEF RmForget
  <2>5. CASE UNCHANGED rec
    BY <2>5
  <2> QED
    BY <2>1, <2>2, <2>3, <2>4, <2>5, RecordsRest
<1> QED
  BY <1>1, QuietInvariant, PTL DEF Spec, GraftsSurvive
-----------------------------------------------------------------------------
(* The container at rest.                                                  *)

\* The steps between which a task is neither one thing nor the other.
Busy == {"new.worktrees", "new.perimeter", "new.save", "add.save", "rm.git",
         "rm.delete", "rm.forget"}
Idle(t) == \A p \in Procs : pc[p] \in Busy => cmd[p].task # t

\* The links a post-create will put back, and those that are there with them.
Pending(t) ==
  {r \in Repos \ git[t] : \E q \in Procs :
     pc[q] = "seam.restore" /\ cmd[q].task = t /\ r \in mem[q].taken}
Back(t) == links[t] \cup Pending(t)

Whole(t) ==
  IF rec[t] = None
    THEN tree[t] = "none" /\ git[t] = {} /\ pin[t] = {}
    ELSE /\ tree[t] = "full" /\ git[t] = rec[t].repos /\ pin[t] = rec[t].repos
         /\ Back(t) = Repos \ rec[t].repos

Built(p, t) == tree[t] = "full" /\ git[t] = cmd[p].repos /\ pin[t] = cmd[p].repos
               /\ Back(t) = Repos \ cmd[p].repos

\* What a task is like in between.
Midway(p, t) ==
  /\ pc[p] = "new.worktrees" => tree[t] = "full" /\ git[t] = {} /\ pin[t] = cmd[p].repos
  /\ pc[p] = "new.perimeter" => Built(p, t)
  /\ pc[p] = "new.save" => Built(p, t) /\ mem[p].snap.repos = cmd[p].repos
  /\ pc[p] = "add.save" =>
       /\ tree[t] = "full" /\ git[t] = rec[t].repos \cup {mem[p].cur}
       /\ pin[t] = git[t] /\ Back(t) = Repos \ git[t]
  /\ pc[p] = "rm.git" => git[t] = rec[t].repos /\ pin[t] = rec[t].repos
  /\ pc[p] \in {"rm.delete", "rm.forget"} => git[t] = {} /\ pin[t] = {}
  /\ pc[p] \in {"rm.git", "rm.delete", "rm.forget"} => tree[t] = "none"

Quiet ==
  /\ \A t \in Tasks : Idle(t) => Whole(t)
  /\ \A p \in Procs, t \in Tasks : cmd[p].task = t => Midway(p, t)

\* Where p changes nothing of a task but perhaps the links it has withdrawn.
LEMMA Resting ==
  ASSUME QuietBase, Quiet, NEW p \in Procs, Start(p) \/ Step(p) \/ Crash(p),
         NEW t \in Tasks,
         rec'[t] = rec[t], tree'[t] = tree[t], git'[t] = git[t], pin'[t] = pin[t],
         Back(t)' = Back(t) \/ tree[t] = "none", pc[p] \in Busy => cmd[p].task # t,
         pc'[p] \in Busy => cmd'[p].task # t
  PROVE  /\ Idle(t)' => Whole(t)'
         /\ \A q \in Procs : cmd'[q].task = t => Midway(q, t)'
<1>1. \A q \in Procs \ {p} : pc'[q] = pc[q] /\ cmd'[q] = cmd[q] /\ mem'[q] = mem[q]
  BY StepsAreMine DEF QuietBase, Mine
<1>2. Idle(t)' => Idle(t)
  BY <1>1 DEF Idle
<1>3. Idle(t)' => Whole(t)'
  BY <1>2 DEF Quiet, Whole
<1>4. ASSUME NEW q \in Procs \ {p}, cmd'[q].task = t PROVE Midway(q, t)'
  <2>1. Midway(q, t)
    BY <1>1, <1>4 DEF Quiet
  <2> QED
    BY <1>1, <2>1 DEF Midway, Built
<1>5. cmd'[p].task = t => Midway(p, t)'
  BY DEF Midway, Busy
<1> QED
  BY <1>3, <1>4, <1>5

\* Where p holds the container lock, nobody else is in the middle of anything.
LEMMA HolderAlone ==
  ASSUME QuietBase, NEW p \in Procs, pc[p] \in InContainer, NEW t \in Tasks
  PROVE  /\ \A q \in Procs \ {p} : pc[q] \notin Busy
         /\ pc[p] \notin Busy => Idle(t)
<1>1. \A q \in Procs \ {p} : pc[q] \notin InContainer
  BY DEF QuietBase, OwnInv, Exclusion
<1>2. \A q \in Procs \ {p} : pc[q] \notin Busy
  BY <1>1 DEF Busy, InContainer
<1> QED
  BY <1>2 DEF Idle

LEMMA OthersRest ==
  ASSUME QuietBase, NEW p \in Procs, Start(p) \/ Step(p) \/ Crash(p), pc[p] \in InContainer,
         NEW t \in Tasks
  PROVE  /\ \A q \in Procs \ {p} : pc'[q] \notin Busy /\ Midway(q, t)'
         /\ pc'[p] \notin Busy => Idle(t)'
<1>1. \A q \in Procs \ {p} : pc'[q] = pc[q]
  BY StepsAreMine DEF QuietBase, Mine
<1>2. \A q \in Procs \ {p} : pc'[q] \notin Busy
  BY <1>1, HolderAlone
<1> QED
  BY <1>2 DEF Idle, Midway, Busy

\* A step that is no part of a post-create leaves what is withdrawn as it is.
LEMMA PendingRests ==
  ASSUME QuietBase, NEW p \in Procs, Start(p) \/ Step(p) \/ Crash(p), NEW t \in Tasks,
         pc[p] # "seam.restore", pc'[p] # "seam.restore"
  PROVE  /\ git'[t] = git[t] => Pending(t)' = Pending(t)
         /\ git[t] \subseteq git'[t] => Pending(t)' = Pending(t) \ git'[t]
         /\ tLock[t] = p => Pending(t) = {} /\ Pending(t)' = {}
<1>1. \A q \in Procs \ {p} : pc'[q] = pc[q] /\ cmd'[q] = cmd[q] /\ mem'[q] = mem[q]
  BY StepsAreMine DEF QuietBase, Mine
<1>2. \A q \in Procs : (pc'[q] = "seam.restore" <=> pc[q] = "seam.restore")
                       /\ (pc[q] = "seam.restore" => cmd'[q] = cmd[q] /\ mem'[q] = mem[q])
  BY <1>1
<1>3. ASSUME tLock[t] = p PROVE \A q \in Procs : pc[q] = "seam.restore" => cmd[q].task # t
  BY <1>3 DEF QuietBase, OwnInv, Exclusion, InTask
<1> QED
  BY <1>2, <1>3 DEF Pending

\* A step that changes nothing a task consists of.
LEMMA NothingChanges ==
  ASSUME QuietBase, Quiet, NEW p \in Procs, Start(p) \/ Step(p) \/ Crash(p),
         UNCHANGED <<rec, tree, git, pin, links>>,
         pc[p] \notin Busy, pc'[p] \notin Busy,
         pc[p] # "seam.restore", pc'[p] # "seam.restore"
  PROVE  Quiet'
<1> SUFFICES ASSUME NEW t \in Tasks
             PROVE  /\ Idle(t)' => Whole(t)'
                    /\ \A q \in Procs : cmd'[q].task = t => Midway(q, t)'
  BY DEF Quiet
<1>1. Pending(t)' = Pending(t)
  BY PendingRests
<1>2. Back(t)' = Back(t)
  BY <1>1 DEF Back
<1> QED
  BY <1>2, Resting
\* A step of a holder of the container lock: of its own task it decides alone,
\* the others rest.
LEMMA HolderStep ==
  ASSUME QuietBase, Quiet, NEW p \in Procs, Start(p) \/ Step(p) \/ Crash(p),
         pc[p] \in InContainer, pc'[p] # "seam.restore",
         cmd'[p].task = cmd[p].task \/ pc'[p] \notin Busy,
         \A u \in Tasks \ {cmd[p].task} :
           rec'[u] = rec[u] /\ tree'[u] = tree[u] /\ git'[u] = git[u] /\ pin'[u] = pin[u]
           /\ links'[u] = links[u],
         \A t \in Tasks : t = cmd[p].task =>
           /\ pc'[p] \notin Busy => Whole(t)'
           /\ cmd'[p].task = t => Midway(p, t)'
  PROVE  Quiet'
<1> SUFFICES ASSUME NEW t \in Tasks
             PROVE  /\ Idle(t)' => Whole(t)'
                    /\ \A q \in Procs : cmd'[q].task = t => Midway(q, t)'
  BY DEF Quiet
<1>1. pc[p] # "seam.restore"
  BY DEF InContainer
<1>2. CASE t = cmd[p].task
  <2>1. \A q \in Procs \ {p} : Midway(q, t)'
    BY OthersRest
  <2>2. cmd'[p].task = t => Midway(p, t)'
    BY <1>2
  <2>3. Idle(t)' => Whole(t)'
    BY <1>2 DEF Idle
  <2> QED
    BY <2>1, <2>2, <2>3
<1>3. CASE t # cmd[p].task
  <2>1. Pending(t)' = Pending(t)
    BY <1>1, <1>3, PendingRests
  <2>2. Back(t)' = Back(t)
    BY <1>3, <2>1 DEF Back
  <2>3. /\ rec'[t] = rec[t] /\ tree'[t] = tree[t] /\ git'[t] = git[t] /\ pin'[t] = pin[t]
        /\ pc[p] \in Busy => cmd[p].task # t
        /\ pc'[p] \in Busy => cmd'[p].task # t
    BY <1>3
  <2> QED
    BY <2>2, <2>3, Resting
<1> QED
  BY <1>2, <1>3

LEMMA NewQuiet ==
  ASSUME QuietBase, QuietBase', Quiet, NEW p \in Procs,
         NewPin(p) \/ NewWorktrees(p) \/ NewPerimeter(p) \/ NewSave(p)
  PROVE  Quiet'
<1> USE DEF QuietBase, TypeInv, TypeOK, DiskOK, ProcsOK
<1>1. /\ pc[p] \in {"new.pin", "new.worktrees", "new.perimeter", "new.save"} /\ cmd' = cmd
      /\ pc'[p] \in {"new.worktrees", "new.perimeter", "new.save", "refresh.load"}
  BY DEF NewPin, NewWorktrees, NewPerimeter, NewSave, Goto
<1>0. cmd[p].task \in Tasks /\ cmd[p].repos \subseteq Repos
  BY <1>1 DEF InHand, Command
<1> PICK t \in Tasks : t = cmd[p].task
  BY <1>0
<1>2. t \in Tasks /\ t = cmd[p].task /\ cmd[p].repos \subseteq Repos
  BY <1>0
<1>3. pc[p] \in InContainer /\ Step(p)
  BY <1>1 DEF InContainer, Step
<1>4. rec[t] = None /\ cmd[p].verb = "new"
  BY <1>1, <1>2 DEF OwnInv, Hold, Building
<1>5. \A u \in Tasks \ {t} :
        rec'[u] = rec[u] /\ tree'[u] = tree[u] /\ git'[u] = git[u] /\ pin'[u] = pin[u]
        /\ links'[u] = links[u]
  BY <1>2 DEF NewPin, NewWorktrees, NewPerimeter, NewSave, WritePerimeter, disk
<1>6. /\ git'[t] = git[t] => Pending(t)' = Pending(t)
      /\ git[t] \subseteq git'[t] => Pending(t)' = Pending(t) \ git'[t]
  BY <1>1, <1>2, <1>3, PendingRests
<1>7. /\ pc'[p] \notin Busy => Whole(t)'
      /\ Midway(p, t)'
  <2>1. CASE NewPin(p)
    <3>1. Whole(t)
      BY <1>2, <1>3, <2>1, HolderAlone DEF Quiet, NewPin, Busy
    <3>2. /\ tree'[t] = "full" /\ pin'[t] = pin[t] \cup cmd[p].repos
          /\ git' = git /\ links' = links /\ pc'[p] = "new.worktrees"
      BY <1>2, <2>1 DEF NewPin, Goto
    <3>3. git[t] = {} /\ pin[t] = {}
      BY <1>4, <3>1 DEF Whole
    <3> QED
      BY <1>1, <3>2, <3>3 DEF Midway, Busy
  <2>2. CASE NewWorktrees(p)
    <3>1. tree[t] = "full" /\ git[t] = {} /\ pin[t] = cmd[p].repos
      BY <1>2, <2>2 DEF NewWorktrees, Quiet, Midway
    <3>2. /\ git'[t] = git[t] \cup cmd[p].repos /\ links'[t] = Repos \ cmd[p].repos
          /\ pc'[p] = "new.perimeter" /\ tree' = tree /\ pin' = pin
      BY <1>2, <2>2 DEF NewWorktrees, Goto
    <3>3. Pending(t)' \subseteq Repos \ git'[t] /\ git'[t] = cmd[p].repos
      BY <3>1, <3>2 DEF Pending
    <3>4. Back(t)' = Repos \ cmd[p].repos
      BY <3>2, <3>3 DEF Back
    <3> QED
      BY <1>1, <3>1, <3>2, <3>3, <3>4 DEF Midway, Built, Busy
  <2>3. CASE NewPerimeter(p)
    <3>1. Built(p, t)
      BY <1>2, <2>3 DEF NewPerimeter, Quiet, Midway
    <3>2. /\ tree'[t] = Touched(t) /\ git' = git /\ pin' = pin /\ links' = links
          /\ pc'[p] = "new.save"
      BY <1>2, <2>3 DEF NewPerimeter, WritePerimeter, Goto
    <3>3. mem'[p].snap.repos = cmd[p].repos
      BY <2>3 DEF NewPerimeter, Memory
    <3>4. Back(t)' = Back(t)
      BY <1>6, <3>2 DEF Back
    <3>5. Built(p, t)'
      BY <1>1, <3>1, <3>2, <3>4 DEF Built, Touched
    <3> QED
      BY <1>1, <3>2, <3>3, <3>5 DEF Midway, Busy
  <2>4. CASE NewSave(p)
    <3>1. Built(p, t) /\ mem[p].snap.repos = cmd[p].repos
      BY <1>2, <2>4 DEF NewSave, Quiet, Midway
    <3>2. rec'[t] = mem[p].snap /\ UNCHANGED <<tree, git, pin, links>> /\ pc'[p] = "refresh.load"
      BY <1>2, <2>4 DEF NewSave, Goto
    <3>3. mem[p].snap \in Record
      BY <2>4 DEF NewSave, InHand, WithSnap
    <3>4. Back(t)' = Back(t)
      BY <1>6, <3>2 DEF Back, disk
    <3>5. Whole(t)'
      BY <1>1, <3>1, <3>2, <3>3, <3>4, NoneAssumption DEF Whole, Built, disk
    <3> QED
      BY <3>2, <3>5 DEF Midway
  <2> QED
    BY <2>1, <2>2, <2>3, <2>4
<1>8. pc'[p] # "seam.restore"
  BY <1>1
<1> QED
  BY <1>1, <1>2, <1>3, <1>5, <1>7, <1>8, HolderStep

LEMMA RefreshQuiet ==
  ASSUME QuietBase, QuietBase', Quiet, NEW p \in Procs,
         RefreshLoad(p) \/ RefreshFails(p) \/ RefreshSave(p)
  PROVE  Quiet'
<1> USE DEF QuietBase, TypeInv, TypeOK, DiskOK, ProcsOK
<1>1. /\ pc[p] \in {"refresh.load", "refresh.save"} /\ pc'[p] \in {"refresh.load", "refresh.save"}
      /\ cmd' = cmd /\ UNCHANGED <<git, pin, links>>
  BY DEF RefreshLoad, RefreshFails, RefreshSave, Goto, disk
<1>2. pc[p] \in InContainer /\ Step(p) /\ pc[p] \notin Busy /\ pc'[p] \notin Busy
  BY <1>1 DEF InContainer, Step, Busy
<1> SUFFICES ASSUME NEW t \in Tasks
             PROVE  (Idle(t)' => Whole(t)') /\ \A q \in Procs : Midway(q, t)'
  BY DEF Quiet
<1>3. \A q \in Procs : Midway(q, t)'
  <2>1. Midway(p, t)'
    BY <1>1 DEF Midway
  <2> QED
    BY <1>2, <2>1, OthersRest
<1>4. Whole(t)
  BY <1>2, HolderAlone DEF Quiet
<1>5. Pending(t)' = Pending(t)
  BY <1>1, <1>2, PendingRests
<1>6. Back(t)' = Back(t)
  BY <1>1, <1>5 DEF Back
<1>7. CASE RefreshLoad(p)
  <2>1. rec' = rec
    BY <1>7 DEF RefreshLoad
  <2>2. tree'[t] = tree[t]
    <3>1. PICK n \in mem[p].todo :
            IF rec[n] = None THEN tree' = tree ELSE tree' = [tree EXCEPT ![n] = Touched(n)]
      BY <1>7 DEF RefreshLoad, WritePerimeter
    <3>2. rec[t] # None => tree[t] = "full"
      BY <1>4 DEF Whole
    <3> QED
      BY <3>1, <3>2 DEF Touched
  <2> QED
    BY <1>1, <1>3, <1>4, <1>6, <2>1, <2>2 DEF Whole
<1>8. CASE RefreshSave(p)
  <2>1. mem[p].snap \in Record /\ mem[p].cur \in Tasks /\ mem[p].snap = rec[mem[p].cur]
    BY <1>8 DEF RefreshSave, InHand, WithSnap, Frank
  <2>2. mem[p].names \ {mem[p].cur} \in SUBSET Tasks
    BY MemoryFields
  <2>5. [mem[p].snap EXCEPT !.names = mem[p].names \ {mem[p].cur}] \in Record
    BY <2>1, <2>2, RecordUpdates
  <2>6. [mem[p].snap EXCEPT !.names = mem[p].names \ {mem[p].cur}].repos = mem[p].snap.repos
    BY <2>1 DEF Record
  <2>3. (rec'[t] = None <=> rec[t] = None) /\ (rec[t] # None => rec'[t].repos = rec[t].repos)
    BY <1>8, <2>1, <2>5, <2>6, NoneAssumption DEF RefreshSave
  <2>4. tree' = tree
    BY <1>8 DEF RefreshSave, disk
  <2> QED
    BY <1>1, <1>3, <1>4, <1>6, <2>3, <2>4 DEF Whole
<1>9. CASE RefreshFails(p)
  <2>1. rec' = rec
    BY <1>9 DEF RefreshFails
  <2>2. tree'[t] = tree[t]
    <3>1. PICK n \in mem[p].todo :
            rec[n] # None /\ (tree' = tree \/ tree' = [tree EXCEPT ![n] = Touched(n)])
      BY <1>9 DEF RefreshFails, WritePerimeter
    <3>2. rec[t] # None => tree[t] = "full"
      BY <1>4 DEF Whole
    <3> QED
      BY <3>1, <3>2 DEF Touched
  <2> QED
    BY <1>1, <1>3, <1>4, <1>6, <2>1, <2>2 DEF Whole
<1> QED
  BY <1>7, <1>8, <1>9

LEMMA AddQuiet ==
  ASSUME QuietBase, QuietBase', Quiet, NEW p \in Procs, AddGraft(p) \/ AddSave(p)
  PROVE  Quiet'
<1> USE DEF QuietBase, TypeInv, TypeOK, DiskOK, ProcsOK
<1>1. /\ pc[p] \in {"add.graft", "add.save"} /\ cmd'[p].task = cmd[p].task
      /\ pc'[p] \in {"add.save", "add.load", "add.seam"}
  BY DEF AddGraft, AddSave, Goto, Command
<1>0. cmd[p].task \in Tasks /\ mem[p].cur \in Repos
  BY <1>1 DEF InHand
<1> PICK t \in Tasks, r \in Repos : t = cmd[p].task /\ r = mem[p].cur
  BY <1>0
<1>2. /\ t = cmd[p].task /\ r = mem[p].cur /\ mem[p].snap \in Record
      /\ mem[p].snap = rec[t] /\ rec[t] # None
  BY <1>1 DEF InHand, WithSnap, Frank, OwnInv, Hold
<1>3. pc[p] \in InContainer /\ Step(p)
  BY <1>1 DEF InContainer, Step
<1>5. \A u \in Tasks \ {t} :
        rec'[u] = rec[u] /\ tree'[u] = tree[u] /\ git'[u] = git[u] /\ pin'[u] = pin[u]
        /\ links'[u] = links[u]
  BY <1>2 DEF AddGraft, AddSave, WritePerimeter, disk
<1>6. /\ git'[t] = git[t] => Pending(t)' = Pending(t)
      /\ git[t] \subseteq git'[t] => Pending(t)' = Pending(t) \ git'[t]
  BY <1>1, <1>2, <1>3, PendingRests
<1>7. /\ pc'[p] \notin Busy => Whole(t)'
      /\ Midway(p, t)'
  <2>1. CASE AddGraft(p)
    <3>1. Whole(t)
      BY <1>2, <1>3, <2>1, HolderAlone DEF Quiet, AddGraft, Busy
    <3>2. tree[t] = "full" /\ git[t] = rec[t].repos /\ pin[t] = rec[t].repos /\ Back(t) = Repos \ rec[t].repos
      BY <1>2, <3>1 DEF Whole
    <3>3. /\ tree'[t] = Touched(t) /\ pin'[t] = pin[t] \cup {r} /\ git'[t] = git[t] \cup {r}
          /\ links'[t] = links[t] \ {r} /\ pc'[p] = "add.save" /\ rec' = rec /\ mem'[p].cur = r
      BY <1>2, <2>1 DEF AddGraft, Goto, WritePerimeter, Memory
    <3>4. Back(t)' = Back(t) \ {r}
      <4>1. Pending(t)' = Pending(t) \ git'[t]
        BY <1>6, <3>3
      <4>2. Pending(t) \cap git[t] = {}
        BY DEF Pending
      <4> QED
        BY <3>3, <4>1, <4>2 DEF Back
    <3>5. Back(t)' = Repos \ git'[t]
      BY <3>2, <3>3, <3>4
    <3> QED
      BY <1>1, <3>2, <3>3, <3>5 DEF Midway, Busy, Touched
  <2>2. CASE AddSave(p)
    <3>1. tree[t] = "full" /\ git[t] = rec[t].repos \cup {r} /\ pin[t] = git[t] /\ Back(t) = Repos \ git[t]
      <4>1. Midway(p, t) /\ pc[p] = "add.save"
        BY <1>2, <2>2 DEF AddSave, Quiet
      <4> QED
        BY <1>2, <4>1, Zenon DEF Midway
    <3>0. mem[p].names \in SUBSET Tasks
      BY MemoryFields
    <3>6. LET new == [mem[p].snap EXCEPT !.repos = @ \cup {r}, !.names = mem[p].names]
          IN  new \in Record /\ new.repos = rec[t].repos \cup {r}
      BY <1>2, <3>0, RecordUpdates DEF Record
    <3>2. rec'[t] \in Record /\ rec'[t].repos = rec[t].repos \cup {r}
      BY <1>2, <2>2, <3>6 DEF AddSave
    <3>3. UNCHANGED <<tree, git, pin, links>> /\ pc'[p] \in {"add.load", "add.seam"}
      BY <2>2 DEF AddSave, disk, Goto
    <3>4. Back(t)' = Back(t)
      BY <1>6, <3>3 DEF Back
    <3>5. Whole(t)'
      BY <1>1, <3>1, <3>2, <3>3, <3>4, NoneAssumption DEF Whole
    <3> QED
      BY <3>3, <3>5 DEF Midway
  <2> QED
    BY <2>1, <2>2
<1>8. pc'[p] # "seam.restore"
  BY <1>1
<1> QED
  BY <1>1, <1>2, <1>3, <1>5, <1>7, <1>8, HolderStep
LEMMA RmQuiet ==
  ASSUME QuietBase, QuietBase', Quiet, "delete" \notin Faults,
         NEW p \in Procs, RmFence(p) \/ RmGit(p) \/ RmDelete(p) \/ RmForget(p)
  PROVE  Quiet'
<1> USE DEF QuietBase, TypeInv, TypeOK, DiskOK, ProcsOK
<1>1. pc[p] \in Removing /\ Step(p)
  BY DEF RmFence, RmGit, RmDelete, RmForget, Removing, Step
<1>0. cmd[p].task \in Tasks
  BY <1>1 DEF InHand, Removing
<1> PICK t \in Tasks : t = cmd[p].task
  BY <1>0
<1>2. pc[p] \in InContainer /\ tLock[t] = p /\ rec[t] # None
  BY <1>1 DEF InContainer, OwnInv, Exclusion, Hold, InTask, Removing
<1>3. pc[p] # "seam.restore"
  BY <1>1 DEF Removing
<1>4. CASE pc'[p] = "idle"
  <2>1. UNCHANGED <<rec, tree, git, pin, links>> /\ pc[p] \notin Busy
    BY <1>1, <1>4 DEF RmFence, RmGit, RmDelete, RmForget, Goto, Busy
  <2> QED
    BY <1>1, <1>3, <1>4, <2>1, NothingChanges DEF Busy
<1>5. CASE pc'[p] # "idle"
  <2>1. /\ cmd' = cmd /\ pc'[p] \in {"rm.git", "rm.delete", "rm.forget", "refresh.load"}
    BY <1>5 DEF RmFence, RmGit, RmDelete, RmForget, Goto, Exit
  <2>4. \A u \in Tasks \ {t} :
          rec'[u] = rec[u] /\ tree'[u] = tree[u] /\ git'[u] = git[u] /\ pin'[u] = pin[u]
          /\ links'[u] = links[u]
    BY DEF RmFence, RmGit, RmDelete, RmForget, disk
  <2>5. /\ pc'[p] \notin Busy => Whole(t)'
        /\ Midway(p, t)'
    <3>1. CASE RmFence(p)
      <4>1. Whole(t)
        BY <1>2, <3>1, HolderAlone DEF Quiet, RmFence, Busy
      <4>2. git[t] = rec[t].repos /\ pin[t] = rec[t].repos
        BY <1>2, <4>1 DEF Whole
      <4>3. /\ pc'[p] = "rm.git" /\ tree'[t] = "none" /\ links'[t] = {}
            /\ git' = git /\ pin' = pin /\ rec' = rec
        BY <1>5, <3>1 DEF RmFence, Goto, Exit
      <4> QED
        BY <4>2, <4>3 DEF Midway, Busy
    <3>2. CASE RmGit(p)
      <4>1. /\ tree[t] = "none" /\ git[t] = rec[t].repos /\ pin[t] = rec[t].repos
            /\ mem[p].snap = rec[t]
        <5>1. Midway(p, t) /\ pc[p] = "rm.git"
          BY <1>2, <3>2 DEF RmGit, Quiet
        <5>2. mem[p].snap = rec[t]
          BY <1>2, <5>1 DEF Frank
        <5> QED
          BY <5>1, <5>2, Zenon DEF Midway
      <4>2. /\ pc'[p] = "rm.delete" /\ git'[t] = git[t] \ mem[p].snap.repos
            /\ pin'[t] = pin[t] \ mem[p].snap.repos /\ tree' = tree /\ links' = links
        BY <3>2, <4>1 DEF RmGit, Goto
      <4>3. git'[t] = {} /\ pin'[t] = {}
        BY <4>1, <4>2
      <4> QED
        BY <4>1, <4>2, <4>3 DEF Midway, Busy
    <3>3. CASE RmDelete(p)
      <4>1. tree[t] = "none" /\ git[t] = {} /\ pin[t] = {}
        BY <1>2, <3>3 DEF RmDelete, Quiet, Midway
      <4>2. pc'[p] = "rm.forget" /\ tree' = tree /\ git' = git /\ pin' = pin /\ links' = links
        BY <3>3 DEF RmDelete, Goto
      <4> QED
        BY <4>1, <4>2 DEF Midway, Busy
    <3>4. CASE RmForget(p)
      <4>1. tree[t] = "none" /\ git[t] = {} /\ pin[t] = {}
        BY <1>2, <3>4 DEF RmForget, Quiet, Midway
      <4>2. /\ pc'[p] = "refresh.load" /\ rec'[t] = None
            /\ tree' = tree /\ git' = git /\ pin' = pin /\ links' = links
        BY <3>4 DEF RmForget, Goto, disk
      <4> QED
        BY <4>1, <4>2 DEF Midway, Whole
    <3> QED
      BY <3>1, <3>2, <3>3, <3>4
  <2>6. pc'[p] # "seam.restore"
    BY <2>1
  <2> QED
    BY <1>1, <1>2, <2>1, <2>4, <2>5, <2>6, HolderStep
<1> QED
  BY <1>4, <1>5

\* In a tree that is there links stand in slots only.
LEMMA Slotted ==
  ASSUME QuietBase, Quiet, NEW t \in Tasks
  PROVE  tree[t] = "none" \/ git[t] = {} \/ Back(t) \cap git[t] = {}
<1>1. CASE Idle(t)
  <2>1. Whole(t)
    BY <1>1 DEF Quiet
  <2> QED
    BY <2>1 DEF Whole
<1>2. CASE ~Idle(t)
  <2>1. PICK q \in Procs : pc[q] \in Busy /\ cmd[q].task = t
    BY <1>2 DEF Idle
  <2>2. Midway(q, t)
    BY <2>1 DEF Quiet
  <2> QED
    BY <2>1, <2>2 DEF Midway, Built, Busy
<1> QED
  BY <1>1, <1>2

\* What a post-create takes away it puts back.
LEMMA SeamQuiet ==
  ASSUME QuietBase, QuietBase', Quiet, HasScript = FALSE,
         NEW p \in Procs, SeamWithdraw(p) \/ SeamRestore(p)
  PROVE  Quiet'
<1> USE DEF QuietBase, TypeInv, TypeOK, DiskOK, ProcsOK
<1>1. /\ pc[p] \in {"seam.withdraw", "seam.restore"} /\ Step(p)
      /\ pc'[p] \in {"seam.restore", "idle"} /\ UNCHANGED <<rec, tree, git, pin>>
  BY DEF SeamWithdraw, SeamRestore, Goto, Exit, Step
<1>0. cmd[p].task \in Tasks
  BY <1>1 DEF InHand
<1> PICK t \in Tasks : t = cmd[p].task
  BY <1>0
<1>2. tLock[t] = p
  BY <1>1 DEF OwnInv, Exclusion, InTask
<1>3. \A q \in Procs \ {p} : pc'[q] = pc[q] /\ cmd'[q] = cmd[q] /\ mem'[q] = mem[q]
  BY <1>1, StepsAreMine DEF Mine
<1>4. \A q \in Procs \ {p} : pc[q] = "seam.restore" => cmd[q].task # t
  BY <1>2 DEF OwnInv, Exclusion, InTask
<1>5. pc'[p] = "seam.restore" => cmd'[p].task = t
  BY <1>1 DEF SeamWithdraw, SeamRestore, Goto, Exit
<1>6. ASSUME NEW u \in Tasks \ {t} PROVE Back(u)' = Back(u)
  <2>1. links'[u] = links[u]
    BY DEF SeamWithdraw, SeamRestore
  <2>2. Pending(u)' = Pending(u)
    <3>1. \A q \in Procs, r \in Repos :
            (pc'[q] = "seam.restore" /\ cmd'[q].task = u /\ r \in mem'[q].taken)
              <=> (pc[q] = "seam.restore" /\ cmd[q].task = u /\ r \in mem[q].taken)
      <4> SUFFICES ASSUME NEW q \in Procs
                   PROVE  \A r \in Repos :
            (pc'[q] = "seam.restore" /\ cmd'[q].task = u /\ r \in mem'[q].taken)
              <=> (pc[q] = "seam.restore" /\ cmd[q].task = u /\ r \in mem[q].taken)
        OBVIOUS
      <4>1. CASE q = p
        BY <1>5, <4>1
      <4>2. CASE q # p
        BY <1>3, <4>2
      <4> QED
        BY <4>1, <4>2
    <3>2. git'[u] = git[u]
      BY <1>1
    <3> QED
      BY <3>1, <3>2 DEF Pending
  <2> QED
    BY <2>1, <2>2 DEF Back
<1>7. links[t] \subseteq Repos /\ (tree[t] = "none" \/ links[t] \cap git[t] = {})
  BY Slotted DEF Back
<1>8. Back(t)' = Back(t) \/ tree[t] = "none"
  <2>1. CASE SeamWithdraw(p) /\ pc'[p] = "idle"
    <3>1. links' = links
      BY <2>1 DEF SeamWithdraw, Goto
    <3>2. Pending(t) = {} /\ Pending(t)' = {}
      BY <1>1, <1>3, <1>4, <2>1 DEF Pending, SeamWithdraw
    <3> QED
      BY <3>1, <3>2 DEF Back
  <2> SUFFICES ASSUME tree[t] # "none"
               PROVE  Back(t)' = Back(t)
    OBVIOUS
  <2>4. tree[t] # "none"
    OBVIOUS
  <2>2. CASE SeamWithdraw(p) /\ pc'[p] = "seam.restore"
    <3>1. /\ links'[t] = links[t] \ Slots(p) /\ mem'[p].taken = links[t] \cap Slots(p)
      BY <2>2 DEF SeamWithdraw, Goto, Exit, Blank
    <3>2. Pending(t) = {}
      BY <1>4, <2>2 DEF Pending, SeamWithdraw
    <3>3. Pending(t)' = links[t] \cap Slots(p)
      <4>1. \A q \in Procs : pc'[q] = "seam.restore" /\ cmd'[q].task = t <=> q = p
        BY <1>3, <1>4, <1>5, <2>2
      <4>2. Pending(t)' = {r \in Repos \ git'[t] : r \in mem'[p].taken}
        BY <4>1 DEF Pending
      <4> QED
        BY <1>1, <1>7, <2>4, <3>1, <4>2
    <3> QED
      BY <3>1, <3>2, <3>3 DEF Back
  <2>3. CASE SeamRestore(p)
    <3>1. pc[p] = "seam.restore" /\ pc'[p] = "idle"
      BY <2>3 DEF SeamRestore, Exit, Goto
    <3>2. Pending(t)' = {}
      BY <1>3, <1>4, <3>1 DEF Pending
    <3>3. Pending(t) = mem[p].taken \ git[t]
      <4>1. \A q \in Procs : pc[q] = "seam.restore" /\ cmd[q].task = t <=> q = p
        BY <1>4, <3>1
      <4>2. Pending(t) = {r \in Repos \ git[t] : r \in mem[p].taken}
        BY <4>1 DEF Pending
      <4>3. mem[p].taken \subseteq Repos
        BY MemoryFields
      <4> QED
        BY <4>2, <4>3
    <3>4. links'[t] = IF tree[t] = "none" THEN links[t] ELSE links[t] \cup Pending(t)
      BY <2>3, <3>3 DEF SeamRestore
    <3> QED
      BY <2>4, <3>2, <3>4 DEF Back
  <2> QED
    BY <1>1, <2>1, <2>2, <2>3
<1> SUFFICES ASSUME NEW u \in Tasks
             PROVE  /\ Idle(u)' => Whole(u)'
                    /\ \A q \in Procs : cmd'[q].task = u => Midway(q, u)'
  BY DEF Quiet
<1>9. (Back(u)' = Back(u) \/ tree[u] = "none") /\ pc[p] \notin Busy /\ pc'[p] \notin Busy
  BY <1>1, <1>6, <1>8 DEF Busy
<1> QED
  BY <1>1, <1>9, Resting


\* The undo of a failing creation leaves nothing, that of a failing graft what
\* was there before.
LEMMA FailQuiet ==
  ASSUME QuietBase, QuietBase', Quiet, NEW p \in Procs, NewFail(p) \/ AddFail(p)
  PROVE  Quiet'
<1> USE DEF QuietBase, TypeInv, TypeOK, DiskOK, ProcsOK
<1>1. /\ pc[p] \in Busy /\ Step(p) /\ pc[p] \in {"new.worktrees", "new.perimeter", "new.save", "add.save"}
      /\ pc'[p] = "idle" /\ rec' = rec
  BY DEF NewFail, AddFail, Goto, Exit, Step, Busy
<1>0. cmd[p].task \in Tasks
  BY <1>1 DEF InHand
<1> PICK t \in Tasks : t = cmd[p].task
  BY <1>0
<1>2. pc[p] \in InContainer /\ Midway(p, t)
  BY <1>1 DEF InContainer, Quiet
<1>3. \A u \in Tasks \ {t} :
        rec'[u] = rec[u] /\ tree'[u] = tree[u] /\ git'[u] = git[u] /\ pin'[u] = pin[u]
        /\ links'[u] = links[u]
  BY <1>1 DEF NewFail, AddFail
<1>4. pc'[p] \notin Busy /\ pc'[p] # "seam.restore"
  BY <1>1 DEF Busy
<1>5. Midway(p, t)'
  BY <1>1 DEF Midway
<1>6. Whole(t)'
  <2>1. CASE NewFail(p)
    <3>1. rec[t] = None
      BY <2>1 DEF NewFail, OwnInv, Hold, Building
    <3>2. git[t] \subseteq cmd[p].repos /\ pin[t] = cmd[p].repos
      BY <1>2, <2>1 DEF NewFail, Midway, Built
    <3>3. tree'[t] = "none" /\ git'[t] = git[t] \ cmd[p].repos /\ pin'[t] = pin[t] \ cmd[p].repos
      BY <2>1 DEF NewFail
    <3>4. git'[t] = {} /\ pin'[t] = {}
      BY <3>2, <3>3
    <3> QED
      BY <1>1, <3>1, <3>3, <3>4 DEF Whole
  <2>2. CASE AddFail(p)
    <3> PICK r \in Repos : r = mem[p].cur
      BY <2>2 DEF AddFail, InHand
    <3>1. pc[p] = "add.save" /\ r \notin rec[t].repos /\ rec[t] \in Record
      BY <2>2 DEF AddFail, Frank, InHand, WithSnap
    <3>2. tree[t] = "full" /\ git[t] = rec[t].repos \cup {r} /\ pin[t] = git[t]
          /\ Back(t) = Repos \ git[t]
      BY <1>2, <3>1, Zenon DEF Midway
    <3>3. /\ tree' = tree /\ git'[t] = git[t] \ {r} /\ pin'[t] = pin[t] \ {r}
          /\ links'[t] = links[t] \cup {r}
      BY <2>2 DEF AddFail
    <3>4. git'[t] = rec[t].repos /\ pin'[t] = rec[t].repos
      BY <3>1, <3>2, <3>3
    <3>5. Pending(t) \subseteq Pending(t)' /\ Pending(t)' \subseteq Repos \ git'[t]
      <4>1. \A q \in Procs \ {p} : pc'[q] = pc[q] /\ cmd'[q] = cmd[q] /\ mem'[q] = mem[q]
        BY <1>1, StepsAreMine DEF Mine
      <4> QED
        BY <3>1, <3>3, <4>1 DEF Pending
    <3>6. Back(t)' = Repos \ rec[t].repos
      BY <3>2, <3>3, <3>4, <3>5 DEF Back
    <3> QED
      BY <1>1, <3>1, <3>2, <3>3, <3>4, <3>6, NoneAssumption DEF Whole
  <2> QED
    BY <2>1, <2>2
<1> QED
  BY <1>1, <1>2, <1>3, <1>4, <1>5, <1>6, HolderStep

LEMMA QuietStep ==
  ASSUME Verbs \subseteq LockedVerbs, HasScript = FALSE, Faults \subseteq {"build"},
         QuietBase, QuietBase', Quiet, [Next]_vars
  PROVE  Quiet'
<1>1. CASE UNCHANGED vars
  <2>1. /\ pc' = pc /\ cmd' = cmd /\ mem' = mem /\ rec' = rec /\ tree' = tree
        /\ git' = git /\ pin' = pin /\ links' = links
    BY <1>1 DEF vars
  <2>2. \A t \in Tasks : Back(t)' = Back(t)
    BY <2>1 DEF Back, Pending
  <2>3. \A t \in Tasks : Idle(t)' = Idle(t)
    BY <2>1 DEF Idle
  <2>4. \A t \in Tasks : Whole(t) => Whole(t)'
    BY <2>1, <2>2 DEF Whole
  <2>5. ASSUME NEW q \in Procs, NEW t \in Tasks, Midway(q, t) PROVE Midway(q, t)'
    BY <2>1, <2>2, <2>5 DEF Midway, Built
  <2>6. \A t \in Tasks : Idle(t)' => Whole(t)'
    BY <2>3, <2>4 DEF Quiet
  <2>7. \A q \in Procs, t \in Tasks : cmd'[q].task = t => Midway(q, t)'
    BY <2>1, <2>5 DEF Quiet
  <2> QED
    BY <2>6, <2>7 DEF Quiet
<1> SUFFICES ASSUME NEW p \in Procs, Start(p) \/ Step(p) \/ Crash(p)
             PROVE  Quiet'
  BY <1>1 DEF Next
<1> USE DEF QuietBase, TypeInv, TypeOK, ProcsOK
<1>2. ~Crash(p)
  BY DEF Crash
<1>3. ~(\/ SeamScript(p) \/ SeamLoad(p) \/ SeamSave(p) \/ StartLoad(p) \/ StartWrite(p)
        \/ StartSave(p) \/ RepairLoad(p) \/ RepairLinks(p) \/ DoctorList(p) \/ DoctorSweep(p))
  BY DEF SeamScript, SeamLoad, SeamSave, StartLoad, StartWrite, StartSave, RepairLoad,
     RepairLinks, DoctorList, DoctorSweep, Frank, OwnInv, Exclusion, InContainer, InTask, Outside
<1>4. ASSUME UNCHANGED <<rec, disk>>,
             pc[p] \notin Busy \cup {"seam.restore"}, pc'[p] \notin Busy \cup {"seam.restore"}
      PROVE  Quiet'
  BY <1>4, NothingChanges DEF disk
<1>5. CASE Start(p)
  <2>1. PICK v \in Verbs : pc' = [pc EXCEPT ![p] = Entry[v]]
    BY <1>5 DEF Start, Goto
  <2>2. Entry[v] \in {"new.lock", "add.lock", "post.load", "rm.lock", "rm.load",
                     "start.load", "repair.load", "doctor.list"}
    BY VerbsAssumption DEF Entry, AllVerbs
  <2>3. pc[p] = "idle" /\ UNCHANGED <<rec, disk>>
    BY <1>5 DEF Start
  <2> QED
    BY <1>4, <2>1, <2>2, <2>3 DEF Busy
<1>6. CASE LockContainer(p) \/ LockTask(p) \/ GiveUp(p)
  <2>1. /\ pc[p] \in {"new.lock", "add.lock", "rm.lock", "seam.lock", "post.lock", "rm.task"}
        /\ pc'[p] \in {"new.check", "add.load", "rm.task", "rm.load", "add.reload",
                       "seam.withdraw", "idle"}
        /\ UNCHANGED <<rec, disk>>
    BY <1>6 DEF LockContainer, LockTask, GiveUp, AfterContainer, Goto, Exit
  <2> QED
    BY <1>4, <2>1 DEF Busy
<1>7. CASE NewCheck(p) \/ RefreshDone(p) \/ AddLoad(p) \/ AddSeam(p)
  <2>1. /\ pc[p] \in {"new.check", "refresh.load", "add.load", "add.seam"}
        /\ pc'[p] \in {"new.pin", "seam.lock", "add.graft", "idle"}
        /\ UNCHANGED <<rec, disk>>
    BY <1>7 DEF NewCheck, RefreshDone, AddLoad, AddSeam, Goto, Exit
  <2> QED
    BY <1>4, <2>1 DEF Busy
<1>8. CASE AddReload(p) \/ PostLoad(p) \/ SeamSkip(p)
  <2>1. /\ pc[p] \in {"add.reload", "post.load", "seam.withdraw"}
        /\ pc'[p] \in {"seam.withdraw", "post.lock", "idle"}
        /\ UNCHANGED <<rec, disk>>
    BY <1>8 DEF AddReload, PostLoad, SeamSkip, Goto, Exit
  <2> QED
    BY <1>4, <2>1 DEF Busy
<1>9. CASE RmLoad(p)
  <2>1. pc[p] = "rm.load" /\ cmd[p].task \in Tasks /\ UNCHANGED <<rec, disk>>
    BY <1>9 DEF RmLoad, InHand
  <2>2. Whole(cmd[p].task)
    BY <2>1, HolderAlone DEF InContainer, Quiet, Busy
  <2>3. pc'[p] \in {"idle", "rm.fence"}
    BY <1>9, <2>2 DEF RmLoad, Whole, Goto, Exit
  <2> QED
    BY <1>4, <2>1, <2>3 DEF Busy
<1> QED
  BY <1>2, <1>3, <1>5, <1>6, <1>7, <1>8, <1>9,
     NewQuiet, RefreshQuiet, AddQuiet, FailQuiet, SeamQuiet, RmQuiet DEF Step

LEMMA RestInvariant ==
  ASSUME Verbs \subseteq LockedVerbs, HasScript = FALSE, Faults \subseteq {"build"}
  PROVE  Spec => [](QuietBase /\ Quiet)
<1>1. Init => Quiet
  BY DEF Init, Quiet, Idle, Whole, Midway, Back, Pending
<1>2. Spec => []QuietBase
  BY QuietInvariant
<1>3. QuietBase /\ QuietBase' /\ Quiet /\ [Next]_vars => Quiet'
  BY QuietStep
<1> QED
  BY <1>1, <1>2, <1>3, PTL DEF Spec

\* Whenever no command holds the container lock, the records, the trees, the
\* stores and the pins agree task by task, and so do the links of every tree
\* no post-create is at work in: with new, add, post-create and rm running
\* side by side, whatever step of a creation or a graft fails, as long as no
\* delete fails, no process dies and there is no script.
THEOREM RestingTasksAreWhole ==
  ASSUME Verbs \subseteq LockedVerbs, HasScript = FALSE, Faults \subseteq {"build"}
  PROVE  Spec => []RecordMatchesDisk
<1>1. QuietBase /\ Quiet => RecordMatchesDisk
  <2> SUFFICES ASSUME QuietBase, Quiet, cLock = None, NEW t \in Tasks
               PROVE  IF rec[t] = None
                        THEN tree[t] = "none" /\ git[t] = {} /\ pin[t] = {}
                        ELSE /\ tree[t] = "full" /\ git[t] = rec[t].repos
                             /\ pin[t] = rec[t].repos
                             /\ tLock[t] = None => links[t] = Repos \ rec[t].repos
    BY DEF RecordMatchesDisk
  <2>1. \A p \in Procs : pc[p] \notin Busy
    BY NoneAssumption DEF QuietBase, OwnInv, Exclusion, InContainer, Busy
  <2>2. Whole(t)
    BY <2>1 DEF Quiet, Idle
  <2>3. tLock[t] = None => Pending(t) = {}
    BY NoneAssumption DEF QuietBase, OwnInv, Exclusion, InTask, Pending
  <2> QED
    BY <2>2, <2>3 DEF Whole, Back
<1> QED
  BY <1>1, RestInvariant, PTL
-----------------------------------------------------------------------------
(* What the trees are told of each other.                                  *)

Current(t) == rec[t].names = Recorded \ {t} /\ perim[t] = Recorded \ {t}

\* What PerimeterCurrent says of a task.
Fine(t) == Current(t) \/ t \in missed

\* A refresh has t still before it, or has written its settings and not its
\* record.
Behind(p, t) ==
  \/ pc[p] \in {"refresh.load", "refresh.save"} /\ t \in mem[p].todo
  \/ pc[p] = "refresh.save" /\ mem[p].cur = t

Telling == {"new.save", "add.save", "refresh.load", "refresh.save"}

Heard(p) ==
  /\ pc[p] \in {"refresh.load", "refresh.save"} => mem[p].names = Recorded
  /\ pc[p] = "refresh.save" => perim[mem[p].cur] = Recorded \ {mem[p].cur}
  /\ pc[p] = "new.save" =>
       /\ mem[p].snap.names = Recorded \ {cmd[p].task}
       /\ perim[cmd[p].task] = Recorded \ {cmd[p].task}
  /\ pc[p] = "add.save" =>
       /\ mem[p].names = Recorded \ {cmd[p].task}
       /\ perim[cmd[p].task] = Recorded \ {cmd[p].task}

Told ==
  /\ \A p \in Procs : Heard(p)
  /\ \A t \in Tasks : rec[t] # None => Fine(t) \/ \E p \in Procs : Behind(p, t)

\* The holder of the container lock is the only one that tells.
LEMMA ToldByHolder ==
  ASSUME QuietBase, Told, NEW p \in Procs, pc[p] \in InContainer
  PROVE  \A t \in Tasks : rec[t] # None => Fine(t) \/ Behind(p, t)
<1>1. \A q \in Procs \ {p} : pc[q] \notin InContainer
  BY DEF QuietBase, OwnInv, Exclusion
<1> QED
  BY <1>1 DEF Told, Behind, InContainer

LEMMA HolderTells ==
  ASSUME QuietBase, NEW p \in Procs, Start(p) \/ Step(p) \/ Crash(p), pc[p] \in InContainer,
         Heard(p)', \A t \in Tasks : rec'[t] # None => Fine(t)' \/ Behind(p, t)'
  PROVE  Told'
<1>1. \A q \in Procs \ {p} : pc'[q] = pc[q]
  BY StepsAreMine DEF QuietBase, Mine
<1>2. \A q \in Procs \ {p} : pc[q] \notin InContainer
  BY DEF QuietBase, OwnInv, Exclusion
<1>3. \A q \in Procs \ {p} : Heard(q)'
  BY <1>1, <1>2 DEF Heard, InContainer
<1>4. \A q \in Procs : Heard(q)'
  BY <1>3
<1> QED
  BY <1>4 DEF Told

\* A step that leaves records and settings alone, and ends no refresh early
\* without the tasks it still had to tell being known for it.
LEMMA ToldRests ==
  ASSUME QuietBase, Told, NEW p \in Procs, Start(p) \/ Step(p) \/ Crash(p),
         UNCHANGED <<rec, perim>>, missed \subseteq missed', pc'[p] \notin Telling,
         \A t \in Tasks : Behind(p, t) => t \in missed'
  PROVE  Told'
<1>1. \A q \in Procs \ {p} : pc'[q] = pc[q] /\ cmd'[q] = cmd[q] /\ mem'[q] = mem[q]
  BY StepsAreMine DEF QuietBase, Mine
<1>2. Recorded' = Recorded
  BY DEF Recorded
<1>3. ASSUME NEW q \in Procs PROVE Heard(q)'
  <2>1. CASE q = p
    BY <2>1 DEF Heard, Telling
  <2>2. CASE q # p
    <3>1. Heard(q)
      BY DEF Told
    <3> QED
      BY <1>1, <1>2, <2>2, <3>1 DEF Heard
  <2> QED
    BY <2>1, <2>2
<1>4. ASSUME NEW t \in Tasks, rec'[t] # None
      PROVE  Fine(t)' \/ \E q \in Procs : Behind(q, t)'
  <2>1. CASE Fine(t)
    BY <1>2, <2>1 DEF Fine, Current
  <2>2. CASE \E q \in Procs : Behind(q, t)
    <3>1. PICK q \in Procs : Behind(q, t)
      BY <2>2
    <3>2. CASE q # p
      BY <1>1, <3>1, <3>2 DEF Behind
    <3>3. CASE q = p
      BY <3>1, <3>3 DEF Fine
    <3> QED
      BY <3>2, <3>3
  <2> QED
    BY <1>4, <2>1, <2>2 DEF Told
<1> QED
  BY <1>3, <1>4 DEF Told

LEMMA NewTells ==
  ASSUME QuietBase, Told, NEW p \in Procs, NewPerimeter(p) \/ NewSave(p)
  PROVE  Told'
<1> USE DEF QuietBase, TypeInv, TypeOK, DiskOK, ProcsOK
<1>1. pc[p] \in {"new.perimeter", "new.save"} /\ Step(p) /\ cmd' = cmd
  BY DEF NewPerimeter, NewSave, Step
<1>0. cmd[p].task \in Tasks
  BY <1>1 DEF InHand
<1> PICK t \in Tasks : t = cmd[p].task
  BY <1>0
<1>2. pc[p] \in InContainer /\ rec[t] = None
  BY <1>1 DEF InContainer, OwnInv, Hold, Building
<1>3. \A u \in Tasks : rec[u] # None => Fine(u)
  BY <1>1, <1>2, ToldByHolder DEF Behind
<1>4. CASE NewPerimeter(p)
  <2>1. /\ rec' = rec /\ Recorded' = Recorded /\ pc'[p] = "new.save"
        /\ perim' = [perim EXCEPT ![t] = Recorded \ {t}] /\ missed' = missed
        /\ mem'[p].snap.names = Recorded \ {t}
    BY <1>4 DEF NewPerimeter, WritePerimeter, Goto, Recorded, Memory
  <2>2. perim'[t] = Recorded \ {t} /\ \A u \in Tasks \ {t} : perim'[u] = perim[u]
    BY <2>1
  <2>3. \A u \in Tasks : rec'[u] # None => Fine(u)'
    BY <1>2, <1>3, <2>1, <2>2 DEF Fine, Current
  <2>4. Heard(p)'
    BY <1>1, <2>1, <2>2 DEF Heard
  <2> QED
    BY <1>1, <1>2, <2>3, <2>4, HolderTells
<1>5. CASE NewSave(p)
  <2>1. /\ mem[p].snap \in Record /\ mem[p].snap.names = Recorded \ {t}
        /\ perim[t] = Recorded \ {t}
    BY <1>5 DEF NewSave, InHand, WithSnap, Told, Heard
  <2>2. /\ rec'[t] = mem[p].snap /\ \A u \in Tasks \ {t} : rec'[u] = rec[u]
        /\ perim' = perim /\ pc'[p] = "refresh.load"
        /\ mem'[p].todo = Recorded \ {t} /\ mem'[p].names = Recorded \cup {t}
    BY <1>5 DEF NewSave, Goto, disk, Memory
  <2>3. Recorded' = Recorded \cup {t}
    BY <2>1, <2>2, NoneAssumption DEF Recorded
  <2>4. Current(t)'
    BY <2>1, <2>2, <2>3 DEF Current
  <2>5. \A u \in Tasks : rec'[u] # None => Fine(u)' \/ Behind(p, u)'
    BY <2>2, <2>4 DEF Fine, Behind, Recorded
  <2>6. Heard(p)'
    BY <2>2, <2>3 DEF Heard
  <2> QED
    BY <1>1, <1>2, <2>5, <2>6, HolderTells
<1> QED
  BY <1>4, <1>5

LEMMA RefreshTells ==
  ASSUME QuietBase, Told, NEW p \in Procs, RefreshLoad(p) \/ RefreshFails(p) \/ RefreshSave(p)
  PROVE  Told'
<1> USE DEF QuietBase, TypeInv, TypeOK, DiskOK, ProcsOK
<1>1. pc[p] \in {"refresh.load", "refresh.save"} /\ Step(p) /\ cmd' = cmd
  BY DEF RefreshLoad, RefreshFails, RefreshSave, Step
<1>2. pc[p] \in InContainer
  BY <1>1 DEF InContainer
<1>3. \A u \in Tasks : rec[u] # None => Fine(u) \/ Behind(p, u)
  BY <1>2, ToldByHolder
<1>4. mem[p].names = Recorded
  BY <1>1 DEF Told, Heard
<1>5. CASE RefreshLoad(p)
  <2>1. PICK n \in mem[p].todo :
          /\ mem' = [mem EXCEPT ![p].todo = @ \ {n},
                      ![p].cur = IF rec[n] = None THEN None ELSE n,
                      ![p].snap = rec[n]]
          /\ IF rec[n] = None
               THEN UNCHANGED <<pc, tree, perim>>
               ELSE WritePerimeter(n, mem[p].names) /\ Goto(p, "refresh.save")
    BY <1>5 DEF RefreshLoad
  <2>2. /\ n \in Tasks /\ rec' = rec /\ Recorded' = Recorded /\ pc[p] = "refresh.load"
        /\ missed' = missed /\ mem'[p].names = mem[p].names /\ mem'[p].todo = mem[p].todo \ {n}
        /\ rec[n] # None => mem'[p].cur = n
    <3>1. n \in Tasks
      BY <2>1, MemoryFields
    <3>2. rec' = rec /\ Recorded' = Recorded /\ pc[p] = "refresh.load" /\ missed' = missed
      BY <1>5 DEF RefreshLoad, Recorded
    <3>3. /\ mem'[p].names = mem[p].names /\ mem'[p].todo = mem[p].todo \ {n}
          /\ rec[n] # None => mem'[p].cur = n
      BY <2>1 DEF Memory
    <3> QED
      BY <3>1, <3>2, <3>3
  <2>3. CASE rec[n] = None
    <3>1. pc' = pc /\ perim' = perim
      BY <2>1, <2>3
    <3>2. Heard(p)'
      BY <1>4, <2>2, <3>1 DEF Heard
    <3>3. ASSUME NEW u \in Tasks, rec'[u] # None PROVE Fine(u)' \/ Behind(p, u)'
      <4>1. u # n /\ (Fine(u) \/ u \in mem[p].todo)
        BY <1>3, <2>2, <2>3, <3>3 DEF Behind
      <4> QED
        BY <2>2, <3>1, <4>1 DEF Fine, Current, Behind
    <3> QED
      BY <1>1, <1>2, <3>2, <3>3, HolderTells
  <2>4. CASE rec[n] # None
    <3>1. /\ pc'[p] = "refresh.save" /\ perim'[n] = Recorded \ {n}
          /\ \A u \in Tasks \ {n} : perim'[u] = perim[u]
      BY <1>4, <2>1, <2>2, <2>4 DEF WritePerimeter, Goto
    <3>2. Heard(p)'
      BY <1>4, <2>2, <2>4, <3>1 DEF Heard
    <3>3. ASSUME NEW u \in Tasks, rec'[u] # None PROVE Fine(u)' \/ Behind(p, u)'
      <4>1. CASE u = n
        BY <2>2, <2>4, <3>1, <4>1 DEF Behind
      <4>2. CASE u # n
        <5>1. Fine(u) \/ u \in mem[p].todo
          BY <1>3, <2>2, <3>3 DEF Behind
        <5> QED
          BY <2>2, <3>1, <4>2, <5>1 DEF Fine, Current, Behind
      <4> QED
        BY <4>1, <4>2
    <3> QED
      BY <1>1, <1>2, <3>2, <3>3, HolderTells
  <2> QED
    BY <2>3, <2>4
<1>6. CASE RefreshSave(p)
  <2>1. pc[p] = "refresh.save" /\ mem[p].snap \in Record /\ mem[p].cur \in Tasks
        /\ rec[mem[p].cur] # None
    BY <1>6 DEF RefreshSave, InHand, WithSnap, OwnInv, Hold
  <2> PICK n \in Tasks : n = mem[p].cur
    BY <2>1
  <2>2. perim[n] = Recorded \ {n}
    BY <2>1 DEF Told, Heard
  <2>3. mem[p].names \ {n} \in SUBSET Tasks
    BY MemoryFields
  <2>4. /\ [mem[p].snap EXCEPT !.names = mem[p].names \ {n}] \in Record
        /\ [mem[p].snap EXCEPT !.names = mem[p].names \ {n}].names = mem[p].names \ {n}
    BY <2>1, <2>3, RecordUpdates DEF Record
  <2>5. rec'[n] \in Record /\ rec'[n].names = Recorded \ {n} /\ \A u \in Tasks \ {n} : rec'[u] = rec[u]
    BY <1>4, <1>6, <2>4 DEF RefreshSave
  <2>6. Recorded' = Recorded
    BY <2>1, <2>5, NoneAssumption DEF Recorded
  <2>7. /\ perim' = perim /\ missed' = missed \ {n} /\ pc'[p] = "refresh.load" /\ mem'[p].todo = mem[p].todo
        /\ mem'[p].names = mem[p].names
    BY <1>6 DEF RefreshSave, Goto, disk, Memory
  <2>8. Heard(p)'
    BY <1>4, <2>6, <2>7 DEF Heard
  <2>9. ASSUME NEW u \in Tasks, rec'[u] # None PROVE Fine(u)' \/ Behind(p, u)'
    <3>1. CASE u = n
      BY <2>2, <2>5, <2>6, <2>7, <3>1 DEF Fine, Current
    <3>2. CASE u # n
      <4>1. Fine(u) \/ u \in mem[p].todo
        BY <1>3, <2>5, <2>9, <3>2 DEF Behind
      <4> QED
        BY <2>5, <2>6, <2>7, <3>2, <4>1 DEF Fine, Current, Behind
    <3> QED
      BY <3>1, <3>2
  <2> QED
    BY <1>1, <1>2, <2>8, <2>9, HolderTells
<1>7. CASE RefreshFails(p)
  <2>1. PICK n \in mem[p].todo :
          /\ mem' = [mem EXCEPT ![p].todo = @ \ {n}]
          /\ missed' = missed \cup {n}
          /\ UNCHANGED <<tree, perim>> \/ WritePerimeter(n, mem[p].names)
    BY <1>7 DEF RefreshFails
  <2>2. /\ rec' = rec /\ Recorded' = Recorded /\ pc' = pc /\ pc[p] = "refresh.load"
        /\ mem'[p].names = mem[p].names /\ mem'[p].todo = mem[p].todo \ {n}
    BY <1>7, <2>1 DEF RefreshFails, Recorded, Memory
  <2>3. \A u \in Tasks \ {n} : perim'[u] = perim[u]
    BY <2>1 DEF WritePerimeter
  <2>4. Heard(p)'
    BY <1>4, <2>2 DEF Heard
  <2>5. ASSUME NEW u \in Tasks, rec'[u] # None PROVE Fine(u)' \/ Behind(p, u)'
    <3>1. CASE u = n
      BY <2>1, <3>1 DEF Fine
    <3>2. CASE u # n
      <4>1. Fine(u) \/ u \in mem[p].todo
        BY <1>3, <2>2, <2>5 DEF Behind
      <4> QED
        BY <2>1, <2>2, <2>3, <3>2, <4>1 DEF Fine, Current, Behind
    <3> QED
      BY <3>1, <3>2
  <2> QED
    BY <1>1, <1>2, <2>4, <2>5, HolderTells
<1> QED
  BY <1>5, <1>6, <1>7

LEMMA AddTells ==
  ASSUME QuietBase, Told, NEW p \in Procs, AddGraft(p) \/ AddSave(p)
  PROVE  Told'
<1> USE DEF QuietBase, TypeInv, TypeOK, DiskOK, ProcsOK
<1>1. pc[p] \in {"add.graft", "add.save"} /\ Step(p) /\ cmd'[p].task = cmd[p].task
  BY DEF AddGraft, AddSave, Step, Command
<1>0. cmd[p].task \in Tasks
  BY <1>1 DEF InHand
<1> PICK t \in Tasks : t = cmd[p].task
  BY <1>0
<1>2. pc[p] \in InContainer /\ rec[t] # None
  BY <1>1 DEF InContainer, OwnInv, Hold
<1>3. \A u \in Tasks : rec[u] # None => Fine(u)
  BY <1>1, <1>2, ToldByHolder DEF Behind
<1>4. CASE AddGraft(p)
  <2>1. /\ rec' = rec /\ Recorded' = Recorded /\ pc'[p] = "add.save"
        /\ perim' = [perim EXCEPT ![t] = Recorded \ {t}] /\ missed' = missed
        /\ mem'[p].names = Recorded \ {t}
    BY <1>4 DEF AddGraft, WritePerimeter, Goto, Recorded, Memory
  <2>2. perim'[t] = Recorded \ {t} /\ \A u \in Tasks \ {t} : perim'[u] = perim[u]
    BY <2>1
  <2>3. \A u \in Tasks : rec'[u] # None => Fine(u)'
    BY <1>3, <2>1, <2>2 DEF Fine, Current
  <2>4. Heard(p)'
    BY <1>1, <2>1, <2>2 DEF Heard
  <2> QED
    BY <1>1, <1>2, <2>3, <2>4, HolderTells
<1>5. CASE AddSave(p)
  <2>1. /\ mem[p].snap \in Record /\ mem[p].names = Recorded \ {t} /\ mem[p].cur \in Repos
    BY <1>5 DEF AddSave, InHand, WithSnap, Told, Heard
  <2>2. LET new == [mem[p].snap EXCEPT !.repos = @ \cup {mem[p].cur}, !.names = mem[p].names]
        IN  new \in Record /\ new.names = Recorded \ {t}
    <3>1. Recorded \ {t} \in SUBSET Tasks
      BY DEF Recorded
    <3>2. [mem[p].snap EXCEPT !.repos = @ \cup {mem[p].cur}, !.names = mem[p].names] \in Record
      BY <2>1, <3>1, RecordUpdates
    <3>3. [mem[p].snap EXCEPT !.repos = @ \cup {mem[p].cur}, !.names = mem[p].names].names
            = mem[p].names
      BY <2>1 DEF Record
    <3> QED
      BY <2>1, <3>2, <3>3
  <2>3. /\ rec'[t] \in Record /\ rec'[t].names = Recorded \ {t}
        /\ \A u \in Tasks \ {t} : rec'[u] = rec[u]
    BY <1>5, <2>2 DEF AddSave
  <2>4. Recorded' = Recorded
    BY <1>2, <2>3, NoneAssumption DEF Recorded
  <2>5. perim' = perim /\ missed' = missed \ {t} /\ pc'[p] \in {"add.seam", "add.load"}
    BY <1>5 DEF AddSave, disk, Goto
  <2>8. perim[t] = Recorded \ {t}
    BY <1>5 DEF AddSave, Told, Heard
  <2>9. Current(t)'
    BY <2>3, <2>4, <2>5, <2>8 DEF Current
  <2>6. \A u \in Tasks : rec'[u] # None => Fine(u)'
    BY <1>3, <2>3, <2>4, <2>5, <2>9 DEF Fine, Current
  <2>7. Heard(p)'
    BY <2>5 DEF Heard
  <2> QED
    BY <1>1, <1>2, <2>6, <2>7, HolderTells
<1> QED
  BY <1>4, <1>5

LEMMA ForgetTells ==
  ASSUME QuietBase, Told, NEW p \in Procs, RmForget(p)
  PROVE  Told'
<1> USE DEF QuietBase, TypeInv, TypeOK, DiskOK, ProcsOK
<1>1. pc[p] \in InContainer /\ Step(p) /\ cmd[p].task \in Tasks
  BY DEF RmForget, InContainer, Step, InHand
<1> PICK t \in Tasks : t = cmd[p].task
  BY <1>1
<1>2. /\ rec'[t] = None /\ \A u \in Tasks \ {t} : rec'[u] = rec[u]
      /\ pc'[p] = "refresh.load" /\ mem'[p].todo = Recorded \ {t}
      /\ mem'[p].names = Recorded \ {t}
  BY DEF RmForget, Goto, Memory
<1>3. Recorded' = Recorded \ {t}
  BY <1>2 DEF Recorded
<1>4. \A u \in Tasks : rec'[u] # None => Behind(p, u)'
  BY <1>2, <1>3 DEF Behind, Recorded
<1>5. Heard(p)'
  BY <1>2, <1>3 DEF Heard
<1> QED
  BY <1>1, <1>4, <1>5, HolderTells

LEMMA ToldStep ==
  ASSUME Verbs \subseteq LockedVerbs, HasScript = FALSE,
         QuietBase, Told, [Next]_vars
  PROVE  Told'
<1>1. CASE UNCHANGED vars
  <2>1. /\ pc' = pc /\ cmd' = cmd /\ mem' = mem /\ rec' = rec /\ perim' = perim
        /\ Recorded' = Recorded /\ missed' = missed
    BY <1>1 DEF vars, Recorded
  <2>2. ASSUME NEW q \in Procs PROVE Heard(q)' /\ \A t \in Tasks : Behind(q, t) => Behind(q, t)'
    <3>1. Heard(q)
      BY DEF Told
    <3> QED
      BY <2>1, <3>1 DEF Heard, Behind
  <2>3. \A t \in Tasks : Fine(t) => Fine(t)'
    BY <2>1 DEF Fine, Current
  <2> QED
    BY <2>1, <2>2, <2>3 DEF Told
<1> SUFFICES ASSUME NEW p \in Procs, Start(p) \/ Step(p) \/ Crash(p)
             PROVE  Told'
  BY <1>1 DEF Next
<1> USE DEF QuietBase, TypeInv, TypeOK, ProcsOK
<1>2. CASE Crash(p)
  <2>1. UNCHANGED <<rec, perim>> /\ missed \subseteq missed' /\ pc'[p] = "idle"
    BY <1>2 DEF Crash, Exit, Goto
  <2>2. \A t \in Tasks : Behind(p, t) => t \in missed'
    BY <1>2 DEF Crash, Behind
  <2> QED
    BY <2>1, <2>2, ToldRests DEF Telling
<1>3. ~(\/ SeamScript(p) \/ SeamLoad(p) \/ SeamSave(p) \/ StartLoad(p) \/ StartWrite(p)
        \/ StartSave(p) \/ RepairLoad(p) \/ RepairLinks(p) \/ DoctorList(p) \/ DoctorSweep(p))
  BY DEF SeamScript, SeamLoad, SeamSave, StartLoad, StartWrite, StartSave, RepairLoad,
     RepairLinks, DoctorList, DoctorSweep, Frank, OwnInv, Exclusion, InContainer, InTask, Outside
<1>4. ASSUME UNCHANGED <<rec, perim, missed>>, pc'[p] \notin Telling,
             pc[p] \notin {"refresh.load", "refresh.save"}
      PROVE  Told'
  <2>1. \A t \in Tasks : ~Behind(p, t)
    BY <1>4 DEF Behind
  <2> QED
    BY <1>4, <2>1, ToldRests
<1>5. CASE Start(p)
  <2>1. PICK v \in Verbs : pc' = [pc EXCEPT ![p] = Entry[v]]
    BY <1>5 DEF Start, Goto
  <2>2. Entry[v] \in {"new.lock", "add.lock", "post.load", "rm.lock", "rm.load",
                     "start.load", "repair.load", "doctor.list"}
    BY VerbsAssumption DEF Entry, AllVerbs
  <2>3. pc[p] = "idle" /\ UNCHANGED <<rec, perim, missed>>
    BY <1>5 DEF Start, disk
  <2> QED
    BY <1>4, <2>1, <2>2, <2>3 DEF Telling
<1>6. CASE LockContainer(p) \/ LockTask(p) \/ GiveUp(p)
  <2>1. /\ pc[p] \in {"new.lock", "add.lock", "rm.lock", "seam.lock", "post.lock", "rm.task"}
        /\ pc'[p] \in {"new.check", "add.load", "rm.task", "rm.load", "add.reload",
                       "seam.withdraw", "idle"}
        /\ UNCHANGED <<rec, perim, missed>>
    BY <1>6 DEF LockContainer, LockTask, GiveUp, AfterContainer, Goto, Exit, disk
  <2> QED
    BY <1>4, <2>1 DEF Telling
<1>7. CASE NewCheck(p) \/ NewPin(p) \/ NewWorktrees(p) \/ NewFail(p)
  <2>1. /\ pc[p] \in {"new.check", "new.pin", "new.worktrees", "new.perimeter", "new.save"}
        /\ pc'[p] \in {"new.pin", "new.worktrees", "new.perimeter", "idle"}
        /\ UNCHANGED <<rec, perim, missed>>
    BY <1>7 DEF NewCheck, NewPin, NewWorktrees, NewFail, Goto, Exit, disk
  <2> QED
    BY <1>4, <2>1 DEF Telling
<1>8. CASE RefreshDone(p)
  <2>1. /\ pc[p] = "refresh.load" /\ mem[p].todo = {} /\ UNCHANGED <<rec, perim, missed>>
        /\ pc'[p] \in {"seam.lock", "idle"}
    BY <1>8 DEF RefreshDone, Goto, Exit, disk
  <2>2. \A t \in Tasks : ~Behind(p, t)
    BY <2>1 DEF Behind
  <2> QED
    BY <2>1, <2>2, ToldRests DEF Telling
<1>9. CASE AddLoad(p) \/ AddFail(p) \/ AddSeam(p) \/ AddReload(p)
  <2>1. /\ pc[p] \in {"add.load", "add.save", "add.seam", "add.reload"}
        /\ pc'[p] \in {"add.graft", "seam.lock", "seam.withdraw", "idle"}
        /\ UNCHANGED <<rec, perim, missed>>
    BY <1>9 DEF AddLoad, AddFail, AddSeam, AddReload, Goto, Exit, disk
  <2> QED
    BY <1>4, <2>1 DEF Telling
<1>10. CASE PostLoad(p) \/ SeamWithdraw(p) \/ SeamSkip(p) \/ SeamRestore(p)
  <2>1. /\ pc[p] \in {"post.load", "seam.withdraw", "seam.restore"}
        /\ pc'[p] \in {"post.lock", "seam.script", "seam.restore", "idle"}
        /\ UNCHANGED <<rec, perim, missed>>
    BY <1>10 DEF PostLoad, SeamWithdraw, SeamSkip, SeamRestore, Goto, Exit, disk
  <2> QED
    BY <1>4, <2>1 DEF Telling
<1>11. CASE RmLoad(p) \/ RmFence(p) \/ RmGit(p) \/ RmDelete(p)
  <2>1. /\ pc[p] \in {"rm.load", "rm.fence", "rm.git", "rm.delete"}
        /\ pc'[p] \in {"rm.fence", "rm.git", "rm.delete", "rm.forget", "idle"}
        /\ UNCHANGED <<rec, perim, missed>>
    BY <1>11 DEF RmLoad, RmFence, RmGit, RmDelete, Goto, Exit, disk
  <2> QED
    BY <1>4, <2>1 DEF Telling
<1> QED
  BY <1>2, <1>3, <1>5, <1>6, <1>7, <1>8, <1>9, <1>10, <1>11,
     NewTells, RefreshTells, AddTells, ForgetTells DEF Step

\* Whenever no command holds the container lock, the settings in a recorded
\* task's tree name exactly the other recorded tasks, and its record says so
\* (each of new, add and rm writes to all of them under the lock), unless its
\* last refresh failed without a word or its refresher died: for any number
\* of processes and tasks, whatever else fails, in a workspace without a
\* post-create script.
THEOREM RestingTreesAreTold ==
  ASSUME Verbs \subseteq LockedVerbs, HasScript = FALSE
  PROVE  Spec => []PerimeterCurrent
<1>1. Init => Told
  BY DEF Init, Told, Heard
<1>2. Spec => []QuietBase
  BY QuietInvariant
<1>3. QuietBase /\ Told /\ [Next]_vars => Told'
  BY ToldStep
<1>4. QuietBase /\ Told => PerimeterCurrent
  <2> SUFFICES ASSUME QuietBase, Told, cLock = None, NEW t \in Recorded \ missed
               PROVE  rec[t].names = Recorded \ {t} /\ perim[t] = rec[t].names
    BY DEF PerimeterCurrent
  <2>1. \A p \in Procs : pc[p] \notin {"refresh.load", "refresh.save"}
    BY NoneAssumption DEF QuietBase, OwnInv, Exclusion, InContainer
  <2>2. \A p \in Procs : ~Behind(p, t)
    BY <2>1 DEF Behind
  <2>3. Current(t)
    BY <2>2 DEF Told, Fine, Recorded
  <2> QED
    BY <2>3 DEF Current
<1> QED
  BY <1>1, <1>2, <1>3, <1>4, PTL DEF Spec
=============================================================================
