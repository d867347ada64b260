-------------------------- MODULE LifecycleProofs --------------------------
EXTENDS Lifecycle, TLAPS

WithSnap == {"new.save", "refresh.save", "add.graft", "add.save",
             "post.lock", "seam.withdraw", "seam.save", "rm.fence", "rm.git",
             "start.write", "start.save", "repair.links"}

InHand ==
  \A p \in Procs :
    /\ pc[p] # "idle" => cmd[p].task \in Tasks
    /\ pc[p] \in WithSnap => mem[p].snap \in Record
    /\ pc[p] = "refresh.save" => mem[p].cur \in Tasks
    /\ pc[p] \in {"add.graft", "add.save"} => mem[p].cur \in Repos
    /\ pc[p] = "seam.lock" /\ cmd[p].verb # "add" => mem[p].snap \in Record
    /\ pc[p] \in {"post.load", "post.lock"} => cmd[p].verb # "add"
    /\ pc[p] \in {"add.lock", "add.load", "add.graft", "add.save", "add.seam"} =>
         cmd[p].verb = "add"

TypeInv == TypeOK /\ InHand

LEMMA TypeInit == Init => TypeInv
BY NoneAssumption DEF Init, TypeInv, TypeOK, LocksOK, DiskOK, ProcsOK, Command, Memory, InHand, Labels, Blank, NoCmd, WithSnap

LEMMA BlankTyped == Blank \in Memory /\ NoCmd \in Command /\ Blank.snap = None
BY DEF Blank, NoCmd, Memory, Command

LEMMA ExitStep ==
  ASSUME TypeInv, NEW p \in Procs, Exit(p)
  PROVE  LocksOK' /\ ProcsOK' /\ InHand'
<1>1. LocksOK'
  BY DEF TypeInv, TypeOK, LocksOK, Exit
<1>2. ProcsOK'
  BY BlankTyped DEF TypeInv, TypeOK, ProcsOK, Exit, Goto, Labels
<1>3. InHand'
  BY DEF TypeInv, TypeOK, ProcsOK, Exit, Goto, InHand, WithSnap
<1> QED BY <1>1, <1>2, <1>3

LEMMA MemoryUpdates ==
  ASSUME NEW m \in Memory
  PROVE  /\ \A s \in Record \cup {None} : [m EXCEPT !.snap = s] \in Memory
         /\ \A c \in Tasks \cup Repos \cup {None} : [m EXCEPT !.cur = c] \in Memory
         /\ \A d \in SUBSET Tasks : [m EXCEPT !.todo = d] \in Memory
         /\ \A d \in SUBSET Tasks : [m EXCEPT !.names = d] \in Memory
         /\ \A d \in SUBSET Repos : [m EXCEPT !.taken = d] \in Memory
BY DEF Memory

LEMMA MemoryFields ==
  ASSUME NEW m \in Memory
  PROVE  /\ m.snap \in Record \cup {None}
         /\ m.cur \in Tasks \cup Repos \cup {None}
         /\ m.todo \in SUBSET Tasks
         /\ m.names \in SUBSET Tasks
         /\ m.taken \in SUBSET Repos
BY DEF Memory

LEMMA RecordUpdates ==
  ASSUME NEW r \in Record
  PROVE  /\ \A d \in SUBSET Tasks : [r EXCEPT !.names = d] \in Record
         /\ [r EXCEPT !.produced = TRUE] \in Record
         /\ \A d \in SUBSET Tasks, x \in Repos :
              [r EXCEPT !.repos = @ \cup {x}, !.names = d] \in Record
BY DEF Record

LEMMA TypeStep == TypeInv /\ [Next]_vars => TypeInv'
<1> SUFFICES ASSUME TypeInv, [Next]_vars PROVE TypeInv'
  OBVIOUS
<1> USE NoneAssumption, VerbsAssumption DEF TypeInv, TypeOK
<1>1. ASSUME NEW p \in Procs, Start(p) PROVE TypeInv'
  <2>1. LocksOK'
    BY <1>1, ExitStep DEF Start, LocksOK, locks
  <2>2. DiskOK'
    BY <1>1 DEF Start, DiskOK, ProcsOK, InHand, WithSnap, disk, WritePerimeter, Touched, Recorded, Command, Memory, Record, Slots
  <2>3. pc' \in [Procs -> Labels]
    BY <1>1, ExitStep DEF Start, Entry, AllVerbs, Selections, ProcsOK, Goto, Labels
  <2>4. cmd' \in [Procs -> Command]
    BY <1>1, ExitStep DEF Start, Entry, AllVerbs, Selections, ProcsOK, Command
  <2>5. mem' \in [Procs -> Memory]
    BY <1>1, ExitStep, BlankTyped, MemoryFields, MemoryUpdates DEF Start, Entry, AllVerbs, Selections, DiskOK, ProcsOK, InHand, WithSnap, Recorded, Slots
  <2>6. InHand'
    BY <1>1, ExitStep DEF Start, Entry, AllVerbs, Selections, DiskOK, ProcsOK, InHand, WithSnap, Goto, Blank, Memory, Command
  <2> QED BY <2>1, <2>2, <2>3, <2>4, <2>5, <2>6 DEF ProcsOK
<1>2. ASSUME NEW p \in Procs, LockContainer(p) PROVE TypeInv'
  <2>1. LocksOK'
    BY <1>2, ExitStep DEF LockContainer, LocksOK, locks
  <2>2. DiskOK'
    BY <1>2 DEF LockContainer, DiskOK, ProcsOK, InHand, WithSnap, disk, WritePerimeter, Touched, Recorded, Command, Memory, Record, Slots
  <2>3. pc' \in [Procs -> Labels]
    BY <1>2, ExitStep DEF LockContainer, AfterContainer, ProcsOK, Goto, Labels
  <2>4. cmd' \in [Procs -> Command]
    BY <1>2, ExitStep DEF LockContainer, AfterContainer, ProcsOK, Command
  <2>5. mem' \in [Procs -> Memory]
    BY <1>2, ExitStep, BlankTyped, MemoryFields, MemoryUpdates DEF LockContainer, AfterContainer, DiskOK, ProcsOK, InHand, WithSnap, Recorded, Slots
  <2>6. InHand'
    BY <1>2, ExitStep DEF LockContainer, AfterContainer, DiskOK, ProcsOK, InHand, WithSnap, Goto, Blank, Memory, Command
  <2> QED BY <2>1, <2>2, <2>3, <2>4, <2>5, <2>6 DEF ProcsOK
<1>3. ASSUME NEW p \in Procs, LockTask(p) PROVE TypeInv'
  <2>1. LocksOK'
    BY <1>3, ExitStep DEF LockTask, LocksOK, locks
  <2>2. DiskOK'
    BY <1>3 DEF LockTask, DiskOK, ProcsOK, InHand, WithSnap, disk, WritePerimeter, Touched, Recorded, Command, Memory, Record, Slots
  <2>3. pc' \in [Procs -> Labels]
    BY <1>3, ExitStep DEF LockTask, ProcsOK, Goto, Labels
  <2>4. cmd' \in [Procs -> Command]
    BY <1>3, ExitStep DEF LockTask, ProcsOK, Command
  <2>5. mem' \in [Procs -> Memory]
    BY <1>3, ExitStep, BlankTyped, MemoryFields, MemoryUpdates DEF LockTask, DiskOK, ProcsOK, InHand, WithSnap, Recorded, Slots
  <2>6. InHand'
    BY <1>3, ExitStep DEF LockTask, DiskOK, ProcsOK, InHand, WithSnap, Goto, Blank, Memory, Command
  <2> QED BY <2>1, <2>2, <2>3, <2>4, <2>5, <2>6 DEF ProcsOK
<1>4. ASSUME NEW p \in Procs, GiveUp(p) PROVE TypeInv'
  <2>1. LocksOK'
    BY <1>4, ExitStep DEF GiveUp, LocksOK, locks
  <2>2. DiskOK'
    BY <1>4 DEF GiveUp, DiskOK, ProcsOK, InHand, WithSnap, disk, WritePerimeter, Touched, Recorded, Command, Memory, Record, Slots
  <2>3. pc' \in [Procs -> Labels]
    BY <1>4, ExitStep DEF GiveUp, ProcsOK, Goto, Labels
  <2>4. cmd' \in [Procs -> Command]
    BY <1>4, ExitStep DEF GiveUp, ProcsOK, Command
  <2>5. mem' \in [Procs -> Memory]
    BY <1>4, ExitStep, BlankTyped, MemoryFields, MemoryUpdates DEF GiveUp, DiskOK, ProcsOK, InHand, WithSnap, Recorded, Slots
  <2>6. InHand'
    BY <1>4, ExitStep DEF GiveUp, DiskOK, ProcsOK, InHand, WithSnap, Goto, Blank, Memory, Command
  <2> QED BY <2>1, <2>2, <2>3, <2>4, <2>5, <2>6 DEF ProcsOK
<1>5. ASSUME NEW p \in Procs, Crash(p) PROVE TypeInv'
  <2>1. LocksOK'
    BY <1>5, ExitStep DEF Crash, LocksOK, locks
  <2>2. DiskOK'
    BY <1>5 DEF Crash, DiskOK, ProcsOK, InHand, WithSnap, disk, WritePerimeter, Touched, Recorded, Command, Memory, Record, Slots
  <2>3. pc' \in [Procs -> Labels]
    BY <1>5, ExitStep DEF Crash, ProcsOK, Goto, Labels
  <2>4. cmd' \in [Procs -> Command]
    BY <1>5, ExitStep DEF Crash, ProcsOK, Command
  <2>5. mem' \in [Procs -> Memory]
    BY <1>5, ExitStep, BlankTyped, MemoryFields, MemoryUpdates DEF Crash, DiskOK, ProcsOK, InHand, WithSnap, Recorded, Slots
  <2>6. InHand'
    BY <1>5, ExitStep DEF Crash, DiskOK, ProcsOK, InHand, WithSnap, Goto, Blank, Memory, Command
  <2> QED BY <2>1, <2>2, <2>3, <2>4, <2>5, <2>6 DEF ProcsOK
<1>6. ASSUME NEW p \in Procs, NewCheck(p) PROVE TypeInv'
  <2>1. LocksOK'
    BY <1>6, ExitStep DEF NewCheck, LocksOK, locks
  <2>2. DiskOK'
    BY <1>6 DEF NewCheck, DiskOK, ProcsOK, InHand, WithSnap, disk, WritePerimeter, Touched, Recorded, Command, Memory, Record, Slots
  <2>3. pc' \in [Procs -> Labels]
    BY <1>6, ExitStep DEF NewCheck, ProcsOK, Goto, Labels
  <2>4. cmd' \in [Procs -> Command]
    BY <1>6, ExitStep DEF NewCheck, ProcsOK, Command
  <2>5. mem' \in [Procs -> Memory]
    BY <1>6, ExitStep, BlankTyped, MemoryFields, MemoryUpdates DEF NewCheck, DiskOK, ProcsOK, InHand, WithSnap, Recorded, Slots
  <2>6. InHand'
    BY <1>6, ExitStep DEF NewCheck, DiskOK, ProcsOK, InHand, WithSnap, Goto, Blank, Memory, Command
  <2> QED BY <2>1, <2>2, <2>3, <2>4, <2>5, <2>6 DEF ProcsOK
<1>7. ASSUME NEW p \in Procs, NewPin(p) PROVE TypeInv'
  <2>1. LocksOK'
    BY <1>7, ExitStep DEF NewPin, LocksOK, locks
  <2>2. DiskOK'
    BY <1>7 DEF NewPin, DiskOK, ProcsOK, InHand, WithSnap, disk, WritePerimeter, Touched, Recorded, Command, Memory, Record, Slots
  <2>3. pc' \in [Procs -> Labels]
    BY <1>7, ExitStep DEF NewPin, ProcsOK, Goto, Labels
  <2>4. cmd' \in [Procs -> Command]
    BY <1>7, ExitStep DEF NewPin, ProcsOK, Command
  <2>5. mem' \in [Procs -> Memory]
    BY <1>7, ExitStep, BlankTyped, MemoryFields, MemoryUpdates DEF NewPin, DiskOK, ProcsOK, InHand, WithSnap, Recorded, Slots
  <2>6. InHand'
    BY <1>7, ExitStep DEF NewPin, DiskOK, ProcsOK, InHand, WithSnap, Goto, Blank, Memory, Command
  <2> QED BY <2>1, <2>2, <2>3, <2>4, <2>5, <2>6 DEF ProcsOK
<1>8. ASSUME NEW p \in Procs, NewWorktrees(p) PROVE TypeInv'
  <2>1. LocksOK'
    BY <1>8, ExitStep DEF NewWorktrees, LocksOK, locks
  <2>2. DiskOK'
    BY <1>8 DEF NewWorktrees, DiskOK, ProcsOK, InHand, WithSnap, disk, WritePerimeter, Touched, Recorded, Command, Memory, Record, Slots
  <2>3. pc' \in [Procs -> Labels]
    BY <1>8, ExitStep DEF NewWorktrees, ProcsOK, Goto, Labels
  <2>4. cmd' \in [Procs -> Command]
    BY <1>8, ExitStep DEF NewWorktrees, ProcsOK, Command
  <2>5. mem' \in [Procs -> Memory]
    BY <1>8, ExitStep, BlankTyped, MemoryFields, MemoryUpdates DEF NewWorktrees, DiskOK, ProcsOK, InHand, WithSnap, Recorded, Slots
  <2>6. InHand'
    BY <1>8, ExitStep DEF NewWorktrees, DiskOK, ProcsOK, InHand, WithSnap, Goto, Blank, Memory, Command
  <2> QED BY <2>1, <2>2, <2>3, <2>4, <2>5, <2>6 DEF ProcsOK
<1>9. ASSUME NEW p \in Procs, NewPerimeter(p) PROVE TypeInv'
  <2>1. LocksOK'
    BY <1>9, ExitStep DEF NewPerimeter, LocksOK, locks
  <2>2. DiskOK'
    BY <1>9 DEF NewPerimeter, DiskOK, ProcsOK, InHand, WithSnap, disk, WritePerimeter, Touched, Recorded, Command, Memory, Record, Slots
  <2>3. pc' \in [Procs -> Labels]
    BY <1>9, ExitStep DEF NewPerimeter, ProcsOK, Goto, Labels
  <2>4. cmd' \in [Procs -> Command]
    BY <1>9, ExitStep DEF NewPerimeter, ProcsOK, Command
  <2>5. mem' \in [Procs -> Memory]
    BY <1>9, ExitStep, BlankTyped, MemoryFields, MemoryUpdates DEF NewPerimeter, DiskOK, ProcsOK, InHand, WithSnap, Recorded, Slots, Record, Command
  <2>6. InHand'
    <3> DEFINE r == [repos |-> cmd[p].repos, produced |-> FALSE,
                     names |-> Recorded \ {cmd[p].task}]
    <3>1. r \in Record
      BY <1>9 DEF NewPerimeter, ProcsOK, Command, Record, Recorded
    <3>2. mem'[p].snap = r
      BY <1>9 DEF NewPerimeter, ProcsOK, Memory
    <3> QED
      BY <1>9, <3>1, <3>2 DEF NewPerimeter, ProcsOK, Goto, InHand, WithSnap
  <2> QED BY <2>1, <2>2, <2>3, <2>4, <2>5, <2>6 DEF ProcsOK
<1>10. ASSUME NEW p \in Procs, NewSave(p) PROVE TypeInv'
  <2>1. LocksOK'
    BY <1>10, ExitStep DEF NewSave, LocksOK, locks
  <2>2. DiskOK'
    BY <1>10 DEF NewSave, DiskOK, ProcsOK, InHand, WithSnap, disk, WritePerimeter, Touched, Recorded, Command, Memory, Record, Slots
  <2>3. pc' \in [Procs -> Labels]
    BY <1>10, ExitStep DEF NewSave, ProcsOK, Goto, Labels
  <2>4. cmd' \in [Procs -> Command]
    BY <1>10, ExitStep DEF NewSave, ProcsOK, Command
  <2>5. mem' \in [Procs -> Memory]
    <3>1. cmd[p].task \in Tasks /\ mem[p] \in Memory
      BY <1>10 DEF NewSave, InHand, ProcsOK
    <3>2. Recorded \ {cmd[p].task} \in SUBSET Tasks
          /\ Recorded \cup {cmd[p].task} \in SUBSET Tasks
      BY <3>1 DEF Recorded
    <3>3. [mem[p] EXCEPT !.todo = Recorded \ {cmd[p].task},
                         !.names = Recorded \cup {cmd[p].task}] \in Memory
      BY <3>1, <3>2, MemoryUpdates
    <3> QED
      BY <1>10, <3>3 DEF NewSave, ProcsOK
  <2>6. InHand'
    BY <1>10, ExitStep DEF NewSave, DiskOK, ProcsOK, InHand, WithSnap, Goto, Blank, Memory, Command
  <2> QED BY <2>1, <2>2, <2>3, <2>4, <2>5, <2>6 DEF ProcsOK
<1>11. ASSUME NEW p \in Procs, NewFail(p) PROVE TypeInv'
  <2>1. LocksOK'
    BY <1>11, ExitStep DEF NewFail, LocksOK, locks
  <2>2. DiskOK'
    BY <1>11 DEF NewFail, DiskOK, ProcsOK, InHand, WithSnap, disk, WritePerimeter, Touched, Recorded, Command, Memory, Record, Slots
  <2>3. pc' \in [Procs -> Labels]
    BY <1>11, ExitStep DEF NewFail, ProcsOK, Goto, Labels
  <2>4. cmd' \in [Procs -> Command]
    BY <1>11, ExitStep DEF NewFail, ProcsOK, Command
  <2>5. mem' \in [Procs -> Memory]
    BY <1>11, ExitStep, BlankTyped, MemoryFields, MemoryUpdates DEF NewFail, DiskOK, ProcsOK, InHand, WithSnap, Recorded, Slots
  <2>6. InHand'
    BY <1>11, ExitStep DEF NewFail, DiskOK, ProcsOK, InHand, WithSnap, Goto, Blank, Memory, Command
  <2> QED BY <2>1, <2>2, <2>3, <2>4, <2>5, <2>6 DEF ProcsOK
<1>12. ASSUME NEW p \in Procs, RefreshLoad(p) PROVE TypeInv'
  <2>1. LocksOK'
    BY <1>12, ExitStep DEF RefreshLoad, LocksOK, locks
  <2>2. DiskOK'
    BY <1>12, MemoryFields DEF RefreshLoad, DiskOK, ProcsOK, InHand, WithSnap, disk, WritePerimeter, Touched, Recorded
  <2>3. pc' \in [Procs -> Labels]
    BY <1>12, ExitStep DEF RefreshLoad, ProcsOK, Goto, Labels
  <2>4. cmd' \in [Procs -> Command]
    BY <1>12, ExitStep DEF RefreshLoad, ProcsOK, Command
  <2>5. mem' \in [Procs -> Memory]
    <3>1. PICK n \in mem[p].todo :
            mem' = [mem EXCEPT ![p].todo = @ \ {n},
                      ![p].cur = IF rec[n] = None THEN None ELSE n,
                      ![p].snap = rec[n]]
      BY <1>12 DEF RefreshLoad
    <3>2. mem[p] \in Memory /\ n \in Tasks
          /\ mem[p].todo \ {n} \in SUBSET Tasks
      BY <3>1, MemoryFields DEF ProcsOK
    <3>3. rec[n] \in Record \cup {None}
      BY <3>2 DEF DiskOK
    <3>4. [mem[p] EXCEPT !.todo = @ \ {n},
                         !.cur = IF rec[n] = None THEN None ELSE n,
                         !.snap = rec[n]] \in Memory
      BY <3>2, <3>3, MemoryUpdates
    <3> QED
      BY <3>1, <3>4 DEF ProcsOK
  <2>6. InHand'
    BY <1>12, ExitStep DEF RefreshLoad, DiskOK, ProcsOK, InHand, WithSnap, Goto, Blank, Memory, Command
  <2> QED BY <2>1, <2>2, <2>3, <2>4, <2>5, <2>6 DEF ProcsOK
<1>13. ASSUME NEW p \in Procs, RefreshSave(p) PROVE TypeInv'
  <2>1. LocksOK'
    BY <1>13, ExitStep DEF RefreshSave, LocksOK, locks
  <2>2. DiskOK'
    BY <1>13 DEF RefreshSave, DiskOK, ProcsOK, InHand, WithSnap, disk, WritePerimeter, Touched, Recorded, Command, Memory, Record, Slots
  <2>3. pc' \in [Procs -> Labels]
    BY <1>13, ExitStep DEF RefreshSave, ProcsOK, Goto, Labels
  <2>4. cmd' \in [Procs -> Command]
    BY <1>13, ExitStep DEF RefreshSave, ProcsOK, Command
  <2>5. mem' \in [Procs -> Memory]
    BY <1>13, ExitStep, BlankTyped, MemoryFields, MemoryUpdates DEF RefreshSave, DiskOK, ProcsOK, InHand, WithSnap, Recorded, Slots
  <2>6. InHand'
    BY <1>13, ExitStep DEF RefreshSave, DiskOK, ProcsOK, InHand, WithSnap, Goto, Blank, Memory, Command
  <2> QED BY <2>1, <2>2, <2>3, <2>4, <2>5, <2>6 DEF ProcsOK
<1>14. ASSUME NEW p \in Procs, RefreshDone(p) PROVE TypeInv'
  <2>1. LocksOK'
    BY <1>14, ExitStep DEF RefreshDone, LocksOK, locks
  <2>2. DiskOK'
    BY <1>14 DEF RefreshDone, DiskOK, ProcsOK, InHand, WithSnap, disk, WritePerimeter, Touched, Recorded, Command, Memory, Record, Slots
  <2>3. pc' \in [Procs -> Labels]
    BY <1>14, ExitStep DEF RefreshDone, ProcsOK, Goto, Labels
  <2>4. cmd' \in [Procs -> Command]
    BY <1>14, ExitStep DEF RefreshDone, ProcsOK, Command
  <2>5. mem' \in [Procs -> Memory]
    <3> DEFINE r == [repos |-> cmd[p].repos, produced |-> FALSE, names |-> {}]
    <3>1. r \in Record
      BY DEF ProcsOK, Command, Record
    <3>2. [Blank EXCEPT !.snap = r] \in Memory
      BY <3>1, BlankTyped, MemoryUpdates
    <3> QED
      BY <1>14, <3>2, ExitStep DEF RefreshDone, ProcsOK
  <2>6. InHand'
    <3> DEFINE r == [repos |-> cmd[p].repos, produced |-> FALSE, names |-> {}]
    <3>1. r \in Record
      BY DEF ProcsOK, Command, Record
    <3>2. [Blank EXCEPT !.snap = r].snap = r
      BY DEF Blank
    <3>3. CASE cmd[p].verb = "new"
      BY <1>14, <3>1, <3>2, <3>3 DEF RefreshDone, ProcsOK, Goto, InHand, WithSnap
    <3>4. CASE cmd[p].verb # "new"
      BY <1>14, <3>4, ExitStep DEF RefreshDone
    <3> QED
      BY <3>3, <3>4
  <2> QED BY <2>1, <2>2, <2>3, <2>4, <2>5, <2>6 DEF ProcsOK
<1>15. ASSUME NEW p \in Procs, AddLoad(p) PROVE TypeInv'
  <2>1. LocksOK'
    BY <1>15, ExitStep DEF AddLoad, LocksOK, locks
  <2>2. DiskOK'
    BY <1>15 DEF AddLoad, DiskOK, ProcsOK, InHand, WithSnap, disk, WritePerimeter, Touched, Recorded, Command, Memory, Record, Slots
  <2>3. pc' \in [Procs -> Labels]
    BY <1>15, ExitStep DEF AddLoad, ProcsOK, Goto, Labels
  <2>4. cmd' \in [Procs -> Command]
    BY <1>15, ExitStep DEF AddLoad, ProcsOK, Command
  <2>5. mem' \in [Procs -> Memory]
    BY <1>15, ExitStep, BlankTyped, MemoryFields, MemoryUpdates DEF AddLoad, DiskOK, ProcsOK, InHand, WithSnap, Recorded, Slots
  <2>6. InHand'
    BY <1>15, ExitStep DEF AddLoad, DiskOK, ProcsOK, InHand, WithSnap, Goto, Blank, Memory, Command
  <2> QED BY <2>1, <2>2, <2>3, <2>4, <2>5, <2>6 DEF ProcsOK
<1>16. ASSUME NEW p \in Procs, AddGraft(p) PROVE TypeInv'
  <2>1. LocksOK'
    BY <1>16, ExitStep DEF AddGraft, LocksOK, locks
  <2>2. DiskOK'
    BY <1>16 DEF AddGraft, DiskOK, ProcsOK, InHand, WithSnap, disk, WritePerimeter, Touched, Recorded, Command, Memory, Record, Slots
  <2>3. pc' \in [Procs -> Labels]
    BY <1>16, ExitStep DEF AddGraft, ProcsOK, Goto, Labels
  <2>4. cmd' \in [Procs -> Command]
    BY <1>16, ExitStep DEF AddGraft, ProcsOK, Command
  <2>5. mem' \in [Procs -> Memory]
    BY <1>16, ExitStep, BlankTyped, MemoryFields, MemoryUpdates DEF AddGraft, DiskOK, ProcsOK, InHand, WithSnap, Recorded, Slots
  <2>6. InHand'
    BY <1>16, ExitStep DEF AddGraft, DiskOK, ProcsOK, InHand, WithSnap, Goto, Blank, Memory, Command
  <2> QED BY <2>1, <2>2, <2>3, <2>4, <2>5, <2>6 DEF ProcsOK
<1>17. ASSUME NEW p \in Procs, AddSave(p) PROVE TypeInv'
  <2>1. LocksOK'
    BY <1>17, ExitStep DEF AddSave, LocksOK, locks
  <2>2. DiskOK'
    BY <1>17, MemoryFields, RecordUpdates DEF AddSave, DiskOK, ProcsOK, InHand, WithSnap, disk, WritePerimeter, Touched, Recorded
  <2>3. pc' \in [Procs -> Labels]
    BY <1>17, ExitStep DEF AddSave, ProcsOK, Goto, Labels
  <2>4. cmd' \in [Procs -> Command]
    BY <1>17, ExitStep DEF AddSave, ProcsOK, Command
  <2>5. mem' \in [Procs -> Memory]
    BY <1>17, ExitStep, BlankTyped, MemoryFields, MemoryUpdates DEF AddSave, DiskOK, ProcsOK, InHand, WithSnap, Recorded, Slots
  <2>6. InHand'
    BY <1>17, ExitStep DEF AddSave, DiskOK, ProcsOK, InHand, WithSnap, Goto, Blank, Memory, Command
  <2> QED BY <2>1, <2>2, <2>3, <2>4, <2>5, <2>6 DEF ProcsOK
<1>18. ASSUME NEW p \in Procs, AddFail(p) PROVE TypeInv'
  <2>1. LocksOK'
    BY <1>18, ExitStep DEF AddFail, LocksOK, locks
  <2>2. DiskOK'
    BY <1>18 DEF AddFail, DiskOK, ProcsOK, InHand, WithSnap, disk, WritePerimeter, Touched, Recorded, Command, Memory, Record, Slots
  <2>3. pc' \in [Procs -> Labels]
    BY <1>18, ExitStep DEF AddFail, ProcsOK, Goto, Labels
  <2>4. cmd' \in [Procs -> Command]
    BY <1>18, ExitStep DEF AddFail, ProcsOK, Command
  <2>5. mem' \in [Procs -> Memory]
    BY <1>18, ExitStep, BlankTyped, MemoryFields, MemoryUpdates DEF AddFail, DiskOK, ProcsOK, InHand, WithSnap, Recorded, Slots
  <2>6. InHand'
    BY <1>18, ExitStep DEF AddFail, DiskOK, ProcsOK, InHand, WithSnap, Goto, Blank, Memory, Command
  <2> QED BY <2>1, <2>2, <2>3, <2>4, <2>5, <2>6 DEF ProcsOK
<1>19. ASSUME NEW p \in Procs, AddSeam(p) PROVE TypeInv'
  <2>1. LocksOK'
    BY <1>19, ExitStep DEF AddSeam, LocksOK, locks
  <2>2. DiskOK'
    BY <1>19 DEF AddSeam, DiskOK, ProcsOK, InHand, WithSnap, disk, WritePerimeter, Touched, Recorded, Command, Memory, Record, Slots
  <2>3. pc' \in [Procs -> Labels]
    BY <1>19, ExitStep DEF AddSeam, ProcsOK, Goto, Labels
  <2>4. cmd' \in [Procs -> Command]
    BY <1>19, ExitStep DEF AddSeam, ProcsOK, Command
  <2>5. mem' \in [Procs -> Memory]
    BY <1>19, ExitStep, BlankTyped, MemoryFields, MemoryUpdates DEF AddSeam, DiskOK, ProcsOK, InHand, WithSnap, Recorded, Slots
  <2>6. InHand'
    BY <1>19, ExitStep DEF AddSeam, DiskOK, ProcsOK, InHand, WithSnap, Goto, Blank, Memory, Command
  <2> QED BY <2>1, <2>2, <2>3, <2>4, <2>5, <2>6 DEF ProcsOK
<1>20. ASSUME NEW p \in Procs, AddReload(p) PROVE TypeInv'
  <2>1. LocksOK'
    BY <1>20, ExitStep DEF AddReload, LocksOK, locks
  <2>2. DiskOK'
    BY <1>20 DEF AddReload, DiskOK, ProcsOK, InHand, WithSnap, disk, WritePerimeter, Touched, Recorded, Command, Memory, Record, Slots
  <2>3. pc' \in [Procs -> Labels]
    BY <1>20, ExitStep DEF AddReload, ProcsOK, Goto, Labels
  <2>4. cmd' \in [Procs -> Command]
    BY <1>20, ExitStep DEF AddReload, ProcsOK, Command
  <2>5. mem' \in [Procs -> Memory]
    BY <1>20, ExitStep, BlankTyped, MemoryFields, MemoryUpdates DEF AddReload, DiskOK, ProcsOK, InHand, WithSnap, Recorded, Slots
  <2>6. InHand'
    BY <1>20, ExitStep DEF AddReload, DiskOK, ProcsOK, InHand, WithSnap, Goto, Blank, Memory, Command
  <2> QED BY <2>1, <2>2, <2>3, <2>4, <2>5, <2>6 DEF ProcsOK
<1>21. ASSUME NEW p \in Procs, PostLoad(p) PROVE TypeInv'
  <2>1. LocksOK'
    BY <1>21, ExitStep DEF PostLoad, LocksOK, locks
  <2>2. DiskOK'
    BY <1>21 DEF PostLoad, DiskOK, ProcsOK, InHand, WithSnap, disk, WritePerimeter, Touched, Recorded, Command, Memory, Record, Slots
  <2>3. pc' \in [Procs -> Labels]
    BY <1>21, ExitStep DEF PostLoad, ProcsOK, Goto, Labels
  <2>4. cmd' \in [Procs -> Command]
    BY <1>21, ExitStep DEF PostLoad, ProcsOK, Command
  <2>5. mem' \in [Procs -> Memory]
    BY <1>21, ExitStep, BlankTyped, MemoryFields, MemoryUpdates DEF PostLoad, DiskOK, ProcsOK, InHand, WithSnap, Recorded, Slots
  <2>6. InHand'
    BY <1>21, ExitStep DEF PostLoad, DiskOK, ProcsOK, InHand, WithSnap, Goto, Blank, Memory, Command
  <2> QED BY <2>1, <2>2, <2>3, <2>4, <2>5, <2>6 DEF ProcsOK
<1>22. ASSUME NEW p \in Procs, SeamWithdraw(p) PROVE TypeInv'
  <2>1. LocksOK'
    BY <1>22, ExitStep DEF SeamWithdraw, LocksOK, locks
  <2>2. DiskOK'
    BY <1>22 DEF SeamWithdraw, DiskOK, disk
  <2>3. pc' \in [Procs -> Labels]
    BY <1>22, ExitStep DEF SeamWithdraw, ProcsOK, Goto, Labels
  <2>4. cmd' \in [Procs -> Command]
    BY <1>22, ExitStep DEF SeamWithdraw, ProcsOK, Command
  <2>5. mem' \in [Procs -> Memory]
    <3>1. links[cmd[p].task] \cap Slots(p) \in SUBSET Repos
      BY DEF Slots
    <3>2. [Blank EXCEPT !.taken = links[cmd[p].task] \cap Slots(p)] \in Memory
      BY <3>1, BlankTyped, MemoryUpdates
    <3> QED
      BY <1>22, <3>2, ExitStep DEF SeamWithdraw, ProcsOK
  <2>6. InHand'
    BY <1>22, ExitStep DEF SeamWithdraw, DiskOK, ProcsOK, InHand, WithSnap, Goto, Blank, Memory, Command
  <2> QED BY <2>1, <2>2, <2>3, <2>4, <2>5, <2>6 DEF ProcsOK
<1>23. ASSUME NEW p \in Procs, SeamSkip(p) PROVE TypeInv'
  <2>1. LocksOK'
    BY <1>23, ExitStep DEF SeamSkip, LocksOK, locks
  <2>2. DiskOK'
    BY <1>23 DEF SeamSkip, DiskOK, ProcsOK, InHand, WithSnap, disk, WritePerimeter, Touched, Recorded, Command, Memory, Record, Slots
  <2>3. pc' \in [Procs -> Labels]
    BY <1>23, ExitStep DEF SeamSkip, ProcsOK, Goto, Labels
  <2>4. cmd' \in [Procs -> Command]
    BY <1>23, ExitStep DEF SeamSkip, ProcsOK, Command
  <2>5. mem' \in [Procs -> Memory]
    BY <1>23, ExitStep, BlankTyped, MemoryFields, MemoryUpdates DEF SeamSkip, DiskOK, ProcsOK, InHand, WithSnap, Recorded, Slots
  <2>6. InHand'
    BY <1>23, ExitStep DEF SeamSkip, DiskOK, ProcsOK, InHand, WithSnap, Goto, Blank, Memory, Command
  <2> QED BY <2>1, <2>2, <2>3, <2>4, <2>5, <2>6 DEF ProcsOK
<1>24. ASSUME NEW p \in Procs, SeamScript(p) PROVE TypeInv'
  <2>1. LocksOK'
    BY <1>24, ExitStep DEF SeamScript, LocksOK, locks
  <2>2. DiskOK'
    BY <1>24 DEF SeamScript, DiskOK, ProcsOK, InHand, WithSnap, disk, WritePerimeter, Touched, Recorded, Command, Memory, Record, Slots
  <2>3. pc' \in [Procs -> Labels]
    BY <1>24, ExitStep DEF SeamScript, ProcsOK, Goto, Labels
  <2>4. cmd' \in [Procs -> Command]
    BY <1>24, ExitStep DEF SeamScript, ProcsOK, Command
  <2>5. mem' \in [Procs -> Memory]
    BY <1>24, ExitStep, BlankTyped, MemoryFields, MemoryUpdates DEF SeamScript, DiskOK, ProcsOK, InHand, WithSnap, Recorded, Slots
  <2>6. InHand'
    BY <1>24, ExitStep DEF SeamScript, DiskOK, ProcsOK, InHand, WithSnap, Goto, Blank, Memory, Command
  <2> QED BY <2>1, <2>2, <2>3, <2>4, <2>5, <2>6 DEF ProcsOK
<1>25. ASSUME NEW p \in Procs, SeamLoad(p) PROVE TypeInv'
  <2>1. LocksOK'
    BY <1>25, ExitStep DEF SeamLoad, LocksOK, locks
  <2>2. DiskOK'
    BY <1>25 DEF SeamLoad, DiskOK, ProcsOK, InHand, WithSnap, disk, WritePerimeter, Touched, Recorded, Command, Memory, Record, Slots
  <2>3. pc' \in [Procs -> Labels]
    BY <1>25, ExitStep DEF SeamLoad, ProcsOK, Goto, Labels
  <2>4. cmd' \in [Procs -> Command]
    BY <1>25, ExitStep DEF SeamLoad, ProcsOK, Command
  <2>5. mem' \in [Procs -> Memory]
    BY <1>25, ExitStep, BlankTyped, MemoryFields, MemoryUpdates DEF SeamLoad, DiskOK, ProcsOK, InHand, WithSnap, Recorded, Slots
  <2>6. InHand'
    BY <1>25, ExitStep DEF SeamLoad, DiskOK, ProcsOK, InHand, WithSnap, Goto, Blank, Memory, Command
  <2> QED BY <2>1, <2>2, <2>3, <2>4, <2>5, <2>6 DEF ProcsOK
<1>26. ASSUME NEW p \in Procs, SeamSave(p) PROVE TypeInv'
  <2>1. LocksOK'
    BY <1>26, ExitStep DEF SeamSave, LocksOK, locks
  <2>2. DiskOK'
    BY <1>26, MemoryFields, RecordUpdates DEF SeamSave, DiskOK, ProcsOK, InHand, WithSnap, disk, WritePerimeter, Touched, Recorded
  <2>3. pc' \in [Procs -> Labels]
    BY <1>26, ExitStep DEF SeamSave, ProcsOK, Goto, Labels
  <2>4. cmd' \in [Procs -> Command]
    BY <1>26, ExitStep DEF SeamSave, ProcsOK, Command
  <2>5. mem' \in [Procs -> Memory]
    BY <1>26, ExitStep, BlankTyped, MemoryFields, MemoryUpdates DEF SeamSave, DiskOK, ProcsOK, InHand, WithSnap, Recorded, Slots
  <2>6. InHand'
    BY <1>26, ExitStep DEF SeamSave, DiskOK, ProcsOK, InHand, WithSnap, Goto, Blank, Memory, Command
  <2> QED BY <2>1, <2>2, <2>3, <2>4, <2>5, <2>6 DEF ProcsOK
<1>27. ASSUME NEW p \in Procs, SeamRestore(p) PROVE TypeInv'
  <2>1. LocksOK'
    BY <1>27, ExitStep DEF SeamRestore, LocksOK, locks
  <2>2. DiskOK'
    BY <1>27 DEF SeamRestore, DiskOK, ProcsOK, InHand, WithSnap, disk, WritePerimeter, Touched, Recorded, Command, Memory, Record, Slots
  <2>3. pc' \in [Procs -> Labels]
    BY <1>27, ExitStep DEF SeamRestore, ProcsOK, Goto, Labels
  <2>4. cmd' \in [Procs -> Command]
    BY <1>27, ExitStep DEF SeamRestore, ProcsOK, Command
  <2>5. mem' \in [Procs -> Memory]
    BY <1>27, ExitStep, BlankTyped, MemoryFields, MemoryUpdates DEF SeamRestore, DiskOK, ProcsOK, InHand, WithSnap, Recorded, Slots
  <2>6. InHand'
    BY <1>27, ExitStep DEF SeamRestore, DiskOK, ProcsOK, InHand, WithSnap, Goto, Blank, Memory, Command
  <2> QED BY <2>1, <2>2, <2>3, <2>4, <2>5, <2>6 DEF ProcsOK
<1>28. ASSUME NEW p \in Procs, RmLoad(p) PROVE TypeInv'
  <2>1. LocksOK'
    BY <1>28, ExitStep DEF RmLoad, LocksOK, locks
  <2>2. DiskOK'
    BY <1>28 DEF RmLoad, DiskOK, ProcsOK, InHand, WithSnap, disk, WritePerimeter, Touched, Recorded, Command, Memory, Record, Slots
  <2>3. pc' \in [Procs -> Labels]
    BY <1>28, ExitStep DEF RmLoad, ProcsOK, Goto, Labels
  <2>4. cmd' \in [Procs -> Command]
    BY <1>28, ExitStep DEF RmLoad, ProcsOK, Command
  <2>5. mem' \in [Procs -> Memory]
    BY <1>28, ExitStep, BlankTyped, MemoryFields, MemoryUpdates DEF RmLoad, DiskOK, ProcsOK, InHand, WithSnap, Recorded, Slots
  <2>6. InHand'
    BY <1>28, ExitStep DEF RmLoad, DiskOK, ProcsOK, InHand, WithSnap, Goto, Blank, Memory, Command
  <2> QED BY <2>1, <2>2, <2>3, <2>4, <2>5, <2>6 DEF ProcsOK
<1>29. ASSUME NEW p \in Procs, RmFence(p) PROVE TypeInv'
  <2>1. LocksOK'
    BY <1>29, ExitStep DEF RmFence, LocksOK, locks
  <2>2. DiskOK'
    BY <1>29 DEF RmFence, DiskOK, ProcsOK, InHand, WithSnap, disk, WritePerimeter, Touched, Recorded, Command, Memory, Record, Slots
  <2>3. pc' \in [Procs -> Labels]
    BY <1>29, ExitStep DEF RmFence, ProcsOK, Goto, Labels
  <2>4. cmd' \in [Procs -> Command]
    BY <1>29, ExitStep DEF RmFence, ProcsOK, Command
  <2>5. mem' \in [Procs -> Memory]
    BY <1>29, ExitStep, BlankTyped, MemoryFields, MemoryUpdates DEF RmFence, DiskOK, ProcsOK, InHand, WithSnap, Recorded, Slots
  <2>6. InHand'
    BY <1>29, ExitStep DEF RmFence, DiskOK, ProcsOK, InHand, WithSnap, Goto, Blank, Memory, Command
  <2> QED BY <2>1, <2>2, <2>3, <2>4, <2>5, <2>6 DEF ProcsOK
<1>30. ASSUME NEW p \in Procs, RmGit(p) PROVE TypeInv'
  <2>1. LocksOK'
    BY <1>30, ExitStep DEF RmGit, LocksOK, locks
  <2>2. DiskOK'
    BY <1>30 DEF RmGit, DiskOK, ProcsOK, InHand, WithSnap, disk, WritePerimeter, Touched, Recorded, Command, Memory, Record, Slots
  <2>3. pc' \in [Procs -> Labels]
    BY <1>30, ExitStep DEF RmGit, ProcsOK, Goto, Labels
  <2>4. cmd' \in [Procs -> Command]
    BY <1>30, ExitStep DEF RmGit, ProcsOK, Command
  <2>5. mem' \in [Procs -> Memory]
    BY <1>30, ExitStep, BlankTyped, MemoryFields, MemoryUpdates DEF RmGit, DiskOK, ProcsOK, InHand, WithSnap, Recorded, Slots
  <2>6. InHand'
    BY <1>30, ExitStep DEF RmGit, DiskOK, ProcsOK, InHand, WithSnap, Goto, Blank, Memory, Command
  <2> QED BY <2>1, <2>2, <2>3, <2>4, <2>5, <2>6 DEF ProcsOK
<1>31. ASSUME NEW p \in Procs, RmDelete(p) PROVE TypeInv'
  <2>1. LocksOK'
    BY <1>31, ExitStep DEF RmDelete, LocksOK, locks
  <2>2. DiskOK'
    BY <1>31 DEF RmDelete, DiskOK, ProcsOK, InHand, WithSnap, disk, WritePerimeter, Touched, Recorded, Command, Memory, Record, Slots
  <2>3. pc' \in [Procs -> Labels]
    BY <1>31, ExitStep DEF RmDelete, ProcsOK, Goto, Labels
  <2>4. cmd' \in [Procs -> Command]
    BY <1>31, ExitStep DEF RmDelete, ProcsOK, Command
  <2>5. mem' \in [Procs -> Memory]
    BY <1>31, ExitStep, BlankTyped, MemoryFields, MemoryUpdates DEF RmDelete, DiskOK, ProcsOK, InHand, WithSnap, Recorded, Slots
  <2>6. InHand'
    BY <1>31, ExitStep DEF RmDelete, DiskOK, ProcsOK, InHand, WithSnap, Goto, Blank, Memory, Command
  <2> QED BY <2>1, <2>2, <2>3, <2>4, <2>5, <2>6 DEF ProcsOK
<1>32. ASSUME NEW p \in Procs, RmForget(p) PROVE TypeInv'
  <2>1. LocksOK'
    BY <1>32, ExitStep DEF RmForget, LocksOK, locks
  <2>2. DiskOK'
    BY <1>32 DEF RmForget, DiskOK, ProcsOK, InHand, WithSnap, disk, WritePerimeter, Touched, Recorded, Command, Memory, Record, Slots
  <2>3. pc' \in [Procs -> Labels]
    BY <1>32, ExitStep DEF RmForget, ProcsOK, Goto, Labels
  <2>4. cmd' \in [Procs -> Command]
    BY <1>32, ExitStep DEF RmForget, ProcsOK, Command
  <2>5. mem' \in [Procs -> Memory]
    BY <1>32, ExitStep, BlankTyped, MemoryFields, MemoryUpdates DEF RmForget, DiskOK, ProcsOK, InHand, WithSnap, Recorded, Slots
  <2>6. InHand'
    BY <1>32, ExitStep DEF RmForget, DiskOK, ProcsOK, InHand, WithSnap, Goto, Blank, Memory, Command
  <2> QED BY <2>1, <2>2, <2>3, <2>4, <2>5, <2>6 DEF ProcsOK
<1>33. ASSUME NEW p \in Procs, StartLoad(p) PROVE TypeInv'
  <2>1. LocksOK'
    BY <1>33, ExitStep DEF StartLoad, LocksOK, locks
  <2>2. DiskOK'
    BY <1>33 DEF StartLoad, DiskOK, ProcsOK, InHand, WithSnap, disk, WritePerimeter, Touched, Recorded, Command, Memory, Record, Slots
  <2>3. pc' \in [Procs -> Labels]
    BY <1>33, ExitStep DEF StartLoad, ProcsOK, Goto, Labels
  <2>4. cmd' \in [Procs -> Command]
    BY <1>33, ExitStep DEF StartLoad, ProcsOK, Command
  <2>5. mem' \in [Procs -> Memory]
    BY <1>33, ExitStep, BlankTyped, MemoryFields, MemoryUpdates DEF StartLoad, DiskOK, ProcsOK, InHand, WithSnap, Recorded, Slots
  <2>6. InHand'
    BY <1>33, ExitStep DEF StartLoad, DiskOK, ProcsOK, InHand, WithSnap, Goto, Blank, Memory, Command
  <2> QED BY <2>1, <2>2, <2>3, <2>4, <2>5, <2>6 DEF ProcsOK
<1>34. ASSUME NEW p \in Procs, StartWrite(p) PROVE TypeInv'
  <2>1. LocksOK'
    BY <1>34, ExitStep DEF StartWrite, LocksOK, locks
  <2>2. DiskOK'
    BY <1>34 DEF StartWrite, DiskOK, ProcsOK, InHand, WithSnap, disk, WritePerimeter, Touched, Recorded, Command, Memory, Record, Slots
  <2>3. pc' \in [Procs -> Labels]
    BY <1>34, ExitStep DEF StartWrite, ProcsOK, Goto, Labels
  <2>4. cmd' \in [Procs -> Command]
    BY <1>34, ExitStep DEF StartWrite, ProcsOK, Command
  <2>5. mem' \in [Procs -> Memory]
    BY <1>34, ExitStep, BlankTyped, MemoryFields, MemoryUpdates DEF StartWrite, DiskOK, ProcsOK, InHand, WithSnap, Recorded, Slots
  <2>6. InHand'
    BY <1>34, ExitStep DEF StartWrite, DiskOK, ProcsOK, InHand, WithSnap, Goto, Blank, Memory, Command
  <2> QED BY <2>1, <2>2, <2>3, <2>4, <2>5, <2>6 DEF ProcsOK
<1>35. ASSUME NEW p \in Procs, StartSave(p) PROVE TypeInv'
  <2>1. LocksOK'
    BY <1>35, ExitStep DEF StartSave, LocksOK, locks
  <2>2. DiskOK'
    BY <1>35, MemoryFields, RecordUpdates DEF StartSave, DiskOK, ProcsOK, InHand, WithSnap, disk, WritePerimeter, Touched, Recorded
  <2>3. pc' \in [Procs -> Labels]
    BY <1>35, ExitStep DEF StartSave, ProcsOK, Goto, Labels
  <2>4. cmd' \in [Procs -> Command]
    BY <1>35, ExitStep DEF StartSave, ProcsOK, Command
  <2>5. mem' \in [Procs -> Memory]
    BY <1>35, ExitStep, BlankTyped, MemoryFields, MemoryUpdates DEF StartSave, DiskOK, ProcsOK, InHand, WithSnap, Recorded, Slots
  <2>6. InHand'
    BY <1>35, ExitStep DEF StartSave, DiskOK, ProcsOK, InHand, WithSnap, Goto, Blank, Memory, Command
  <2> QED BY <2>1, <2>2, <2>3, <2>4, <2>5, <2>6 DEF ProcsOK
<1>36. ASSUME NEW p \in Procs, RepairLoad(p) PROVE TypeInv'
  <2>1. LocksOK'
    BY <1>36, ExitStep DEF RepairLoad, LocksOK, locks
  <2>2. DiskOK'
    BY <1>36 DEF RepairLoad, DiskOK, ProcsOK, InHand, WithSnap, disk, WritePerimeter, Touched, Recorded, Command, Memory, Record, Slots
  <2>3. pc' \in [Procs -> Labels]
    BY <1>36, ExitStep DEF RepairLoad, ProcsOK, Goto, Labels
  <2>4. cmd' \in [Procs -> Command]
    BY <1>36, ExitStep DEF RepairLoad, ProcsOK, Command
  <2>5. mem' \in [Procs -> Memory]
    BY <1>36, ExitStep, BlankTyped, MemoryFields, MemoryUpdates DEF RepairLoad, DiskOK, ProcsOK, InHand, WithSnap, Recorded, Slots
  <2>6. InHand'
    BY <1>36, ExitStep DEF RepairLoad, DiskOK, ProcsOK, InHand, WithSnap, Goto, Blank, Memory, Command
  <2> QED BY <2>1, <2>2, <2>3, <2>4, <2>5, <2>6 DEF ProcsOK
<1>37. ASSUME NEW p \in Procs, RepairLinks(p) PROVE TypeInv'
  <2>1. LocksOK'
    BY <1>37, ExitStep DEF RepairLinks, LocksOK, locks
  <2>2. DiskOK'
    BY <1>37 DEF RepairLinks, DiskOK, ProcsOK, InHand, WithSnap, disk, WritePerimeter, Touched, Recorded, Command, Memory, Record, Slots
  <2>3. pc' \in [Procs -> Labels]
    BY <1>37, ExitStep DEF RepairLinks, ProcsOK, Goto, Labels
  <2>4. cmd' \in [Procs -> Command]
    BY <1>37, ExitStep DEF RepairLinks, ProcsOK, Command
  <2>5. mem' \in [Procs -> Memory]
    BY <1>37, ExitStep, BlankTyped, MemoryFields, MemoryUpdates DEF RepairLinks, DiskOK, ProcsOK, InHand, WithSnap, Recorded, Slots
  <2>6. InHand'
    BY <1>37, ExitStep DEF RepairLinks, DiskOK, ProcsOK, InHand, WithSnap, Goto, Blank, Memory, Command
  <2> QED BY <2>1, <2>2, <2>3, <2>4, <2>5, <2>6 DEF ProcsOK
<1>38. ASSUME NEW p \in Procs, DoctorList(p) PROVE TypeInv'
  <2>1. LocksOK'
    BY <1>38, ExitStep DEF DoctorList, LocksOK, locks
  <2>2. DiskOK'
    BY <1>38 DEF DoctorList, DiskOK, ProcsOK, InHand, WithSnap, disk, WritePerimeter, Touched, Recorded, Command, Memory, Record, Slots
  <2>3. pc' \in [Procs -> Labels]
    BY <1>38, ExitStep DEF DoctorList, ProcsOK, Goto, Labels
  <2>4. cmd' \in [Procs -> Command]
    BY <1>38, ExitStep DEF DoctorList, ProcsOK, Command
  <2>5. mem' \in [Procs -> Memory]
    BY <1>38, ExitStep, BlankTyped, MemoryFields, MemoryUpdates DEF DoctorList, DiskOK, ProcsOK, InHand, WithSnap, Recorded, Slots
  <2>6. InHand'
    BY <1>38, ExitStep DEF DoctorList, DiskOK, ProcsOK, InHand, WithSnap, Goto, Blank, Memory, Command
  <2> QED BY <2>1, <2>2, <2>3, <2>4, <2>5, <2>6 DEF ProcsOK
<1>39. ASSUME NEW p \in Procs, DoctorSweep(p) PROVE TypeInv'
  <2>1. LocksOK'
    BY <1>39, ExitStep DEF DoctorSweep, LocksOK, locks
  <2>2. DiskOK'
    BY <1>39 DEF DoctorSweep, DiskOK, ProcsOK, InHand, WithSnap, disk, WritePerimeter, Touched, Recorded, Command, Memory, Record, Slots
  <2>3. pc' \in [Procs -> Labels]
    BY <1>39, ExitStep DEF DoctorSweep, ProcsOK, Goto, Labels
  <2>4. cmd' \in [Procs -> Command]
    BY <1>39, ExitStep DEF DoctorSweep, ProcsOK, Command
  <2>5. mem' \in [Procs -> Memory]
    BY <1>39, ExitStep, BlankTyped, MemoryFields, MemoryUpdates DEF DoctorSweep, DiskOK, ProcsOK, InHand, WithSnap, Recorded, Slots
  <2>6. InHand'
    BY <1>39, ExitStep DEF DoctorSweep, DiskOK, ProcsOK, InHand, WithSnap, Goto, Blank, Memory, Command
  <2> QED BY <2>1, <2>2, <2>3, <2>4, <2>5, <2>6 DEF ProcsOK
<1>40. CASE UNCHANGED vars
  BY <1>40 DEF vars, LocksOK, DiskOK, ProcsOK, InHand
<1>41. ASSUME NEW p \in Procs, RefreshFails(p) PROVE TypeInv'
  <2>0. PICK n \in mem[p].todo :
          /\ mem' = [mem EXCEPT ![p].todo = @ \ {n}]
          /\ missed' = missed \cup {n}
          /\ UNCHANGED <<tree, perim>> \/ WritePerimeter(n, mem[p].names)
    BY <1>41 DEF RefreshFails
  <2>t. n \in Tasks /\ mem[p].todo \ {n} \in SUBSET Tasks /\ mem[p] \in Memory
    BY <2>0, MemoryFields DEF ProcsOK
  <2>1. LocksOK'
    BY <1>41 DEF RefreshFails, LocksOK, locks
  <2>2. DiskOK'
    BY <1>41, <2>0, <2>t, MemoryFields DEF RefreshFails, DiskOK, WritePerimeter, Touched
  <2>3. pc' \in [Procs -> Labels]
    BY <1>41 DEF RefreshFails, ProcsOK
  <2>4. cmd' \in [Procs -> Command]
    BY <1>41 DEF RefreshFails, ProcsOK
  <2>5. mem' \in [Procs -> Memory]
    BY <2>0, <2>t, MemoryUpdates DEF ProcsOK
  <2>6. InHand'
    BY <1>41, <2>0 DEF RefreshFails, ProcsOK, InHand, WithSnap, Memory
  <2> QED BY <2>1, <2>2, <2>3, <2>4, <2>5, <2>6 DEF ProcsOK
<1> QED
  BY <1>1, <1>2, <1>3, <1>4, <1>5, <1>6, <1>7, <1>8, <1>9, <1>10, <1>11, <1>12, <1>13, <1>14, <1>15, <1>16, <1>17, <1>18, <1>19, <1>20, <1>21, <1>22, <1>23, <1>24, <1>25, <1>26, <1>27, <1>28, <1>29, <1>30, <1>31, <1>32, <1>33, <1>34, <1>35, <1>36, <1>37, <1>38, <1>39, <1>40, <1>41 DEF Next, Step

\* Every variable stays in its range, whatever the verbs, the faults and the
\* number of processes, tasks and repositories.
THEOREM TypeCorrect == Spec => []TypeOK
<1>1. Spec => []TypeInv
  BY TypeInit, TypeStep, PTL DEF Spec
<1> QED
  BY <1>1, PTL DEF TypeInv

-----------------------------------------------------------------------------
\* Where a process can be while it holds a task's lock: nowhere on the way to
\* another lock.
TaskStages == {"add.reload", "seam.withdraw", "seam.script", "seam.load",
  "seam.save", "seam.restore", "rm.load", "rm.fence", "rm.git", "rm.delete",
  "rm.forget", "refresh.load", "refresh.save"}

RemovalStages == {"rm.load", "rm.fence", "rm.git", "rm.delete", "rm.forget",
  "refresh.load", "refresh.save"}

\* Who holds a lock is past the wait for it, and only a creation goes on from
\* its refresh to another lock.
Nesting ==
  /\ \A p \in Procs : cLock = p => pc[p] \notin ContainerWait \cup {"idle", "post.load", "post.lock"}
  /\ \A p \in Procs, t \in Tasks : tLock[t] = p =>
       /\ pc[p] \in TaskStages
       /\ pc[p] \in RemovalStages => cmd[p].verb # "new"
  /\ \A p \in Procs : pc[p] \in {"rm.lock", "rm.task"} => cmd[p].verb = "rm"

LEMMA NestingInit == Init => Nesting
BY NoneAssumption DEF Init, Nesting

\* One step per action.
LEMMA NestingStep ==
  ASSUME TypeInv, Nesting, [Next]_vars
  PROVE  Nesting'
<1> USE NoneAssumption DEF TypeInv, TypeOK, LocksOK, ProcsOK, InHand, Nesting, ContainerWait, TaskStages, RemovalStages, Goto, Exit, locks
<1>1. ASSUME NEW p \in Procs, Start(p) PROVE Nesting'
  <2>0. PICK v \in Verbs, t \in Tasks : \E s \in Selections(v) :
          /\ cmd' = [cmd EXCEPT ![p] = [verb |-> v, task |-> t, repos |-> s]]
          /\ pc' = [pc EXCEPT ![p] = Entry[v]]
    BY <1>1 DEF Start
  <2>1. v \in AllVerbs /\ cmd'[p].verb = v /\ pc' = [pc EXCEPT ![p] = Entry[v]]
    BY <2>0, VerbsAssumption
  <2>2. Entry[v] = "rm.lock" => v = "rm"
    BY <2>1 DEF Entry, AllVerbs
  <2>3. Entry[v] # "rm.task"
    BY <2>1 DEF Entry, AllVerbs
  <2>4. /\ cLock # p
        /\ \A u \in Tasks : tLock[u] # p
        /\ UNCHANGED <<cLock, tLock>>
        /\ \A q \in Procs \ {p} : pc'[q] = pc[q] /\ cmd'[q] = cmd[q]
    BY <1>1 DEF Start
  <2> QED
    BY <2>1, <2>2, <2>3, <2>4
<1>2. ASSUME NEW p \in Procs, LockContainer(p) PROVE Nesting'
  BY <1>2 DEF LockContainer, AfterContainer
<1>3. ASSUME NEW p \in Procs, LockTask(p) PROVE Nesting'
  BY <1>3 DEF LockTask
<1>4. ASSUME NEW p \in Procs, GiveUp(p) PROVE Nesting'
  BY <1>4 DEF GiveUp
<1>5. ASSUME NEW p \in Procs, Crash(p) PROVE Nesting'
  BY <1>5 DEF Crash
<1>6. ASSUME NEW p \in Procs, NewCheck(p) PROVE Nesting'
  BY <1>6 DEF NewCheck
<1>7. ASSUME NEW p \in Procs, NewPin(p) PROVE Nesting'
  BY <1>7 DEF NewPin
<1>8. ASSUME NEW p \in Procs, NewWorktrees(p) PROVE Nesting'
  BY <1>8 DEF NewWorktrees
<1>9. ASSUME NEW p \in Procs, NewPerimeter(p) PROVE Nesting'
  BY <1>9 DEF NewPerimeter
<1>10. ASSUME NEW p \in Procs, NewSave(p) PROVE Nesting'
  BY <1>10 DEF NewSave
<1>11. ASSUME NEW p \in Procs, NewFail(p) PROVE Nesting'
  BY <1>11 DEF NewFail
<1>12. ASSUME NEW p \in Procs, RefreshLoad(p) PROVE Nesting'
  BY <1>12 DEF RefreshLoad
<1>13. ASSUME NEW p \in Procs, RefreshSave(p) PROVE Nesting'
  BY <1>13 DEF RefreshSave
<1>14. ASSUME NEW p \in Procs, RefreshDone(p) PROVE Nesting'
  BY <1>14 DEF RefreshDone
<1>15. ASSUME NEW p \in Procs, AddLoad(p) PROVE Nesting'
  BY <1>15 DEF AddLoad
<1>16. ASSUME NEW p \in Procs, AddGraft(p) PROVE Nesting'
  BY <1>16 DEF AddGraft
<1>17. ASSUME NEW p \in Procs, AddSave(p) PROVE Nesting'
  BY <1>17 DEF AddSave
<1>18. ASSUME NEW p \in Procs, AddFail(p) PROVE Nesting'
  BY <1>18 DEF AddFail
<1>19. ASSUME NEW p \in Procs, AddSeam(p) PROVE Nesting'
  BY <1>19 DEF AddSeam
<1>20. ASSUME NEW p \in Procs, AddReload(p) PROVE Nesting'
  BY <1>20 DEF AddReload
<1>21. ASSUME NEW p \in Procs, PostLoad(p) PROVE Nesting'
  BY <1>21 DEF PostLoad
<1>22. ASSUME NEW p \in Procs, SeamWithdraw(p) PROVE Nesting'
  BY <1>22 DEF SeamWithdraw
<1>23. ASSUME NEW p \in Procs, SeamSkip(p) PROVE Nesting'
  BY <1>23 DEF SeamSkip
<1>24. ASSUME NEW p \in Procs, SeamScript(p) PROVE Nesting'
  BY <1>24 DEF SeamScript
<1>25. ASSUME NEW p \in Procs, SeamLoad(p) PROVE Nesting'
  BY <1>25 DEF SeamLoad
<1>26. ASSUME NEW p \in Procs, SeamSave(p) PROVE Nesting'
  BY <1>26 DEF SeamSave
<1>27. ASSUME NEW p \in Procs, SeamRestore(p) PROVE Nesting'
  BY <1>27 DEF SeamRestore
<1>28. ASSUME NEW p \in Procs, RmLoad(p) PROVE Nesting'
  BY <1>28 DEF RmLoad
<1>29. ASSUME NEW p \in Procs, RmFence(p) PROVE Nesting'
  BY <1>29 DEF RmFence
<1>30. ASSUME NEW p \in Procs, RmGit(p) PROVE Nesting'
  BY <1>30 DEF RmGit
<1>31. ASSUME NEW p \in Procs, RmDelete(p) PROVE Nesting'
  BY <1>31 DEF RmDelete
<1>32. ASSUME NEW p \in Procs, RmForget(p) PROVE Nesting'
  BY <1>32 DEF RmForget
<1>33. ASSUME NEW p \in Procs, StartLoad(p) PROVE Nesting'
  BY <1>33 DEF StartLoad
<1>34. ASSUME NEW p \in Procs, StartWrite(p) PROVE Nesting'
  BY <1>34 DEF StartWrite
<1>35. ASSUME NEW p \in Procs, StartSave(p) PROVE Nesting'
  BY <1>35 DEF StartSave
<1>36. ASSUME NEW p \in Procs, RepairLoad(p) PROVE Nesting'
  BY <1>36 DEF RepairLoad
<1>37. ASSUME NEW p \in Procs, RepairLinks(p) PROVE Nesting'
  BY <1>37 DEF RepairLinks
<1>38. ASSUME NEW p \in Procs, DoctorList(p) PROVE Nesting'
  BY <1>38 DEF DoctorList
<1>39. ASSUME NEW p \in Procs, DoctorSweep(p) PROVE Nesting'
  BY <1>39 DEF DoctorSweep
<1>40. CASE UNCHANGED vars
  BY <1>40 DEF vars
<1>41. ASSUME NEW p \in Procs, RefreshFails(p) PROVE Nesting'
  BY <1>41 DEF RefreshFails
<1> QED
  BY <1>1, <1>2, <1>3, <1>4, <1>5, <1>6, <1>7, <1>8, <1>9, <1>10, <1>11, <1>12, <1>13, <1>14, <1>15, <1>16, <1>17, <1>18, <1>19, <1>20, <1>21, <1>22, <1>23, <1>24, <1>25, <1>26, <1>27, <1>28, <1>29, <1>30, <1>31, <1>32, <1>33, <1>34, <1>35, <1>36, <1>37, <1>38, <1>39, <1>40, <1>41 DEF Next, Step

\* The property of run Lifecycle_tasks, for every verb and every fault.
THEOREM LocksNest == Spec => []NoCircularWait
<1>1. TypeInv /\ Nesting => NoCircularWait
  BY NoneAssumption DEF TypeInv, TypeOK, LocksOK, InHand, Nesting, NoCircularWait,
     BlockedBy, ContainerWait, TaskWait, TaskStages
<1>2. Spec => [](TypeInv /\ Nesting)
  BY TypeInit, NestingInit, TypeStep, NestingStep, PTL DEF Spec
<1> QED
  BY <1>1, <1>2, PTL
=============================================================================
