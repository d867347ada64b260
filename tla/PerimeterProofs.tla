--------------------------- MODULE PerimeterProofs ---------------------------
(***************************************************************************)
(* Proofs about Perimeter, for any tasks, directories, processes and       *)
(* faults: who may be at the settings files at the same time is left open. *)
(***************************************************************************)
EXTENDS Perimeter, TLAPS

\* A process that is past its load has a task in hand.
InHand ==
  \A p \in Procs : proc[p].pc \in {"list", "check", "write"} => proc[p].cur \in Tasks

\* What a process is still to write is nobody else's file, unless the file
\* came after it had looked, or the record it went by has a hash for it.
Judged(p) ==
  proc[p].pc = "write" =>
    \A d \in proc[p].write :
      LET f == file[proc[p].cur][d]
      IN f \in {Foreign, Link} =>
           d \in proc[p].fresh \/ (d \in proc[p].snap /\ f = Foreign)

Typed == TypeOK /\ InHand
IInv == Typed /\ \A p \in Procs : Judged(p)

-----------------------------------------------------------------------------
\* Documents of wkt's are none of the three other things at a path.
LEMMA KindsDiffer ==
  /\ NoFile \notin Documents /\ Foreign \notin Documents /\ Link \notin Documents
  /\ NoFile # Foreign /\ NoFile # Link /\ Foreign # Link
  /\ \A t \in Tasks, f \in {NoFile, Foreign, Link} : t \notin f.names
<1>1. /\ NoFile.names = {"no file"} /\ Foreign.names = {"foreign"}
      /\ Link.names = {"symlink"}
  BY DEF NoFile, Foreign, Link
<1>2. /\ "no file" \notin Tasks /\ "foreign" \notin Tasks
      /\ "symlink" \notin Tasks
  BY NamesAssumption
<1>3. \A f \in Documents : f.names \subseteq Tasks
  BY DEF Documents
<1>4. NoFile \notin Documents /\ Foreign \notin Documents /\ Link \notin Documents
  BY <1>1, <1>2, <1>3
<1>5. NoFile # Foreign /\ NoFile # Link /\ Foreign # Link
  <2>1. "no file" # "foreign" /\ "no file" # "symlink" /\ "foreign" # "symlink"
    OBVIOUS
  <2> QED
    BY <1>1, <2>1
<1>6. \A t \in Tasks, f \in {NoFile, Foreign, Link} : t \notin f.names
  BY <1>1, <1>2
<1> QED
  BY <1>4, <1>5, <1>6

\* The document for a task is one, and does not name the task.
LEMMA ForTyped ==
  ASSUME NEW t \in Tasks, NEW names \in SUBSET Tasks
  PROVE  For(t, names) \in Documents /\ t \notin For(t, names).names
BY DEF For, Doc, Documents

\* A process at rest.
LEMMA IdleTyped == Idle \in Processes
BY DEF Idle, Processes, Verbs

LEMMA InitTyped == Init => IInv
<1> SUFFICES ASSUME Init PROVE IInv
  OBVIOUS
<1>1. Idle.pc = "idle"
  BY DEF Idle
<1>2. NoRecord \in Records
  BY DEF NoRecord, Records, Doc, Documents
<1>3. TypeOK
  <2>1. file \in [Tasks -> [Dirs -> Files]]
    BY DEF Init, Files
  <2>2. \A t \in Tasks, d \in Dirs : t \notin file[t][d].names
    BY KindsDiffer DEF Init
  <2>3. record \in [Tasks -> Records]
    BY <1>2 DEF Init
  <2>4. proc \in [Procs -> Processes]
    BY IdleTyped DEF Init
  <2> QED
    BY <2>1, <2>2, <2>3, <2>4, EventsBound DEF Init, TypeOK
<1> QED
  BY <1>1, <1>3 DEF Init, IInv, Typed, InHand, Judged

-----------------------------------------------------------------------------
(* Types.                                                                  *)

\* What may stand in for what a process is.
Fit(new) ==
  new \in Processes /\ (new.pc \in {"list", "check", "write"} => new.cur \in Tasks)

LEMMA BecomeTyped ==
  ASSUME Typed, NEW p \in Procs, NEW new, Fit(new), Become(p, new)
  PROVE  proc' \in [Procs -> Processes] /\ InHand'
BY DEF Typed, TypeOK, InHand, Become, Fit

LEMMA IdleFits == Fit(Idle)
BY IdleTyped DEF Fit, Idle

\* Looking on changes nothing of a process but what it has not seen.
LEMMA UnseenTyped ==
  ASSUME Typed, NEW t \in Tasks, NEW D \in SUBSET Dirs, NEW p \in Procs
  PROVE  /\ Unseen(t, D) \in [Procs -> Processes]
         /\ Unseen(t, D)[p].pc = proc[p].pc /\ Unseen(t, D)[p].cur = proc[p].cur
         /\ Unseen(t, D)[p].write = proc[p].write
         /\ Unseen(t, D)[p].snap = proc[p].snap
         /\ proc[p].fresh \subseteq Unseen(t, D)[p].fresh
         /\ proc[p].pc = "write" /\ proc[p].cur = t => D \subseteq Unseen(t, D)[p].fresh
<1>1. \A q \in Procs : proc[q] \in Processes
  BY DEF Typed, TypeOK
<1>2. \A r \in Processes : [r EXCEPT !.fresh = @ \cup D] \in Processes
  BY DEF Processes
<1>3. Unseen(t, D) \in [Procs -> Processes]
  BY <1>1, <1>2 DEF Unseen
<1>4. /\ Unseen(t, D)[p] = IF proc[p].pc = "write" /\ proc[p].cur = t
                              THEN [proc[p] EXCEPT !.fresh = @ \cup D] ELSE proc[p]
  BY DEF Unseen
<1> QED
  BY <1>1, <1>3, <1>4 DEF Processes

\* On to the next task, whichever way: the process waits to load, or rests.
LEMMA NextTaskTyped ==
  ASSUME Typed, NEW p \in Procs, NextTask(p)
  PROVE  \E new : Fit(new) /\ new.pc \in {"load", "idle"} /\ Become(p, new)
<1>1. proc[p] \in Processes
  BY DEF Typed, TypeOK
<1>2. CASE proc[p].todo \ {proc[p].cur} = {}
  <2>1. Become(p, Idle)
    BY <1>2 DEF NextTask, End, Become
  <2> QED
    BY <2>1, IdleFits DEF Idle
<1>3. CASE proc[p].todo \ {proc[p].cur} # {}
  <2> DEFINE new == [Idle EXCEPT !.verb = proc[p].verb, !.pc = "load",
                       !.todo = proc[p].todo \ {proc[p].cur}, !.names = proc[p].names]
  <2>1. Become(p, new)
    BY <1>3 DEF NextTask
  <2>2. new \in Processes /\ new.pc = "load"
    BY <1>1 DEF Processes, Idle
  <2> QED
    BY <2>1, <2>2 DEF Fit
<1> QED
  BY <1>2, <1>3

\* A failing process waits to load or rests as well; it takes away at most a
\* tree's files.
LEMMA FailedTyped ==
  ASSUME Typed, NEW p \in Procs, Failed(p), proc[p].cur \in Tasks
  PROVE  /\ \E new : Fit(new) /\ new.pc \in {"load", "idle"} /\ Become(p, new)
         /\ \A t \in Tasks, d \in Dirs : file'[t][d] \in {file[t][d], NoFile}
         /\ file' \in [Tasks -> [Dirs -> Files]]
<1>1. \E new : Fit(new) /\ new.pc \in {"load", "idle"} /\ Become(p, new)
  <2>1. CASE NextTask(p)
    BY <2>1, NextTaskTyped
  <2>2. CASE End(p)
    BY <2>2, IdleFits DEF End, Become, Idle
  <2> QED
    BY <2>1, <2>2 DEF Failed
<1>2. file \in [Tasks -> [Dirs -> Files]] /\ NoFile \in Files
  BY DEF Typed, TypeOK, Files
<1> QED
  BY <1>1, <1>2 DEF Failed

\* What the files, the records and the tasks are, apart from the processes.
Stored ==
  /\ live \subseteq Tasks
  /\ file \in [Tasks -> [Dirs -> Files]]
  /\ \A t \in Tasks, d \in Dirs : t \notin file[t][d].names
  /\ record \in [Tasks -> Records]
  /\ events \in 0..MaxEvents

LEMMA EventTyped ==
  ASSUME events \in 0..MaxEvents, Event
  PROVE  events' \in 0..MaxEvents /\ events' # events
BY EventsBound DEF Event

\* Something is put at one place of a tree, or a tree's files are all new.
LEMMA FileTyped ==
  ASSUME Stored, NEW t \in Tasks
  PROVE  /\ \A d \in Dirs, f \in Files : t \notin f.names =>
              LET new == [file EXCEPT ![t][d] = f]
              IN /\ new \in [Tasks -> [Dirs -> Files]]
                 /\ \A u \in Tasks, e \in Dirs : u \notin new[u][e].names
         /\ \A fs \in [Dirs -> Files] : (\A d \in Dirs : t \notin fs[d].names) =>
              LET new == [file EXCEPT ![t] = fs]
              IN /\ new \in [Tasks -> [Dirs -> Files]]
                 /\ \A u \in Tasks, e \in Dirs : u \notin new[u][e].names
BY DEF Stored

LEMMA TypedStep == Typed /\ [Next]_vars => Typed'
<1> SUFFICES ASSUME Typed, [Next]_vars PROVE Typed'
  OBVIOUS
<1>0. Stored /\ proc \in [Procs -> Processes] /\ InHand
  BY DEF Typed, TypeOK, Stored
<1>q. SUFFICES Stored' /\ proc' \in [Procs -> Processes] /\ InHand'
  BY DEF Typed, TypeOK, Stored
<1>f. NoFile \in Files /\ Foreign \in Files /\ Link \in Files
  BY DEF Files
<1>n. \A t \in Tasks, f \in {NoFile, Foreign, Link} : t \notin f.names
  BY KindsDiffer
<1>1. ASSUME NEW p \in Procs, NEW t \in Tasks, New(p, t)
      PROVE  Stored' /\ proc' \in [Procs -> Processes] /\ InHand'
  <2>0. PICK has \in SUBSET Dirs : \E own \in SUBSET has :
          /\ file' = [file EXCEPT ![t] =
                        [d \in Dirs |-> IF d \in own THEN Foreign ELSE NoFile]]
          /\ proc' = [Unseen(t, own) EXCEPT ![p] =
               [Idle EXCEPT !.verb = "new", !.pc = "check", !.cur = t, !.has = has,
                            !.joins = Dirs, !.names = live \cup {t}]]
    BY <1>1 DEF New
  <2>1. PICK own \in SUBSET has :
          /\ file' = [file EXCEPT ![t] =
                        [d \in Dirs |-> IF d \in own THEN Foreign ELSE NoFile]]
          /\ proc' = [Unseen(t, own) EXCEPT ![p] =
               [Idle EXCEPT !.verb = "new", !.pc = "check", !.cur = t, !.has = has,
                            !.joins = Dirs, !.names = live \cup {t}]]
    BY <2>0
  <2>o. own \in SUBSET Dirs
    OBVIOUS
  <2> DEFINE new == [Idle EXCEPT !.verb = "new", !.pc = "check", !.cur = t, !.has = has,
                                 !.joins = Dirs, !.names = live \cup {t}]
  <2>2. new \in Processes /\ new.cur = t
    BY <1>0 DEF Stored, Processes, Idle, Verbs
  <2>3. Unseen(t, own) \in [Procs -> Processes]
    BY <2>o, UnseenTyped
  <2>4. proc' \in [Procs -> Processes]
    BY <2>1, <2>2, <2>3
  <2>5. InHand'
    <3>1. \A q \in Procs : Unseen(t, own)[q].pc = proc[q].pc
                           /\ Unseen(t, own)[q].cur = proc[q].cur
      BY <2>o, UnseenTyped
    <3> QED
      BY <1>0, <2>1, <2>2, <2>3, <3>1 DEF InHand
  <2>6. Stored'
    <3>1. events' \in 0..MaxEvents
      BY <1>0, <1>1, EventTyped DEF New, Stored
    <3>2. /\ file' \in [Tasks -> [Dirs -> Files]]
          /\ \A u \in Tasks, e \in Dirs : u \notin file'[u][e].names
      <4> DEFINE fs == [d \in Dirs |-> IF d \in own THEN Foreign ELSE NoFile]
      <4>1. fs \in [Dirs -> Files] /\ \A d \in Dirs : t \notin fs[d].names
        BY <1>f, <1>n
      <4> QED
        BY <1>0, <2>1, <4>1, FileTyped
    <3> QED
      BY <1>0, <1>1, <3>1, <3>2 DEF New, Stored
  <2> QED
    BY <2>4, <2>5, <2>6
<1>12. ASSUME NEW p \in Procs, NEW t \in Tasks, Add(p, t)
       PROVE  Stored' /\ proc' \in [Procs -> Processes] /\ InHand'
  <2>1. PICK d \in Dirs, f \in {NoFile, Foreign} :
          /\ file' = [file EXCEPT ![t][d] = f]
          /\ proc' = [Unseen(t, {d}) EXCEPT ![p] =
               [Idle EXCEPT !.verb = "add", !.pc = "list", !.cur = t,
                            !.has = record[t].has \cup {d},
                            !.snap = record[t].dirs, !.joins = {d}]]
    BY <1>12 DEF Add
  <2> DEFINE new == [Idle EXCEPT !.verb = "add", !.pc = "list", !.cur = t,
                                 !.has = record[t].has \cup {d},
                                 !.snap = record[t].dirs, !.joins = {d}]
  <2>2. new \in Processes /\ new.cur = t
    <3>1. record[t].has \in SUBSET Dirs /\ record[t].dirs \in SUBSET Dirs
      BY <1>0 DEF Stored, Records
    <3> QED
      BY <3>1 DEF Processes, Idle, Verbs
  <2>3. Unseen(t, {d}) \in [Procs -> Processes]
    BY UnseenTyped
  <2>4. proc' \in [Procs -> Processes]
    BY <2>1, <2>2, <2>3
  <2>5. InHand'
    <3>1. \A q \in Procs : Unseen(t, {d})[q].pc = proc[q].pc
                           /\ Unseen(t, {d})[q].cur = proc[q].cur
      BY UnseenTyped
    <3> QED
      BY <1>0, <2>1, <2>2, <2>3, <3>1 DEF InHand
  <2>6. /\ file' \in [Tasks -> [Dirs -> Files]]
        /\ \A u \in Tasks, e \in Dirs : u \notin file'[u][e].names
    BY <1>0, <1>f, <1>n, <2>1, FileTyped
  <2>7. events' \in 0..MaxEvents
    BY <1>0, <1>12, EventTyped DEF Add, Stored
  <2> QED
    BY <1>0, <1>12, <2>4, <2>5, <2>6, <2>7 DEF Add, Stored
<1>13. ASSUME NEW p \in Procs, List(p)
       PROVE  Stored' /\ proc' \in [Procs -> Processes] /\ InHand'
  <2> DEFINE new == [proc[p] EXCEPT !.pc = "check", !.names = live]
  <2>1. proc[p] \in Processes /\ proc[p].cur \in Tasks
    BY <1>0, <1>13 DEF List, InHand
  <2>2. Fit(new)
    BY <1>0, <2>1 DEF Fit, Processes, Stored
  <2>3. proc' \in [Procs -> Processes] /\ InHand'
    BY <1>13, <2>2, BecomeTyped DEF List
  <2> QED
    BY <1>0, <1>13, <2>3 DEF List, Stored
<1>2. ASSUME NEW p \in Procs, NEW t \in Tasks, Rm(p, t)
      PROVE  Stored' /\ proc' \in [Procs -> Processes] /\ InHand'
  <2> DEFINE new == [Idle EXCEPT !.verb = "rm", !.pc = "load", !.todo = live',
                                 !.names = live']
  <2>1. new \in Processes /\ new.pc = "load"
    BY <1>0, <1>2 DEF Rm, Stored, Processes, Idle, Verbs
  <2>2. proc' \in [Procs -> Processes] /\ InHand'
    <3>1. CASE live' = {}
      BY <1>0, <1>2, <3>1 DEF Rm, InHand
    <3>2. CASE live' # {}
      BY <1>2, <2>1, <3>2, BecomeTyped DEF Rm, Fit
    <3> QED
      BY <3>1, <3>2
  <2>3. /\ file' \in [Tasks -> [Dirs -> Files]]
        /\ \A u \in Tasks, e \in Dirs : u \notin file'[u][e].names
    <3> DEFINE fs == [d \in Dirs |-> NoFile]
    <3>1. fs \in [Dirs -> Files] /\ \A d \in Dirs : t \notin fs[d].names
      BY <1>f, <1>n
    <3> QED
      BY <1>0, <1>2, <3>1, FileTyped DEF Rm
  <2>4. events' \in 0..MaxEvents
    BY <1>0, <1>2, EventTyped DEF Rm, Stored
  <2>5. NoRecord \in Records
    BY DEF NoRecord, Records, Doc, Documents
  <2>6. Stored'
    BY <1>0, <1>2, <2>3, <2>4, <2>5 DEF Rm, Stored
  <2> QED
    BY <2>2, <2>6
<1>3. ASSUME NEW p \in Procs, NEW t \in Tasks, SessionStart(p, t)
      PROVE  Stored' /\ proc' \in [Procs -> Processes] /\ InHand'
  <2> DEFINE new == [Idle EXCEPT !.verb = "session-start", !.pc = "load", !.todo = {t}]
  <2>1. new \in Processes /\ new.pc = "load"
    BY DEF Processes, Idle, Verbs
  <2>2. proc' \in [Procs -> Processes] /\ InHand'
    BY <1>3, <2>1, BecomeTyped DEF SessionStart, Fit
  <2> QED
    BY <1>0, <1>3, <2>2 DEF SessionStart, Stored
<1>4. ASSUME NEW p \in Procs, NEW todo \in SUBSET live, Perimeter(p, todo)
      PROVE  Stored' /\ proc' \in [Procs -> Processes] /\ InHand'
  <2> DEFINE new == [Idle EXCEPT !.verb = "perimeter", !.pc = "load", !.todo = todo]
  <2>1. new \in Processes /\ new.pc = "load"
    BY <1>0 DEF Stored, Processes, Idle, Verbs
  <2>2. proc' \in [Procs -> Processes] /\ InHand'
    BY <1>4, <2>1, BecomeTyped DEF Perimeter, Fit
  <2>3. events' \in 0..MaxEvents
    BY <1>0, <1>4, EventTyped DEF Perimeter, Stored
  <2> QED
    BY <1>0, <1>4, <2>2, <2>3 DEF Perimeter, Stored
<1>5. ASSUME NEW p \in Procs, Load(p)
      PROVE  Stored' /\ proc' \in [Procs -> Processes] /\ InHand'
  <2>1. PICK t \in proc[p].todo :
          IF t \in live
            THEN Become(p, [proc[p] EXCEPT
                   !.pc = "check", !.cur = t,
                   !.has = record[t].has, !.snap = record[t].dirs,
                   !.names = IF proc[p].verb \in Locked THEN @ ELSE live])
            ELSE IF proc[p].verb \in Locked /\ proc[p].todo # {t}
              THEN Become(p, [proc[p] EXCEPT !.todo = @ \ {t}])
              ELSE End(p)
    BY <1>5 DEF Load
  <2>2. proc[p] \in Processes /\ proc[p].pc = "load" /\ t \in Tasks
    BY <1>0, <1>5 DEF Load, Processes
  <2>3. proc' \in [Procs -> Processes] /\ InHand'
    <3>1. CASE t \in live
      <4> DEFINE new == [proc[p] EXCEPT
                   !.pc = "check", !.cur = t,
                   !.has = record[t].has, !.snap = record[t].dirs,
                   !.names = IF proc[p].verb \in Locked THEN @ ELSE live]
      <4>1. Fit(new)
        BY <1>0, <2>2 DEF Fit, Processes, Stored, Records
      <4> QED
        BY <2>1, <3>1, <4>1, BecomeTyped
    <3>2. CASE t \notin live /\ proc[p].verb \in Locked /\ proc[p].todo # {t}
      <4> DEFINE new == [proc[p] EXCEPT !.todo = @ \ {t}]
      <4>1. Fit(new)
        BY <2>2 DEF Fit, Processes
      <4> QED
        BY <2>1, <3>2, <4>1, BecomeTyped
    <3>3. CASE t \notin live /\ ~(proc[p].verb \in Locked /\ proc[p].todo # {t})
      <4>1. Become(p, Idle)
        BY <2>1, <3>3 DEF End, Become
      <4> QED
        BY <4>1, IdleFits, BecomeTyped
    <3> QED
      BY <3>1, <3>2, <3>3
  <2> QED
    BY <1>0, <1>5, <2>3 DEF Load, Stored
<1>6. ASSUME NEW p \in Procs, Check(p)
      PROVE  Stored' /\ proc' \in [Procs -> Processes] /\ InHand'
  <2>1. proc[p] \in Processes /\ proc[p].cur \in Tasks
    BY <1>0, <1>6 DEF Check, InHand
  <2>2. CASE TooLarge(proc[p].cur, proc[p].names)
    <3>1. Failed(p)
      BY <1>6, <2>2 DEF Check
    <3>2. PICK new : Fit(new) /\ Become(p, new)
      BY <2>1, <3>1, FailedTyped
    <3>3. proc' \in [Procs -> Processes] /\ InHand'
      BY <3>2, BecomeTyped
    <3>4. /\ \A u \in Tasks, d \in Dirs : file'[u][d] \in {file[u][d], NoFile}
          /\ file' \in [Tasks -> [Dirs -> Files]]
      BY <2>1, <3>1, FailedTyped
    <3> QED
      BY <1>0, <1>6, <1>n, <3>3, <3>4 DEF Check, Stored
  <2>3. CASE ~TooLarge(proc[p].cur, proc[p].names)
    <3> DEFINE new == [proc[p] EXCEPT !.pc = "write", !.write =
                 {d \in proc[p].has : Owned(file[proc[p].cur][d], d, proc[p].snap)}]
    <3>1. Become(p, new) /\ UNCHANGED <<file, live, record, events>>
      BY <1>6, <2>3 DEF Check
    <3>2. Fit(new)
      BY <2>1 DEF Fit, Processes
    <3>3. proc' \in [Procs -> Processes] /\ InHand'
      BY <3>1, <3>2, BecomeTyped
    <3> QED
      BY <1>0, <3>1, <3>3 DEF Stored
  <2> QED
    BY <2>2, <2>3
<1>7. ASSUME NEW p \in Procs, Put(p)
      PROVE  Stored' /\ proc' \in [Procs -> Processes] /\ InHand'
  <2>1. proc[p] \in Processes /\ proc[p].cur \in Tasks /\ proc[p].pc = "write"
    BY <1>0, <1>7 DEF Put, InHand
  <2>2. PICK d \in proc[p].write :
          /\ file' = [file EXCEPT ![proc[p].cur][d] = For(proc[p].cur, proc[p].names)]
          /\ Become(p, [proc[p] EXCEPT !.write = @ \ {d}, !.put = @ \cup {d}])
    BY <1>7 DEF Put
  <2> DEFINE new == [proc[p] EXCEPT !.write = @ \ {d}, !.put = @ \cup {d}]
  <2>3. Fit(new) /\ d \in Dirs /\ proc[p].names \in SUBSET Tasks
    BY <2>1 DEF Fit, Processes
  <2>4. proc' \in [Procs -> Processes] /\ InHand'
    BY <2>2, <2>3, BecomeTyped
  <2>5. /\ For(proc[p].cur, proc[p].names) \in Files
        /\ proc[p].cur \notin For(proc[p].cur, proc[p].names).names
    BY <2>1, <2>3, ForTyped DEF Files
  <2>6. /\ file' \in [Tasks -> [Dirs -> Files]]
        /\ \A u \in Tasks, e \in Dirs : u \notin file'[u][e].names
    BY <1>0, <2>1, <2>2, <2>3, <2>5, FileTyped
  <2> QED
    BY <1>0, <1>7, <2>4, <2>6 DEF Put, Stored
<1>8. ASSUME NEW p \in Procs, PutFails(p)
      PROVE  Stored' /\ proc' \in [Procs -> Processes] /\ InHand'
  <2>1. proc[p].cur \in Tasks /\ Failed(p)
    BY <1>0, <1>8 DEF PutFails, InHand
  <2>2. PICK new : Fit(new) /\ Become(p, new)
    BY <2>1, FailedTyped
  <2>3. proc' \in [Procs -> Processes] /\ InHand'
    BY <2>2, BecomeTyped
  <2>4. /\ \A u \in Tasks, d \in Dirs : file'[u][d] \in {file[u][d], NoFile}
        /\ file' \in [Tasks -> [Dirs -> Files]]
    BY <2>1, FailedTyped
  <2>5. events' \in 0..MaxEvents
    BY <1>0, <1>8, EventTyped DEF PutFails, Stored
  <2> QED
    BY <1>0, <1>8, <1>n, <2>3, <2>4, <2>5 DEF PutFails, Stored
<1>9. ASSUME NEW p \in Procs, Save(p)
      PROVE  Stored' /\ proc' \in [Procs -> Processes] /\ InHand'
  <2>1. proc[p] \in Processes /\ proc[p].cur \in Tasks
    BY <1>0, <1>9 DEF Save, InHand
  <2>2. proc' \in [Procs -> Processes] /\ InHand'
    <3>1. CASE NextTask(p)
      BY <3>1, NextTaskTyped, BecomeTyped
    <3>2. CASE Become(p, [Idle EXCEPT !.verb = "new", !.pc = "load",
                                      !.todo = live, !.names = live'])
      <4>1. Fit([Idle EXCEPT !.verb = "new", !.pc = "load",
                             !.todo = live, !.names = live'])
        BY <1>0, <1>9, <2>1 DEF Save, Stored, Fit, Processes, Idle, Verbs
      <4> QED
        BY <3>2, <4>1, BecomeTyped
    <3> QED
      BY <1>9, <3>1, <3>2 DEF Save
  <2>3. [has |-> proc[p].has, dirs |-> proc[p].put,
         doc |-> For(proc[p].cur, proc[p].names)] \in Records
    BY <2>1, ForTyped DEF Processes, Records
  <2> QED
    BY <1>0, <1>9, <2>1, <2>2, <2>3 DEF Save, Stored
<1>10. ASSUME NEW t \in Tasks, NEW d \in Dirs, Agent(t, d)
       PROVE  Stored' /\ proc' \in [Procs -> Processes] /\ InHand'
  <2> DEFINE edited == [Doc({}) EXCEPT !.edited = TRUE]
  <2>1. PICK f \in {NoFile, Foreign, Link, edited} : file' = [file EXCEPT ![t][d] = f]
    BY <1>10 DEF Agent
  <2>2. edited \in Files /\ t \notin edited.names
    BY DEF Doc, Documents, Files
  <2>3. /\ file' \in [Tasks -> [Dirs -> Files]]
        /\ \A u \in Tasks, e \in Dirs : u \notin file'[u][e].names
    BY <1>0, <1>f, <1>n, <2>1, <2>2, FileTyped
  <2>4. proc' \in [Procs -> Processes] /\ InHand'
    <3>1. \A q \in Procs : Unseen(t, {d})[q].pc = proc[q].pc
                           /\ Unseen(t, {d})[q].cur = proc[q].cur
      BY UnseenTyped
    <3>2. Unseen(t, {d}) \in [Procs -> Processes]
      <4>1. CASE Procs = {}
        BY <4>1 DEF Unseen
      <4>2. CASE Procs # {}
        BY <4>2, UnseenTyped
      <4> QED
        BY <4>1, <4>2
    <3> QED
      BY <1>0, <1>10, <3>1, <3>2 DEF Agent, InHand
  <2>5. events' \in 0..MaxEvents
    BY <1>0, <1>10, EventTyped DEF Agent, Stored
  <2> QED
    BY <1>0, <1>10, <2>3, <2>4, <2>5 DEF Agent, Stored
<1>11. CASE UNCHANGED vars
  BY <1>0, <1>11 DEF vars, Stored, InHand
<1> QED
  BY <1>1, <1>2, <1>3, <1>4, <1>5, <1>6, <1>7, <1>8, <1>9, <1>10, <1>11, <1>12, <1>13
     DEF Next

\* The settings files, the records and the processes keep their types, and no
\* copy ever denies a task its own tree.
THEOREM PerimeterTyped == Spec => []TypeOK
<1>1. Init => Typed
  BY InitTyped DEF IInv
<1>2. Typed /\ [Next]_vars => Typed'
  BY TypedStep
<1>3. Typed => TypeOK
  BY DEF Typed
<1> QED
  BY <1>1, <1>2, <1>3, PTL DEF Spec

-----------------------------------------------------------------------------
(* Nobody's own file is written over.                                      *)

\* What a process p goes by stays good while others act: what is put in its
\* task's tree is wkt's, or nothing, or p is told of it.
LEMMA StaysJudged ==
  ASSUME Typed, NEW p \in Procs, Judged(p),
         proc[p].pc = "write" =>
           /\ proc'[p].cur = proc[p].cur /\ proc'[p].snap = proc[p].snap
           /\ proc'[p].write \subseteq proc[p].write
           /\ proc[p].fresh \subseteq proc'[p].fresh
           /\ \A d \in Dirs :
                \/ file'[proc[p].cur][d] \in {file[proc[p].cur][d], NoFile}
                \/ file'[proc[p].cur][d] \in Documents
                \/ d \in proc'[p].fresh,
         proc'[p].pc = "write" => proc[p].pc = "write"
  PROVE  Judged(p)'
<1>1. proc[p].write \subseteq Dirs
  BY DEF Typed, TypeOK, Processes
<1> QED
  BY <1>1, KindsDiffer DEF Judged

\* A process that others leave alone.
LEMMA LeftAlone ==
  ASSUME Typed, NEW p \in Procs, NEW q \in Procs, NEW new, q # p, Become(p, new)
  PROVE  proc'[q] = proc[q]
BY DEF Become, Typed, TypeOK

LEMMA JudgedStep ==
  ASSUME IInv, [Next]_vars, NEW q \in Procs
  PROVE  Judged(q)'
<1>0. Typed /\ Judged(q) /\ proc \in [Procs -> Processes]
      /\ file \in [Tasks -> [Dirs -> Files]]
  BY DEF IInv, Typed, TypeOK
<1>h. proc[q].pc = "write" => proc[q].cur \in Tasks
  BY <1>0 DEF Typed, InHand
\* Where the files stay and q's process does, or it is not writing then.
<1>s. ASSUME UNCHANGED file, proc'[q] = proc[q] \/ proc'[q].pc # "write"
      PROVE  Judged(q)'
  BY <1>0, <1>s DEF Judged
<1>1. ASSUME NEW p \in Procs, NEW t \in Tasks, New(p, t) PROVE Judged(q)'
  <2>0. PICK has \in SUBSET Dirs : \E own \in SUBSET has :
          /\ file' = [file EXCEPT ![t] =
                        [d \in Dirs |-> IF d \in own THEN Foreign ELSE NoFile]]
          /\ proc' = [Unseen(t, own) EXCEPT ![p] =
               [Idle EXCEPT !.verb = "new", !.pc = "check", !.cur = t, !.has = has,
                            !.joins = Dirs, !.names = live \cup {t}]]
    BY <1>1 DEF New
  <2>1. PICK own \in SUBSET has :
          /\ file' = [file EXCEPT ![t] =
                        [d \in Dirs |-> IF d \in own THEN Foreign ELSE NoFile]]
          /\ proc' = [Unseen(t, own) EXCEPT ![p] =
               [Idle EXCEPT !.verb = "new", !.pc = "check", !.cur = t, !.has = has,
                            !.joins = Dirs, !.names = live \cup {t}]]
    BY <2>0
  <2>o. own \in SUBSET Dirs
    OBVIOUS
  <2>2. Unseen(t, own) \in [Procs -> Processes]
    BY <1>0, <2>o, UnseenTyped
  <2>3. CASE p = q
    <3>1. proc'[q].pc = "check"
      BY <2>1, <2>2, <2>3 DEF Idle
    <3> QED
      BY <3>1 DEF Judged
  <2>4. CASE p # q
    <3>1. proc'[q] = Unseen(t, own)[q]
      BY <2>1, <2>2, <2>4
    <3>2. \A d \in Dirs \ own : file'[t][d] = NoFile
      BY <1>0, <2>1
    <3>3. \A u \in Tasks \ {t} : file'[u] = file[u]
      BY <1>0, <2>1
    <3> QED
      BY <1>0, <1>h, <2>o, <3>1, <3>2, <3>3, UnseenTyped, StaysJudged
  <2> QED
    BY <2>3, <2>4
<1>12. ASSUME NEW p \in Procs, NEW t \in Tasks, Add(p, t) PROVE Judged(q)'
  <2>1. PICK d \in Dirs, f \in {NoFile, Foreign} :
          /\ file' = [file EXCEPT ![t][d] = f]
          /\ proc' = [Unseen(t, {d}) EXCEPT ![p] =
               [Idle EXCEPT !.verb = "add", !.pc = "list", !.cur = t,
                            !.has = record[t].has \cup {d},
                            !.snap = record[t].dirs, !.joins = {d}]]
    BY <1>12 DEF Add
  <2>2. Unseen(t, {d}) \in [Procs -> Processes]
    BY <1>0, UnseenTyped
  <2>3. CASE p = q
    <3>1. proc'[q].pc = "list"
      BY <2>1, <2>2, <2>3 DEF Idle
    <3> QED
      BY <3>1 DEF Judged
  <2>4. CASE p # q
    <3>1. proc'[q] = Unseen(t, {d})[q]
      BY <2>1, <2>2, <2>4
    <3>2. \A u \in Tasks, e \in Dirs : file'[u][e] = file[u][e] \/ (u = t /\ e = d)
      BY <1>0, <2>1
    <3>3. /\ proc'[q].pc = proc[q].pc /\ proc'[q].cur = proc[q].cur
          /\ proc'[q].write = proc[q].write /\ proc'[q].snap = proc[q].snap
          /\ proc[q].fresh \subseteq proc'[q].fresh
          /\ proc[q].pc = "write" /\ proc[q].cur = t => d \in proc'[q].fresh
      BY <1>0, <3>1, UnseenTyped
    <3> QED
      BY <1>0, <1>h, <3>2, <3>3, StaysJudged
  <2> QED
    BY <2>3, <2>4
<1>13. ASSUME NEW p \in Procs, List(p) PROVE Judged(q)'
  <2>1. proc[p] \in Processes /\ proc[p].pc = "list" /\ UNCHANGED file
    BY <1>0, <1>13 DEF List
  <2>2. proc'[q] = proc[q] \/ proc'[q].pc # "write"
    BY <1>0, <1>13, <2>1 DEF List, Become, Processes
  <2> QED
    BY <1>s, <2>1, <2>2
<1>2. ASSUME NEW p \in Procs, NEW t \in Tasks, Rm(p, t) PROVE Judged(q)'
  <2>1. file' = [file EXCEPT ![t] = [d \in Dirs |-> NoFile]]
    BY <1>2 DEF Rm
  <2>2. \A u \in Tasks, d \in Dirs : file'[u][d] \in {file[u][d], NoFile}
    BY <1>0, <2>1
  <2>3. proc'[q] = proc[q] \/ proc'[q].pc # "write"
    BY <1>0, <1>2 DEF Rm, Become, Idle
  <2> QED
    BY <1>0, <1>h, <2>2, <2>3, StaysJudged DEF Judged
<1>3. ASSUME NEW p \in Procs, NEW t \in Tasks, SessionStart(p, t) PROVE Judged(q)'
  BY <1>0, <1>s, <1>3 DEF SessionStart, Become, Idle
<1>4. ASSUME NEW p \in Procs, NEW todo \in SUBSET live, Perimeter(p, todo)
      PROVE  Judged(q)'
  BY <1>0, <1>s, <1>4 DEF Perimeter, Become, Idle
<1>5. ASSUME NEW p \in Procs, Load(p) PROVE Judged(q)'
  <2>1. proc[p] \in Processes /\ proc[p].pc = "load"
    BY <1>0, <1>5 DEF Load
  <2>2. proc'[q] = proc[q] \/ proc'[q].pc # "write"
    <3>1. PICK new : Become(p, new) /\ new.pc # "write"
      <4>1. PICK t \in proc[p].todo :
              \/ Become(p, [proc[p] EXCEPT
                   !.pc = "check", !.cur = t,
                   !.has = record[t].has, !.snap = record[t].dirs,
                   !.names = IF proc[p].verb \in Locked THEN @ ELSE live])
              \/ Become(p, [proc[p] EXCEPT !.todo = @ \ {t}])
              \/ Become(p, Idle)
        BY <1>5 DEF Load, End, Become
      <4>2. \A S, c, n, D, E :
              /\ [proc[p] EXCEPT !.pc = "check", !.cur = c, !.has = E, !.snap = D,
                                !.names = n].pc = "check"
              /\ [proc[p] EXCEPT !.todo = S].pc = "load"
        BY <2>1 DEF Processes
      <4>3. Idle.pc = "idle"
        BY DEF Idle
      <4> QED
        BY <4>1, <4>2, <4>3
    <3> QED
      BY <1>0, <3>1, LeftAlone DEF Become
  <2> QED
    BY <1>5, <1>s, <2>2 DEF Load
<1>6. ASSUME NEW p \in Procs, Check(p) PROVE Judged(q)'
  <2>1. proc[p] \in Processes /\ proc[p].cur \in Tasks
    BY <1>0, <1>6 DEF Check, Typed, InHand
  <2>2. CASE TooLarge(proc[p].cur, proc[p].names)
    <3>1. Failed(p)
      BY <1>6, <2>2 DEF Check
    <3>2. PICK new : Fit(new) /\ new.pc \in {"load", "idle"} /\ Become(p, new)
      BY <1>0, <2>1, <3>1, FailedTyped
    <3>3. proc'[q] = proc[q] \/ proc'[q].pc # "write"
      BY <1>0, <3>2, LeftAlone DEF Become
    <3>4. \A u \in Tasks, d \in Dirs : file'[u][d] \in {file[u][d], NoFile}
      BY <1>0, <2>1, <3>1, FailedTyped
    <3> QED
      BY <1>0, <1>h, <3>3, <3>4, StaysJudged DEF Judged
  <2>3. CASE ~TooLarge(proc[p].cur, proc[p].names)
    <3> DEFINE new == [proc[p] EXCEPT !.pc = "write", !.write =
                 {d \in proc[p].has : Owned(file[proc[p].cur][d], d, proc[p].snap)}]
    <3>1. Become(p, new) /\ UNCHANGED file
      BY <1>6, <2>3 DEF Check
    <3>2. CASE q # p
      BY <1>0, <1>s, <3>1, <3>2, LeftAlone
    <3>3. CASE q = p
      <4>1. /\ proc'[q].cur = proc[p].cur /\ proc'[q].snap = proc[p].snap
            /\ proc'[q].write =
                 {d \in proc[p].has : Owned(file[proc[p].cur][d], d, proc[p].snap)}
        BY <1>0, <2>1, <3>1, <3>3 DEF Become, Processes
      <4> QED
        BY <3>1, <4>1, KindsDiffer DEF Judged, Owned
    <3> QED
      BY <3>2, <3>3
  <2> QED
    BY <2>2, <2>3
<1>7. ASSUME NEW p \in Procs, Put(p) PROVE Judged(q)'
  <2>1. proc[p] \in Processes /\ proc[p].cur \in Tasks /\ proc[p].pc = "write"
    BY <1>0, <1>7 DEF Put, Typed, InHand
  <2>2. PICK d \in proc[p].write :
          /\ file' = [file EXCEPT ![proc[p].cur][d] = For(proc[p].cur, proc[p].names)]
          /\ Become(p, [proc[p] EXCEPT !.write = @ \ {d}, !.put = @ \cup {d}])
    BY <1>7 DEF Put
  <2>3. For(proc[p].cur, proc[p].names) \in Documents
    BY <2>1, ForTyped DEF Processes
  <2>4. \A u \in Tasks, e \in Dirs :
          file'[u][e] = file[u][e] \/ file'[u][e] \in Documents
    BY <1>0, <2>2, <2>3
  <2>5. /\ proc'[q].cur = proc[q].cur /\ proc'[q].snap = proc[q].snap
        /\ proc'[q].write \subseteq proc[q].write
        /\ proc'[q].fresh = proc[q].fresh /\ proc'[q].pc = proc[q].pc
    BY <1>0, <2>1, <2>2 DEF Become, Processes
  <2> QED
    BY <1>0, <1>h, <2>4, <2>5, StaysJudged
<1>8. ASSUME NEW p \in Procs, PutFails(p) PROVE Judged(q)'
  <2>1. proc[p].cur \in Tasks /\ Failed(p)
    BY <1>0, <1>8 DEF PutFails, Typed, InHand
  <2>2. PICK new : Fit(new) /\ new.pc \in {"load", "idle"} /\ Become(p, new)
    BY <1>0, <2>1, FailedTyped
  <2>3. proc'[q] = proc[q] \/ proc'[q].pc # "write"
    BY <1>0, <2>2, LeftAlone DEF Become
  <2>4. \A u \in Tasks, d \in Dirs : file'[u][d] \in {file[u][d], NoFile}
    BY <1>0, <2>1, FailedTyped
  <2> QED
    BY <1>0, <1>h, <2>3, <2>4, StaysJudged DEF Judged
<1>9. ASSUME NEW p \in Procs, Save(p) PROVE Judged(q)'
  <2>1. proc'[q] = proc[q] \/ proc'[q].pc # "write"
    <3>1. CASE NextTask(p)
      <4>1. PICK new : new.pc \in {"load", "idle"} /\ Become(p, new)
        BY <1>0, <3>1, NextTaskTyped
      <4> QED
        BY <1>0, <4>1, LeftAlone DEF Become
    <3>2. CASE Become(p, [Idle EXCEPT !.verb = "new", !.pc = "load",
                                      !.todo = live, !.names = live'])
      BY <1>0, <3>2 DEF Become, Idle
    <3> QED
      BY <1>9, <3>1, <3>2 DEF Save
  <2> QED
    BY <1>9, <1>s, <2>1 DEF Save
<1>10. ASSUME NEW t \in Tasks, NEW d \in Dirs, Agent(t, d) PROVE Judged(q)'
  <2>1. proc' = Unseen(t, {d})
    BY <1>10 DEF Agent
  <2>2. PICK f : file' = [file EXCEPT ![t][d] = f]
    BY <1>10 DEF Agent
  <2>3. \A u \in Tasks, e \in Dirs :
          file'[u][e] = file[u][e] \/ (u = t /\ e = d)
    BY <1>0, <2>2
  <2>4. /\ proc'[q].pc = proc[q].pc /\ proc'[q].cur = proc[q].cur
        /\ proc'[q].write = proc[q].write /\ proc'[q].snap = proc[q].snap
        /\ proc[q].fresh \subseteq proc'[q].fresh
        /\ proc[q].pc = "write" /\ proc[q].cur = t => d \in proc'[q].fresh
    BY <1>0, <2>1, UnseenTyped
  <2> QED
    BY <1>0, <1>h, <2>3, <2>4, StaysJudged
<1>11. CASE UNCHANGED vars
  BY <1>0, <1>11 DEF vars, Judged
<1> QED
  BY <1>1, <1>2, <1>3, <1>4, <1>5, <1>6, <1>7, <1>8, <1>9, <1>10, <1>11, <1>12, <1>13
     DEF Next

\* The step that writes over another's file is a Put of a process that had
\* it judged; every other step leaves the file, or is an event.
LEMMA OnlyJudged ==
  ASSUME IInv, [Next]_vars, NEW t \in Tasks, NEW d \in Dirs,
         file[t][d] \in {Foreign, Link}, file'[t][d] \in Documents,
         events' = events
  PROVE  \E p \in Procs :
           /\ proc[p].cur = t /\ d \in proc[p].write \ proc'[p].write
           /\ \/ d \in proc[p].fresh
              \/ d \in proc[p].snap /\ file[t][d] = Foreign
<1>0. Typed /\ proc \in [Procs -> Processes] /\ events \in 0..MaxEvents
      /\ file \in [Tasks -> [Dirs -> Files]]
  BY DEF IInv, Typed, TypeOK
<1>e. ~Event
  BY <1>0, EventTyped
<1>f. file'[t][d] # file[t][d] /\ file'[t][d] # NoFile
  BY KindsDiffer
<1>1. \A p \in Procs, u \in Tasks : ~New(p, u) /\ ~Add(p, u) /\ ~Rm(p, u)
  BY <1>e DEF New, Add, Rm
<1>2. \A p \in Procs, u \in Tasks : ~SessionStart(p, u)
  BY <1>f DEF SessionStart
<1>3. \A p \in Procs : \A todo \in SUBSET live : ~Perimeter(p, todo)
  BY <1>e DEF Perimeter
<1>4. \A p \in Procs : ~List(p) /\ ~Load(p) /\ ~PutFails(p) /\ ~Save(p)
  BY <1>e, <1>f DEF List, Load, PutFails, Save
<1>5. \A p \in Procs : ~Check(p)
  <2> SUFFICES ASSUME NEW p \in Procs, Check(p) PROVE FALSE
    OBVIOUS
  <2>1. proc[p].cur \in Tasks /\ (Failed(p) \/ UNCHANGED file)
    BY <1>0 DEF Check, Typed, InHand
  <2> QED
    BY <1>0, <1>f, <2>1, FailedTyped
<1>6. \A u \in Tasks, e \in Dirs : ~Agent(u, e)
  BY <1>e DEF Agent
<1>7. ~UNCHANGED vars
  BY <1>f DEF vars
<1>8. PICK p \in Procs : Put(p)
  BY <1>1, <1>2, <1>3, <1>4, <1>5, <1>6, <1>7 DEF Next
<1>9. proc[p] \in Processes /\ proc[p].cur \in Tasks /\ proc[p].pc = "write"
  BY <1>0, <1>8 DEF Put, Typed, InHand
<1>10. PICK e \in proc[p].write :
         /\ file' = [file EXCEPT ![proc[p].cur][e] = For(proc[p].cur, proc[p].names)]
         /\ Become(p, [proc[p] EXCEPT !.write = @ \ {e}, !.put = @ \cup {e}])
  BY <1>8 DEF Put
<1>11. proc[p].cur = t /\ e = d
  BY <1>0, <1>9, <1>10, <1>f
<1>12. d \in proc[p].write \ proc'[p].write
  BY <1>0, <1>9, <1>10, <1>11 DEF Become, Processes
<1>13. d \in proc[p].fresh \/ (d \in proc[p].snap /\ file[t][d] = Foreign)
  BY <1>9, <1>11, <1>12 DEF IInv, Judged
<1> QED
  BY <1>11, <1>12, <1>13

\* Whoever writes the copies, and however many do at once, with or without
\* the lock: a settings file of the repository's or the user's own is written
\* over only if it came after the writer had looked, or was once wkt's.
THEOREM ForeignFilesSpared == Spec => ForeignSpared
<1>1. Init => IInv
  BY InitTyped
<1>2. IInv /\ [Next]_vars => IInv'
  BY TypedStep, JudgedStep DEF IInv
<1>3. IInv /\ [Next]_vars =>
        [\A t \in Tasks, d \in Dirs :
           file[t][d] \in {Foreign, Link} /\ file'[t][d] \in Documents /\ events' = events
             => \E p \in Procs :
                  /\ proc[p].cur = t /\ d \in proc[p].write \ proc'[p].write
                  /\ \/ d \in proc[p].fresh
                     \/ d \in proc[p].snap /\ file[t][d] = Foreign]_vars
  BY OnlyJudged
<1> QED
  BY <1>1, <1>2, <1>3, PTL DEF Spec, ForeignSpared
=============================================================================
