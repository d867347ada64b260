------------------------------ MODULE Perimeter ------------------------------
(***************************************************************************)
(* The settings files in the trees.  Every tree directory a session may    *)
(* start in (the root and each repository) gets a copy of a document that  *)
(* names all other tasks; the record keeps which directories have one and  *)
(* the hash they were written with.  The copies are written by wkt new and *)
(* rm for every task, by wkt add for one, by wkt perimeter, by wkt repair  *)
(* after a move and by the session-start hook; the last three take no      *)
(* lock.  The directories are the agent's: he edits and deletes the files,  *)
(* and a git checkout may bring the repository's own.                       *)
(***************************************************************************)
EXTENDS Integers, FiniteSets

CONSTANTS
  Tasks,      \* task names
  Dirs,       \* the directories of a tree that a copy belongs in
  Procs,      \* wkt processes
  Wide,       \* tasks with so many repositories that the rules for those
              \* leave no room under MaxPaths
  MaxEvents,  \* bound: tasks made, extended and removed, wkt perimeter run,
              \* writes that fail, changes by agents
  None,       \* no task
  Faults      \* what may go wrong: "write"

ASSUME WideAssumption == Wide \subseteq Tasks
ASSUME EventsBound == MaxEvents \in Nat
ASSUME NoneAssumption == None \notin Tasks
ASSUME FaultsAssumption == Faults \subseteq {"write"}
ASSUME NamesAssumption == Tasks \cap {"no file", "foreign", "symlink"} = {}

\* A document is known by the siblings it names, and is "edited" once it is
\* not what its hash says.
Documents == [names : SUBSET Tasks, edited : BOOLEAN]
Doc(names) == [names |-> names, edited |-> FALSE]

\* Nothing there; a file without wkt's marker; a symlink.
NoFile == [names |-> {"no file"}, edited |-> FALSE]
Foreign == [names |-> {"foreign"}, edited |-> FALSE]
Link == [names |-> {"symlink"}, edited |-> FALSE]

VARIABLES
  live,    \* tasks with a record
  file,    \* what stands at the settings path, per task and directory
  record,  \* per task: the directories it has, those of them with a copy,
           \* and the document whose hash is recorded
  proc,    \* per process: what it does and what it holds in memory
  events   \* how many of them so far
vars == <<live, file, record, proc, events>>

Verbs == {"new", "add", "rm", "perimeter", "session-start"}
Locked == {"new", "add", "rm"}
NoRecord == [has |-> {}, dirs |-> {}, doc |-> Doc({})]

\* todo: tasks still to write; cur: the task in hand; names: the tasks it has
\* listed; has, snap: its directories and its coverage, as loaded; joins: the
\* directories it has made; write: those still to write; put: those written;
\* fresh: those changed by others since it looked.
Idle == [verb |-> "none", pc |-> "idle", todo |-> {}, cur |-> None,
         names |-> {}, has |-> {}, snap |-> {}, joins |-> {}, write |-> {},
         put |-> {}, fresh |-> {}]

Init ==
  /\ live = {}
  /\ file = [t \in Tasks |-> [d \in Dirs |-> NoFile]]
  /\ record = [t \in Tasks |-> NoRecord]
  /\ proc = [p \in Procs |-> Idle]
  /\ events = 0

-----------------------------------------------------------------------------
(* perimeter.For, Write, Verify, Stale.                                    *)

\* (mutant) the task's own tree is denied to it as well.
For_OwnTree(t, names) == Doc(names)

\* The document for a task: its own tree is never denied to it.
For(t, names) == Doc(names \ {t})

\* A profile with too many paths would break every command of the session.
TooLarge(t, names) == t \in Wide /\ names \ {t} # {}

\* (mutant) anything that is not a symlink is written over.
Owned_Anything(f, d, covered) == f # Link

\* (mutant) the marker in the file is not asked for.
Owned_ByHashOnly(f, d, covered) == f # Link /\ (f = NoFile \/ d \in covered)

\* checkOwned: never through a symlink; otherwise a file is wkt's to write if
\* it is absent, has a recorded hash, or carries the marker.
Owned(f, d, covered) ==
  f # Link /\ (f = NoFile \/ d \in covered \/ f # Foreign)

\* Verify: covered directories whose file is not the recorded one.
Diverged(t) == {d \in record[t].dirs : file[t][d] # record[t].doc}

\* Stale: what today's list of tasks would give is not what is recorded.
\* It cannot be told of a list over the cap.
Stale(t, names) ==
  ~TooLarge(t, names) /\
  (record[t].dirs = {} \/ record[t].doc # For(t, names))

\* wkt status exits with drift.
StatusDrifts(t) == Diverged(t) # {} \/ Stale(t, live)

-----------------------------------------------------------------------------
(* The verbs.                                                              *)

Become(p, new) == proc' = [proc EXCEPT ![p] = new]
End(p) == proc' = [proc EXCEPT ![p] = Idle]
Event == events < MaxEvents /\ events' = events + 1

\* Something else comes to stand in D of t's tree: who has looked already is
\* going by what was there.
Unseen(t, D) ==
  [p \in Procs |-> IF proc[p].pc = "write" /\ proc[p].cur = t
                     THEN [proc[p] EXCEPT !.fresh = @ \cup D] ELSE proc[p]]

\* new, add and rm hold the container lock.
LockFree == \A p \in Procs : proc[p].verb \notin Locked

\* A tree is made; the repositories in it may bring a settings file.
New(p, t) ==
  /\ proc[p].pc = "idle" /\ LockFree /\ Event
  /\ t \notin live /\ \A d \in Dirs : file[t][d] = NoFile
  /\ \E has \in (SUBSET Dirs) \ {{}} : \E own \in SUBSET has :
       /\ file' = [file EXCEPT ![t] =
                     [d \in Dirs |-> IF d \in own THEN Foreign ELSE NoFile]]
       /\ proc' = [Unseen(t, own) EXCEPT ![p] =
            [Idle EXCEPT !.verb = "new", !.pc = "check", !.cur = t, !.has = has,
                         !.joins = Dirs, !.names = live \cup {t}]]
  /\ UNCHANGED <<live, record>>

\* The record is loaded, and a repository joins the tree with what it brings.
\* (One that a record saved meanwhile has dropped may join anew here, which
\* git would refuse.)
Add(p, t) ==
  /\ proc[p].pc = "idle" /\ LockFree /\ Event
  /\ t \in live
  /\ \E d \in Dirs \ record[t].has : \E f \in {NoFile, Foreign} :
       /\ file[t][d] = NoFile
       /\ file' = [file EXCEPT ![t][d] = f]
       /\ proc' = [Unseen(t, {d}) EXCEPT ![p] =
            [Idle EXCEPT !.verb = "add", !.pc = "list", !.cur = t,
                         !.has = record[t].has \cup {d},
                         !.snap = record[t].dirs, !.joins = {d}]]
  /\ UNCHANGED <<live, record>>

\* With the worktree in place it lists the tasks.
List(p) ==
  /\ proc[p].pc = "list"
  /\ Become(p, [proc[p] EXCEPT !.pc = "check", !.names = live])
  /\ UNCHANGED <<live, file, record, events>>

\* A task goes, with its tree; the others are refreshed.
Rm(p, t) ==
  /\ proc[p].pc = "idle" /\ LockFree /\ Event
  /\ t \in live
  /\ live' = live \ {t}
  /\ record' = [record EXCEPT ![t] = NoRecord]
  /\ file' = [file EXCEPT ![t] = [d \in Dirs |-> NoFile]]
  /\ IF live' = {} THEN UNCHANGED proc
     ELSE Become(p, [Idle EXCEPT !.verb = "rm", !.pc = "load", !.todo = live',
                                 !.names = live'])

\* wkt perimeter, of one task or all, and wkt repair of one that has moved;
\* the hook, of the task of its session.
Perimeter(p, todo) ==
  /\ proc[p].pc = "idle" /\ Event
  /\ todo # {} /\ (todo = live \/ Cardinality(todo) = 1)
  /\ Become(p, [Idle EXCEPT !.verb = "perimeter", !.pc = "load", !.todo = todo])
  /\ UNCHANGED <<live, file, record>>

SessionStart(p, t) ==
  /\ proc[p].pc = "idle" /\ t \in live
  /\ Become(p, [Idle EXCEPT !.verb = "session-start", !.pc = "load",
                            !.todo = {t}])
  /\ UNCHANGED <<live, file, record, events>>

\* On to the next task, or done.
NextTask(p) ==
  LET rest == proc[p].todo \ {proc[p].cur}
  IN IF rest = {} THEN End(p)
     ELSE Become(p, [Idle EXCEPT !.verb = proc[p].verb, !.pc = "load",
                                 !.todo = rest, !.names = proc[p].names])

\* An error: a refresh goes on to the next task, wkt perimeter and repair end,
\* and so does the hook, with a warning.  What a new task or an add has made
\* is rolled back.
Failed(p) ==
  /\ IF proc[p].verb \in Locked /\ proc[p].cur \in proc[p].todo
       THEN NextTask(p) ELSE End(p)
  /\ file' = [file EXCEPT ![proc[p].cur] =
                [d \in Dirs |-> IF d \in proc[p].joins THEN NoFile ELSE @[d]]]

\* state.Load and state.List; a refresh has listed once for all.
Load(p) ==
  /\ proc[p].pc = "load"
  /\ \E t \in proc[p].todo :
       IF t \in live
         THEN Become(p, [proc[p] EXCEPT
                !.pc = "check", !.cur = t,
                !.has = record[t].has, !.snap = record[t].dirs,
                !.names = IF proc[p].verb \in Locked THEN @ ELSE live])
         ELSE IF proc[p].verb \in Locked /\ proc[p].todo # {t}
           THEN Become(p, [proc[p] EXCEPT !.todo = @ \ {t}])
           ELSE End(p)
  /\ UNCHANGED <<live, file, record, events>>

\* Write decides about every directory before it writes any.
Check(p) ==
  /\ proc[p].pc = "check"
  /\ LET t == proc[p].cur
     IN IF TooLarge(t, proc[p].names)
          THEN Failed(p)
          ELSE /\ Become(p, [proc[p] EXCEPT !.pc = "write", !.write =
                     {d \in proc[p].has : Owned(file[t][d], d, proc[p].snap)}])
               /\ UNCHANGED file
  /\ UNCHANGED <<live, record, events>>

\* writeAtomic: a reader never sees half a file, and when it fails the copies
\* written before it stay, with nothing recorded.
Put(p) ==
  /\ proc[p].pc = "write"
  /\ \E d \in proc[p].write :
       /\ file' = [file EXCEPT ![proc[p].cur][d] =
                     For(proc[p].cur, proc[p].names)]
       /\ Become(p, [proc[p] EXCEPT !.write = @ \ {d}, !.put = @ \cup {d}])
  /\ UNCHANGED <<live, record, events>>

\* So it may, and so may the save of the record after the last.
PutFails(p) ==
  /\ proc[p].pc = "write" /\ "write" \in Faults
  /\ Failed(p) /\ Event
  /\ UNCHANGED <<live, record>>

\* The coverage is recorded, in a record loaded before: the task has one
\* again if it was removed meanwhile, and has lost a repository that joined.
\* After its own, new refreshes the rest.
Save(p) ==
  /\ proc[p].pc = "write" /\ proc[p].write = {}
  /\ LET t == proc[p].cur
     IN /\ record' = [record EXCEPT ![t] =
             [has |-> proc[p].has, dirs |-> proc[p].put,
              doc |-> For(t, proc[p].names)]]
        /\ live' = live \cup {t}
        /\ IF proc[p].verb = "new" /\ t \notin proc[p].todo /\ live # {}
             THEN Become(p, [Idle EXCEPT !.verb = "new", !.pc = "load",
                                         !.todo = live, !.names = live'])
             ELSE NextTask(p)
  /\ UNCHANGED <<file, events>>

\* The agent deletes a file, edits it, or has one of his own or a symlink.
Agent(t, d) ==
  /\ t \in live /\ Event
  /\ \E f \in {NoFile, Foreign, Link, [Doc({}) EXCEPT !.edited = TRUE]} :
       file' = [file EXCEPT ![t][d] = f]
  /\ proc' = Unseen(t, {d})
  /\ UNCHANGED <<live, record>>

Step(p) == List(p) \/ Load(p) \/ Check(p) \/ Put(p) \/ PutFails(p) \/ Save(p)

Next ==
  \/ \E p \in Procs, t \in Tasks :
       New(p, t) \/ Add(p, t) \/ Rm(p, t) \/ SessionStart(p, t)
  \/ \E p \in Procs : \E todo \in SUBSET live : Perimeter(p, todo)
  \/ \E p \in Procs :
       List(p) \/ Load(p) \/ Check(p) \/ Put(p) \/ PutFails(p) \/ Save(p)
  \/ \E t \in Tasks, d \in Dirs : Agent(t, d)

Spec == Init /\ [][Next]_vars

\* A process once started goes on, and in every tree a session starts again
\* and again.
FairSpec ==
  /\ Spec
  /\ \A p \in Procs : WF_vars(Step(p))
  /\ \A t \in Tasks : SF_vars(\E p \in Procs : SessionStart(p, t))

-----------------------------------------------------------------------------
(* What must hold.                                                         *)

Files == Documents \cup {NoFile, Foreign, Link}

Processes ==
  [verb : Verbs \cup {"none"}, pc : {"idle", "list", "load", "check", "write"},
   todo : SUBSET Tasks, cur : Tasks \cup {None}, names : SUBSET Tasks,
   has : SUBSET Dirs, snap : SUBSET Dirs, joins : SUBSET Dirs,
   write : SUBSET Dirs, put : SUBSET Dirs, fresh : SUBSET Dirs]

Records == [has : SUBSET Dirs, dirs : SUBSET Dirs, doc : Documents]

TypeOK ==
  /\ live \subseteq Tasks
  /\ file \in [Tasks -> [Dirs -> Files]]
  /\ \A t \in Tasks, d \in Dirs : t \notin file[t][d].names
  /\ record \in [Tasks -> Records]
  /\ proc \in [Procs -> Processes]
  /\ events \in 0..MaxEvents

\* Whoever writes, and whatever others write and record at the same time: a
\* settings file that is the repository's or the user's own is not written
\* over, nor is a symlink; unless the record the process began with has a
\* hash for the directory, or the file came after the process had looked.
ForeignSpared ==
  [][\A t \in Tasks, d \in Dirs :
       file[t][d] \in {Foreign, Link} /\ file'[t][d] \in Documents /\ events' = events
         => \E p \in Procs :
              /\ proc[p].cur = t /\ d \in proc[p].write \ proc'[p].write
              /\ \/ d \in proc[p].fresh
                 \/ d \in proc[p].snap /\ file[t][d] = Foreign]_vars

\* However the writers have got in each other's way: once tasks and agents
\* rest, the sessions starting in the trees bring every copy up to date, but
\* for those somebody's own file stands in for and lists over the cap.
Current(t) ==
  \A d \in record[t].has : file[t][d] \in {Foreign, Link, For(t, live)}

Heals == <>[](\A t \in live : TooLarge(t, live) \/ Current(t))

\* (the comment where a refresh that fails is passed over: "stale, and status
\* will say so") No copy is out of date without wkt status reporting drift.
StatusTells ==
  \A t \in live :
    (\E d \in record[t].dirs : file[t][d] # For(t, live)) => StatusDrifts(t)
=============================================================================
