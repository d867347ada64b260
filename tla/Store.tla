------------------------------- MODULE Store --------------------------------
(***************************************************************************)
(* The store of one workspace repository: a bare clone in the container    *)
(* that owns the worktrees and branches of every task on that repository.  *)
(*                                                                         *)
(* store.Ensure builds it by a fixed sequence of git commands, each of     *)
(* which may fail or be the last thing the process does, and undoes        *)
(* nothing: what a later Ensure finds is any prefix of the build.  It      *)
(* adopts what it finds only after checking it, and it reads git's merged  *)
(* configuration when it checks, so that what the developer's own          *)
(* configuration says counts as said by the store.                         *)
(*                                                                         *)
(* Ensure runs under the container lock: there is one builder at a time.   *)
(* The developer changes repository and configuration whenever he likes.   *)
(***************************************************************************)
EXTENDS FiniteSets

CONSTANTS
  Tasks,      \* tasks that want a worktree in this store
  Ids,        \* values of a bridged setting, say user.email
  Unset,      \* the setting has no value
  Ambients,   \* what the developer's own configuration may say: "gc", "hooks"
  Absent,     \* no store
  Nobody      \* no task

Settings == {"gc", "hooks"}

ASSUME AmbientsAssumption == Ambients \subseteq Settings
ASSUME UnsetAssumption == Unset \notin Ids
ASSUME NobodyAssumption == Nobody \notin Tasks

VARIABLES
  store,      \* what lies at store/<id>.git
  users,      \* tasks with a worktree in it
  upstream,   \* the workspace repository has an origin
  ambient,    \* gc.auto=0, core.hooksPath in the developer's configuration
  machineId, repoId,   \* the bridged setting: machine-wide; the repository's
  pc, task    \* the running Ensure and the task it runs for

developer == <<upstream, ambient, machineId, repoId>>
vars == <<store, users, upstream, ambient, machineId, repoId, pc, task>>

-----------------------------------------------------------------------------
\* copied: the objects are its own; borrows: objects/info/alternates is
\* there; tracks: origin has its fetch refspec; workspace: the second remote
\* with git's refspec or with refs/remotes/ws; local: hardening written here.
Contents == [copied: BOOLEAN, borrows: BOOLEAN,
             origin: {"none", "workspace", "upstream"}, tracks: BOOLEAN,
             workspace: {"none", "default", "ws"}, local: SUBSET Settings,
             id: Ids \cup {Unset}, marked: BOOLEAN]

ASSUME AbsentAssumption == Absent \notin Contents

Cloned == [copied |-> FALSE, borrows |-> TRUE, origin |-> "workspace",
           tracks |-> FALSE, workspace |-> "none", local |-> {},
           id |-> Unset, marked |-> FALSE]

\* (mutant) the alternates go before the objects have been copied.
After_BorrowsDropped == [l \in {"clone", "repack", "deborrow", "refspec",
                                "workspace", "ws", "gc", "hooks", "bridge"} |->
  CASE l = "clone" -> "deborrow"   [] l = "deborrow" -> "origin"
    [] l = "repack" -> "origin"    [] l = "refspec" -> "workspace"
    [] l = "workspace" -> "ws"     [] l = "ws" -> "gc"
    [] l = "gc" -> "hooks"         [] l = "hooks" -> "bridge"
    [] l = "bridge" -> "stamp"]

\* The order of the build, where it does not depend on an answer.
After == [l \in {"clone", "repack", "deborrow", "refspec",
                 "workspace", "ws", "gc", "hooks", "bridge"} |->
  CASE l = "clone" -> "repack"     [] l = "repack" -> "deborrow"
    [] l = "deborrow" -> "origin"  [] l = "refspec" -> "workspace"
    [] l = "workspace" -> "ws"     [] l = "ws" -> "gc"
    [] l = "gc" -> "hooks"         [] l = "hooks" -> "bridge"
    [] l = "bridge" -> "stamp"]

Labels == {"idle", "stat", "adopt", "rebridge", "clone", "repack", "deborrow",
           "origin", "refspec", "workspace", "ws", "gc", "hooks", "bridge",
           "stamp", "mark", "ready"}

\* invariants(): what wkt finds wrong with a store.  git config --get answers
\* from the store's own configuration or from the developer's.  It is taken to
\* answer here: a question that fails counts as a problem, but the one about
\* origin, which would be passed over.
Problems(s) ==
  {x \in {"borrows", "gc", "hooks", "workspace", "origin"} :
     \/ x = "borrows" /\ s.borrows
     \/ x \in Settings \ (s.local \cup ambient)
     \/ x = "workspace" /\ s.workspace = "none"
     \/ x = "origin" /\ s.origin = "workspace"}

Init ==
  /\ store = Absent /\ users = {}
  /\ upstream \in BOOLEAN /\ ambient = {}
  /\ machineId = Unset /\ repoId = Unset
  /\ pc = "idle" /\ task = Nobody

Goto(l) == pc' = l /\ UNCHANGED task
Return == pc' = "idle" /\ task' = Nobody

-----------------------------------------------------------------------------
(* Ensure is called, and looks at the path.                                *)

\* (mutant) the task the store is wanted for is not taken note of.
Begin_ForgetsTask(t) ==
  /\ pc = "idle" /\ t \notin users
  /\ pc' = "stat"
  /\ UNCHANGED <<store, users, task, developer>>

Begin(t) ==
  /\ pc = "idle" /\ t \notin users
  /\ pc' = "stat" /\ task' = t
  /\ UNCHANGED <<store, users, developer>>

Stat ==
  /\ pc = "stat"
  /\ Goto(IF store = Absent THEN "clone" ELSE "adopt")
  /\ UNCHANGED <<store, users, developer>>

\* adoptable(): a marked store is taken as it is; one that verifies is
\* marked, if git lets it; any other is refused.
Adopt ==
  /\ pc = "adopt"
  /\ \/ store.marked /\ Goto("rebridge") /\ UNCHANGED store
     \/ /\ ~store.marked /\ Problems(store) = {}
        /\ store' \in {store, [store EXCEPT !.marked = TRUE]}
        /\ Goto("rebridge")
     \/ ~store.marked /\ Problems(store) # {} /\ Return /\ UNCHANGED store
  /\ UNCHANGED <<users, developer>>

-----------------------------------------------------------------------------
(* The build.                                                              *)

\* The step at label l is done and leaves the store like this.
Write(l, s) ==
  /\ pc = l
  /\ store' = s
  /\ Goto(After[l])
  /\ UNCHANGED <<users, developer>>

\* git clone --shared --bare.  A killed one leaves a directory that has the
\* alternates or not, the remote or not.
Clone == Write("clone", Cloned)
CloneKilled ==
  /\ pc = "clone"
  /\ \E b \in BOOLEAN, o \in {"none", "workspace"} :
       store' = [Cloned EXCEPT !.borrows = b, !.origin = o]
  /\ Return
  /\ UNCHANGED <<users, developer>>

Repack == Write("repack", [store EXCEPT !.copied = TRUE])
Deborrow == Write("deborrow", [store EXCEPT !.borrows = FALSE])

\* (mutant) a bare clone is trusted to have a fetch refspec.
Origin_TrustsClone ==
  /\ pc = "origin"
  /\ store' \in IF upstream THEN {[store EXCEPT !.origin = "upstream"]}
                ELSE {store, [store EXCEPT !.origin = "none"]}
  /\ Goto("workspace")
  /\ UNCHANGED <<users, developer>>

\* Point origin at the real upstream; without one the borrowed remote is
\* removed, and a failure to remove it passes unnoticed.
Origin ==
  /\ pc = "origin"
  /\ \/ /\ upstream
        /\ store' = [store EXCEPT !.origin = "upstream"]
        /\ Goto("refspec")
     \/ /\ ~upstream
        /\ store' \in {store, [store EXCEPT !.origin = "none"]}
        /\ Goto("workspace")
  /\ UNCHANGED <<users, developer>>

Refspec == Write("refspec", [store EXCEPT !.tracks = TRUE])
Workspace == Write("workspace", [store EXCEPT !.workspace = "default"])
WorkspaceRefspec == Write("ws", [store EXCEPT !.workspace = "ws"])
Harden(x) == x = pc /\ Write(x, [store EXCEPT !.local = @ \cup {x}])

\* What the repository resolves the bridged setting to.
Wanted == IF repoId # Unset THEN repoId ELSE machineId

\* What the store resolves it to.
Resolved(s) == IF s.id # Unset THEN s.id ELSE machineId

\* (mutant) an override the machine agrees with by now is left in place.
Bridged_KeepsOverride(s) ==
  [s EXCEPT !.id = IF Wanted = Unset THEN Unset ELSE Wanted]

\* bridgeConfig for one key: an override only where the machine disagrees.
Bridged(s) ==
  [s EXCEPT !.id = IF Wanted \in {Unset, machineId} THEN Unset ELSE Wanted]

\* Configuration that cannot be read, or an override that cannot be unset,
\* passes unnoticed; the bridge is the last step before the stamp when the
\* store is new and the last of all when it was adopted.
Bridge ==
  /\ pc \in {"bridge", "rebridge"}
  /\ store' \in {store, Bridged(store)}
  /\ Goto(IF pc = "bridge" THEN After["bridge"] ELSE "ready")
  /\ UNCHANGED <<users, developer>>

\* (mutant) the marker is written without looking.
Stamp_Unchecked ==
  /\ pc = "stamp"
  /\ Goto("mark")
  /\ UNCHANGED <<store, users, developer>>

\* stamp(): the invariants, then the marker.
Stamp ==
  /\ pc = "stamp"
  /\ IF Problems(store) = {} THEN Goto("mark") ELSE Return
  /\ UNCHANGED <<store, users, developer>>

Mark ==
  /\ pc = "mark"
  /\ store' = [store EXCEPT !.marked = TRUE]
  /\ Goto("ready")
  /\ UNCHANGED <<users, developer>>

\* A command of the build fails and Ensure returns its error, or the process
\* dies here: nothing is undone.
Stop ==
  /\ pc # "idle"
  /\ Return
  /\ UNCHANGED <<store, users, developer>>

\* git worktree add, by the creation or the graft that called Ensure.
Attach ==
  /\ pc = "ready"
  /\ users' = users \cup {task}
  /\ Return
  /\ UNCHANGED <<store, developer>>

\* finishRemove, under the same lock: the worktree goes, the store stays.
Detach(t) ==
  /\ pc = "idle" /\ t \in users
  /\ users' = users \ {t}
  /\ UNCHANGED <<store, pc, task, developer>>

-----------------------------------------------------------------------------
\* The developer edits his configuration and his repository's remotes.
Develop ==
  /\ \/ /\ ambient' \in SUBSET Ambients
        /\ UNCHANGED <<upstream, machineId, repoId>>
     \/ upstream' = ~upstream /\ UNCHANGED <<ambient, machineId, repoId>>
     \/ /\ machineId' \in Ids \cup {Unset}
        /\ UNCHANGED <<ambient, upstream, repoId>>
     \/ /\ repoId' \in Ids \cup {Unset}
        /\ UNCHANGED <<ambient, upstream, machineId>>
  /\ UNCHANGED <<store, users, pc, task>>

Next ==
  \/ \E t \in Tasks : Begin(t) \/ Detach(t)
  \/ Stat \/ Adopt
  \/ Clone \/ CloneKilled \/ Repack \/ Deborrow \/ Origin \/ Refspec
  \/ Workspace \/ WorkspaceRefspec \/ \E x \in Settings : Harden(x)
  \/ Bridge \/ Stamp \/ Mark \/ Stop \/ Attach
  \/ Develop

Spec == Init /\ [][Next]_vars

-----------------------------------------------------------------------------
(* Properties.                                                             *)

\* Every variable stays in its range.
TypeOK ==
  /\ store \in Contents \cup {Absent}
  /\ users \in SUBSET Tasks
  /\ upstream \in BOOLEAN
  /\ ambient \in SUBSET Ambients
  /\ machineId \in Ids \cup {Unset}
  /\ repoId \in Ids \cup {Unset}
  /\ pc \in Labels
  /\ task \in Tasks \cup {Nobody}

\* A task's commits stay readable when the developer re-clones or collects
\* his repository: the store a task works in has all its objects and borrows
\* none, however often the build was cut short and whatever his own
\* configuration says (Ensure's refusal to take a directory as evidence).
SelfContained ==
  users # {} => store # Absent /\ store.copied /\ ~store.borrows

\* A store with an upstream tracks it: without the refspec, which no check
\* of wkt looks at, sync and the guard against losing unpushed commits would
\* silently see no remote branch (Ensure's comment on H15).
TracksOrigin ==
  users # {} /\ store.origin = "upstream" => store.tracks

\* When the bridge changes the setting, the store resolves what the
\* repository resolves, with no override the machine already agrees with, so
\* that "a later change to it is picked up" (bridgeConfig).
BridgeFollows ==
  [][(pc \in {"bridge", "rebridge"} /\ store'.id # store.id) =>
       (Resolved(store') = Wanted /\ store'.id \notin {machineId} \ {Unset})]_vars

\* Everything Ensure is there to do has been done.
Complete(s) ==
  /\ s.copied /\ ~s.borrows
  /\ s.origin # "workspace" /\ (s.origin = "upstream" => s.tracks)
  /\ s.workspace = "ws"
  /\ s.local = Settings

\* "A marker that can be written before the store is hardened is a marker
\* that lies, permanently, since nothing re-checks a marked store."
MarkerTells == store # Absent /\ store.marked => Complete(store)

\* The store stands on its own: the objects are there, origin is not the
\* developer's clone, and the way to his local commits is.
Stands(s) ==
  /\ s.copied /\ ~s.borrows
  /\ s.origin # "workspace" /\ s.workspace # "none"

Phase == IF store = Absent THEN "absent"
         ELSE IF Stands(store) THEN "standing" ELSE "building"

Promise == INSTANCE StorePromise WITH phase <- Phase

\* Whatever is interrupted, refused or reconfigured, the store keeps the
\* abstract promise: tasks work only in a store that stands, and a store
\* that exists is never deleted or built again.
KeepsPromise == Promise!Spec
=============================================================================
