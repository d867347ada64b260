----------------------------- MODULE StoreProofs -----------------------------
(***************************************************************************)
(* Proofs about Store, for any tasks, any values of the bridged setting    *)
(* and any configuration of the developer's.                               *)
(***************************************************************************)
EXTENDS Store, TLAPS

\* What an unfinished build has behind it, by the order of its steps.
Copied == {"deborrow", "origin", "refspec", "workspace", "ws", "gc", "hooks",
           "bridge", "stamp", "mark"}
Dropped == Copied \ {"deborrow"}
Tracked == Dropped \ {"origin", "refspec"}
Reached == Tracked \ {"workspace"}

\* Whatever prefix of the build a store is, the workspace remote comes after
\* the objects, the alternates and origin's refspec, and the hardening after
\* the workspace refspec.
Prefix(s) ==
  /\ s.workspace # "none" =>
       s.copied /\ ~s.borrows /\ (s.origin = "upstream" => s.tracks)
  /\ s.local # {} => s.workspace = "ws"
  /\ s.marked => Stands(s)

\* Where the builder is tells how far the store has come.
Progress ==
  /\ pc = "clone" => store = Absent
  /\ pc \notin {"idle", "stat", "clone"} => store # Absent
  /\ pc = "repack" => store.workspace = "none"
  /\ pc \in {"repack", "deborrow", "origin"} => store.origin = "workspace"
  /\ pc \in Copied => store.copied
  /\ pc \in Dropped => ~store.borrows
  /\ pc = "refspec" => store.origin = "upstream"
  /\ pc \in Copied \ Reached => store.workspace = "none"
  /\ pc \in Tracked => (store.origin = "upstream" => store.tracks)
  /\ pc \in Reached => store.workspace # "none"
  /\ pc \in Reached \ {"ws"} => store.workspace = "ws"
  /\ pc \in {"mark", "ready", "rebridge"} => Stands(store)
  /\ pc # "idle" => task \in Tasks

IInv ==
  /\ TypeOK
  /\ store # Absent => Prefix(store)
  /\ users # {} => store # Absent /\ Stands(store)
  /\ Progress

-----------------------------------------------------------------------------
\* u is the store s with another value in field f and nowhere else.
OnlyIn(f, u, s) ==
  /\ u \in Contents
  /\ f # "copied" => u.copied = s.copied
  /\ f # "borrows" => u.borrows = s.borrows
  /\ f # "origin" => u.origin = s.origin
  /\ f # "tracks" => u.tracks = s.tracks
  /\ f # "workspace" => u.workspace = s.workspace
  /\ f # "local" => u.local = s.local
  /\ f # "id" => u.id = s.id
  /\ f # "marked" => u.marked = s.marked

\* A write into a store changes the written field and keeps the type.
LEMMA Updates ==
  ASSUME NEW s \in Contents
  PROVE  /\ \A v \in BOOLEAN :
              /\ OnlyIn("copied", [s EXCEPT !.copied = v], s)
              /\ [s EXCEPT !.copied = v].copied = v
         /\ \A v \in BOOLEAN :
              /\ OnlyIn("borrows", [s EXCEPT !.borrows = v], s)
              /\ [s EXCEPT !.borrows = v].borrows = v
         /\ \A v \in {"none", "workspace", "upstream"} :
              /\ OnlyIn("origin", [s EXCEPT !.origin = v], s)
              /\ [s EXCEPT !.origin = v].origin = v
         /\ \A v \in BOOLEAN :
              /\ OnlyIn("tracks", [s EXCEPT !.tracks = v], s)
              /\ [s EXCEPT !.tracks = v].tracks = v
         /\ \A v \in {"none", "default", "ws"} :
              /\ OnlyIn("workspace", [s EXCEPT !.workspace = v], s)
              /\ [s EXCEPT !.workspace = v].workspace = v
         /\ \A v \in SUBSET Settings :
              /\ OnlyIn("local", [s EXCEPT !.local = v], s)
              /\ [s EXCEPT !.local = v].local = v
         /\ \A v \in Ids \cup {Unset} :
              /\ OnlyIn("id", [s EXCEPT !.id = v], s)
              /\ [s EXCEPT !.id = v].id = v
         /\ \A v \in BOOLEAN :
              /\ OnlyIn("marked", [s EXCEPT !.marked = v], s)
              /\ [s EXCEPT !.marked = v].marked = v
BY DEF Contents, OnlyIn

\* What a clone leaves, whole or killed, is a store nobody has built on.
LEMMA CloneLeaves ==
  /\ Cloned \in Contents /\ Cloned.origin = "workspace"
  /\ Cloned.workspace = "none" /\ Cloned.local = {} /\ ~Cloned.marked
  /\ \A b \in BOOLEAN, o \in {"none", "workspace"} :
       LET s == [Cloned EXCEPT !.borrows = b, !.origin = o] IN
       /\ s \in Contents
       /\ s.workspace = "none" /\ s.local = {} /\ ~s.marked
BY DEF Cloned, Contents, Settings

LEMMA InvInit == Init => IInv
BY NobodyAssumption
DEF Init, IInv, TypeOK, Progress, Labels, Copied, Dropped, Tracked, Reached

\* The invariant is inductive: one case for each action.
LEMMA InvStep == IInv /\ [Next]_vars => IInv'
<1> SUFFICES ASSUME IInv, [Next]_vars PROVE IInv'
  OBVIOUS
<1> USE AbsentAssumption, UnsetAssumption, NobodyAssumption, AmbientsAssumption
<1> USE DEF IInv, TypeOK, Prefix, Progress, Copied, Dropped, Tracked, Reached,
            Stands, Labels, Goto, Return, developer
<1>1. ASSUME NEW t \in Tasks, Begin(t) PROVE IInv'
  BY <1>1 DEF Begin
<1>2. ASSUME NEW t \in Tasks, Detach(t) PROVE IInv'
  BY <1>2 DEF Detach
<1>3. CASE Stat
  BY <1>3 DEF Stat
<1>4. CASE Adopt
  <2>1. store \in Contents
    BY <1>4 DEF Adopt
  <2>2. CASE UNCHANGED store
    BY <1>4, <2>1, <2>2 DEF Adopt, Problems, Contents, Settings
  <2>3. CASE /\ ~store.marked /\ Problems(store) = {}
             /\ store' = [store EXCEPT !.marked = TRUE]
    <3>1. OnlyIn("marked", store', store)
      BY <2>1, <2>3, Updates
    <3>2. Stands(store)
      BY <2>1, <2>3 DEF Problems, Contents
    <3> QED
      BY <1>4, <2>1, <2>3, <3>1, <3>2 DEF Adopt, OnlyIn
  <2> QED
    BY <1>4, <2>2, <2>3 DEF Adopt
<1>5. CASE Clone
  BY CloneLeaves, <1>5 DEF Clone, Write, After
<1>6. CASE CloneKilled
  <2>1. PICK b \in BOOLEAN, o \in {"none", "workspace"} :
          store' = [Cloned EXCEPT !.borrows = b, !.origin = o]
    BY <1>6 DEF CloneKilled
  <2>2. /\ store' \in Contents
        /\ store'.workspace = "none" /\ store'.local = {} /\ ~store'.marked
    BY <2>1, CloneLeaves
  <2> QED
    BY <2>2, <1>6 DEF CloneKilled
<1>7. CASE Repack
  <2>1. /\ store \in Contents
        /\ OnlyIn("copied", store', store)
        /\ store'.copied = TRUE
    BY Updates, <1>7 DEF Repack, Write, After
  <2> QED
    BY <2>1, <1>7 DEF Repack, Write, After, OnlyIn
<1>8. CASE Deborrow
  <2>1. /\ store \in Contents
        /\ OnlyIn("borrows", store', store)
        /\ store'.borrows = FALSE
    BY Updates, <1>8 DEF Deborrow, Write, After
  <2> QED
    BY <2>1, <1>8 DEF Deborrow, Write, After, OnlyIn
<1>9. CASE Origin
  <2>1. store \in Contents
    BY <1>9 DEF Origin
  <2>2. CASE UNCHANGED store
    BY <1>9, <2>1, <2>2 DEF Origin, Contents
  <2>3. CASE store' = [store EXCEPT !.origin = "upstream"] /\ Goto("refspec")
    <3>1. OnlyIn("origin", store', store) /\ store'.origin = "upstream"
      BY ONLY <2>1, <2>3, Updates
    <3> QED
      BY <1>9, <2>1, <2>3, <3>1 DEF Origin, OnlyIn
  <2>4. CASE store' = [store EXCEPT !.origin = "none"] /\ Goto("workspace")
    <3>1. OnlyIn("origin", store', store) /\ store'.origin = "none"
      BY ONLY <2>1, <2>4, Updates
    <3> QED
      BY <1>9, <2>1, <2>4, <3>1 DEF Origin, OnlyIn
  <2> QED
    BY <1>9, <2>2, <2>3, <2>4 DEF Origin
<1>10. CASE Refspec
  <2>1. /\ store \in Contents
        /\ OnlyIn("tracks", store', store)
        /\ store'.tracks = TRUE
    BY Updates, <1>10 DEF Refspec, Write, After
  <2> QED
    BY <2>1, <1>10 DEF Refspec, Write, After, OnlyIn
<1>11. CASE Workspace
  <2>1. /\ store \in Contents
        /\ OnlyIn("workspace", store', store)
        /\ store'.workspace = "default"
    BY Updates, <1>11 DEF Workspace, Write, After
  <2> QED
    BY <2>1, <1>11 DEF Workspace, Write, After, OnlyIn
<1>12. CASE WorkspaceRefspec
  <2>1. /\ store \in Contents
        /\ OnlyIn("workspace", store', store)
        /\ store'.workspace = "ws"
    BY Updates, <1>12 DEF WorkspaceRefspec, Write, After
  <2> QED
    BY <2>1, <1>12 DEF WorkspaceRefspec, Write, After, OnlyIn
<1>13. ASSUME NEW x \in Settings, Harden(x) PROVE IInv'
  <2>1. store \in Contents /\ store.local \cup {x} \in SUBSET Settings
    BY <1>13 DEF Harden, Write, Contents, Settings
  <2>2. OnlyIn("local", store', store)
    BY <2>1, <1>13, Updates DEF Harden, Write
  <2> QED
    BY <2>1, <2>2, <1>13 DEF Harden, Write, After, OnlyIn, Settings
<1>14. CASE Bridge
  <2>1. store \in Contents
    BY <1>14 DEF Bridge
  <2>2. PICK i \in Ids \cup {Unset} :
          store' = store \/ store' = [store EXCEPT !.id = i]
    BY <1>14 DEF Bridge, Bridged, Wanted
  <2>3. store' = store \/ OnlyIn("id", store', store)
    <3>1. ASSUME store' = [store EXCEPT !.id = i]
          PROVE  OnlyIn("id", store', store)
      BY ONLY <2>1, <3>1, i \in Ids \cup {Unset}, Updates
    <3> QED
      BY <2>2, <3>1
  <2> QED
    BY <2>1, <2>3, <1>14 DEF Bridge, After, OnlyIn
<1>15. CASE Stamp
  BY <1>15 DEF Stamp, Problems, Contents, Settings
<1>16. CASE Mark
  <2>1. /\ store \in Contents
        /\ OnlyIn("marked", store', store)
        /\ store'.marked = TRUE
    BY Updates, <1>16 DEF Mark
  <2> QED
    BY <2>1, <1>16 DEF Mark, OnlyIn
<1>17. CASE Stop
  BY <1>17 DEF Stop
<1>18. CASE Attach
  BY <1>18 DEF Attach
<1>19. CASE Develop
  <2>1. /\ UNCHANGED <<store, users, pc, task>>
        /\ upstream' \in BOOLEAN /\ ambient' \in SUBSET Ambients
        /\ machineId' \in Ids \cup {Unset} /\ repoId' \in Ids \cup {Unset}
    BY <1>19 DEF Develop
  <2> QED
    BY <2>1
<1>20. CASE UNCHANGED vars
  BY <1>20 DEF vars
<1> QED
  BY <1>1, <1>2, <1>3, <1>4, <1>5, <1>6, <1>7, <1>8, <1>9, <1>10, <1>11, <1>12, <1>13, <1>14, <1>15, <1>16, <1>17, <1>18, <1>19, <1>20 DEF Next

-----------------------------------------------------------------------------
LEMMA Invariance == Spec => []IInv
<1> QED
  BY InvInit, InvStep, PTL DEF Spec

\* Every variable of the store keeps its type, whatever Ensure finds.
THEOREM StoreTyped == Spec => []TypeOK
<1>1. IInv => TypeOK
  BY DEF IInv
<1> QED
  BY <1>1, Invariance, PTL

\* No task ever works in a store that lacks objects or borrows them, for any
\* number of interrupted builds and any configuration of the developer's
\* (store.Ensure adopting only what verifies).
THEOREM TasksAreSelfContained == Spec => []SelfContained
<1>1. IInv => SelfContained
  BY DEF IInv, SelfContained, Stands
<1> QED
  BY <1>1, Invariance, PTL

\* No task ever works in a store with an untracked upstream, although no
\* check looks at the refspec: the order of the build is what shows it
\* (store.Ensure writes it before the remote that adoptable asks for).
THEOREM OriginIsTracked == Spec => []TracksOrigin
<1>1. IInv => TracksOrigin
  BY DEF IInv, TracksOrigin, Stands, Prefix
<1> QED
  BY <1>1, Invariance, PTL

-----------------------------------------------------------------------------
\* When the bridge writes the setting, the store resolves what the repository
\* resolves, and holds no override the machine agrees with, whatever has been
\* reconfigured since it was written last (store.bridgeConfig compares the two
\* anew each time it runs).
THEOREM BridgesFollow == Spec => BridgeFollows
<1> DEFINE Follows == pc \in {"bridge", "rebridge"} /\ store'.id # store.id =>
                        /\ Resolved(store') = Wanted
                        /\ store'.id \notin {machineId} \ {Unset}
<1>1. IInv /\ [Next]_vars => [Follows]_vars
  <2> SUFFICES ASSUME IInv, Next, pc \in {"bridge", "rebridge"}, store'.id # store.id
               PROVE  Resolved(store') = Wanted /\ store'.id \notin {machineId} \ {Unset}
    OBVIOUS
  <2>1. store' = Bridged(store)
    BY Zenon DEF Next, Begin, Detach, Stat, Adopt, Clone, CloneKilled, Repack, Deborrow,
       Origin, Refspec, Workspace, WorkspaceRefspec, Harden, Bridge, Stamp, Mark,
       Stop, Attach, Develop, Write, Settings
  <2>2. store \in Contents
    BY DEF IInv, TypeOK, Progress
  <2>3. store'.id = IF Wanted \in {Unset, machineId} THEN Unset ELSE Wanted
    BY <2>1, <2>2 DEF Bridged, Contents
  <2>4. Wanted = Unset => machineId = Unset
    BY DEF Wanted
  <2> QED
    BY <2>3, <2>4 DEF Resolved
<1> QED
  BY <1>1, Invariance, PTL DEF Spec, BridgeFollows

-----------------------------------------------------------------------------
\* A marked store, or one about to be marked, has all that was to be done.
Truthful == store # Absent /\ (store.marked \/ pc = "mark") => Complete(store)

LEMMA TruthfulStep ==
  ASSUME Ambients = {}, IInv, Truthful, [Next]_vars
  PROVE  Truthful'
<1> USE AbsentAssumption
<1> USE DEF IInv, TypeOK, Truthful, Complete, Goto, Return
<1>1. CASE UNCHANGED store /\ pc' # "mark"
  BY <1>1
<1>2. CASE Stamp /\ pc' = "mark"
  <2>1. store \in Contents /\ Problems(store) = {} /\ UNCHANGED store
    BY <1>2 DEF Stamp, Progress
  <2>2. Complete(store)
    BY <2>1 DEF Problems, Prefix, Contents, Settings
  <2> QED
    BY <2>1, <2>2
<1>3. CASE Adopt /\ store' = [store EXCEPT !.marked = TRUE] /\ ~store.marked
  <2>4. store \in Contents
    BY <1>3 DEF Adopt, Progress
  <2>5. [store EXCEPT !.marked = TRUE].marked
    BY <2>4, Updates
  <2>1. store \in Contents /\ Problems(store) = {} /\ pc' # "mark"
    BY <1>3, <2>4, <2>5 DEF Adopt
  <2>2. Complete(store)
    BY <2>1 DEF Problems, Prefix, Contents, Settings
  <2>3. OnlyIn("marked", store', store)
    BY <1>3, <2>1, Updates
  <2> QED
    BY <2>2, <2>3 DEF OnlyIn
<1>4. CASE Clone \/ CloneKilled
  <2>1. pc' # "mark" /\ ~store'.marked
    BY <1>4, CloneLeaves DEF Clone, CloneKilled, Write, After
  <2> QED
    BY <2>1
<1>5. CASE Mark
  <2>1. store \in Contents /\ pc' # "mark" /\ Complete(store)
    BY <1>5 DEF Mark, Progress
  <2>2. OnlyIn("marked", store', store)
    BY <1>5, <2>1, Updates DEF Mark
  <2> QED
    BY <2>1, <2>2 DEF OnlyIn
<1>6. CASE Bridge
  <2>1. store \in Contents /\ pc' # "mark"
    BY <1>6 DEF Bridge, Progress, After
  <2>2. PICK i \in Ids \cup {Unset} :
          store' = store \/ store' = [store EXCEPT !.id = i]
    BY <1>6 DEF Bridge, Bridged, Wanted
  <2>3. store' = store \/ OnlyIn("id", store', store)
    <3>1. ASSUME store' = [store EXCEPT !.id = i]
          PROVE  OnlyIn("id", store', store)
      BY ONLY <2>1, <3>1, i \in Ids \cup {Unset}, Updates
    <3> QED
      BY <2>2, <3>1
  <2> QED
    BY <2>1, <2>3 DEF OnlyIn
<1>7. CASE Repack
  <2>1. store \in Contents /\ pc' # "mark"
    BY <1>7 DEF Repack, Write, After, Progress
  <2>2. OnlyIn("copied", store', store) /\ store'.copied = TRUE
    BY <1>7, <2>1, Updates DEF Repack, Write
  <2> QED
    BY <2>1, <2>2 DEF OnlyIn
<1>8. CASE Deborrow
  <2>1. store \in Contents /\ pc' # "mark"
    BY <1>8 DEF Deborrow, Write, After, Progress
  <2>2. OnlyIn("borrows", store', store) /\ store'.borrows = FALSE
    BY <1>8, <2>1, Updates DEF Deborrow, Write
  <2> QED
    BY <2>1, <2>2 DEF OnlyIn
<1>9. CASE Origin
  <2>1. store \in Contents /\ pc' # "mark" /\ ~store.marked
    BY <1>9 DEF Origin, Progress
  <2>2. store' = store \/ OnlyIn("origin", store', store)
    <3>1. ASSUME NEW o \in {"none", "workspace", "upstream"},
                 store' = [store EXCEPT !.origin = o]
          PROVE  OnlyIn("origin", store', store)
      BY ONLY <2>1, <3>1, Updates
    <3> QED
      BY <1>9, <3>1 DEF Origin
  <2> QED
    BY <2>1, <2>2 DEF OnlyIn
<1>10. CASE Refspec
  <2>1. store \in Contents /\ pc' # "mark"
    BY <1>10 DEF Refspec, Write, After, Progress
  <2>2. OnlyIn("tracks", store', store) /\ store'.tracks = TRUE
    BY <1>10, <2>1, Updates DEF Refspec, Write
  <2> QED
    BY <2>1, <2>2 DEF OnlyIn
<1>11. CASE Workspace \/ WorkspaceRefspec
  <2>1. store \in Contents /\ pc' # "mark"
    BY <1>11 DEF Workspace, WorkspaceRefspec, Write, After, Progress
  <2>3. Workspace => ~store.marked
    BY <2>1 DEF Workspace, Write, Progress, Copied, Reached, Tracked, Dropped
  <2>4. WorkspaceRefspec => store'.workspace = "ws"
    BY <2>1, Updates DEF WorkspaceRefspec, Write
  <2>5. OnlyIn("workspace", store', store)
    <3>1. CASE Workspace
      BY <2>1, <3>1, Updates DEF Workspace, Write
    <3>2. CASE WorkspaceRefspec
      BY <2>1, <3>2, Updates DEF WorkspaceRefspec, Write
    <3> QED
      BY <1>11, <3>1, <3>2
  <2>2. /\ Workspace => ~store.marked
        /\ WorkspaceRefspec => store'.workspace = "ws"
        /\ OnlyIn("workspace", store', store)
    BY <2>3, <2>4, <2>5
  <2> QED
    BY <1>11, <2>1, <2>2 DEF OnlyIn
<1>12. ASSUME NEW x \in Settings, Harden(x) PROVE Truthful'
  <2>1. store \in Contents /\ pc' # "mark" /\ store.local \cup {x} \in SUBSET Settings
    BY <1>12 DEF Harden, Write, After, Contents, Settings, Progress
  <2>2. OnlyIn("local", store', store) /\ store'.local = store.local \cup {x}
    BY <2>1, <1>12, Updates DEF Harden, Write
  <2> QED
    BY <2>1, <2>2 DEF OnlyIn, Contents
<1>13. CASE UNCHANGED vars
  BY <1>13 DEF vars
<1>14. CASE \/ \E t \in Tasks : Begin(t) \/ Detach(t)
            \/ Stat \/ Stop \/ Attach \/ Develop
  <2>1. UNCHANGED store /\ (pc' = "mark" => pc = "mark")
    BY <1>14 DEF Begin, Detach, Stat, Stop, Attach, Develop
  <2> QED
    BY <2>1
<1> QED
  BY <1>1, <1>2, <1>3, <1>4, <1>5, <1>6, <1>7, <1>8, <1>9, <1>10, <1>11, <1>12, <1>13, <1>14
  DEF Next, Adopt, Stamp

\* Where the developer's own configuration says nothing of gc or hooks, a
\* marker never lies, whatever was cut short: a store that bears one is built,
\* tracked and hardened to the end (store.stamp and store.adoptable).
THEOREM MarkersTell ==
  ASSUME Ambients = {}
  PROVE  Spec => []MarkerTells
<1>1. Init => Truthful
  BY DEF Init, Truthful
<1>2. IInv /\ Truthful /\ [Next]_vars => Truthful'
  BY TruthfulStep
<1>3. Truthful => MarkerTells
  BY DEF Truthful, MarkerTells
<1> QED
  BY <1>1, <1>2, <1>3, Invariance, PTL DEF Spec

-----------------------------------------------------------------------------
\* What a step does to the store, as the abstract store sees it.
Evolves ==
  \/ store' = store
  \/ store = Absent /\ store' # Absent /\ ~Stands(store')
  \/ /\ store # Absent /\ store' # Absent
     /\ Stands(store) => Stands(store')

\* No step deletes a store, builds one again or unmakes one that stands; the
\* tasks in it change only while it is left alone.
LEMMA StoreEvolves ==
  ASSUME IInv, [Next]_vars
  PROVE  Evolves /\ (users' = users \/ store' = store)
<1> USE AbsentAssumption
<1> USE DEF IInv, TypeOK, Evolves, Stands
<1>1. CASE Clone \/ CloneKilled
  <2>1. store = Absent /\ UNCHANGED users
    BY <1>1 DEF Clone, CloneKilled, Write, Progress
  <2>2. store' \in Contents /\ store'.workspace = "none"
    <3>1. CASE Clone
      BY <3>1, CloneLeaves DEF Clone, Write
    <3>2. CASE CloneKilled
      <4>1. PICK b \in BOOLEAN, o \in {"none", "workspace"} :
              store' = [Cloned EXCEPT !.borrows = b, !.origin = o]
        BY <3>2 DEF CloneKilled
      <4> QED
        BY <4>1, CloneLeaves
    <3> QED
      BY <1>1, <3>1, <3>2
  <2> QED
    BY <2>1, <2>2
<1>2. CASE UNCHANGED store
  BY <1>2
<1>3. ASSUME store # Absent, UNCHANGED users,
             NEW f \in {"copied", "borrows", "tracks", "workspace", "local",
                        "id", "marked"},
             OnlyIn(f, store', store),
             f = "copied" => store'.copied,
             f = "borrows" => ~store'.borrows,
             f = "workspace" => store'.workspace # "none"
      PROVE  Evolves
  BY <1>3 DEF OnlyIn
<1>4. CASE Origin
  <2>1. /\ store \in Contents /\ store.workspace = "none"
        /\ UNCHANGED users
    BY <1>4 DEF Origin, Progress, Copied, Reached, Tracked, Dropped
  <2>2. store' = store \/ OnlyIn("origin", store', store)
    <3>1. ASSUME NEW o \in {"none", "workspace", "upstream"},
                 store' = [store EXCEPT !.origin = o]
          PROVE  OnlyIn("origin", store', store)
      BY ONLY <2>1, <3>1, Updates
    <3> QED
      BY <1>4, <3>1 DEF Origin
  <2>3. store' \in Contents /\ store'.workspace = "none"
    BY <2>1, <2>2 DEF OnlyIn
  <2> QED
    BY <2>1, <2>3
<1>5. CASE Repack
  <2>1. /\ store \in Contents /\ UNCHANGED users
        /\ OnlyIn("copied", store', store) /\ store'.copied = TRUE
    BY Updates, <1>5 DEF Repack, Write, Progress
  <2> QED
    BY <2>1, <1>3
<1>6. CASE Deborrow
  <2>1. /\ store \in Contents /\ UNCHANGED users
        /\ OnlyIn("borrows", store', store) /\ store'.borrows = FALSE
    BY Updates, <1>6 DEF Deborrow, Write, Progress
  <2> QED
    BY <2>1, <1>3
<1>7. CASE Refspec
  <2>1. /\ store \in Contents /\ UNCHANGED users
        /\ OnlyIn("tracks", store', store) /\ store'.tracks = TRUE
    BY Updates, <1>7 DEF Refspec, Write, Progress
  <2> QED
    BY <2>1, <1>3
<1>8. CASE Workspace
  <2>1. /\ store \in Contents /\ UNCHANGED users
        /\ OnlyIn("workspace", store', store) /\ store'.workspace = "default"
    BY Updates, <1>8 DEF Workspace, Write, Progress
  <2> QED
    BY <2>1, <1>3
<1>9. CASE WorkspaceRefspec
  <2>1. /\ store \in Contents /\ UNCHANGED users
        /\ OnlyIn("workspace", store', store) /\ store'.workspace = "ws"
    BY Updates, <1>9 DEF WorkspaceRefspec, Write, Progress
  <2> QED
    BY <2>1, <1>3
<1>10. CASE Mark
  <2>1. /\ store \in Contents /\ UNCHANGED users
        /\ OnlyIn("marked", store', store) /\ store'.marked = TRUE
    BY Updates, <1>10 DEF Mark, Progress
  <2> QED
    BY <2>1, <1>3
<1>11. CASE Adopt
  <2>1. store \in Contents /\ UNCHANGED users
    BY <1>11 DEF Adopt, Progress
  <2>2. store' = store \/ OnlyIn("marked", store', store)
    <3>1. ASSUME store' = [store EXCEPT !.marked = TRUE]
          PROVE  OnlyIn("marked", store', store)
      BY ONLY <2>1, <3>1, Updates
    <3> QED
      BY <1>11, <3>1 DEF Adopt
  <2> QED
    BY <2>1, <2>2, <1>3
<1>12. CASE Bridge
  <2>1. store \in Contents /\ UNCHANGED users
    BY <1>12 DEF Bridge, Progress
  <2>2. PICK i \in Ids \cup {Unset} :
          store' = store \/ store' = [store EXCEPT !.id = i]
    BY <1>12 DEF Bridge, Bridged, Wanted
  <2>3. store' = store \/ OnlyIn("id", store', store)
    <3>1. ASSUME store' = [store EXCEPT !.id = i]
          PROVE  OnlyIn("id", store', store)
      BY ONLY <2>1, <3>1, i \in Ids \cup {Unset}, Updates
    <3> QED
      BY <2>2, <3>1
  <2> QED
    BY <2>1, <2>3, <1>3
<1>13. ASSUME NEW x \in Settings, Harden(x)
      PROVE  Evolves /\ UNCHANGED users
  <2>1. /\ store \in Contents /\ UNCHANGED users
        /\ store.local \cup {x} \in SUBSET Settings
    BY <1>13 DEF Harden, Write, Progress, Contents, Settings
  <2>2. OnlyIn("local", store', store)
    BY <2>1, <1>13, Updates DEF Harden, Write
  <2> QED
    BY <2>1, <2>2, <1>3
<1> QED
  BY <1>1, <1>2, <1>3, <1>4, <1>5, <1>6, <1>7, <1>8, <1>9, <1>10, <1>11, <1>12, <1>13, Zenon
  DEF Next, vars, Begin, Detach, Stat, Stamp, Stop, Attach, Develop

\* Ensure implements the abstract promise: whatever is interrupted, refused
\* or reconfigured, tasks work only in a store that stands on its own, and a
\* store that exists is never deleted or built again.
THEOREM StoreImplementsPromise == Spec => KeepsPromise
<1>1. Init => Promise!Init
  BY DEF Init, Promise!Init, Phase
<1>2. IInv /\ [Next]_vars => [Promise!Next]_<<Phase, users>>
  <2> SUFFICES ASSUME IInv, [Next]_vars
               PROVE  Promise!Next \/ UNCHANGED <<Phase, users>>
    OBVIOUS
  <2>1. CASE UNCHANGED users
    BY <2>1, StoreEvolves, AbsentAssumption
    DEF Evolves, Phase, Promise!Next, Promise!Build, Promise!Finish
  <2>2. CASE UNCHANGED store /\ users' # users
    <3>1. Phase' = Phase
      BY <2>2 DEF Phase, Stands
    <3>2. CASE Attach
      <4>1. task \in Tasks /\ Phase = "standing"
        BY <3>2 DEF Attach, IInv, Progress, Phase
      <4> QED
        BY <3>1, <3>2, <4>1 DEF Attach, Promise!Next, Promise!Join
    <3>3. ASSUME NEW t \in Tasks, Detach(t) PROVE Promise!Next
      BY <3>1, <3>3 DEF Detach, Promise!Next, Promise!Leave
    <3> QED
      BY <2>2, <3>2, <3>3
      DEF Next, vars, developer, Begin, Stat, Adopt, Clone, CloneKilled,
          Repack, Deborrow, Origin, Refspec, Workspace, WorkspaceRefspec,
          Harden, Write, Bridge, Stamp, Mark, Stop, Develop
  <2> QED
    BY <2>1, <2>2, StoreEvolves
<1> QED
  BY <1>1, <1>2, Invariance, PTL DEF Spec, KeepsPromise, Promise!Spec
=============================================================================
