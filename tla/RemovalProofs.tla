---------------------------- MODULE RemovalProofs ----------------------------
(***************************************************************************)
(* Proofs about Removal: for any works and repositories, whatever command  *)
(* of git or step fails, and whatever the agent does in between.           *)
(***************************************************************************)
EXTENDS Removal, TLAPS

Preflight == {"dirty", "ignored", "paused", "unpushed", "submodule"}
Finish == {"prune", "keep", "drop"}
Kept == {"file", "ignored", "paused", "detached", "submodule"}

\* The places looked at by the checks that come before this one.
Before == [dirty |-> {}, ignored |-> {"file"}, paused |-> {"file", "ignored"},
           unpushed |-> {"file", "ignored", "paused"},
           submodule |-> {"file", "ignored", "paused", "detached"}]

\* The places where the removal has looked for the works of a repository.
Looked(r) ==
  IF pc \in Preflight
    THEN IF r < at THEN Kept ELSE IF r = at THEN Before[pc] ELSE {}
  ELSE IF pc = "walk" THEN Kept
  ELSE IF pc \in {"slots", "verdict", "fence"} THEN InTree \cup InAdmin
  ELSE {}

\* The repository in hand, and what goes with the tree.
Control ==
  /\ pc \notin Preflight \cup Finish => at = 1
  /\ pc \in Finish \cup {"delete"} => tree # "placed"
  /\ pc = "forget" => tree = "none"
  /\ tree = "none" => \A w \in Works : where[w] \notin InTree
  /\ ~rec => tree = "none" /\ pc = "idle" /\ \A w \in Works : where[w] \notin InAdmin
  /\ \A w \in Works : where[w] = "detached" => head[in[w]] = "detached"
  /\ \A w \in Works : where[w] = "branch" => in[w] \in branch

Basic == TypeOK /\ Control

-----------------------------------------------------------------------------
(* Types and control.                                                      *)

LEMMA ChecksAre ==
  /\ Len(Checks) = 5 /\ 1..Len(Checks) = {1, 2, 3, 4, 5}
  /\ Checks[1] = "dirty" /\ Checks[2] = "ignored" /\ Checks[3] = "paused"
  /\ Checks[4] = "unpushed" /\ Checks[5] = "submodule"
BY DEF Checks

LEMMA EndsAre ==
  /\ Len(Ends) = 3 /\ 1..Len(Ends) = {1, 2, 3}
  /\ Ends[1] = "prune" /\ Ends[2] = "keep" /\ Ends[3] = "drop"
BY DEF Ends

LEMMA StepsAre ==
  Steps = Preflight \cup Finish
          \cup {"idle", "walk", "slots", "verdict", "fence", "delete", "forget"}
<1>1. {Checks[i] : i \in 1..5} = Preflight
  BY ChecksAre DEF Preflight
<1>2. {Ends[i] : i \in 1..3} = Finish
  BY EndsAre DEF Finish
<1> QED
  BY <1>1, <1>2 DEF Steps

\* Where a check goes next.
LEMMA AfterCheck ==
  ASSUME Basic, NEW i \in 1..Len(Checks), pc = Checks[i], After(Checks, i, "walk")
  PROVE  /\ at \in Repos /\ at' \in Repos
         /\ \/ pc = "dirty" /\ pc' = "ignored" /\ at' = at
            \/ pc = "ignored" /\ pc' = "paused" /\ at' = at
            \/ pc = "paused" /\ pc' = "unpushed" /\ at' = at
            \/ pc = "unpushed" /\ pc' = "submodule" /\ at' = at
            \/ pc = "submodule" /\ at < N /\ pc' = "dirty" /\ at' = at + 1
            \/ pc = "submodule" /\ at = N /\ pc' = "walk" /\ at' = 1
<1>1. at \in Repos /\ N \in Nat \ {0} /\ Repos = 1..N
  BY NAssumption DEF Basic, TypeOK, Repos
<1>2. i \in {1, 2, 3, 4, 5}
  BY ChecksAre
<1>3. CASE i = 1
  BY <1>1, <1>3, ChecksAre DEF After, Goto
<1>4. CASE i = 2
  BY <1>1, <1>4, ChecksAre DEF After, Goto
<1>5. CASE i = 3
  BY <1>1, <1>5, ChecksAre DEF After, Goto
<1>6. CASE i = 4
  BY <1>1, <1>6, ChecksAre DEF After, Goto
<1>7. CASE i = 5
  <2>1. pc = "submodule" /\ NextRepo("dirty", "walk")
    BY <1>7, ChecksAre DEF After
  <2> QED
    BY <1>1, <2>1 DEF NextRepo
<1> QED
  BY <1>2, <1>3, <1>4, <1>5, <1>6, <1>7

\* Where a check of a worktree that is not there goes next.
LEMMA PastMissing ==
  ASSUME Basic, NextRepo(Checks[1], "walk")
  PROVE  /\ at \in Repos /\ at' \in Repos
         /\ \/ at < N /\ pc' = "dirty" /\ at' = at + 1
            \/ at = N /\ pc' = "walk" /\ at' = 1
BY NAssumption, ChecksAre DEF NextRepo, Basic, TypeOK, Repos

LEMMA AfterEnd ==
  ASSUME Basic, NEW i \in 1..Len(Ends), pc = Ends[i], After(Ends, i, "delete")
  PROVE  /\ at \in Repos /\ at' \in Repos
         /\ \/ pc = "prune" /\ pc' = "keep" /\ at' = at
            \/ pc = "keep" /\ pc' = "drop" /\ at' = at
            \/ pc = "drop" /\ at < N /\ pc' = "prune" /\ at' = at + 1
            \/ pc = "drop" /\ at = N /\ pc' = "delete" /\ at' = 1
<1>1. at \in Repos /\ N \in Nat \ {0} /\ Repos = 1..N
  BY NAssumption DEF Basic, TypeOK, Repos
<1>2. i \in {1, 2, 3}
  BY EndsAre
<1>3. CASE i = 1
  BY <1>1, <1>3, EndsAre DEF After, Goto
<1>4. CASE i = 2
  BY <1>1, <1>4, EndsAre DEF After, Goto
<1>5. CASE i = 3
  <2>1. pc = "drop" /\ NextRepo("prune", "delete")
    BY <1>5, EndsAre DEF After
  <2> QED
    BY <1>1, <2>1 DEF NextRepo
<1> QED
  BY <1>2, <1>3, <1>4, <1>5

LEMMA BasicInit == Init => Basic
<1> SUFFICES ASSUME Init PROVE Basic
  OBVIOUS
<1>1. 1 \in Repos
  BY NAssumption DEF Repos
<1>2. TypeOK
  BY <1>1, StepsAre DEF Init, TypeOK, Places
<1>3. Control
  BY DEF Init, Control, InTree, InAdmin, Preflight, Finish
<1> QED
  BY <1>2, <1>3 DEF Basic

\* The works a step has not put elsewhere are where they were.
LEMMA PutTyped ==
  ASSUME Basic, NEW S, NEW here \in Places, Put(S, here)
  PROVE  /\ where' \in [Works -> Places]
         /\ \A w \in Works : where'[w] = IF w \in S THEN here ELSE where[w]
BY DEF Put, Basic, TypeOK

\* A step of the removal that leaves the disk alone.
LEMMA LookingKeeps ==
  ASSUME Basic, UNCHANGED <<disk, where>>, rec, pc' \in Steps, at' \in Repos,
         found' \in SUBSET Blockers, force' \in BOOLEAN, UNCHANGED closed,
         fresh' \in SUBSET Works, unread' \in SUBSET Works, silent' \in SUBSET Repos,
         pc' \notin Preflight \cup Finish => at' = 1,
         pc' \in Finish \cup {"delete"} => tree # "placed",
         pc' # "forget"
  PROVE  Basic'
<1>1. TypeOK'
  BY DEF disk, Basic, TypeOK
<1>2. Control'
  BY DEF disk, Basic, Control
<1> QED
  BY <1>1, <1>2 DEF Basic

\* Works on the move: only the worktree HEAD and the branch of a repository
\* that is there gain commits.
LEMMA MovingKeeps ==
  ASSUME Basic, UNCHANGED <<disk, force, pc, at, found, closed, unread, silent>>,
         where' \in [Works -> Places], fresh' \in SUBSET Works,
         \A w \in Works : where'[w] = where[w]
           \/ /\ where'[w] \in InTree => tree # "none"
              /\ where'[w] \in InAdmin => tree # "none"
              /\ where'[w] = "detached" => head[in[w]] = "detached"
              /\ where'[w] = "branch" => in[w] \in branch
  PROVE  Basic'
<1>1. TypeOK'
  BY DEF disk, Basic, TypeOK
<1>2. Control'
  BY DEF disk, Basic, Control
<1> QED
  BY <1>1, <1>2 DEF Basic

LEMMA PreflightKeeps ==
  ASSUME Basic,
         (\E forced \in BOOLEAN : Begin(forced)) \/ Check \/ Walk \/ Slots \/ Verdict \/ Crash
  PROVE  Basic'
<1>0. /\ 1 \in Repos /\ "file" \in InTree
      /\ Preflight \subseteq Blockers /\ {"foreign", "root", "copy", "missing", "failed"} \subseteq Blockers
      /\ found \in SUBSET Blockers
      /\ pc # "idle" => rec
  BY NAssumption DEF Repos, InTree, Blockers, Preflight, Basic, TypeOK, Control
<1>1. ASSUME NEW forced \in BOOLEAN, Begin(forced) PROVE Basic'
  <2>1. at' = at /\ pc' \in {"dirty", "prune"} /\ UNCHANGED <<disk, where, found, closed>> /\ rec
        /\ (pc' = "prune" => tree # "placed")
    BY <1>1, ChecksAre, EndsAre DEF Begin, Goto
  <2>2. /\ force' \in BOOLEAN /\ fresh' \in SUBSET Works /\ unread' \in SUBSET Works
        /\ silent' \in SUBSET Repos
    BY <1>1 DEF Begin, Basic, TypeOK
  <2> QED
    BY <1>0, <2>1, <2>2, LookingKeeps, StepsAre DEF Basic, TypeOK, Preflight, Finish
<1>2. CASE Check
  <2>1. PICK i \in 1..Len(Checks) :
          /\ pc = Checks[i]
          /\ \/ /\ i = 1 /\ at \in gone
                /\ found' = found \cup {"missing"}
                /\ NextRepo(Checks[1], "walk")
                /\ UNCHANGED unread
             \/ /\ at \notin gone
                /\ found' = found \cup {c \in {pc} : At(at, Sees(at, pc)) \ closed # {}}
                /\ unread' = unread \cup (At(at, Sees(at, pc)) \cap closed)
                /\ After(Checks, i, "walk")
             \/ /\ IF at \in gone THEN i > 1 ELSE "check" \in Faults
                /\ found' = found \cup {"failed"}
                /\ After(Checks, i, "walk")
                /\ UNCHANGED unread
    BY <1>2 DEF Check
  <2>2. pc \in Preflight
    BY <2>1, ChecksAre DEF Preflight
  <2>3. found' \in SUBSET Blockers
    <3>1. {c \in {pc} : At(at, Sees(at, pc)) \ closed # {}} \subseteq {pc} /\ pc \in Blockers
      BY <1>0, <2>2
    <3>2. \E S \in SUBSET Blockers : found' = found \cup S
      BY <1>0, <2>1, <3>1
    <3> QED
      BY <1>0, <3>2
  <2>4. at' \in Repos /\ pc' \in Preflight \cup {"walk"} /\ (pc' = "walk" => at' = 1)
    BY <2>1, AfterCheck, PastMissing DEF Preflight
  <2>5. UNCHANGED <<disk, where, force, closed, fresh, silent>> /\ rec
    BY <1>0, <1>2, <2>2 DEF Check, Preflight
  <2>6. unread' \in SUBSET Works
    BY <2>1 DEF At, In, Basic, TypeOK
  <2> QED
    BY <1>0, <2>3, <2>4, <2>5, <2>6, LookingKeeps, StepsAre DEF Basic, TypeOK, Preflight, Finish
<1>3. CASE Walk \/ Slots
  <2>1. /\ pc \in {"walk", "slots"} /\ pc' \in {"slots", "verdict"} /\ at' = at
        /\ UNCHANGED <<disk, where, force, closed, fresh, silent>>
    BY <1>3 DEF Walk, Slots, Goto
  <2>2. \E S \in SUBSET {"foreign", "root", "copy"} : found' = found \cup S
    <3>1. CASE Walk
      <4>1. {where[w] : w \in {v \in Works : where[v] \in {"foreign", "root", "copy"}} \ closed}
              \subseteq {"foreign", "root", "copy"}
        OBVIOUS
      <4> QED
        BY <3>1, <4>1 DEF Walk
    <3>2. CASE Slots
      BY <3>2 DEF Slots
    <3> QED
      BY <1>3, <3>1, <3>2
  <2>3. found' \in SUBSET Blockers
    BY <1>0, <2>2
  <2>4. unread' \in SUBSET Works
    BY <1>3 DEF Walk, Slots, Basic, TypeOK
  <2> QED
    BY <1>0, <2>1, <2>3, <2>4, LookingKeeps, StepsAre DEF Basic, TypeOK, Control, Preflight, Finish
<1>4. CASE Verdict \/ Crash
  <2>1. /\ pc # "idle" /\ pc' \in {"idle", "fence"} /\ UNCHANGED <<disk, where, force, closed, fresh, unread, silent>>
        /\ found' \in {found, {}} /\ at' \in {1, at}
        /\ at' = 1 \/ pc = "verdict"
    BY <1>4 DEF Verdict, Crash, Goto, Stop
  <2>2. at' = 1
    BY <2>1 DEF Basic, Control, Preflight, Finish
  <2>3. found' \in SUBSET Blockers
    BY <1>0, <2>1
  <2> QED
    BY <1>0, <2>1, <2>2, <2>3, LookingKeeps, StepsAre DEF Basic, TypeOK, Preflight, Finish
<1> QED
  BY <1>1, <1>2, <1>3, <1>4

LEMMA FinishKeeps ==
  ASSUME Basic, Fence \/ End \/ Delete \/ Forget
  PROVE  Basic'
<1>0. /\ 1 \in Repos /\ found \in SUBSET Blockers /\ {} \in SUBSET Blockers
      /\ "lost" \in Places \ (InTree \cup InAdmin) /\ "parked" \in Places \ (InTree \cup InAdmin)
      /\ pc # "idle" => rec
  BY NAssumption DEF Repos, Places, InTree, InAdmin, Basic, TypeOK, Control
<1>1. CASE Fence
  <2>1. /\ pc = "fence" /\ at = 1 /\ at' = 1 /\ rec
        /\ UNCHANGED <<in, where, head, gone, admin, branch, rec, force, closed, fresh, unread, silent>>
        /\ found' \in SUBSET Blockers
        /\ \/ tree = "placed" /\ tree' = "staged" /\ pc' = "prune"
           \/ UNCHANGED tree /\ pc' = "idle"
    BY <1>0, <1>1, EndsAre DEF Fence, Goto, Stop, Basic, Control, Preflight, Finish
  <2>2. TypeOK'
    BY <1>0, <2>1, StepsAre DEF Basic, TypeOK, Finish
  <2>3. Control'
    BY <2>1 DEF Basic, TypeOK, Control, Preflight, Finish
  <2> QED
    BY <2>2, <2>3 DEF Basic
<1>2. CASE End
  <2>1. PICK i \in 1..Len(Ends) :
          /\ pc = Ends[i]
          /\ \/ pc = "prune" /\ Prune
             \/ pc = "keep" /\ Keep
             \/ pc = "drop" /\ Drop
          /\ After(Ends, i, "delete")
    BY <1>2 DEF End
  <2>2. /\ pc \in Finish /\ pc' \in Finish \cup {"delete"} /\ at' \in Repos /\ at \in Repos
        /\ pc' = "delete" => at' = 1
    BY <2>1, AfterEnd, EndsAre DEF Finish
  <2>3. UNCHANGED <<in, head, gone, tree, rec, force, found, closed, fresh, unread>>
    BY <1>2 DEF End
  <2>4. /\ where' \in [Works -> Places] /\ admin' \in SUBSET Repos /\ branch' \in SUBSET Repos
        /\ silent' \in SUBSET Repos
        /\ \A w \in Works : where'[w] \in {where[w], "lost", "parked"}
    <3>1. CASE Prune
      <4>1. PICK S : where' = where \/ Put(S, "lost")
        BY <3>1 DEF Prune
      <4> QED
        BY <1>0, <2>2, <3>1, <4>1, PutTyped DEF Prune, Basic, TypeOK
    <3>2. CASE Keep
      <4>1. \/ UNCHANGED where
            \/ where' = [w \in Works |->
                 IF at \notin branch \/ At(at, {"branch"}) = {} \/ in[w] # at
                   THEN where[w]
                 ELSE IF where[w] = "branch" THEN "parked"
                 ELSE IF where[w] = "parked" THEN "lost" ELSE where[w]]
        BY <3>2 DEF Keep
      <4>2. where' \in [Works -> Places] /\ \A w \in Works : where'[w] \in {where[w], "lost", "parked"}
        BY <1>0, <4>1 DEF Basic, TypeOK
      <4> QED
        BY <2>2, <3>2, <4>2 DEF Keep, Basic, TypeOK
    <3>3. CASE Drop
      <4>1. where' = where \/ Put(At(at, {"branch"}), "lost")
        BY <3>3 DEF Drop
      <4> QED
        BY <1>0, <2>2, <3>3, <4>1, PutTyped DEF Drop, Basic, TypeOK
    <3> QED
      BY <2>1, <3>1, <3>2, <3>3
  <2>5. TypeOK'
    BY <2>2, <2>3, <2>4, StepsAre DEF Basic, TypeOK
  <2>6. \A w \in Works : where'[w] = "branch" => in[w] \in branch'
    <3>1. CASE branch' = branch
      BY <1>0, <2>4, <3>1 DEF Basic, Control
    <3>2. CASE branch' # branch
      <4>1. branch' = branch \ {at} /\ Put(At(at, {"branch"}), "lost")
        BY <2>1, <3>2 DEF Prune, Keep, Drop
      <4>2. \A w \in Works : where'[w] = IF w \in At(at, {"branch"}) THEN "lost" ELSE where[w]
        BY <1>0, <4>1, PutTyped
      <4> QED
        BY <4>1, <4>2 DEF At, In, Basic, Control
    <3> QED
      BY <3>1, <3>2
  <2>7. Control'
    <3>1. \A w \in Works : /\ where'[w] \in InTree => where[w] \in InTree
                           /\ where'[w] \in InAdmin => where[w] \in InAdmin
                           /\ where'[w] = "detached" => where[w] = "detached"
      BY <1>0, <2>4 DEF InAdmin
    <3> QED
      BY <1>0, <2>2, <2>3, <2>6, <3>1 DEF Basic, Control, Finish
  <2> QED
    BY <2>5, <2>7 DEF Basic
<1>3. CASE Delete
  <2>1. /\ pc = "delete" /\ at = 1 /\ rec /\ at' = 1
        /\ UNCHANGED <<in, head, gone, admin, branch, rec, force, closed, fresh, unread, silent>>
        /\ found' \in SUBSET Blockers
    BY <1>0, <1>3 DEF Delete, Goto, Stop, Basic, Control, Preflight, Finish
  <2>2. PICK S \in SUBSET {w \in Works : where[w] \in InTree} :
          /\ Put(S, "lost")
          /\ \/ tree' = "none" /\ S = {w \in Works : where[w] \in InTree} /\ pc' = "forget"
             \/ tree' = tree /\ tree = "staged" /\ pc' = "idle"
    BY <1>3 DEF Delete, Goto, Stop
  <2>3. /\ where' \in [Works -> Places]
        /\ \A w \in Works : where'[w] = IF w \in S THEN "lost" ELSE where[w]
    BY <1>0, <2>2, PutTyped
  <2>4. TypeOK'
    BY <1>0, <2>1, <2>2, <2>3, StepsAre DEF Basic, TypeOK
  <2>5. Control'
    BY <1>0, <2>1, <2>2, <2>3 DEF Basic, TypeOK, Control, Preflight, Finish
  <2> QED
    BY <2>4, <2>5 DEF Basic
<1>4. CASE Forget
  <2>1. /\ pc = "forget" /\ pc' = "idle" /\ at' = 1 /\ rec' = FALSE /\ tree = "none"
        /\ UNCHANGED <<in, head, gone, admin, branch, tree, force, closed, fresh, unread, silent>>
        /\ found' \in SUBSET Blockers
    BY <1>0, <1>4 DEF Forget, Stop, Basic, Control
  <2>2. /\ where' \in [Works -> Places]
        /\ \A w \in Works : where'[w] = IF where[w] \in InAdmin THEN "lost" ELSE where[w]
    BY <1>0, <1>4, PutTyped DEF Forget
  <2>3. TypeOK'
    BY <1>0, <2>1, <2>2, StepsAre DEF Basic, TypeOK
  <2>4. Control'
    BY <1>0, <2>1, <2>2 DEF Basic, TypeOK, Control, Preflight, Finish
  <2> QED
    BY <2>3, <2>4 DEF Basic
<1> QED
  BY <1>1, <1>2, <1>3, <1>4

\* Agent and user.
Meddling ==
  \/ \E w \in Works : Make(w) \/ Forward(w) \/ Back(w)
  \/ \E r \in Repos : Switch(r)
  \/ Wipe \/ Reuse

\* What can be read changes, and nothing else.
Closing == \E w \in Works : Close(w) \/ Open(w)

LEMMA ClosingIs ==
  ASSUME Basic, Closing
  PROVE  /\ closed' \in SUBSET Works
         /\ UNCHANGED <<in, where, head, gone, admin, branch, tree, rec, force, pc, at,
                        found, fresh, unread, silent>>
BY DEF Closing, Close, Open, disk, Basic, TypeOK

\* The commits of a worktree are where its HEAD is.
LEMMA HeadReaches ==
  ASSUME Basic, NEW r \in Repos
  PROVE  /\ head[r] \in Reach(r) /\ Reach(r) \subseteq {"branch", "detached", "other"}
         /\ head[r] = "detached" => "detached" \in Reach(r)
<1>1. head[r] \in {"branch", "detached", "other"}
  BY DEF Basic, TypeOK
<1> QED
  BY <1>1 DEF Reach

\* What one work of the agent's does: where it goes.
LEMMA MovesOf ==
  ASSUME Basic, NEW w \in Works, Make(w) \/ Forward(w) \/ Back(w)
  PROVE  /\ UNCHANGED <<disk, force, pc, at, found, closed, unread, silent>>
         /\ where' \in [Works -> Places]
         /\ \A v \in Works \ {w} : where'[v] = where[v]
         /\ \/ Workable(w) /\ fresh' = fresh \cup {w}
               /\ where'[w] \in InTree \cup {"paused", "submodule"}
            \/ /\ fresh' = fresh
               /\ \/ where[w] \in {"file", "paused"} /\ where'[w] = head[in[w]]
                     /\ (head[in[w]] = "branch" => in[w] \in branch)
                     /\ Workable(w)
                  \/ where[w] = "file" /\ where'[w] \in {"ignored", "root"} /\ Workable(w)
                  \/ where'[w] = "remote"
<1>0. in[w] \in Repos /\ InTree \cup InAdmin \cup {"remote"} \subseteq Places /\ "file" \in InTree
  BY DEF Basic, TypeOK, InTree, InAdmin, Places
<1>1. head[in[w]] \in Places /\ Reach(in[w]) \subseteq {"branch", "detached", "other"}
  BY <1>0, HeadReaches DEF Places, InAdmin
<1>2. CASE Make(w)
  <2>1. PICK here \in InTree \cup {"paused", "submodule"} : Move(w, here)
    BY <1>2 DEF Make
  <2>2. here \in Places
    BY <1>0, <2>1 DEF InAdmin
  <2>3. Workable(w) /\ fresh' = fresh \cup {w}
    BY <1>2 DEF Make
  <2> QED
    BY <2>1, <2>2, <2>3, PutTyped DEF Move
<1>3. CASE Back(w)
  <2>1. Move(w, "file") /\ Workable(w) /\ fresh' = fresh \cup {w} /\ "file" \in Places
    BY <1>0, <1>3 DEF Back, Registered
  <2> QED
    BY <1>0, <2>1, PutTyped DEF Move
<1>4. CASE Forward(w)
  <2>1. \E here \in Places :
          /\ Move(w, here)
          /\ \/ where[w] \in {"file", "paused"} /\ here = head[in[w]]
                /\ (head[in[w]] = "branch" => in[w] \in branch) /\ Workable(w)
             \/ where[w] = "file" /\ here \in {"ignored", "root"} /\ Workable(w)
             \/ here = "remote"
    BY <1>0, <1>1, <1>4 DEF Forward, Registered, InTree
  <2>2. fresh' = fresh
    BY <1>4 DEF Forward
  <2> QED
    BY <2>1, <2>2, PutTyped DEF Move
<1> QED
  BY <1>2, <1>3, <1>4

LEMMA MeddlingKeeps ==
  ASSUME Basic, Meddling
  PROVE  Basic'
<1>0. "dropped" \in Places /\ "dropped" \notin InTree \cup InAdmin \cup {"branch"}
  BY DEF Places, InTree, InAdmin
<1>1. ASSUME NEW w \in Works, Make(w) \/ Forward(w) \/ Back(w) PROVE Basic'
  <2>1. fresh' \in SUBSET Works
    BY <1>1, MovesOf DEF Basic, TypeOK
  <2>2. \A v \in Works : where'[v] = where[v]
           \/ /\ where'[v] \in InTree => tree # "none"
              /\ where'[v] \in InAdmin => tree # "none"
              /\ where'[v] = "detached" => head[in[v]] = "detached"
              /\ where'[v] = "branch" => in[v] \in branch
    BY <1>1, MovesOf DEF Workable, InTree, InAdmin
  <2> QED
    BY <1>1, <2>1, <2>2, MovesOf, MovingKeeps
<1>2. ASSUME NEW r \in Repos, Switch(r) PROVE Basic'
  <2>1. /\ UNCHANGED <<in, gone, admin, branch, tree, rec, force, pc, at, found,
                     closed, fresh, unread, silent>>
        /\ head' \in [Repos -> {"branch", "detached", "other"}]
        /\ \A q \in Repos \ {r} : head'[q] = head[q]
    BY <1>2 DEF Switch, Basic, TypeOK
  <2>2. /\ where' \in [Works -> Places]
        /\ \A w \in Works : where'[w] = IF w \in At(r, {"detached"}) THEN "dropped" ELSE where[w]
    BY <1>0, <1>2, PutTyped DEF Switch
  <2>3. \A w \in Works : where'[w] = "detached" => head'[in[w]] = "detached"
    BY <1>0, <2>1, <2>2 DEF At, In, InAdmin, Basic, TypeOK, Control
  <2>4. TypeOK'
    BY <2>1, <2>2 DEF Basic, TypeOK
  <2>5. Control'
    BY <1>0, <2>1, <2>2, <2>3 DEF Basic, Control
  <2> QED
    BY <2>4, <2>5 DEF Basic
<1>3. CASE Wipe
  <2>1. PICK S :
          /\ Put(S, "dropped")
          /\ UNCHANGED <<in, head, admin, branch, rec, force, pc, at, found, closed, unread, silent>>
          /\ gone' \in SUBSET Repos /\ fresh' \in SUBSET Works
          /\ tree = "placed"
          /\ \/ tree' = tree
             \/ tree' = "none" /\ S = {w \in Works : where[w] \in InTree}
    BY <1>3 DEF Wipe, Basic, TypeOK, In
  <2>2. /\ where' \in [Works -> Places]
        /\ \A w \in Works : where'[w] = IF w \in S THEN "dropped" ELSE where[w]
    BY <1>0, <2>1, PutTyped
  <2>3. TypeOK'
    BY <2>1, <2>2 DEF Basic, TypeOK
  <2>4. Control'
    BY <1>0, <2>1, <2>2 DEF Basic, Control
  <2> QED
    BY <2>3, <2>4 DEF Basic
<1>4. CASE Reuse
  <2>1. TypeOK'
    BY <1>4 DEF Reuse, Basic, TypeOK
  <2>2. \A w \in Works : where[w] # "detached"
    BY <1>4 DEF Reuse, Basic, Control, InAdmin
  <2>3. Control'
    BY <1>4, <2>2 DEF Reuse, Basic, TypeOK, Control, Finish
  <2> QED
    BY <2>1, <2>3 DEF Basic
<1> QED
  BY <1>1, <1>2, <1>3, <1>4 DEF Meddling

LEMMA BasicStep == Basic /\ [Next]_vars => Basic'
<1>1. ASSUME Basic, Next PROVE Basic'
  <2>1. CASE Closing
    <3>1. TypeOK'
      BY <1>1, <2>1, ClosingIs DEF Basic, TypeOK
    <3>2. Control'
      BY <1>1, <2>1, ClosingIs DEF Basic, Control
    <3> QED
      BY <3>1, <3>2 DEF Basic
  <2> QED
    BY <1>1, <2>1, PreflightKeeps, FinishKeeps, MeddlingKeeps DEF Next, Meddling, Closing
<1>2. ASSUME Basic, UNCHANGED vars PROVE Basic'
  BY <1>2 DEF vars, disk, Basic, TypeOK, Control
<1> QED
  BY <1>1, <1>2

\* Every variable of a removal keeps its type, whatever fails and whatever
\* agent and user do, for any works and repositories.
THEOREM RemovalTyped == Spec => []TypeOK
BY BasicInit, BasicStep, PTL DEF Spec, Basic

-----------------------------------------------------------------------------
(* Commits of the task's branch.                                           *)

\* Once a worktree has been pruned nobody commits there, so the tip that is
\* parked is the last one.
Parking ==
  /\ pc \in {"keep", "drop"} => at \notin admin \/ at \in silent
  /\ pc = "drop" => at \in silent \/ \A w \in Works : in[w] = at => where[w] # "branch"

LEMMA ParkingStep == Basic /\ Basic' /\ Parking /\ [Next]_vars => Parking'
<1> SUFFICES ASSUME Basic, Basic', Parking, [Next]_vars PROVE Parking'
  OBVIOUS
<1>1. CASE pc' \notin {"keep", "drop"}
  BY <1>1 DEF Parking
<1>2. CASE End
  <2>1. PICK i \in 1..Len(Ends) :
          /\ pc = Ends[i]
          /\ \/ pc = "prune" /\ Prune
             \/ pc = "keep" /\ Keep
             \/ pc = "drop" /\ Drop
          /\ After(Ends, i, "delete")
    BY <1>2 DEF End
  <2>2. in' = in
    BY <1>2 DEF End
  <2>3. CASE pc = "prune"
    <3>1. pc' = "keep" /\ at' = at
      BY <2>1, <2>3, AfterEnd
    <3>2. at \notin admin' \/ at \in silent'
      BY <2>1, <2>3 DEF Prune
    <3> QED
      BY <3>1, <3>2 DEF Parking
  <2>4. CASE pc = "keep"
    <3>1. pc' = "drop" /\ at' = at /\ Keep /\ UNCHANGED admin
      BY <2>1, <2>4, AfterEnd DEF Keep
    <3>2. at \notin admin' \/ at \in silent'
      BY <2>4, <3>1 DEF Keep, Parking
    <3>3. ASSUME at \notin silent', NEW w \in Works, in[w] = at, where'[w] = "branch" PROVE FALSE
      <4>1. where' = [v \in Works |->
              IF at \notin branch \/ At(at, {"branch"}) = {} \/ in[v] # at
                THEN where[v]
              ELSE IF where[v] = "branch" THEN "parked"
              ELSE IF where[v] = "parked" THEN "lost" ELSE where[v]]
        BY <3>1, <3>3 DEF Keep
      <4>2. where'[w] =
              IF at \notin branch \/ At(at, {"branch"}) = {} \/ in[w] # at
                THEN where[w]
              ELSE IF where[w] = "branch" THEN "parked"
              ELSE IF where[w] = "parked" THEN "lost" ELSE where[w]
        BY <3>3, <4>1
      <4>3. where[w] = "branch" /\ (at \notin branch \/ At(at, {"branch"}) = {})
        BY <3>3, <4>2
      <4> QED
        BY <3>3, <4>3 DEF At, In, Basic, Control
    <3> QED
      BY <2>2, <3>1, <3>2, <3>3 DEF Parking
  <2>5. CASE pc = "drop"
    <3>1. pc' \notin {"keep", "drop"}
      BY <2>1, <2>5, AfterEnd
    <3> QED
      BY <3>1 DEF Parking
  <2> QED
    BY <2>1, <2>3, <2>4, <2>5
<1>3. CASE Begin(TRUE) \/ Begin(FALSE) \/ Check \/ Walk \/ Slots \/ Verdict \/ Fence \/ Delete \/ Forget \/ Crash
  <2>1. pc' \notin {"keep", "drop"}
    <3>1. CASE Begin(TRUE) \/ Begin(FALSE)
      BY <3>1, ChecksAre, EndsAre DEF Begin, Goto
    <3>2. CASE Check
      <4>1. PICK i \in 1..Len(Checks) : pc = Checks[i] /\ (NextRepo(Checks[1], "walk") \/ After(Checks, i, "walk"))
        BY <3>2 DEF Check
      <4> QED
        BY <4>1, AfterCheck, PastMissing
    <3>3. CASE Walk \/ Slots \/ Verdict \/ Fence \/ Delete \/ Forget \/ Crash
      BY <3>3, EndsAre DEF Walk, Slots, Verdict, Fence, Delete, Forget, Crash, Goto, Stop
    <3> QED
      BY <1>3, <3>1, <3>2, <3>3
  <2> QED
    BY <2>1 DEF Parking
<1>4. CASE \E w \in Works : Make(w) \/ Forward(w) \/ Back(w)
  <2>1. PICK w \in Works : Make(w) \/ Forward(w) \/ Back(w)
    BY <1>4
  <2>2. UNCHANGED <<in, admin, pc, at, silent, head>>
        /\ \A v \in Works \ {w} : where'[v] = where[v]
    BY <2>1, MovesOf DEF disk
  <2>3. ASSUME where'[w] = "branch", where[w] # "branch" PROVE in[w] \in admin
    <3>1. ~Make(w) /\ ~Back(w)
      BY <2>1, <2>3, PutTyped DEF Make, Back, Move, InTree, Places, InAdmin
    <3>2. Forward(w)
      BY <2>1, <3>1
    <3>3. CASE Registered(w)
      BY <3>3 DEF Registered
    <3>4. CASE ~Registered(w)
      <4>1. \E here \in {"ignored", "root", "remote"} : Put({w}, here)
        BY <3>2, <3>4 DEF Forward, Move
      <4> QED
        BY <2>3, <4>1, PutTyped DEF Places, InTree
    <3> QED
      BY <3>3, <3>4
  <2> QED
    BY <2>2, <2>3 DEF Parking
<1>5. CASE \E r \in Repos : Switch(r)
  <2>1. PICK r \in Repos : Switch(r)
    BY <1>5
  <2>2. UNCHANGED <<in, admin, pc, at, silent>>
        /\ \A w \in Works : where'[w] = "branch" => where[w] = "branch"
    BY <2>1, PutTyped DEF Switch, Places
  <2> QED
    BY <2>2 DEF Parking
<1>6. CASE Wipe
  <2>1. UNCHANGED <<in, admin, pc, at, silent>>
        /\ \A w \in Works : where'[w] = "branch" => where[w] = "branch"
    <3>1. PICK S : Put(S, "dropped")
      BY <1>6 DEF Wipe
    <3> QED
      BY <1>6, <3>1, PutTyped DEF Wipe, Places
  <2> QED
    BY <2>1 DEF Parking
<1>7. CASE Reuse \/ UNCHANGED vars
  BY <1>7 DEF Reuse, vars, disk, Parking
<1>8. CASE Closing
  BY <1>8, ClosingIs DEF Parking
<1> QED
  BY <1>1, <1>2, <1>3, <1>4, <1>5, <1>6, <1>7, <1>8 DEF Next, Closing

\* Whatever is lost is lost in a step of finishRemove's.
LEMMA WhoLoses ==
  ASSUME Basic, [Next]_vars, NEW w \in Works, Loses(w)
  PROVE  \/ pc = "prune" /\ where[w] \in InAdmin /\ End
         \/ pc = "keep" /\ where[w] = "parked"
         \/ pc = "drop" /\ where[w] = "branch" /\ in[w] = at /\ Drop
         \/ pc = "delete" /\ where[w] \in InTree
         \/ pc = "forget" /\ where[w] \in InAdmin
<1>0. "lost" \in Places /\ "dropped" \in Places /\ "lost" \notin InTree \cup InAdmin
  BY DEF Places, InTree, InAdmin
<1>1. CASE End
  <2>1. \/ pc = "prune" /\ Prune
        \/ pc = "keep" /\ Keep
        \/ pc = "drop" /\ Drop
    BY <1>1 DEF End
  <2>2. CASE pc = "prune" /\ Prune
    <3>1. where' = where \/ Put(At(at, InAdmin), "lost") \/ Put({}, "lost")
      BY <2>2 DEF Prune
    <3> QED
      BY <1>0, <1>1, <2>2, <3>1, PutTyped DEF Loses, At, In
  <2>3. CASE pc = "keep" /\ Keep
    BY <2>3 DEF Keep, Loses
  <2>4. CASE pc = "drop" /\ Drop
    <3>1. where' = where \/ Put(At(at, {"branch"}), "lost")
      BY <2>4 DEF Drop
    <3> QED
      BY <1>0, <2>4, <3>1, PutTyped DEF Loses, At, In
  <2> QED
    BY <2>1, <2>2, <2>3, <2>4
<1>2. CASE Delete
  <2>1. PICK S \in SUBSET {v \in Works : where[v] \in InTree} : Put(S, "lost")
    BY <1>2 DEF Delete
  <2> QED
    BY <1>0, <1>2, <2>1, PutTyped DEF Delete, Loses
<1>3. CASE Forget
  BY <1>0, <1>3, PutTyped DEF Forget, Loses
<1>4. CASE \E v \in Works : Make(v) \/ Forward(v) \/ Back(v)
  <2>1. PICK v \in Works : Make(v) \/ Forward(v) \/ Back(v)
    BY <1>4
  <2>2. v = w => where'[v] # "lost"
    <3>1. head[in[v]] # "lost"
      BY DEF Basic, TypeOK
    <3> QED
      BY <2>1, <3>1, MovesOf DEF InTree
  <2> QED
    BY <2>1, <2>2, MovesOf DEF Loses
<1>5. CASE (\E r \in Repos : Switch(r)) \/ Wipe
  <2>1. PICK S : Put(S, "dropped")
    BY <1>5 DEF Switch, Wipe
  <2> QED
    BY <1>0, <2>1, PutTyped DEF Loses
<1>6. CASE UNCHANGED where
  BY <1>6 DEF Loses
<1>7. CASE (\E forced \in BOOLEAN : Begin(forced)) \/ Check \/ Walk \/ Slots \/ Verdict
           \/ Fence \/ Crash \/ Closing \/ Reuse \/ UNCHANGED vars
  BY <1>6, <1>7, ClosingIs DEF Begin, Check, Walk, Slots, Verdict, Fence, Crash, Reuse, vars
<1> QED
  BY <1>1, <1>2, <1>3, <1>4, <1>5, <1>7 DEF Next, Closing

\* No removal, forced or not, loses a commit of the task's branch, whatever
\* the agent commits meanwhile in whatever order, unless an error of git was
\* ignored there (prune before keepUnpushed before branch -D).
THEOREM CommitsAreParked == Spec => BranchKept
<1>1. Init => Parking
  BY DEF Init, Parking
<1>2. Basic /\ Parking /\ [Next]_vars =>
        [\A w \in Works : Loses(w) /\ where[w] = "branch" => in[w] \in silent]_vars
  <2> SUFFICES ASSUME Basic, Parking, [Next]_vars, NEW w \in Works, Loses(w), where[w] = "branch"
               PROVE  in[w] \in silent
    OBVIOUS
  <2>1. pc = "drop" /\ in[w] = at
    BY WhoLoses DEF InTree, InAdmin
  <2> QED
    BY <2>1 DEF Parking
<1> QED
  BY BasicInit, BasicStep, <1>1, ParkingStep, <1>2, PTL DEF Spec, BranchKept

-----------------------------------------------------------------------------
(* What Preflight has not seen.                                            *)

\* The order of the checks follows the direction work takes: what was there
\* when the removal began, and has not gone back since, is in none of the
\* places already looked at, or it has been reported or could not be read.
Watched ==
  found # {} \/ \A w \in Works \ (fresh \cup unread) : where[w] \notin Looked(in[w])

\* The verdict upon it: what the unforced removal still has to delete is new
\* or could not be read.
Judged ==
  pc = "fence" \/ tree # "placed" =>
    force \/ \A w \in Works : where[w] \in InTree \cup InAdmin => w \in fresh \cup unread

LEMMA LookedPlaces ==
  ASSUME NEW r, NEW p \in Looked(r)
  PROVE  p \in InTree \cup InAdmin
BY DEF Looked, Kept, Before, InTree, InAdmin, Preflight

\* What a check leaves unreported is not in the places it looks at, or could
\* not be read.
LEMMA LookedOn ==
  ASSUME Basic, Check, found' = {}
  PROVE  \A w \in Works :
           where[w] \in Looked(in[w])' => where[w] \in Looked(in[w]) \/ w \in unread'
<1>1. PICK i \in 1..Len(Checks) :
          /\ pc = Checks[i]
          /\ \/ /\ i = 1 /\ at \in gone
                /\ found' = found \cup {"missing"}
                /\ NextRepo(Checks[1], "walk")
                /\ UNCHANGED unread
             \/ /\ at \notin gone
                /\ found' = found \cup {c \in {pc} : At(at, Sees(at, pc)) \ closed # {}}
                /\ unread' = unread \cup (At(at, Sees(at, pc)) \cap closed)
                /\ After(Checks, i, "walk")
             \/ /\ IF at \in gone THEN i > 1 ELSE "check" \in Faults
                /\ found' = found \cup {"failed"}
                /\ After(Checks, i, "walk")
                /\ UNCHANGED unread
  BY DEF Check
<1>2. /\ found' = found \cup {c \in {pc} : At(at, Sees(at, pc)) \ closed # {}}
      /\ unread' = unread \cup (At(at, Sees(at, pc)) \cap closed)
      /\ After(Checks, i, "walk")
  BY <1>1
<1>3. \A w \in Works : in[w] = at => where[w] \notin Sees(at, pc) \/ w \in unread'
  BY <1>2 DEF At, In
<1>4. UNCHANGED <<in, where>> /\ at \in Nat /\ N \in Nat /\ at \in Repos
  BY NAssumption DEF Check, disk, Basic, TypeOK, Repos
<1>5. pc = "unpushed" =>
        \A w \in Works : in[w] = at => where[w] # "detached" \/ w \in unread'
  <2>1. "detached" \notin Sees(at, "unpushed") => head[at] # "detached"
    BY <1>4, HeadReaches DEF Sees
  <2> QED
    BY <1>3, <2>1 DEF Basic, Control, Sees
<1>6. ASSUME NEW w \in Works, where[w] \in Looked(in[w])', w \notin unread'
      PROVE  where[w] \in Looked(in[w])
  <2>1. in[w] \in Nat
    BY DEF Basic, TypeOK, Repos
  <2>2. CASE pc = "dirty"
    <3>1. pc' = "ignored" /\ at' = at
      BY <1>1, <1>2, <2>2, AfterCheck
    <3> QED
      BY <1>3, <1>4, <1>6, <2>1, <2>2, <3>1 DEF Looked, Before, Sees, Preflight
  <2>3. CASE pc = "ignored"
    <3>1. pc' = "paused" /\ at' = at
      BY <1>1, <1>2, <2>3, AfterCheck
    <3> QED
      BY <1>3, <1>4, <1>6, <2>1, <2>3, <3>1 DEF Looked, Before, Sees, Preflight
  <2>4. CASE pc = "paused"
    <3>1. pc' = "unpushed" /\ at' = at
      BY <1>1, <1>2, <2>4, AfterCheck
    <3> QED
      BY <1>3, <1>4, <1>6, <2>1, <2>4, <3>1 DEF Looked, Before, Sees, Preflight
  <2>5. CASE pc = "unpushed"
    <3>1. pc' = "submodule" /\ at' = at
      BY <1>1, <1>2, <2>5, AfterCheck
    <3> QED
      BY <1>4, <1>5, <1>6, <2>1, <2>5, <3>1 DEF Looked, Before, Preflight
  <2>6. CASE pc = "submodule"
    <3>1. \/ at < N /\ pc' = "dirty" /\ at' = at + 1
          \/ at = N /\ pc' = "walk" /\ at' = 1
      BY <1>1, <1>2, <2>6, AfterCheck
    <3>2. in[w] = at => where[w] # "submodule"
      BY <1>3, <1>6, <2>6 DEF Sees
    <3>3. in[w] <= at /\ where[w] \in Kept
      <4>1. CASE at < N /\ pc' = "dirty" /\ at' = at + 1
        BY <1>4, <1>6, <2>1, <4>1 DEF Looked, Before, Preflight
      <4>2. CASE at = N /\ pc' = "walk"
        BY <1>6, <4>2 DEF Looked, Preflight, Basic, TypeOK, Repos
      <4> QED
        BY <3>1, <4>1, <4>2
    <3> QED
      BY <1>4, <2>1, <2>6, <3>2, <3>3 DEF Looked, Before, Kept, Preflight
  <2> QED
    BY <1>1, <2>2, <2>3, <2>4, <2>5, <2>6, AfterCheck, <1>2
<1> QED
  BY <1>6

\* Whoever has looked where work can go has looked where it comes from.
LEMMA LookedBehind ==
  ASSUME NEW r
  PROVE  /\ "detached" \in Looked(r) => "file" \in Looked(r) /\ "paused" \in Looked(r)
         /\ "ignored" \in Looked(r) \/ "root" \in Looked(r) => "file" \in Looked(r)
         /\ "branch" \notin Looked(r) /\ "other" \notin Looked(r) /\ "remote" \notin Looked(r)
         /\ "dropped" \notin Looked(r)
BY DEF Looked, Kept, Before, InTree, InAdmin, Preflight

\* What agent and user move does not slip past the checks.
LEMMA MeddlingWatched ==
  ASSUME Basic, Meddling, NEW w \in Works, w \notin fresh' \cup unread', pc # "idle",
         where'[w] \in InTree \cup InAdmin, where'[w] \in Looked(in[w]) \/ where'[w] # where[w]
  PROVE  /\ w \notin fresh \cup unread
         /\ where[w] \in InTree \cup InAdmin
         /\ where'[w] \in Looked(in[w]) => where[w] \in Looked(in[w])
         /\ UNCHANGED <<in, pc, at, found>>
<1>0. "dropped" \in Places /\ "dropped" \notin InTree \cup InAdmin
  BY DEF Places, InTree, InAdmin
<1>1. ASSUME NEW v \in Works, Make(v) \/ Forward(v) \/ Back(v)
      PROVE  /\ w \notin fresh \cup unread
             /\ where[w] \in InTree \cup InAdmin
             /\ where'[w] \in Looked(in[w]) => where[w] \in Looked(in[w])
             /\ UNCHANGED <<in, pc, at, found>>
  <2>1. UNCHANGED <<in, pc, at, found, unread>> /\ (fresh' = fresh \/ fresh' = fresh \cup {v})
        /\ (v # w => where'[w] = where[w])
    BY <1>1, MovesOf DEF disk
  <2>2. CASE v # w
    BY <2>1, <2>2
  <2>3. CASE v = w
    <3>1. \/ where[w] \in {"file", "paused"} /\ where'[w] = head[in[w]]
          \/ where[w] = "file" /\ where'[w] \in {"ignored", "root"}
          \/ where'[w] = "remote"
      BY <1>1, <2>3, MovesOf
    <3>2. head[in[w]] \in {"branch", "detached", "other"}
      BY DEF Basic, TypeOK
    <3>3. where'[w] # "remote"
      BY DEF InTree, InAdmin
    <3>4. where'[w] \in Looked(in[w]) => where[w] \in Looked(in[w])
      BY <3>1, <3>2, <3>3, LookedBehind
    <3>5. where[w] \in InTree \cup InAdmin
      BY <3>1, <3>3 DEF InTree, InAdmin
    <3> QED
      BY <2>1, <3>4, <3>5
  <2> QED
    BY <2>2, <2>3
<1>2. CASE (\E r \in Repos : Switch(r)) \/ Wipe
  <2>1. PICK S : Put(S, "dropped")
    BY <1>2 DEF Switch, Wipe
  <2>2. where'[w] = where[w]
    BY <1>0, <2>1, PutTyped
  <2>3. UNCHANGED <<in, pc, at, found, unread>> /\ fresh \subseteq fresh'
    BY <1>2 DEF Switch, Wipe, Basic, TypeOK
  <2> QED
    BY <2>2, <2>3
<1> QED
  BY <1>1, <1>2 DEF Meddling, Reuse

LEMMA WatchedStep == Basic /\ Basic' /\ Watched /\ [Next]_vars => Watched'
<1> SUFFICES ASSUME Basic, Basic', Watched, [Next]_vars, found' = {}, NEW w \in Works,
                    w \notin fresh' \cup unread', where'[w] \in Looked(in[w])'
             PROVE  FALSE
  BY DEF Watched
<1>0. pc' \in Preflight \cup {"walk", "slots", "verdict", "fence"}
      /\ where'[w] \in InTree \cup InAdmin
  BY DEF Looked, Kept, Before, InTree, InAdmin, Preflight
<1>1. CASE \E forced \in BOOLEAN : Begin(forced)
  <2>1. pc' = "dirty" /\ at' = 1
    BY <1>0, <1>1, ChecksAre, EndsAre DEF Begin, Goto, Basic, Control, Preflight, Finish
  <2>2. in' = in
    BY <1>1 DEF Begin, disk
  <2>3. in[w] \in Repos
    BY DEF Basic, TypeOK
  <2>4. in[w] \in Nat /\ in[w] >= 1
    BY <2>3, NAssumption DEF Repos
  <2>5. at' <= in[w]
    BY <2>1, <2>4
  <2>6. where'[w] \notin Looked(in[w])'
    BY <2>1, <2>2, <2>4 DEF Looked, Before, Preflight
  <2> QED
    BY <2>6
<1>2. CASE Check
  <2>1. found = {} /\ UNCHANGED <<where, fresh, in>> /\ unread \subseteq unread'
    BY <1>2 DEF Check, disk
  <2>2. where[w] \in Looked(in[w])' => where[w] \in Looked(in[w]) \/ w \in unread'
    BY <1>2, LookedOn
  <2>3. where[w] \in Looked(in[w])
    BY <2>1, <2>2
  <2> QED
    BY <2>1, <2>3 DEF Watched
<1>3. CASE Walk
  <2>1. pc = "walk" /\ pc' = "slots" /\ UNCHANGED <<where, fresh, in>>
        /\ unread \subseteq unread'
    BY <1>3 DEF Walk, Goto, disk
  <2>2. found = {} /\ where[w] \notin {"foreign", "root", "copy"}
    BY <1>3 DEF Walk
  <2>3. where[w] \notin Kept
    BY <2>1, <2>2 DEF Watched, Looked, Preflight
  <2> QED
    BY <1>0, <2>1, <2>2, <2>3 DEF Kept, InTree, InAdmin
<1>4. CASE Slots \/ Verdict
  <2>1. /\ pc \in {"slots", "verdict"} /\ pc' \in {"verdict", "fence"} 
        /\ UNCHANGED <<where, fresh, unread, in>> /\ found = {}
    BY <1>0, <1>4 DEF Slots, Verdict, Goto, Stop, disk, Preflight
  <2> QED
    BY <1>0, <2>1 DEF Watched, Looked, Preflight
<1>5. CASE Fence \/ End \/ Delete \/ Forget \/ Crash \/ Reuse
  <2>1. CASE End
    <3>1. PICK i \in 1..Len(Ends) : pc = Ends[i] /\ After(Ends, i, "delete")
      BY <2>1 DEF End
    <3> QED
      BY <1>0, <3>1, AfterEnd DEF Preflight
  <2>2. CASE Fence \/ Delete \/ Forget \/ Crash \/ Reuse
    BY <1>0, <2>2, EndsAre DEF Fence, Delete, Forget, Crash, Reuse, Goto, Stop, Preflight
  <2> QED
    BY <1>5, <2>1, <2>2
<1>6. CASE Meddling /\ ~Reuse
  <2>1. UNCHANGED <<in, pc, at, found>>
    BY <1>6, MovesOf DEF Meddling, Switch, Wipe, disk
  <2>2. Looked(in[w])' = Looked(in[w])
    BY <2>1 DEF Looked
  <2>3. w \notin fresh \cup unread /\ where[w] \in Looked(in[w])
    <3>1. pc # "idle"
      BY <1>0, <2>1 DEF Preflight
    <3> QED
      BY <1>0, <1>6, <2>2, <3>1, MeddlingWatched
  <2> QED
    BY <2>1, <2>3 DEF Watched
<1>7. CASE UNCHANGED vars \/ Closing
  BY <1>7, ClosingIs DEF vars, disk, Watched, Looked
<1> QED
  BY <1>1, <1>2, <1>3, <1>4, <1>5, <1>6, <1>7 DEF Next, Meddling, Closing

LEMMA JudgedStep == Basic /\ Basic' /\ Watched /\ Judged /\ [Next]_vars => Judged'
<1> SUFFICES ASSUME Basic, Basic', Watched, Judged, [Next]_vars,
                    pc' = "fence" \/ tree' # "placed", ~force', NEW w \in Works,
                    where'[w] \in InTree \cup InAdmin, w \notin fresh' \cup unread'
             PROVE  FALSE
  BY DEF Judged
<1>0. "lost" \notin InTree \cup InAdmin /\ "parked" \notin InTree \cup InAdmin
      /\ "dropped" \notin InTree \cup InAdmin /\ {"lost", "dropped", "parked"} \subseteq Places
  BY DEF InTree, InAdmin, Places
<1>1. CASE Verdict
  <2>1. /\ pc = "verdict" /\ UNCHANGED <<where, fresh, unread, tree, force>>
        /\ pc' = "fence" => found = {}
    BY <1>1 DEF Verdict, Goto, Stop, Refused, disk
  <2>2. CASE tree # "placed"
    BY <2>1, <2>2 DEF Judged
  <2>3. CASE found = {}
    BY <2>1, <2>3 DEF Watched, Looked, Preflight
  <2> QED
    BY <2>1, <2>2, <2>3
<1>2. CASE (\E forced \in BOOLEAN : Begin(forced)) \/ Check \/ Walk \/ Slots \/ Crash
  <2>1. UNCHANGED <<where, tree>>
    BY <1>2 DEF Begin, Check, Walk, Slots, Crash, disk
  <2>2. pc' # "fence"
    <3>1. CASE Check
      <4>1. PICK i \in 1..Len(Checks) : pc = Checks[i] /\ (NextRepo(Checks[1], "walk") \/ After(Checks, i, "walk"))
        BY <3>1 DEF Check
      <4> QED
        BY <4>1, AfterCheck, PastMissing
    <3>2. CASE (\E forced \in BOOLEAN : Begin(forced)) \/ Walk \/ Slots \/ Crash
      BY <3>2, ChecksAre, EndsAre DEF Begin, Walk, Slots, Crash, Goto, Stop
    <3> QED
      BY <1>2, <3>1, <3>2
  <2>3. UNCHANGED <<force, fresh>> /\ unread \subseteq unread'
    <3>1. tree # "placed"
      BY <2>1, <2>2
    <3>2. CASE \E forced \in BOOLEAN : Begin(forced)
      BY <3>1, <3>2 DEF Begin
    <3>3. CASE Check
      BY <3>3 DEF Check
    <3>4. CASE Walk \/ Slots \/ Crash
      BY <3>4 DEF Walk, Slots, Crash
    <3> QED
      BY <1>2, <3>2, <3>3, <3>4
  <2> QED
    BY <2>1, <2>2, <2>3 DEF Judged
<1>3. CASE Fence
  <2>1. pc = "fence" /\ UNCHANGED <<where, force, fresh, unread>>
    BY <1>3 DEF Fence
  <2> QED
    BY <2>1 DEF Judged
<1>4. CASE End \/ Delete \/ Forget
  <2>1. UNCHANGED <<force, fresh, unread>> /\ (pc # "fence") /\ (tree # "placed")
    BY <1>4, EndsAre DEF End, Delete, Forget, Basic, Control, Finish
  <2>2. where'[w] = where[w]
    <3>1. CASE \E S : Put(S, "lost")
      BY <1>0, <3>1, PutTyped
    <3>2. CASE UNCHANGED where
      BY <3>2
    <3>3. CASE Keep
      BY <1>0, <3>3 DEF Keep
    <3> QED
      BY <1>4, <3>1, <3>2, <3>3 DEF End, Prune, Drop, Delete, Forget
  <2> QED
    BY <2>1, <2>2 DEF Judged
<1>5. CASE Meddling /\ ~Reuse /\ ~Wipe
  <2>1. UNCHANGED <<in, pc, tree, force, unread>> /\ fresh \subseteq fresh'
    BY <1>5, MovesOf DEF Meddling, Switch, disk
  <2>2. where[w] \in InTree \cup InAdmin
    <3>1. ASSUME NEW v \in Works, Make(v) \/ Forward(v) \/ Back(v)
          PROVE  where[w] \in InTree \cup InAdmin
      <4>1. v # w => where'[w] = where[w]
        BY <3>1, MovesOf
      <4>2. v = w => where[w] \in {"file", "paused"} \/ where'[w] = "remote"
        BY <3>1, MovesOf
      <4> QED
        BY <4>1, <4>2 DEF InTree, InAdmin
    <3>2. ASSUME NEW r \in Repos, Switch(r) PROVE where[w] \in InTree \cup InAdmin
      <4>1. Put(At(r, {"detached"}), "dropped")
        BY <3>2 DEF Switch
      <4> QED
        BY <1>0, <4>1, PutTyped
    <3> QED
      BY <1>5, <3>1, <3>2 DEF Meddling
  <2> QED
    BY <2>1, <2>2 DEF Judged
<1>6. CASE Wipe
  <2>1. PICK S : Put(S, "dropped")
    BY <1>6 DEF Wipe
  <2>2. where'[w] = where[w]
    BY <1>0, <2>1, PutTyped
  <2>3. tree' = tree /\ UNCHANGED <<pc, force, unread>> /\ fresh \subseteq fresh'
    BY <1>6 DEF Wipe, Basic, TypeOK
  <2> QED
    BY <2>2, <2>3 DEF Judged
<1>7. CASE Reuse
  BY <1>7 DEF Reuse
<1>8. CASE UNCHANGED vars \/ Closing
  BY <1>8, ClosingIs DEF vars, disk, Judged
<1> QED
  BY <1>1, <1>2, <1>3, <1>4, <1>5, <1>6, <1>7, <1>8 DEF Next, Meddling, Closing

\* "Refuses while anything would be lost": without --force a removal loses no
\* work that was there when it began, that its checks could read and that only
\* moved on, from the tree to a commit to a remote, whichever commands of git
\* fail, whatever is deleted by hand, and however often it is cut short and
\* resumed (Preflight's order of questions, the fence, finishRemove).
THEOREM WorkIsSpared == Spec => NothingLost
<1>1. Init => Parking /\ Watched /\ Judged
  BY DEF Init, Parking, Watched, Judged, Looked, Preflight
<1>2. Basic /\ Parking /\ Judged /\ [Next]_vars =>
        [\A w \in Works : Loses(w) /\ ~force =>
           \/ w \in fresh \cup unread \/ where[w] = "parked"
           \/ where[w] = "branch" /\ in[w] \in silent]_vars
  <2> SUFFICES ASSUME Basic, Parking, Judged, [Next]_vars, NEW w \in Works, Loses(w), ~force
               PROVE  \/ w \in fresh \cup unread \/ where[w] = "parked"
                      \/ where[w] = "branch" /\ in[w] \in silent
    OBVIOUS
  <2>1. CASE where[w] \in InTree \cup InAdmin
    <3>1. pc \in {"prune", "delete", "forget"}
      BY <2>1, WhoLoses DEF InTree, InAdmin
    <3>2. tree # "placed"
      BY <3>1 DEF Basic, Control, Finish
    <3> QED
      BY <2>1, <3>2 DEF Judged
  <2>2. CASE pc = "drop" /\ where[w] = "branch" /\ in[w] = at
    BY <2>2 DEF Parking
  <2> QED
    BY <2>1, <2>2, WhoLoses
<1> QED
  BY BasicInit, BasicStep, <1>1, ParkingStep, WatchedStep, JudgedStep, <1>2,
     PTL DEF Spec, NothingLost

-----------------------------------------------------------------------------
(* Repositories wkt did not create.                                        *)

\* One that was there when the removal began, and that the walk could read
\* its way to, is reported, with --force too.
ForeignWatched ==
  /\ pc \in {"slots", "verdict"} =>
       \/ "foreign" \in found
       \/ \A w \in Works : where[w] = "foreign" => w \in fresh \cup unread
  /\ pc = "fence" \/ tree # "placed" =>
       \A w \in Works : where[w] = "foreign" => w \in fresh \cup unread

LEMMA ForeignStep ==
  Basic /\ Basic' /\ ForeignWatched /\ [Next]_vars => ForeignWatched'
<1> SUFFICES ASSUME Basic, Basic', ForeignWatched, [Next]_vars PROVE ForeignWatched'
  OBVIOUS
<1>0. "foreign" \notin {"lost", "dropped", "parked"} /\ {"lost", "dropped", "parked"} \subseteq Places
  BY DEF Places
<1>1. CASE Walk
  <2>1. pc = "walk" /\ pc' = "slots" /\ UNCHANGED <<where, fresh, tree>>
        /\ unread \subseteq unread'
    BY <1>1 DEF Walk, Goto, disk
  <2>2. "foreign" \in found' \/ \A w \in Works : where[w] = "foreign" => w \in unread'
    BY <1>1 DEF Walk
  <2> QED
    BY <2>1, <2>2 DEF ForeignWatched
<1>2. CASE Slots
  <2>1. pc = "slots" /\ pc' = "verdict" /\ UNCHANGED <<where, fresh, unread, tree>> /\ found \subseteq found'
    BY <1>2 DEF Slots, Goto, disk
  <2> QED
    BY <2>1 DEF ForeignWatched
<1>3. CASE Verdict
  <2>1. pc = "verdict" /\ UNCHANGED <<where, fresh, unread, tree>> /\ pc' \in {"idle", "fence"}
        /\ (pc' = "fence" => "foreign" \notin found)
    BY <1>3 DEF Verdict, Goto, Stop, Refused, disk
  <2> QED
    BY <2>1 DEF ForeignWatched
<1>4. CASE (\E forced \in BOOLEAN : Begin(forced)) \/ Check \/ Crash
  <2>1. UNCHANGED <<where, tree>>
        /\ (tree # "placed" => fresh' = fresh /\ unread \subseteq unread')
    BY <1>4 DEF Begin, Check, Crash, disk
  <2>2. pc' \notin {"slots", "verdict", "fence"}
    <3>1. CASE Check
      <4>1. PICK i \in 1..Len(Checks) : pc = Checks[i] /\ (NextRepo(Checks[1], "walk") \/ After(Checks, i, "walk"))
        BY <3>1 DEF Check
      <4> QED
        BY <4>1, AfterCheck, PastMissing
    <3>2. CASE (\E forced \in BOOLEAN : Begin(forced)) \/ Crash
      BY <3>2, ChecksAre, EndsAre DEF Begin, Crash, Goto, Stop
    <3> QED
      BY <1>4, <3>1, <3>2
  <2> QED
    BY <2>1, <2>2 DEF ForeignWatched
<1>5. CASE Fence
  <2>1. pc = "fence" /\ pc' \in {"idle", "prune"} /\ UNCHANGED <<where, fresh, unread>>
    BY <1>5, EndsAre DEF Fence, Goto, Stop
  <2> QED
    BY <2>1 DEF ForeignWatched
<1>6. CASE End \/ Delete \/ Forget
  <2>1. fresh' = fresh /\ unread' = unread /\ tree # "placed"
    BY <1>6, EndsAre DEF End, Delete, Forget, Basic, Control, Finish
  <2>2. pc' \notin {"slots", "verdict", "fence"}
    <3>1. CASE End
      <4>1. PICK i \in 1..Len(Ends) : pc = Ends[i] /\ After(Ends, i, "delete")
        BY <3>1 DEF End
      <4> QED
        BY <4>1, AfterEnd
    <3>2. CASE Delete \/ Forget
      BY <3>2 DEF Delete, Forget, Goto, Stop
    <3> QED
      BY <1>6, <3>1, <3>2
  <2>3. \A w \in Works : where'[w] = "foreign" => where[w] = "foreign"
    <3>1. CASE \E S : Put(S, "lost")
      BY <1>0, <3>1, PutTyped
    <3>2. CASE UNCHANGED where
      BY <3>2
    <3>3. CASE Keep
      BY <3>3 DEF Keep
    <3> QED
      BY <1>6, <3>1, <3>2, <3>3 DEF End, Prune, Drop, Delete, Forget
  <2> QED
    BY <2>1, <2>2, <2>3 DEF ForeignWatched
<1>7. CASE Meddling /\ ~Reuse /\ ~Wipe
  <2>1. UNCHANGED <<in, pc, tree, found, unread>> /\ fresh \subseteq fresh'
    BY <1>7, MovesOf DEF Meddling, Switch, disk
  <2>2. \A w \in Works : where'[w] = "foreign" => where[w] = "foreign" \/ w \in fresh'
    <3>1. ASSUME NEW v \in Works, Make(v) \/ Forward(v) \/ Back(v), NEW w \in Works,
                 where'[w] = "foreign"
          PROVE  where[w] = "foreign" \/ w \in fresh'
      <4>1. v # w => where'[w] = where[w]
        BY <3>1, MovesOf
      <4>2. head[in[v]] # "foreign"
        BY DEF Basic, TypeOK
      <4>3. v = w => w \in fresh'
        BY <3>1, <4>2, MovesOf
      <4> QED
        BY <3>1, <4>1, <4>3
    <3>2. ASSUME NEW r \in Repos, Switch(r), NEW w \in Works, where'[w] = "foreign"
          PROVE  where[w] = "foreign"
      <4>1. Put(At(r, {"detached"}), "dropped")
        BY <3>2 DEF Switch
      <4> QED
        BY <1>0, <3>2, <4>1, PutTyped
    <3> QED
      BY <1>7, <3>1, <3>2 DEF Meddling
  <2> QED
    BY <2>1, <2>2 DEF ForeignWatched
<1>8. CASE Wipe
  <2>1. PICK S : Put(S, "dropped")
    BY <1>8 DEF Wipe
  <2>2. \A w \in Works : where'[w] = "foreign" => where[w] = "foreign"
    BY <1>0, <2>1, PutTyped
  <2>3. /\ UNCHANGED <<pc, found, unread>> /\ fresh \subseteq fresh'
        /\ tree' = tree \/ fresh' = Works
    BY <1>8 DEF Wipe, Basic, TypeOK
  <2> QED
    BY <2>2, <2>3 DEF ForeignWatched
<1>9. CASE Reuse
  BY <1>9 DEF Reuse, ForeignWatched
<1>10. CASE UNCHANGED vars \/ Closing
  BY <1>10, ClosingIs DEF vars, disk, ForeignWatched
<1> QED
  BY <1>1, <1>2, <1>3, <1>4, <1>5, <1>6, <1>7, <1>8, <1>9, <1>10 DEF Next, Meddling, Closing

\* "This is the one refusal --force does not cover": no removal, forced or
\* resumed, deletes a repository that was created in the tree before it began
\* and that its walk could read its way to.
THEOREM RepositoriesAreSpared == Spec => ForeignSpared
<1>1. Init => ForeignWatched
  BY DEF Init, ForeignWatched
<1>2. Basic /\ ForeignWatched /\ [Next]_vars =>
        [\A w \in Works : Loses(w) /\ where[w] = "foreign" => w \in fresh \cup unread]_vars
  <2> SUFFICES ASSUME Basic, ForeignWatched, [Next]_vars, NEW w \in Works, Loses(w),
                      where[w] = "foreign"
               PROVE  w \in fresh \cup unread
    OBVIOUS
  <2>1. pc = "delete"
    BY WhoLoses DEF InAdmin
  <2>2. tree # "placed"
    BY <2>1 DEF Basic, Control
  <2> QED
    BY <2>2 DEF ForeignWatched
<1> QED
  BY BasicInit, BasicStep, <1>1, ForeignStep, <1>2, PTL DEF Spec, ForeignSpared
=============================================================================
