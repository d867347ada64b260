----------------------------- MODULE TreeProofs -----------------------------
(***************************************************************************)
(* Proofs about Tree: for any paths, symlink target, depth of discovery    *)
(* and bounds, and places none of which lies inside another, the state     *)
(* keeps its type, no link of a tree leads to a repository that was there  *)
(* when the link was placed, what somebody made in a tree is not removed   *)
(* unless it was asked about or recorded, a repaired task's links lead     *)
(* where they should, a tree nobody has touched can be removed, and one    *)
(* made while the workspace rests mirrors it.                              *)
(***************************************************************************)
EXTENDS Tree, SequenceTheorems, WellFoundedInduction, TLAPS

\* Nothing stands in a link's slot, and no file above it.
Clear(p) ==
  tree[p].is = "none" /\ ~\E q \in Paths : Below(p, q) /\ tree[q].is = "file"

\* What stands somewhere stands in directories, all the way up.
Closed(w) == \A p, q \in Paths : w[p] # "none" /\ Below(p, q) => w[q] \in Folders

\* Links to what is not a known repository share nothing, as far as the
\* workspace was like this when they were placed.
Linked == Slots({"symlink"})
Unshared == \A p \in Linked \ repos : Shares(ws, p) => p \in late

IInv ==
  /\ ws \in [Paths -> Kinds] /\ Closed(ws)
  /\ Linked \subseteq Paths
  /\ todo.backFill \subseteq repos /\ todo.linkDirs \subseteq Paths
  /\ stage = "start" => Linked = {} /\ todo = NoPlan
  /\ Unshared

-----------------------------------------------------------------------------
(* Paths.                                                                  *)

LEMMA PathsAreSequences == Paths \subseteq Seq(STRING)
BY PathsAssumption

\* A prefix agrees element by element.
LEMMA PrefixElements ==
  ASSUME NEW s \in Seq(STRING), NEW t \in Seq(STRING)
  PROVE  IsPrefix(s, t) <=> Len(s) <= Len(t) /\ \A i \in 1..Len(s) : s[i] = t[i]
<1>1. ASSUME IsPrefix(s, t) PROVE Len(s) <= Len(t) /\ \A i \in 1..Len(s) : s[i] = t[i]
  <2>1. SubSeq(s, 1, Len(s)) = SubSeq(t, 1, Len(s)) /\ Len(s) <= Len(t)
    BY <1>1 DEF IsPrefix
  <2>2. \A i \in 1..Len(s) : SubSeq(s, 1, Len(s))[i] = s[i] /\ SubSeq(t, 1, Len(s))[i] = t[i]
    BY <2>1
  <2> QED
    BY <2>1, <2>2
<1>2. ASSUME Len(s) <= Len(t), \A i \in 1..Len(s) : s[i] = t[i] PROVE IsPrefix(s, t)
  BY <1>2 DEF IsPrefix
<1> QED
  BY <1>1, <1>2

\* Below is transitive and has no circles.
LEMMA BelowOrders ==
  ASSUME NEW p \in Paths, NEW q \in Paths, NEW r \in Paths
  PROVE  /\ Below(p, q) /\ Below(q, r) => Below(p, r)
         /\ ~(Below(p, q) /\ Below(q, p))
<1>1. p \in Seq(STRING) /\ q \in Seq(STRING) /\ r \in Seq(STRING)
  BY PathsAreSequences
<1>2. ASSUME Below(p, q), Below(q, p) PROVE FALSE
  <2>1. /\ Len(p) = Len(q) /\ \A i \in 1..Len(q) : q[i] = p[i]
    BY <1>1, <1>2, PrefixElements DEF Below, IsStrictPrefix
  <2>2. p = q
    BY <1>1, <2>1
  <2> QED
    BY <1>2, <2>2 DEF Below, IsStrictPrefix
<1>3. ASSUME Below(p, q), Below(q, r) PROVE Below(p, r)
  <2>1. /\ Len(q) <= Len(p) /\ \A i \in 1..Len(q) : q[i] = p[i]
        /\ Len(r) <= Len(q) /\ \A i \in 1..Len(r) : r[i] = q[i]
    BY <1>1, <1>3, PrefixElements DEF Below, IsStrictPrefix
  <2>2. IsPrefix(r, p)
    BY <1>1, <2>1, PrefixElements
  <2>3. r # p
    BY <1>1, <1>3, <1>2
  <2> QED
    BY <2>2, <2>3 DEF Below, IsStrictPrefix
<1> QED
  BY <1>2, <1>3

-----------------------------------------------------------------------------
(* Discovery.                                                              *)

\* What findNestedRepo does not see below an entry, nobody comes to from it.
LEMMA SharedIsSeen ==
  ASSUME NEW w \in [Paths -> Kinds], Closed(w), NEW p \in Paths, Shares(w, p)
  PROVE  Hides(w, p)
<1>1. PICK q \in Paths : /\ w[q] \in {"repo", "checkout"}
                         /\ Within(q, p) \/ (w[p] = "alias" /\ Within(q, Target))
  BY DEF Shares
<1>2. \A r \in Paths : Within(q, r) => w[r] \in Folders /\ w[r] # "alias"
  BY <1>1 DEF Within, Below, IsStrictPrefix, Closed, Folders
<1>3. Target \in Paths
  BY NamesAssumption
<1>4. CASE w[p] = "alias"
  BY <1>1, <1>2, <1>3, <1>4 DEF Hides
<1>5. CASE w[p] # "alias"
  BY <1>1, <1>2, <1>5 DEF Hides
<1> QED
  BY <1>4, <1>5

\* The developer keeps a workspace a workspace.
LEMMA DevelopKeeps ==
  ASSUME NEW w \in [Paths -> Kinds], Closed(w), NEW p \in Paths,
         NEW kind \in {"none", "dir", "repo", "file"}, Standing(w, p),
         NEW v, v = [q \in Paths |-> IF q = p THEN kind
                                     ELSE IF Below(q, p) /\ kind \in {"none", "file"}
                                       THEN "none" ELSE w[q]]
  PROVE  v \in [Paths -> Kinds] /\ Closed(v)
<1>1. v \in [Paths -> Kinds]
  BY DEF Kinds
<1>2. ASSUME NEW x \in Paths, NEW y \in Paths, v[x] # "none", Below(x, y)
      PROVE  v[y] \in Folders
  <2>1. ~Below(y, x)
    BY <1>2, BelowOrders
  <2>2. x # y
    BY <1>2 DEF Below, IsStrictPrefix
  <2>3. CASE x = p
    BY <1>2, <2>1, <2>2, <2>3 DEF Standing
  <2>4. CASE x # p /\ y = p
    BY <1>2, <2>4 DEF Folders
  <2>5. CASE x # p /\ y # p
    <3>1. w[x] # "none" /\ w[y] \in Folders
      BY <1>2, <2>5 DEF Closed
    <3>2. Below(y, p) => Below(x, p)
      BY <1>2, BelowOrders
    <3> QED
      BY <1>2, <2>5, <3>1, <3>2
  <2> QED
    BY <2>3, <2>4, <2>5
<1> QED
  BY <1>1, <1>2 DEF Closed

-----------------------------------------------------------------------------
(* The invariant.                                                          *)

\* The records of links, as the actions change the slots.
LEMMA LinkedGrows ==
  ASSUME NEW p, NEW t, slots' = slots \cup {[path |-> p, type |-> t]}
  PROVE  Linked' = IF t = "symlink" THEN Linked \cup {p} ELSE Linked
<1>1. \A x : x \in Linked <=> \E s \in slots : s.type = "symlink" /\ s.path = x
  BY DEF Linked, Slots
<1>2. \A x : x \in Linked' <=> \E s \in slots' : s.type = "symlink" /\ s.path = x
  BY DEF Linked, Slots
<1> DEFINE s0 == [path |-> p, type |-> t]
<1>3. s0.path = p /\ s0.type = t
  OBVIOUS
<1>4. \A s : s \in slots' <=> s \in slots \/ s = s0
  OBVIOUS
<1> HIDE DEF s0
<1>5. \A x : x \in Linked' <=> x \in Linked \/ (t = "symlink" /\ x = p)
  BY <1>1, <1>2, <1>3, <1>4
<1> QED
  BY <1>5

LEMMA LinkedStays ==
  ASSUME NEW S, NEW t, t # "symlink",
         slots' = slots \cup {[path |-> p, type |-> t] : p \in S}
  PROVE  Linked' = Linked
BY DEF Linked, Slots

\* Nothing of the invariant's changes but the records of other things.
LEMMA KeptWithLinks ==
  ASSUME IInv, Linked' = Linked, UNCHANGED <<ws, repos, late, todo>>,
         stage' = "start" => stage = "start"
  PROVE  IInv'
BY DEF IInv, Unshared, Shares, Closed

LEMMA RefuseKeeps ==
  ASSUME IInv, Refuse
  PROVE  IInv'
<1>1. Linked' = {}
  BY DEF Refuse, Linked, Slots
<1> QED
  BY <1>1 DEF IInv, Refuse, NoPlan, Unshared, Closed

LEMMA InvInit == Init => IInv
<1> SUFFICES ASSUME Init PROVE IInv
  OBVIOUS
<1>1. ws \in [Paths -> Kinds] /\ Closed(ws)
  BY DEF Init, Workspaces, Standing, Closed
<1>2. Linked = {}
  BY DEF Init, Linked, Slots
<1> QED
  BY <1>1, <1>2 DEF Init, IInv, NoPlan, Unshared

\* Whatever wkt new and the developer do.
LEMMA CreationKeeps ==
  ASSUME IInv, Creation
  PROVE  IInv'
<1>1. CASE Walk
  <2>1. repos' \subseteq Paths /\ Linked' = {} /\ todo' = NoPlan
    BY <1>1 DEF Walk, Repositories, Discovered, IInv, Linked, Slots
  <2> QED
    BY <1>1, <2>1 DEF Walk, IInv, NoPlan, Unshared, Closed
<1>2. CASE Worktrees
  BY <1>2, KeptWithLinks DEF Worktrees, Linked, Slots
<1>3. CASE Plan
  <2>1. CASE Refuse
    BY <2>1, RefuseKeeps
  <2>2. CASE ~Unreadable(ws, repos, selected)
    <3>1. /\ todo'.backFill \subseteq repos /\ todo'.linkDirs \subseteq Paths
          /\ UNCHANGED <<ws, repos, late, slots>> /\ stage' # "start"
      BY <1>3, <2>2 DEF Plan, PlanFor, Leaves
    <3>2. Linked' = Linked
      BY <3>1 DEF Linked, Slots
    <3> QED
      BY <3>1, <3>2 DEF IInv, Unshared, Shares, Closed
  <2> QED
    BY <1>3, <2>1, <2>2 DEF Plan
<1>4. ASSUME NEW p \in Paths, LinkRepository(p) PROVE IInv'
  <2>1. CASE Refuse
    BY <2>1, RefuseKeeps
  <2>2. CASE ~Refuse
    <3>1. Place(p, Link, "symlink", [todo EXCEPT !.backFill = @ \ {p}]) /\ p \in repos
      BY <1>4, <2>2 DEF LinkRepository, IInv
    <3>2. Linked' = Linked \cup {p}
      BY <3>1, LinkedGrows DEF Place
    <3>3. todo'.backFill \subseteq todo.backFill /\ todo'.linkDirs = todo.linkDirs
      BY <3>1 DEF Place
    <3> QED
      BY <1>4, <3>1, <3>2, <3>3 DEF Place, LinkRepository, IInv, Unshared, Shares, Closed
  <2> QED
    BY <2>1, <2>2
<1>5. ASSUME NEW p \in Paths, LinkDir(p) PROVE IInv'
  <2>1. CASE Refuse
    BY <2>1, RefuseKeeps
  <2>2. CASE ~Refuse
    <3>1. Place(p, Link, "symlink", [todo EXCEPT !.linkDirs = @ \ {p}]) /\ ~Hides(ws, p)
      BY <1>5, <2>2 DEF LinkDir
    <3>2. Linked' = Linked \cup {p}
      BY <3>1, LinkedGrows DEF Place
    <3>3. todo'.linkDirs \subseteq todo.linkDirs /\ todo'.backFill = todo.backFill
      BY <3>1 DEF Place
    <3>4. ~Shares(ws, p)
      BY <3>1, SharedIsSeen DEF IInv
    <3> QED
      BY <1>5, <3>1, <3>2, <3>3, <3>4 DEF Place, LinkDir, IInv, Unshared, Shares, Closed
  <2> QED
    BY <2>1, <2>2
<1>6. ASSUME NEW p \in Paths, Copy(p) PROVE IInv'
  <2>1. CASE Refuse
    BY <2>1, RefuseKeeps
  <2>2. CASE ~Refuse
    <3>1. Place(p, File("wkt"), "copy", [todo EXCEPT !.copyFiles = @ \ {p}])
      BY <1>6, <2>2 DEF Copy
    <3>2. Linked' = Linked
      BY <3>1, LinkedGrows DEF Place
    <3>3. todo'.linkDirs = todo.linkDirs /\ todo'.backFill = todo.backFill
      BY <3>1 DEF Place
    <3> QED
      BY <1>6, <3>1, <3>2, <3>3 DEF Place, Copy, IInv, Unshared, Shares, Closed
  <2> QED
    BY <2>1, <2>2
<1>7. ASSUME NEW p \in Paths, CopyStray(p) PROVE IInv'
  <2>1. CASE Refuse
    BY <2>1, RefuseKeeps
  <2>2. CASE ~Refuse
    <3>1. /\ todo' = [todo EXCEPT !.strays = @ \ {p}]
          /\ UNCHANGED <<ws, repos, stage, late, slots>> /\ stage = "placing"
      BY <1>7, <2>2 DEF CopyStray
    <3>2. todo'.linkDirs = todo.linkDirs /\ todo'.backFill = todo.backFill /\ Linked' = Linked
      BY <3>1 DEF Linked, Slots
    <3> QED
      BY <3>1, <3>2 DEF IInv, Unshared, Shares, Closed
  <2> QED
    BY <2>1, <2>2
<1>8. CASE Carry
  <2>1. CASE Refuse
    BY <2>1, RefuseKeeps
  <2>2. CASE ~Refuse
    <3>1. /\ slots' = slots \cup {[path |-> p, type |-> "carry"] : p \in CarryPlan(ws, selected)}
          /\ UNCHANGED <<ws, repos, late, todo>> /\ stage' = "built"
      BY <1>8, <2>2 DEF Carry
    <3>2. Linked' = Linked
      BY <3>1, LinkedStays
    <3> QED
      BY <3>1, <3>2, KeptWithLinks
  <2> QED
    BY <2>1, <2>2
<1>9. CASE Save
  BY <1>9, KeptWithLinks DEF Save, Linked, Slots
<1>10. CASE Develop
  <2>1. Closed(ws) /\ ws \in [Paths -> Kinds]
    BY DEF IInv
  <2>2. ws' \in [Paths -> Kinds] /\ Closed(ws')
    BY <1>10, <2>1, DevelopKeeps DEF Develop
  <2>3. /\ late' = late \cup {q \in Linked : Shares(ws', q) /\ ~Shares(ws, q)}
        /\ UNCHANGED <<repos, todo, stage, slots>> /\ stage # "start"
    BY <1>10 DEF Develop, Linked
  <2>4. Linked' = Linked
    BY <2>3 DEF Linked, Slots
  <2>5. Unshared'
    BY <2>3, <2>4 DEF IInv, Unshared
  <2> QED
    BY <2>2, <2>3, <2>4, <2>5 DEF IInv
<1> QED
  BY <1>1, <1>2, <1>3, <1>4, <1>5, <1>6, <1>7, <1>8, <1>9, <1>10 DEF Creation

\* From then on the records of links stay what they are.
LEMMA LifeKeeps ==
  ASSUME IInv, [Next]_vars, ~Creation
  PROVE  IInv'
<1>1. CASE UNCHANGED vars
  BY <1>1, KeptWithLinks DEF vars, making, Linked, Slots
<1>2. CASE SeamRecord
  <2>1. PICK new : slots' = slots \cup {[path |-> p, type |-> "produced"] : p \in new}
    BY <1>2 DEF SeamRecord
  <2>2. Linked' = Linked
    BY <2>1, LinkedStays
  <2>3. UNCHANGED making
    BY <1>2 DEF SeamRecord, Seam
  <2> QED
    BY <2>2, <2>3, KeptWithLinks DEF making
<1>3. CASE \/ Agent \/ Script \/ ScriptEnds \/ Crash \/ Move
  <2>1. UNCHANGED <<making, slots>>
    BY <1>3 DEF Agent, Script, Changed, ScriptEnds, Crash, Move
  <2> QED
    BY <2>1, KeptWithLinks DEF making, Linked, Slots
<1>4. CASE \/ SeamBegin \/ SeamRun \/ SeamRestore \/ \E p \in Paths : Withdraw(p)
  <2>1. UNCHANGED <<making, slots>>
    BY <1>4 DEF SeamBegin, SeamRun, SeamRestore, Withdraw, Seam
  <2> QED
    BY <2>1, KeptWithLinks DEF making, Linked, Slots
<1>5. CASE \/ FixLoad \/ FixRules \/ FixWorktrees \/ FixEnd \/ \E p \in Paths : FixLink(p)
  <2>1. UNCHANGED <<making, slots>>
    BY <1>5 DEF FixLoad, FixRules, FixWorktrees, FixEnd, FixLink, Fix
  <2> QED
    BY <2>1, KeptWithLinks DEF making, Linked, Slots
<1> QED
  BY <1>1, <1>2, <1>3, <1>4, <1>5 DEF Next

-----------------------------------------------------------------------------
\* Whatever the developer and the agent do, and in whatever order: no link of
\* a tree but those to known repositories leads to a repository that was
\* there when the link was placed (tree.Build, LinkContents and their guard).
THEOREM NothingIsShared == Spec => []NothingShared
<1>1. IInv /\ [Next]_vars => IInv'
  BY CreationKeeps, LifeKeeps
<1>2. IInv => NothingShared
  BY DEF IInv, Unshared, Linked, NothingShared
<1> QED
  BY InvInit, <1>1, <1>2, PTL DEF Spec

-----------------------------------------------------------------------------
(* More about paths.                                                       *)

\* What is within a path is it or below it.
LEMMA WithinIsBelow ==
  ASSUME NEW p \in Paths, NEW q \in Paths
  PROVE  Within(p, q) <=> p = q \/ Below(p, q)
<1>1. p \in Seq(STRING) /\ q \in Seq(STRING)
  BY PathsAreSequences
<1>2. IsPrefix(p, p)
  BY <1>1, PrefixElements
<1> QED
  BY <1>2 DEF Within, Below, IsStrictPrefix

\* Two paths above a third are on one way.
LEMMA OneWay ==
  ASSUME NEW p \in Paths, NEW q \in Paths, NEW x \in Paths, Within(x, p), Within(x, q)
  PROVE  p = q \/ Below(p, q) \/ Below(q, p)
<1>1. p \in Seq(STRING) /\ q \in Seq(STRING) /\ x \in Seq(STRING)
  BY PathsAreSequences
<1>2. /\ Len(p) <= Len(x) /\ \A i \in 1..Len(p) : p[i] = x[i]
      /\ Len(q) <= Len(x) /\ \A i \in 1..Len(q) : q[i] = x[i]
  BY <1>1, PrefixElements DEF Within
<1>3. Len(p) <= Len(q) \/ Len(q) <= Len(p)
  BY <1>1
<1>4. CASE Len(p) <= Len(q)
  <2>1. IsPrefix(p, q)
    BY <1>1, <1>2, <1>4, PrefixElements
  <2> QED
    BY <2>1 DEF Below, IsStrictPrefix
<1>5. CASE Len(q) <= Len(p)
  <2>1. IsPrefix(q, p)
    BY <1>1, <1>2, <1>5, PrefixElements
  <2> QED
    BY <2>1 DEF Below, IsStrictPrefix
<1> QED
  BY <1>3, <1>4, <1>5

\* What is above a path is its directory, or above that.
LEMMA AboveIsFront ==
  ASSUME NEW p \in Paths
  PROVE  /\ Len(p) > 1 => Front(p) \in Paths /\ Below(p, Front(p))
         /\ \A q \in Paths : Below(p, q) =>
              Len(p) > 1 /\ (q = Front(p) \/ Below(Front(p), q))
<1>1. p \in Seq(STRING) /\ p # <<>> /\ (Len(p) > 1 => Front(p) \in Paths)
  BY PathsAssumption
<1>2. ASSUME Len(p) > 1 PROVE Below(p, Front(p))
  <2>1. /\ Front(p) \in Seq(STRING) /\ Len(Front(p)) = Len(p) - 1
        /\ \A i \in 1..Len(p) - 1 : Front(p)[i] = p[i]
    BY <1>1, <1>2 DEF Front
  <2>2. IsPrefix(Front(p), p)
    BY <1>1, <2>1, PrefixElements
  <2>3. Front(p) # p
    BY <1>1, <2>1
  <2> QED
    BY <2>2, <2>3 DEF Below, IsStrictPrefix
<1>3. ASSUME NEW q \in Paths, Below(p, q)
      PROVE  Len(p) > 1 /\ (q = Front(p) \/ Below(Front(p), q))
  <2>1. q \in Seq(STRING) /\ q # <<>>
    BY PathsAssumption
  <2>2. Len(q) <= Len(p) /\ \A i \in 1..Len(q) : q[i] = p[i]
    BY <1>1, <1>3, <2>1, PrefixElements DEF Below, IsStrictPrefix
  <2>3. Len(q) # Len(p)
    <3>1. ASSUME Len(q) = Len(p) PROVE q = p
      BY <1>1, <2>1, <2>2, <3>1
    <3> QED
      BY <3>1, <1>3 DEF Below, IsStrictPrefix
  <2>4. Len(q) >= 1
    BY <2>1
  <2>5. Len(p) > 1 /\ Len(q) <= Len(p) - 1
    BY <1>1, <2>1, <2>2, <2>3, <2>4
  <2>6. /\ Front(p) \in Seq(STRING) /\ Len(Front(p)) = Len(p) - 1
        /\ \A i \in 1..Len(p) - 1 : Front(p)[i] = p[i]
    BY <1>1, <2>5 DEF Front
  <2>7. IsPrefix(q, Front(p))
    BY <2>1, <2>2, <2>5, <2>6, PrefixElements
  <2> QED
    BY <2>5, <2>7 DEF Below, IsStrictPrefix
<1> QED
  BY <1>1, <1>2, <1>3

LEMMA OneIsNotMore ==
  ASSUME NEW p \in Paths, Len(p) > 1
  PROVE  Len(p) # 1
<1> DEFINE n == Len(p)
<1>1. n \in Nat
  BY PathsAreSequences
<1>2. n > 1
  OBVIOUS
<1> HIDE DEF n
<1>3. n # 1
  BY <1>1, <1>2
<1> QED
  BY <1>3 DEF n

\* Some path of a set is no longer than any other of it.
LEMMA Shortest ==
  ASSUME NEW S \in SUBSET Paths, S # {}
  PROVE  \E q \in S : \A o \in S : Len(q) <= Len(o)
<1> DEFINE L == {Len(q) : q \in S}
           R == OpToRel(<, Nat)
<1>1. L \in SUBSET Nat /\ L # {}
  <2>1. \A q \in S : q \in Seq(STRING)
    BY PathsAreSequences
  <2>2. \A q \in S : Len(q) \in Nat
    BY <2>1
  <2> QED
    BY <2>2
<1>2. \E x \in L : \A y \in L : <<y, x>> \notin R
  <2>1. IsWellFoundedOn(R, Nat)
    BY NatLessThanWellFounded
  <2> HIDE DEF R, L
  <2> QED
    BY <1>1, <2>1, WFMin
<1>3. \A x, y \in L : (<<y, x>> \notin R) => x <= y
  BY <1>1 DEF OpToRel
<1>4. \E x \in L : \A y \in L : x <= y
  <2> HIDE DEF R, L
  <2> QED
    BY <1>2, <1>3
<1> QED
  BY <1>4

\* git does find the highest name its rules match.
LEMMA CutIsThere ==
  ASSUME NEW p \in Paths, NEW r \in Paths, RuledOut(p, r)
  PROVE  Cut(p, r) \in Ignored /\ Below(Cut(p, r), r) /\ Within(p, Cut(p, r))
<1> DEFINE S == {q \in Ignored : Below(q, r) /\ Within(p, q)}
<1>1. S \in SUBSET Paths /\ S # {}
  BY NamesAssumption DEF RuledOut
<1>2. PICK q \in S : \A o \in S : Len(q) <= Len(o)
  BY <1>1, Shortest
<1>3. ASSUME NEW o \in Ignored, Below(o, r), Below(q, o) PROVE ~Within(p, o)
  <2>1. SUFFICES ASSUME Within(p, o) PROVE FALSE
    OBVIOUS
  <2>2. Len(q) <= Len(o)
    BY <1>2, <1>3, <2>1
  <2>3. o \in Paths /\ q \in Paths
    BY <1>1, NamesAssumption
  <2>4. Len(o) <= Len(q) /\ \A i \in 1..Len(o) : o[i] = q[i]
    BY <1>3, <2>3, PathsAreSequences, PrefixElements DEF Below, IsStrictPrefix
  <2>5. o = q
    BY <2>2, <2>3, <2>4, PathsAreSequences
  <2> QED
    BY <1>3, <2>5 DEF Below, IsStrictPrefix
<1>4. \E c \in Ignored : /\ Below(c, r) /\ Within(p, c)
                         /\ \A o \in Ignored : Below(o, r) /\ Below(c, o) => ~Within(p, o)
  BY <1>2, <1>3
<1> QED
  BY <1>4 DEF Cut
-----------------------------------------------------------------------------
(* The shape of the tree: what stands in it stands in directories, and the *)
(* plan only ever places something beside the way to the worktrees.        *)

Stands(t) == \A p, q \in Paths : t[p].is # "none" /\ Below(p, q) => t[q].is = "dir"

\* Directories on the way to a repository, and what the plan has yet to place.
Way == Ancestors(repos, selected)
ToPlace == todo.backFill \cup todo.linkDirs \cup todo.copyFiles

Typed ==
  /\ repos \subseteq Paths /\ selected \subseteq repos
  /\ \A r, q \in repos : ~Below(r, q)
  /\ tree \in [Paths -> Things] /\ base \subseteq Paths
  /\ \A s \in slots :
       s.path \in Paths /\ s.type \in {"symlink", "copy", "carry", "produced"}
  /\ attached \cup seam.asked \subseteq selected
  /\ seam.held \cup seam.todo \cup fix.todo \subseteq Linked
  /\ stage # "live" => seam = NoSeam /\ fix = NoFix /\ ~script
  /\ stage \in {"start", "walked"} => attached = {}
  /\ stage \in {"start", "walked", "planning"} => todo = NoPlan /\ slots = {}

\* Links are recorded, and none of them is in a worktree.
Outside ==
  /\ \A p \in Paths : tree[p].is = "link" => p \in Linked
  /\ \A p \in Linked, r \in selected : ~Within(p, r)

Raised ==
  /\ stage \in {"planning", "placing", "built", "live"} =>
       \A r \in selected : tree[r].is = "dir"
  /\ stage \in {"planning", "placing"} =>
       /\ \A d \in Way : tree[d].is \in {"none", "dir"}
       /\ \A p \in ToPlace :
            /\ p \in Paths \ Way /\ \A q \in Paths : Below(p, q) => q \in Way
            /\ \A r \in selected : ~Within(p, r)
       /\ todo.copyFiles \cap (todo.backFill \cup todo.linkDirs) = {}
       /\ \A p \in todo.copyFiles : tree[p].is = "none"
  /\ stage = "planning" =>
       \A p \in Paths : tree[p].is # "none" =>
         p \in Way \/ \E r \in selected : Within(p, r)

Shape == Typed /\ Stands(tree) /\ Outside /\ Raised

\* Nothing, directories, links and files are things.
LEMMA ThingsAreThings ==
  /\ Nothing \in Things /\ Dir \in Things /\ Link \in Things
  /\ \A by \in {"wkt", "base", "carry", "agent", "script"} :
       /\ File(by) \in Things /\ File(by).is = "file" /\ File(by).by = by
  /\ Nothing.is = "none" /\ Dir.is = "dir" /\ Link.is = "link"
  /\ Nothing.by = "wkt" /\ Dir.by = "wkt" /\ Link.by = "wkt"
BY DEF Nothing, Dir, Link, File, Things

\* Where directories can be made on the way, putting something there leaves
\* everything standing.
LEMMA PutStands ==
  ASSUME NEW t \in [Paths -> Things], Stands(t), NEW p \in Paths,
         NEW x \in Things, x.is # "none", t[p].is = "dir" => x.is = "dir",
         \A q \in Paths : Below(p, q) => t[q].is \in {"none", "dir"}
  PROVE  /\ Put(t, p, x) \in [Paths -> Things] /\ Stands(Put(t, p, x))
         /\ Put(t, p, x)[p] = x
         /\ \A q \in Paths \ {p} : IF Below(p, q) /\ t[q].is = "none"
                                    THEN Put(t, p, x)[q] = Dir
                                    ELSE Put(t, p, x)[q] = t[q]
<1> DEFINE u == Put(t, p, x)
<1>1. u \in [Paths -> Things]
  BY ThingsAreThings DEF Put
<1>2. /\ u[p] = x
      /\ \A q \in Paths \ {p} : IF Below(p, q) /\ t[q].is = "none"
                                 THEN u[q] = Dir ELSE u[q] = t[q]
  BY DEF Put
<1> HIDE DEF u
<1>3. ASSUME NEW y \in Paths, NEW q \in Paths, u[y].is # "none", Below(y, q)
      PROVE  u[q].is = "dir"
  <2>1. ~Below(q, y) /\ y # q
    BY <1>3, BelowOrders DEF Below, IsStrictPrefix
  <2>2. CASE Below(p, q)
    BY <1>2, <2>2, ThingsAreThings DEF Below, IsStrictPrefix
  <2>3. CASE ~Below(p, q)
    <3>1. y # p /\ ~Below(p, y)
      BY <1>3, <2>3, BelowOrders
    <3>2. t[y].is # "none"
      BY <1>2, <1>3, <3>1
    <3>3. t[q].is = "dir"
      BY <1>3, <3>2 DEF Stands
    <3> QED
      BY <1>2, <2>3, <3>3
  <2> QED
    BY <2>2, <2>3
<1> QED
  BY <1>1, <1>2, <1>3 DEF Stands, u

LEMMA ShapeInit == Init => Shape
<1> SUFFICES ASSUME Init PROVE Shape
  OBVIOUS
<1>1. tree \in [Paths -> Things] /\ \A p \in Paths : tree[p].is = "none"
  BY ThingsAreThings DEF Init
<1>2. Linked = {}
  BY DEF Init, Linked, Slots
<1> QED
  BY <1>1, <1>2 DEF Init, Shape, Typed, Stands, Outside, Raised, NoPlan, NoSeam, NoFix
\* Where the tree is left alone, what is known of it stays.
LEMMA ShapeKept ==
  ASSUME Shape, UNCHANGED <<stage, repos, selected, todo, tree, base>>,
         \A s \in slots' :
           s.path \in Paths /\ s.type \in {"symlink", "copy", "carry", "produced"},
         Linked' = Linked, stage # "live" => slots' = slots,
         attached' \cup seam'.asked \subseteq selected,
         seam'.held \cup seam'.todo \cup fix'.todo \subseteq Linked,
         stage # "live" => UNCHANGED <<attached, seam, fix, script>>
  PROVE  Shape'
<1>1. Typed'
  BY DEF Shape, Typed
<1>2. Stands(tree')
  BY DEF Shape, Stands
<1>3. Outside'
  BY DEF Shape, Outside
<1>4. Raised'
  BY DEF Shape, Raised, Way, ToPlace, Ancestors
<1> QED
  BY <1>1, <1>2, <1>3, <1>4 DEF Shape, Stands

\* Walk: no repository is in another.
LEMMA WalkShape ==
  ASSUME IInv, Shape, Walk
  PROVE  Shape'
<1>1. /\ repos' \subseteq Paths /\ selected' \subseteq repos' /\ stage' = "walked"
      /\ UNCHANGED <<todo, tree, base, slots, attached, seam, fix, script>>
      /\ stage = "start"
  BY DEF Walk, life, Repositories, Discovered
<1>2. \A r, q \in repos' : ~Below(r, q)
  BY DEF Walk, Repositories, Nested
<1>3. slots' = {} /\ Linked' = {} /\ Linked = {}
  BY <1>1 DEF Shape, Typed, Linked, Slots
<1>4. \A p \in Paths : tree[p].is # "link"
  BY <1>3 DEF Shape, Outside
<1>5. Typed'
  BY <1>1, <1>2, <1>3 DEF Shape, Typed, NoSeam
<1>6. Outside' /\ Raised'
  BY <1>1, <1>3, <1>4 DEF Outside, Raised
<1> QED
  BY <1>1, <1>5, <1>6 DEF Shape, Stands

\* git worktree add: files are below the repositories, which are below
\* nothing but directories.
LEMMA WorktreesShape ==
  ASSUME IInv, Shape, Worktrees
  PROVE  Shape'
<1>1. /\ stage = "walked" /\ stage' = "planning" /\ attached' = selected
      /\ UNCHANGED <<ws, repos, selected, todo, slots, seam, fix, script>>
      /\ base' \subseteq Paths
      /\ \A p \in base' : ws[p] \in {"file", "big"} /\ \E r \in selected : Below(p, r)
  BY DEF Worktrees
<1>2. /\ selected \subseteq repos /\ repos \subseteq Paths /\ todo = NoPlan /\ slots = {}
      /\ \A r, q \in repos : ~Below(r, q)
  BY <1>1 DEF Shape, Typed
<1>3. /\ tree' \in [Paths -> Things]
      /\ \A p \in Paths :
           /\ p \in base' => tree'[p] = File("base")
           /\ p \notin base' /\ (p \in selected \/ \E q \in selected \cup base' : Below(q, p))
                => tree'[p] = Dir
           /\ p \notin base' /\ ~(p \in selected \/ \E q \in selected \cup base' : Below(q, p))
                => tree'[p] = Nothing
  BY ThingsAreThings DEF Worktrees
<1>4. ASSUME NEW p \in selected \cup base', NEW q \in Paths, Below(p, q)
      PROVE  q \notin base'
  <2>1. SUFFICES ASSUME q \in base' PROVE FALSE
    OBVIOUS
  <2>2. PICK r \in selected : Below(q, r) /\ ws[q] \in {"file", "big"}
    BY <1>1, <2>1
  <2>3. CASE p \in selected
    <3>1. Below(p, r)
      BY <1>2, <1>4, <2>2, <2>3, BelowOrders
    <3> QED
      BY <1>2, <2>3, <3>1
  <2>4. CASE p \in base'
    <3>1. ws[p] # "none" /\ p \in Paths
      BY <1>1, <2>4
    <3>2. ws[q] \in Folders
      BY <1>4, <3>1 DEF IInv, Closed
    <3> QED
      BY <2>2, <3>2 DEF Folders
  <2> QED
    BY <2>3, <2>4
<1>5. Stands(tree')
  <2>1. SUFFICES ASSUME NEW p \in Paths, NEW q \in Paths, tree'[p].is # "none", Below(p, q)
                 PROVE  tree'[q].is = "dir"
    BY DEF Stands
  <2>2. PICK x \in selected \cup base' : p = x \/ Below(x, p)
    BY <1>3, <2>1, ThingsAreThings
  <2>3. x \in Paths
    BY <1>1, <1>2
  <2>4. Below(x, q)
    BY <2>1, <2>2, <2>3, BelowOrders
  <2>5. q \notin base'
    BY <1>4, <2>4
  <2> QED
    BY <1>3, <2>4, <2>5, ThingsAreThings
<1>6. \A r \in selected : tree'[r].is = "dir"
  <2>1. SUFFICES ASSUME NEW r \in selected PROVE r \notin base'
    BY <1>2, <1>3, ThingsAreThings
  <2> QED
    BY <1>1, <1>2
<1>7. \A d \in Ancestors(repos, selected) : tree'[d].is \in {"none", "dir"}
  <2>1. SUFFICES ASSUME NEW d \in Ancestors(repos, selected) PROVE d \notin base'
    BY <1>3, ThingsAreThings DEF Ancestors
  <2>2. PICK r \in repos : d \in Paths /\ Below(r, d)
    BY DEF Ancestors
  <2>3. ASSUME NEW q \in selected, Below(d, q) PROVE FALSE
    BY <1>2, <2>2, <2>3, BelowOrders
  <2> QED
    BY <1>1, <2>3
<1>8. ASSUME NEW p \in Paths, tree'[p].is # "none"
      PROVE  p \in Ancestors(repos, selected) \/ \E r \in selected : Within(p, r)
  <2>1. PICK x \in selected \cup base' : p = x \/ Below(x, p)
    BY <1>3, <1>8, ThingsAreThings
  <2>2. PICK r \in selected : Within(x, r)
    <3>1. CASE x \in selected
      BY <1>2, <3>1, WithinIsBelow
    <3>2. CASE x \in base'
      BY <1>1, <1>2, <3>2, WithinIsBelow
    <3> QED
      BY <3>1, <3>2
  <2>3. x \in Paths /\ r \in Paths /\ r \in repos
    BY <1>1, <1>2
  <2>4. Within(x, p)
    BY <2>1, <2>3, WithinIsBelow
  <2>5. p = r \/ Below(p, r) \/ Below(r, p)
    BY <2>2, <2>3, <2>4, OneWay
  <2> QED
    BY <2>3, <2>5, WithinIsBelow DEF Ancestors
<1>9. \A p \in Paths : tree'[p].is # "link"
  BY <1>3, ThingsAreThings
<1>10. Typed'
  BY <1>1, <1>2, <1>3 DEF Shape, Typed, Linked, Slots
<1>11. Outside'
  BY <1>1, <1>2, <1>9 DEF Outside, Linked, Slots
<1>12. Raised'
  BY <1>1, <1>2, <1>6, <1>7, <1>8 DEF Raised, Way, ToPlace, NoPlan
<1> QED
  BY <1>5, <1>10, <1>11, <1>12 DEF Shape, Stands

\* An error takes everything back.
LEMMA RefuseShape ==
  ASSUME Shape, Refuse, stage # "live"
  PROVE  Shape'
<1>1. /\ stage' = "refused" /\ todo' = NoPlan /\ slots' = {} /\ base' = {} /\ attached' = {}
      /\ UNCHANGED <<repos, selected, seam, fix, script>>
  BY DEF Refuse
<1>2. tree' \in [Paths -> Things] /\ \A p \in Paths : tree'[p].is = "none"
  BY ThingsAreThings DEF Refuse
<1>3. Linked' = {}
  BY <1>1 DEF Linked, Slots
<1>4. seam = NoSeam /\ fix = NoFix /\ ~script
  BY DEF Shape, Typed
<1>5. Typed'
  BY <1>1, <1>2, <1>3, <1>4 DEF Shape, Typed, NoSeam, NoFix
<1> QED
  BY <1>1, <1>2, <1>3, <1>5 DEF Shape, Stands, Outside, Raised
\* PlanFor: what stands beside the way is neither on it nor in a worktree.
LEMMA PlanShape ==
  ASSUME Shape, Plan, ~Unreadable(ws, repos, selected)
  PROVE  Shape'
<1>1. /\ stage = "planning" /\ stage' = "placing" /\ todo' = PlanFor(ws, repos, selected)
      /\ UNCHANGED <<ws, repos, selected, tree, base, slots, attached, seam, fix, script>>
  BY DEF Plan, life
<1>2. /\ selected \subseteq repos /\ repos \subseteq Paths
      /\ \A r, q \in repos : ~Below(r, q)
  BY DEF Shape, Typed
<1> DEFINE leaves == Leaves(ws, repos, selected)
<1>3. /\ todo'.backFill = repos \ selected /\ todo'.linkDirs = {p \in leaves : ws[p] # "file"}
      /\ todo'.copyFiles = {p \in leaves \ Regenerable : ws[p] = "file"}
  BY <1>1 DEF PlanFor
<1>4. /\ leaves \subseteq Paths /\ leaves \cap repos = {} /\ leaves \cap Way = {}
      /\ \A p \in leaves : Len(p) = 1 \/ Front(p) \in Way
  BY DEF Leaves, Way
<1>5. \A d \in Way : d \in Paths /\ \E r \in repos : Below(r, d)
  BY DEF Way, Ancestors
<1>6. \A d \in Paths, r \in repos : Below(r, d) => d \in Way
  BY DEF Way, Ancestors
<1> HIDE DEF leaves
<1>7. ASSUME NEW p \in leaves, NEW q \in Paths, Below(p, q) PROVE q \in Way
  <2>1. p \in Paths /\ Len(p) > 1 /\ (q = Front(p) \/ Below(Front(p), q))
    BY <1>4, <1>7, AboveIsFront
  <2>2. Front(p) \in Way
    <3>1. Len(p) # 1
      BY <2>1, OneIsNotMore
    <3> QED
      BY <1>4, <1>7, <3>1
  <2>3. PICK r \in repos : Front(p) \in Paths /\ Below(r, Front(p))
    BY <1>5, <2>2
  <2>4. Below(r, q)
    BY <1>2, <1>7, <2>1, <2>3, BelowOrders
  <2> QED
    BY <1>6, <2>4
<1>8. ASSUME NEW p \in leaves, NEW r \in selected, Within(p, r) PROVE FALSE
  <2>1. p \in Paths /\ r \in Paths /\ Below(p, r)
    BY <1>2, <1>4, <1>8, WithinIsBelow
  <2>2. r \in Way
    BY <1>7, <2>1
  <2> QED
    BY <1>2, <1>5, <2>2
<1>9. ASSUME NEW p \in repos \ selected, NEW r \in selected PROVE ~Within(p, r)
  BY <1>2, <1>9, WithinIsBelow
<1>10. \A p \in todo'.backFill \cup todo'.linkDirs \cup todo'.copyFiles :
         /\ p \in Paths \ Way /\ \A q \in Paths : Below(p, q) => q \in Way
         /\ \A r \in selected : ~Within(p, r)
  BY <1>2, <1>3, <1>4, <1>5, <1>6, <1>7, <1>8, <1>9
<1>11. \A p \in todo'.copyFiles : tree[p].is = "none"
  <2>1. SUFFICES ASSUME NEW p \in leaves PROVE tree[p].is = "none"
    BY <1>3
  <2> QED
    BY <1>1, <1>4, <1>8 DEF Shape, Raised
<1>12. todo'.copyFiles \cap (todo'.backFill \cup todo'.linkDirs) = {}
  BY <1>3, <1>4
<1>13. Way' = Way
  BY <1>1 DEF Way
<1>14. Raised'
  BY <1>1, <1>10, <1>11, <1>12, <1>13 DEF Shape, Raised, ToPlace
<1>15. Linked' = Linked
  BY <1>1 DEF Linked, Slots
<1>16. Typed'
  BY <1>1, <1>15 DEF Shape, Typed
<1> QED
  BY <1>1, <1>14, <1>15, <1>16 DEF Shape, Outside, Stands

\* A link or a copy beside the way, where nothing stands.
LEMMA PlaceShape ==
  ASSUME Shape, stage = "placing", NEW p \in ToPlace, tree[p].is = "none", p \in Paths,
         NEW x \in {Link, File("wkt")}, NEW type \in {"symlink", "copy"},
         (x = Link) <=> (type = "symlink"),
         NEW left, Place(p, x, type, left),
         left.backFill \subseteq todo.backFill, left.linkDirs \subseteq todo.linkDirs,
         left.copyFiles \subseteq todo.copyFiles, p \notin left.copyFiles
  PROVE  Shape'
<1>1. /\ tree' = Put(tree, p, x) /\ slots' = slots \cup {[path |-> p, type |-> type]}
      /\ todo' = left
      /\ UNCHANGED <<stage, repos, selected, base, attached, seam, fix, script>>
  BY DEF Place
<1>2. x \in Things /\ x.is \in {"link", "file"}
  BY ThingsAreThings
<1>3. /\ tree \in [Paths -> Things] /\ Stands(tree) /\ selected \subseteq repos
      /\ repos \subseteq Paths
  BY DEF Shape, Typed
<1>4. /\ p \notin Way /\ \A q \in Paths : Below(p, q) => q \in Way
      /\ \A r \in selected : ~Within(p, r) 
      /\ \A d \in Way : tree[d].is \in {"none", "dir"}
      /\ \A r \in selected : tree[r].is = "dir"
  BY DEF Shape, Raised
<1>5. /\ tree' \in [Paths -> Things] /\ Stands(tree') /\ tree'[p] = x
      /\ \A q \in Paths \ {p} : IF Below(p, q) /\ tree[q].is = "none"
                                 THEN tree'[q] = Dir ELSE tree'[q] = tree[q]
  BY <1>1, <1>2, <1>3, <1>4, PutStands
<1>6. Linked' = IF type = "symlink" THEN Linked \cup {p} ELSE Linked
  BY <1>1, LinkedGrows
<1>7. Typed'
  <2>1. \A s \in slots' :
          s.path \in Paths /\ s.type \in {"symlink", "copy", "carry", "produced"}
    BY <1>1 DEF Shape, Typed
  <2> QED
    BY <1>1, <1>5, <1>6, <2>1 DEF Shape, Typed
<1>8. Outside'
  <2>1. \A q \in Paths : tree'[q].is = "link" => q \in Linked'
    BY <1>2, <1>5, <1>6, ThingsAreThings DEF Shape, Outside
  <2>2. \A q \in Linked' : \A r \in selected : ~Within(q, r)
    BY <1>4, <1>6 DEF Shape, Outside
  <2> QED
    BY <1>1, <2>1, <2>2 DEF Outside
<1>9. Way' = Way
  BY <1>1 DEF Way
<1>10. \A d \in Way : tree'[d].is \in {"none", "dir"}
  <2>1. \A d \in Way : d \in Paths
    BY DEF Way, Ancestors
  <2> QED
    BY <1>4, <1>5, <2>1, ThingsAreThings
<1>11. \A r \in selected : tree'[r].is = "dir"
  BY <1>2, <1>3, <1>4, <1>5, ThingsAreThings
<1>12. \A q \in left.copyFiles : tree'[q].is = "none"
  <2>1. SUFFICES ASSUME NEW q \in left.copyFiles PROVE tree'[q].is = "none"
    OBVIOUS
  <2>2. q \in ToPlace /\ tree[q].is = "none" /\ q \in Paths \ Way
    BY DEF Shape, Raised, ToPlace
  <2>3. q # p /\ ~Below(p, q)
    BY <1>4, <2>2
  <2> QED
    BY <1>5, <2>2, <2>3
<1>13. Raised'
  BY <1>1, <1>9, <1>10, <1>11, <1>12 DEF Shape, Raised, ToPlace
<1> QED
  BY <1>5, <1>7, <1>8, <1>13 DEF Shape, Stands
\* The carry writes files below the repositories, where no link is.
LEMMA CarryShape ==
  ASSUME IInv, Shape, Carry, ~Refuse
  PROVE  Shape'
<1> DEFINE plan == CarryPlan(ws, selected)
<1>1. /\ stage = "placing" /\ stage' = "built" /\ todo' = NoPlan /\ todo = NoPlan
      /\ \A p \in plan : /\ tree[p].is # "dir"
                         /\ \A q \in Paths : Below(p, q) => tree[q].is # "file"
      /\ tree' = [p \in Paths |-> IF p \in plan THEN File("carry")
                                  ELSE IF \E q \in plan : Below(q, p) THEN Dir ELSE tree[p]]
      /\ slots' = slots \cup {[path |-> p, type |-> "carry"] : p \in plan}
      /\ UNCHANGED <<repos, selected, base, attached, seam, fix, script>>
  BY DEF Carry, life
<1>2. plan \subseteq Paths /\ \A p \in plan : ws[p] \in {"file", "big"} /\ \E r \in selected : Below(p, r)
  BY DEF CarryPlan
<1>3. /\ selected \subseteq repos /\ repos \subseteq Paths /\ \A r, q \in repos : ~Below(r, q)
      /\ tree \in [Paths -> Things] /\ Stands(tree)
  BY DEF Shape, Typed
<1> HIDE DEF plan
<1>4. Linked' = Linked
  BY <1>1, LinkedStays
<1>5. tree' \in [Paths -> Things]
  BY <1>1, <1>3, ThingsAreThings
<1>6. /\ \A p \in plan : tree'[p] = File("carry")
      /\ \A p \in Paths \ plan : IF \E q \in plan : Below(q, p) THEN tree'[p] = Dir
                                 ELSE tree'[p] = tree[p]
  BY <1>1, <1>2
<1>7. \A p, q \in plan : ~Below(p, q)
  <2>1. ASSUME NEW p \in plan, NEW q \in plan, Below(p, q) PROVE FALSE
    <3>1. ws[p] # "none" /\ ws[q] \notin Folders
      BY <1>2 DEF Folders
    <3> QED
      BY <1>2, <2>1, <3>1 DEF IInv, Closed
  <2> QED
    BY <2>1
<1>8. Stands(tree')
  <2>1. SUFFICES ASSUME NEW p \in Paths, NEW q \in Paths, tree'[p].is # "none", Below(p, q)
                 PROVE  tree'[q].is = "dir"
    BY DEF Stands
  <2>2. CASE \E x \in plan : Within(x, p)
    <3>1. PICK x \in plan : x = p \/ Below(x, p)
      BY <1>2, <2>2, WithinIsBelow
    <3>2. Below(x, q) /\ x \in Paths
      BY <1>2, <2>1, <3>1, BelowOrders
    <3>3. q \notin plan
      BY <1>7, <3>2
    <3> QED
      BY <1>6, <3>2, <3>3, ThingsAreThings
  <2>3. CASE ~\E x \in plan : Within(x, p)
    <3>1. p \notin plan /\ ~\E x \in plan : Below(x, p)
      BY <1>2, <2>3, WithinIsBelow
    <3>2. tree[p].is # "none"
      BY <1>6, <2>1, <3>1
    <3>3. tree[q].is = "dir"
      BY <1>3, <2>1, <3>2 DEF Stands
    <3>4. q \notin plan
      BY <1>1, <3>3
    <3> QED
      BY <1>6, <3>3, <3>4, ThingsAreThings
  <2> QED
    BY <2>2, <2>3
<1>9. Typed'
  <2>1. \A s \in slots' :
          s.path \in Paths /\ s.type \in {"symlink", "copy", "carry", "produced"}
    BY <1>1, <1>2 DEF Shape, Typed
  <2> QED
    BY <1>1, <1>4, <1>5, <2>1 DEF Shape, Typed
<1>10. Outside'
  <2>1. \A p \in Paths : tree'[p].is = "link" => tree[p].is = "link"
    BY <1>6, ThingsAreThings
  <2> QED
    BY <1>1, <1>4, <2>1 DEF Shape, Outside
<1>11. Raised'
  <2>1. SUFFICES ASSUME NEW r \in selected PROVE tree'[r].is = "dir"
    BY <1>1 DEF Raised
  <2>2. tree[r].is = "dir" /\ r \in Paths
    BY <1>1, <1>3 DEF Shape, Raised
  <2> QED
    BY <1>1, <1>6, <2>2, ThingsAreThings
<1> QED
  BY <1>8, <1>9, <1>10, <1>11 DEF Shape, Stands

LEMMA CreationShape ==
  ASSUME IInv, Shape, Creation
  PROVE  Shape'
<1>1. CASE Walk
  BY <1>1, WalkShape
<1>2. CASE Worktrees
  BY <1>2, WorktreesShape
<1>3. CASE Plan
  <2>1. CASE Refuse
    BY <1>3, <2>1, RefuseShape DEF Plan
  <2>2. CASE ~Unreadable(ws, repos, selected)
    BY <1>3, <2>2, PlanShape
  <2> QED
    BY <1>3, <2>1, <2>2 DEF Plan
<1>4. ASSUME NEW p \in Paths, LinkRepository(p) PROVE Shape'
  <2>1. stage = "placing" /\ p \in todo.backFill /\ p \in ToPlace
    BY <1>4 DEF LinkRepository, ToPlace
  <2>2. CASE Refuse
    BY <2>1, <2>2, RefuseShape
  <2>3. CASE ~Refuse
    <3> DEFINE left == [todo EXCEPT !.backFill = @ \ {p}]
    <3>1. tree[p].is = "none" /\ Place(p, Link, "symlink", left)
      BY <1>4, <2>3 DEF LinkRepository
    <3>2. /\ left.backFill \subseteq todo.backFill /\ left.linkDirs = todo.linkDirs
          /\ left.copyFiles = todo.copyFiles
      OBVIOUS
    <3>3. p \notin left.copyFiles
      BY <2>1, <3>2 DEF Shape, Raised
    <3> HIDE DEF left
    <3> QED
      BY <2>1, <3>1, <3>2, <3>3, PlaceShape
  <2> QED
    BY <2>2, <2>3
<1>5. ASSUME NEW p \in Paths, LinkDir(p) PROVE Shape'
  <2>1. stage = "placing" /\ p \in todo.linkDirs /\ p \in ToPlace
    BY <1>5 DEF LinkDir, ToPlace
  <2>2. CASE Refuse
    BY <2>1, <2>2, RefuseShape
  <2>3. CASE ~Refuse
    <3> DEFINE left == [todo EXCEPT !.linkDirs = @ \ {p}]
    <3>1. tree[p].is = "none" /\ Place(p, Link, "symlink", left)
      BY <1>5, <2>3 DEF LinkDir
    <3>2. /\ left.linkDirs \subseteq todo.linkDirs /\ left.backFill = todo.backFill
          /\ left.copyFiles = todo.copyFiles
      OBVIOUS
    <3>3. p \notin left.copyFiles
      BY <2>1, <3>2 DEF Shape, Raised
    <3> HIDE DEF left
    <3> QED
      BY <2>1, <3>1, <3>2, <3>3, PlaceShape
  <2> QED
    BY <2>2, <2>3
<1>6. ASSUME NEW p \in Paths, Copy(p) PROVE Shape'
  <2>1. stage = "placing" /\ p \in todo.copyFiles /\ p \in ToPlace /\ tree[p].is = "none"
    BY <1>6 DEF Copy, ToPlace, Shape, Raised
  <2>2. CASE Refuse
    BY <2>1, <2>2, RefuseShape
  <2>3. CASE ~Refuse
    <3> DEFINE left == [todo EXCEPT !.copyFiles = @ \ {p}]
    <3>1. Place(p, File("wkt"), "copy", left)
      BY <1>6, <2>3 DEF Copy
    <3>2. /\ left.linkDirs = todo.linkDirs /\ left.backFill = todo.backFill
          /\ left.copyFiles \subseteq todo.copyFiles
      OBVIOUS
    <3>3. p \notin left.copyFiles
      OBVIOUS
    <3>4. File("wkt") # Link
      BY DEF File, Link
    <3> HIDE DEF left
    <3> QED
      BY <2>1, <3>1, <3>2, <3>3, <3>4, PlaceShape
  <2> QED
    BY <2>2, <2>3
<1>7. ASSUME NEW p \in Paths, CopyStray(p) PROVE Shape'
  <2>1. CASE Refuse
    BY <1>7, <2>1, RefuseShape DEF CopyStray
  <2>2. CASE ~Refuse
    <3>1. /\ todo' = [todo EXCEPT !.strays = @ \ {p}] /\ stage = "placing"
          /\ UNCHANGED <<stage, repos, selected, tree, base, slots, attached, seam, fix, script>>
      BY <1>7, <2>2 DEF CopyStray, life
    <3>2. /\ todo'.linkDirs = todo.linkDirs /\ todo'.backFill = todo.backFill
          /\ todo'.copyFiles = todo.copyFiles
      BY <3>1
    <3>3. Linked' = Linked /\ ToPlace' = ToPlace /\ Way' = Way
      BY <3>1, <3>2 DEF Linked, Slots, ToPlace, Way
    <3>4. Typed'
      BY <3>1, <3>3 DEF Shape, Typed
    <3>5. Raised'
      BY <3>1, <3>2, <3>3 DEF Shape, Raised
    <3> QED
      BY <3>1, <3>3, <3>4, <3>5 DEF Shape, Outside, Stands
  <2> QED
    BY <2>1, <2>2
<1>8. CASE Carry
  <2>1. CASE Refuse
    BY <1>8, <2>1, RefuseShape DEF Carry
  <2>2. CASE ~Refuse
    BY <1>8, <2>2, CarryShape
  <2> QED
    BY <2>1, <2>2
<1>9. CASE Save
  <2>1. /\ stage = "built" /\ stage' = "live"
        /\ UNCHANGED <<repos, selected, todo, tree, base, slots, attached, seam, fix, script>>
    BY <1>9 DEF Save, life
  <2>2. Linked' = Linked
    BY <2>1 DEF Linked, Slots
  <2>3. Typed' /\ Raised'
    BY <2>1, <2>2 DEF Shape, Typed, Raised
  <2> QED
    BY <2>1, <2>2, <2>3 DEF Shape, Outside, Stands
<1>10. CASE Develop
  <2>1. UNCHANGED <<stage, repos, selected, todo, tree, base, slots, attached, seam, fix, script>>
    BY <1>10 DEF Develop, life
  <2>2. Linked' = Linked
    BY <2>1 DEF Linked, Slots
  <2> QED
    BY <2>1, <2>2, ShapeKept DEF Shape, Typed
<1> QED
  BY <1>1, <1>2, <1>3, <1>4, <1>5, <1>6, <1>7, <1>8, <1>9, <1>10 DEF Creation
\* In a living tree nothing is left of the plan but the worktrees.
LEMMA TreeChanges ==
  ASSUME Shape, stage = "live", UNCHANGED <<making, base, slots, attached>>,
         tree' \in [Paths -> Things], Stands(tree'),
         \A p \in Paths : tree'[p].is = "link" => p \in Linked,
         \A r \in selected : tree'[r].is = "dir",
         seam'.asked \subseteq selected,
         seam'.held \cup seam'.todo \cup fix'.todo \subseteq Linked
  PROVE  Shape'
<1>1. Linked' = Linked
  BY DEF Linked, Slots
<1>2. UNCHANGED <<stage, repos, selected, todo>>
  BY DEF making
<1>3. Typed'
  BY <1>1, <1>2 DEF Shape, Typed
<1>4. Outside' /\ Raised'
  BY <1>1, <1>2 DEF Shape, Outside, Raised
<1> QED
  BY <1>3, <1>4 DEF Shape, Stands

\* Agent and script put things where there are directories or none.
LEMMA PutShape ==
  ASSUME Shape, stage = "live", NEW p \in Paths, Reachable(p),
         NEW x \in Things, x.is \in {"file", "dir"},
         tree[p].is = "dir" => x.is = "dir",
         NEW S, Changed(Put(tree, p, x), S)
  PROVE  Shape'
<1>1. /\ tree' = Put(tree, p, x) /\ fix' = [fix EXCEPT !.clean = FALSE]
      /\ UNCHANGED <<making, base, slots, attached, seam>>
  BY DEF Changed
<1>2. /\ tree \in [Paths -> Things] /\ Stands(tree) /\ selected \subseteq Paths
      /\ \A r \in selected : tree[r].is = "dir" /\ r # p
      /\ \A q \in Paths : Below(p, q) => tree[q].is \in {"none", "dir"}
  BY DEF Shape, Typed, Raised, Reachable
<1>3. /\ tree' \in [Paths -> Things] /\ Stands(tree') /\ tree'[p] = x
      /\ \A q \in Paths \ {p} : IF Below(p, q) /\ tree[q].is = "none"
                                 THEN tree'[q] = Dir ELSE tree'[q] = tree[q]
  BY <1>1, <1>2, PutStands
<1>4. \A q \in Paths : tree'[q].is = "link" => q \in Linked
  BY <1>3, ThingsAreThings DEF Shape, Outside
<1>5. \A r \in selected : tree'[r].is = "dir"
  BY <1>2, <1>3
<1>6. fix'.todo = fix.todo
  BY <1>1
<1> QED
  BY <1>1, <1>3, <1>4, <1>5, <1>6, TreeChanges DEF Shape, Typed

LEMMA AgentShape ==
  ASSUME Shape, Agent
  PROVE  Shape'
<1>1. stage = "live"
  BY DEF Agent
<1>2. PICK p \in Paths :
        /\ Reachable(p)
        /\ \/ /\ tree[p].is # "dir"
              /\ Changed(Put(tree, p, File("agent")), {p})
           \/ /\ tree[p].is = "none"
              /\ Changed(Put(tree, p, [is |-> "dir", by |-> "agent"]), {p})
           \/ /\ tree[p].is # "none" /\ \A r \in selected : ~Below(r, p)
              /\ Changed([q \in Paths |-> IF Within(q, p) THEN Nothing ELSE tree[q]],
                         {q \in Paths : Within(q, p)})
  BY DEF Agent
<1>3. CASE tree[p].is # "dir" /\ Changed(Put(tree, p, File("agent")), {p})
  BY <1>1, <1>2, <1>3, PutShape, ThingsAreThings
<1>4. CASE tree[p].is = "none" /\ Changed(Put(tree, p, [is |-> "dir", by |-> "agent"]), {p})
  <2>1. [is |-> "dir", by |-> "agent"] \in Things
    BY DEF Things
  <2> QED
    BY <1>1, <1>2, <1>4, <2>1, PutShape
<1>5. CASE /\ \A r \in selected : ~Below(r, p)
           /\ Changed([q \in Paths |-> IF Within(q, p) THEN Nothing ELSE tree[q]],
                      {q \in Paths : Within(q, p)})
  <2>1. /\ tree' = [q \in Paths |-> IF Within(q, p) THEN Nothing ELSE tree[q]]
        /\ fix' = [fix EXCEPT !.clean = FALSE]
        /\ UNCHANGED <<making, base, slots, attached, seam>>
    BY <1>5 DEF Changed
  <2>2. /\ tree \in [Paths -> Things] /\ Stands(tree) /\ selected \subseteq Paths
        /\ \A r \in selected : tree[r].is = "dir" /\ r # p
    BY <1>1, <1>2 DEF Shape, Typed, Raised, Reachable
  <2>3. tree' \in [Paths -> Things]
    BY <2>1, <2>2, ThingsAreThings
  <2>4. \A q \in Paths : tree'[q] = IF q = p \/ Below(q, p) THEN Nothing ELSE tree[q]
    BY <2>1, WithinIsBelow
  <2>5. Stands(tree')
    <3>1. SUFFICES ASSUME NEW x \in Paths, NEW y \in Paths, tree'[x].is # "none", Below(x, y)
                   PROVE  tree'[y].is = "dir"
      BY DEF Stands
    <3>2. x # p /\ ~Below(x, p) /\ tree[x].is # "none"
      BY <2>4, <3>1, ThingsAreThings
    <3>3. y # p /\ ~Below(y, p)
      BY <3>1, <3>2, BelowOrders
    <3> QED
      BY <2>2, <2>4, <3>1, <3>2, <3>3 DEF Stands
  <2>6. \A q \in Paths : tree'[q].is = "link" => q \in Linked
    BY <2>4, ThingsAreThings DEF Shape, Outside
  <2>7. \A r \in selected : tree'[r].is = "dir"
    BY <1>5, <2>2, <2>4
  <2>8. fix'.todo = fix.todo
    BY <2>1
  <2> QED
    BY <1>1, <2>1, <2>3, <2>5, <2>6, <2>7, <2>8, TreeChanges DEF Shape, Typed
<1> QED
  BY <1>2, <1>3, <1>4, <1>5

LEMMA ScriptShape ==
  ASSUME Shape, Script
  PROVE  Shape'
<1>1. stage = "live"
  BY DEF Script, Shape, Typed
<1>2. PICK p \in Paths, is \in {"file", "dir"} :
        /\ Reachable(p) /\ tree[p].is \notin {"dir", "link"}
        /\ \E S : Changed(Put(tree, p, [is |-> is, by |-> "script"]), S)
  BY DEF Script
<1>3. [is |-> is, by |-> "script"] \in Things
  BY DEF Things
<1> QED
  BY <1>1, <1>2, <1>3, PutShape

\* Links come back where there is a directory for them and nothing else.
LEMMA RestoredStands ==
  ASSUME Shape
  PROVE  /\ Restored \in [Paths -> Things] /\ Stands(Restored)
         /\ \A p \in Paths :
              Restored[p] = tree[p] \/ (p \in seam.held /\ tree[p].is = "none" /\ Restored[p] = Link)
<1>1. tree \in [Paths -> Things] /\ Stands(tree)
  BY DEF Shape, Typed
<1>2. Restored \in [Paths -> Things]
  BY <1>1, ThingsAreThings DEF Restored
<1>3. \A p \in Paths :
        \/ Restored[p] = tree[p]
        \/ /\ p \in seam.held /\ tree[p].is = "none" /\ Restored[p] = Link
           /\ Len(p) = 1 \/ tree[Front(p)].is = "dir"
  BY DEF Restored
<1>4. ASSUME NEW p \in Paths, NEW q \in Paths, Restored[p].is # "none", Below(p, q)
      PROVE  tree[q].is = "dir"
  <2>1. CASE tree[p].is # "none"
    BY <1>1, <1>4, <2>1 DEF Stands
  <2>2. CASE tree[p].is = "none"
    <3>1. Len(p) = 1 \/ tree[Front(p)].is = "dir"
      BY <1>3, <1>4, <2>2
    <3>2. Len(p) > 1 /\ (q = Front(p) \/ Below(Front(p), q)) /\ Front(p) \in Paths
      BY <1>4, AboveIsFront
    <3>3. Len(p) # 1
      BY <3>2, OneIsNotMore
    <3> QED
      BY <1>1, <3>1, <3>2, <3>3 DEF Stands
  <2> QED
    BY <2>1, <2>2
<1>5. \A q \in Paths : tree[q].is = "dir" => Restored[q].is = "dir"
  BY <1>3
<1> QED
  BY <1>2, <1>3, <1>4, <1>5 DEF Stands
LEMMA RestoredShape ==
  ASSUME Shape, stage = "live", UNCHANGED <<making, base, slots, attached, fix>>,
         tree' = Restored, seam' = NoSeam
  PROVE  Shape'
<1>1. /\ tree' \in [Paths -> Things] /\ Stands(tree')
      /\ \A p \in Paths :
           tree'[p] = tree[p] \/ (p \in seam.held /\ tree[p].is = "none" /\ tree'[p] = Link)
  BY RestoredStands
<1>2. \A p \in Paths : tree'[p].is = "link" => p \in Linked
  BY <1>1 DEF Shape, Typed, Outside
<1>3. \A r \in selected : tree'[r].is = "dir"
  BY <1>1 DEF Shape, Typed, Raised
<1> QED
  BY <1>1, <1>2, <1>3, TreeChanges DEF Shape, Typed, NoSeam

\* A snapshot is of paths.
LEMMA SnapshotPaths ==
  ASSUME Shape
  PROVE  Snapshot(tree, base, selected, attached) \subseteq Paths
<1> DEFINE S == {IgnoredIn(tree, base, r) : r \in attached}
           W == {p \in Paths : /\ tree[p].is \in {"dir", "file"}
                               /\ \A r \in selected : ~Within(p, r)
                               /\ ~\E q \in Regenerable : Below(p, q)}
<1>1. Snapshot(tree, base, selected, attached) = (UNION S) \cup W
  BY DEF Snapshot
<1>2. ASSUME NEW r \in attached, NEW c \in IgnoredIn(tree, base, r) PROVE c \in Paths
  <2>1. r \in Paths
    BY DEF Shape, Typed
  <2>2. PICK x \in Paths : RuledOut(x, r) /\ c = Cut(x, r)
    BY <1>2 DEF IgnoredIn
  <2> QED
    BY <2>1, <2>2, CutIsThere, NamesAssumption
<1>3. \A T \in S : T \subseteq Paths
  BY <1>2
<1>4. W \subseteq Paths
  OBVIOUS
<1> HIDE DEF S, W
<1> QED
  BY <1>1, <1>3, <1>4

\* A step that leaves tree and making alone.
LEMMA LifeShape ==
  ASSUME Shape, [Next]_vars, ~Creation
  PROVE  Shape'
<1>1. CASE UNCHANGED vars
  <2>1. UNCHANGED <<stage, repos, selected, todo, tree, base, slots, attached, seam, fix, script>>
    BY <1>1 DEF vars, making, life
  <2>2. Linked' = Linked
    BY <2>1 DEF Linked, Slots
  <2> QED
    BY <2>1, <2>2, ShapeKept DEF Shape, Typed
<1>2. CASE Agent
  BY <1>2, AgentShape
<1>3. CASE Script
  BY <1>3, ScriptShape
<1>4. CASE ScriptEnds \/ Move \/ Crash
  <2>1. /\ UNCHANGED <<stage, repos, selected, todo, tree, base, slots>>
        /\ attached' \in {attached, {}} /\ seam' \in {seam, NoSeam}
        /\ fix' \in {fix, NoFix, [fix EXCEPT !.clean = FALSE]}
        /\ stage # "live" => UNCHANGED <<attached, seam, fix, script>>
    <3>1. CASE ScriptEnds
      BY <3>1 DEF ScriptEnds, making, Shape, Typed
    <3>2. CASE Move
      BY <3>2 DEF Move, making
    <3>3. CASE Crash
      <4>1. /\ UNCHANGED <<stage, repos, selected, todo, tree, base, slots, attached>>
            /\ seam.pc # "idle" \/ fix.pc # "idle"
            /\ \/ seam' = NoSeam /\ fix' = [fix EXCEPT !.clean = FALSE]
               \/ seam' = seam /\ fix' = NoFix
        BY <3>3 DEF Crash, making
      <4>2. stage = "live"
        BY <4>1 DEF Shape, Typed, NoSeam, NoFix
      <4> QED
        BY <4>1, <4>2
    <3> QED
      BY <1>4, <3>1, <3>2, <3>3
  <2>2. Linked' = Linked
    BY <2>1 DEF Linked, Slots
  <2>3. /\ seam'.held \cup seam'.todo \cup fix'.todo \subseteq Linked
        /\ attached' \cup seam'.asked \subseteq selected
    <3>1. seam'.held \subseteq seam.held /\ seam'.todo \subseteq seam.todo /\ seam'.asked \subseteq seam.asked
      BY <2>1 DEF NoSeam
    <3>2. fix'.todo \subseteq fix.todo
      <4>1. CASE fix' = NoFix
        BY <4>1 DEF NoFix
      <4>2. CASE fix' = [fix EXCEPT !.clean = FALSE]
        BY <4>2
      <4> QED
        BY <2>1, <4>1, <4>2
    <3>3. attached' \subseteq attached
      BY <2>1
    <3> QED
      BY <3>1, <3>2, <3>3 DEF Shape, Typed
  <2> QED
    BY <2>1, <2>2, <2>3, ShapeKept DEF Shape, Typed
<1>5. CASE SeamBegin \/ SeamRun \/ FixRules \/ FixWorktrees \/ FixEnd \/ FixLoad
  <2>1. UNCHANGED <<stage, repos, selected, todo, tree, base, slots>> /\ stage = "live"
    <3>1. CASE SeamBegin \/ SeamRun
      BY <1>5, <3>1 DEF SeamBegin, SeamRun, Seam, making, Shape, Typed, NoSeam
    <3>2. CASE FixRules \/ FixWorktrees \/ FixEnd \/ FixLoad
      BY <1>5, <3>2 DEF FixRules, FixWorktrees, FixEnd, FixLoad, Fix, making, Shape, Typed, NoFix
    <3> QED
      BY <1>5, <3>1, <3>2
  <2>2. Linked' = Linked
    BY <2>1 DEF Linked, Slots
  <2>3. /\ seam'.held \cup seam'.todo \cup fix'.todo \subseteq Linked
        /\ attached' \cup seam'.asked \subseteq selected
    <3>1. CASE SeamBegin
      BY <3>1 DEF SeamBegin, Seam, Shape, Typed, NoSeam, Linked
    <3>2. CASE SeamRun
      BY <3>2 DEF SeamRun, Seam, Shape, Typed
    <3>3. CASE FixLoad
      BY <3>3 DEF FixLoad, Fix, Shape, Typed, Linked
    <3>4. CASE FixRules \/ FixWorktrees \/ FixEnd
      <4>1. fix'.todo \subseteq fix.todo /\ seam' = seam
        <5>1. CASE FixRules
          BY <5>1 DEF FixRules, Fix
        <5>2. CASE FixWorktrees
          BY <5>2 DEF FixWorktrees, Fix
        <5>3. CASE FixEnd
          BY <5>3 DEF FixEnd, Fix, NoFix
        <5> QED
          BY <3>4, <5>1, <5>2, <5>3
      <4>2. attached' = attached \/ attached' \subseteq selected
        BY <3>4 DEF FixRules, FixWorktrees, FixEnd
      <4> QED
        BY <4>1, <4>2 DEF Shape, Typed
    <3> QED
      BY <1>5, <3>1, <3>2, <3>3, <3>4
  <2> QED
    BY <2>1, <2>2, <2>3, ShapeKept DEF Shape, Typed
<1>6. CASE SeamRecord
  <2> DEFINE new == NewSince(seam.before, Snapshot(tree, base, selected, attached))
  <2>1. /\ UNCHANGED <<stage, repos, selected, todo, tree, base, attached>> /\ stage = "live"
        /\ slots' = slots \cup {[path |-> p, type |-> "produced"] : p \in new}
        /\ seam' = [seam EXCEPT !.pc = "restore"] /\ UNCHANGED fix
    BY <1>6 DEF SeamRecord, Seam, making, Shape, Typed, NoSeam
  <2>2. new \subseteq Paths
    BY SnapshotPaths DEF NewSince
  <2> HIDE DEF new
  <2>3. Linked' = Linked
    BY <2>1, LinkedStays
  <2>4. \A s \in slots' :
          s.path \in Paths /\ s.type \in {"symlink", "copy", "carry", "produced"}
    BY <2>1, <2>2 DEF Shape, Typed
  <2>5. /\ seam'.held \cup seam'.todo \cup fix'.todo \subseteq Linked
        /\ attached' \cup seam'.asked \subseteq selected
    BY <2>1 DEF Shape, Typed
  <2> QED
    BY <2>1, <2>3, <2>4, <2>5, ShapeKept
<1>7. CASE SeamRestore
  <2>1. /\ UNCHANGED <<making, base, slots, attached, fix>> /\ stage = "live"
        /\ tree' = Restored /\ seam' = NoSeam
    BY <1>7 DEF SeamRestore, Seam, Shape, Typed, NoSeam
  <2> QED
    BY <2>1, RestoredShape
<1>8. ASSUME NEW p \in Paths, Withdraw(p) PROVE Shape'
  <2>1. /\ UNCHANGED <<making, base, slots, attached, fix>> /\ stage = "live"
        /\ p \in seam.todo
    BY <1>8 DEF Withdraw, Seam, Shape, Typed, NoSeam
  <2>2. CASE tree[p].is # "link" /\ ~Clear(p)
    <3>1. tree' = Restored /\ seam' = NoSeam
      BY <1>8, <2>2 DEF Withdraw, Seam, Clear
    <3> QED
      BY <2>1, <3>1, RestoredShape
  <2>3. CASE Clear(p)
    <3>1. UNCHANGED tree /\ seam' = [seam EXCEPT !.todo = @ \ {p}]
      BY <1>8, <2>3 DEF Withdraw, Seam, Clear
    <3> QED
      BY <2>1, <3>1, TreeChanges DEF Shape, Typed, Stands, Outside, Raised
  <2>4. CASE tree[p].is = "link"
    <3>1. /\ tree' = [tree EXCEPT ![p] = Nothing]
          /\ seam' = [seam EXCEPT !.todo = @ \ {p}, !.held = @ \cup {p}]
      BY <1>8, <2>4, ThingsAreThings DEF Withdraw, Seam, Clear
    <3>2. /\ tree \in [Paths -> Things] /\ Stands(tree) /\ selected \subseteq Paths
          /\ \A r \in selected : tree[r].is = "dir"
      BY <2>1 DEF Shape, Typed, Raised
    <3>3. tree' \in [Paths -> Things] /\ \A q \in Paths : tree'[q] = IF q = p THEN Nothing ELSE tree[q]
      BY <3>1, <3>2, ThingsAreThings
    <3>4. Stands(tree')
      <4>1. SUFFICES ASSUME NEW x \in Paths, NEW y \in Paths, tree'[x].is # "none", Below(x, y)
                     PROVE  tree'[y].is = "dir"
        BY DEF Stands
      <4>2. tree[x].is # "none" /\ tree[y].is = "dir"
        BY <3>2, <3>3, <4>1, ThingsAreThings DEF Stands
      <4>3. y # p
        BY <2>4, <4>2
      <4> QED
        BY <3>3, <4>2, <4>3
    <3>5. \A q \in Paths : tree'[q].is = "link" => q \in Linked
      BY <3>3, ThingsAreThings DEF Shape, Outside
    <3>6. \A r \in selected : tree'[r].is = "dir"
      BY <2>4, <3>2, <3>3
    <3>7. /\ seam'.asked = seam.asked
          /\ seam'.held \subseteq seam.held \cup {p} /\ seam'.todo \subseteq seam.todo
      BY <3>1 DEF Shape
    <3> QED
      BY <2>1, <3>3, <3>4, <3>5, <3>6, <3>7, TreeChanges DEF Shape, Typed
  <2> QED
    BY <2>2, <2>3, <2>4
<1>9. ASSUME NEW p \in Paths, FixLink(p) PROVE Shape'
  <2>1. /\ UNCHANGED <<making, base, slots, attached, seam>> /\ stage = "live"
        /\ p \in fix.todo /\ fix' = [fix EXCEPT !.todo = @ \ {p}]
    BY <1>9 DEF FixLink, Fix, Shape, Typed, NoFix
  <2>2. p \in Linked /\ fix'.todo \subseteq Linked
    BY <2>1 DEF Shape, Typed
  <2>3. CASE Mendable(p) /\ \A q \in Paths : Below(p, q) => tree[q].is \in {"none", "dir"}
    <3>1. tree' = Put(tree, p, Link)
      BY <1>9, <2>3 DEF FixLink
    <3>2. /\ tree \in [Paths -> Things] /\ Stands(tree) /\ selected \subseteq Paths
          /\ \A r \in selected : tree[r].is = "dir"
          /\ tree[p].is \in {"none", "link"}
      BY <2>1, <2>3 DEF Shape, Typed, Raised, Mendable
    <3>3. /\ tree' \in [Paths -> Things] /\ Stands(tree') /\ tree'[p] = Link
          /\ \A q \in Paths \ {p} : IF Below(p, q) /\ tree[q].is = "none"
                                     THEN tree'[q] = Dir ELSE tree'[q] = tree[q]
      BY <2>3, <3>1, <3>2, PutStands, ThingsAreThings
    <3>4. \A q \in Paths : tree'[q].is = "link" => q \in Linked
      BY <2>2, <3>3, ThingsAreThings DEF Shape, Outside
    <3>5. \A r \in selected : tree'[r].is = "dir"
      BY <3>2, <3>3
    <3> QED
      BY <2>1, <2>2, <3>3, <3>4, <3>5, TreeChanges DEF Shape, Typed
  <2>4. CASE UNCHANGED tree
    BY <2>1, <2>2, <2>4, TreeChanges DEF Shape, Typed, Stands, Outside, Raised
  <2> QED
    BY <1>9, <2>3, <2>4 DEF FixLink
<1> QED
  BY <1>1, <1>2, <1>3, <1>4, <1>5, <1>6, <1>7, <1>8, <1>9 DEF Next
-----------------------------------------------------------------------------
(* Types, and the record of where things are.                              *)

\* What is left of a path when a prefix is taken from it: the one name after it.
LEMMA OneName ==
  ASSUME NEW S, NEW s \in Seq(S), NEW x \in S
  PROVE  /\ IsPrefix(s, s \o <<x>>)
         /\ SubSeq(s \o <<x>>, Len(s) + 1, Len(s \o <<x>>)) = <<x>>
<1> DEFINE t == s \o <<x>>
           e == SubSeq(t, Len(t), Len(t))
<1>1. IsPrefix(s, t)
  BY DEF IsPrefix
<1>2. t \in Seq(S) /\ Len(t) = Len(s) + 1 /\ t[Len(t)] = x
  OBVIOUS
<1>3. e \in Seq(S) /\ Len(e) = 1 /\ e[1] = x
  <2> HIDE DEF t
  <2>1. \A i \in Len(t)..Len(t) : t[i] \in S
    BY <1>2
  <2> QED
    BY <1>2, <2>1, SubSeqProperties
<1>4. e = <<x>>
  <2> HIDE DEF e
  <2> QED
    BY <1>3
<1> QED
  BY <1>1, <1>2, <1>4

\* One prefix for the other: what was beside or below the old place is beside
\* or below the new one.
LEMMA SwapFollows ==
  ASSUME NEW old \in Places, NEW new \in Places
  PROVE  /\ Swap(old.ws, old, new) = new.ws
         /\ Swap(TreesOf(old), old, new) = TreesOf(new)
<1>1. /\ old.ws \in Seq(STRING) /\ old.root \in Seq(STRING) /\ new.ws \in Seq(STRING)
      /\ new.root \in Seq(STRING) /\ ~IsPrefix(old.root, old.ws)
  BY PlacesAssumption
<1>2. IsPrefix(old.ws, old.ws)
  BY <1>1, PrefixElements
<1>3. Swap(old.ws, old, new) = new.ws
  <2>1. SubSeq(old.ws, Len(old.ws) + 1, Len(old.ws)) = <<>>
    BY <1>1
  <2>2. new.ws \o <<>> = new.ws
    BY <1>1
  <2> QED
    BY <1>1, <1>2, <2>1, <2>2 DEF Swap
<1>4. Swap(TreesOf(old), old, new) = TreesOf(new)
  <2> DEFINE S == STRING \cup {"trees"}
  <2>1. old.root \in Seq(S) /\ "trees" \in S
    BY <1>1
  <2> HIDE DEF S
  <2>2. IsPrefix(old.root, TreesOf(old))
    BY <2>1, OneName DEF TreesOf
  <2>3. SubSeq(TreesOf(old), Len(old.root) + 1, Len(TreesOf(old))) = <<"trees">>
    BY <2>1, OneName DEF TreesOf
  <2> QED
    BY <2>2, <2>3 DEF Swap, TreesOf
<1> QED
  BY <1>3, <1>4

SeamType == [pc : {"idle", "withdraw", "script", "restore"}, held : SUBSET Paths,
             todo : SUBSET Paths, before : SUBSET Paths, asked : SUBSET Paths]
FixType == [pc : {"idle", "rules", "worktrees", "links"}, todo : SUBSET Paths,
            wsAt : Seq(STRING), clean : BOOLEAN]

\* A record is always of one place, and a repair has what is true of this one.
Located ==
  /\ home \in Places /\ rules \in Places /\ rec.place \in Places
  /\ rec = RecordAt(rec.place)
  /\ fix.pc # "idle" => rec.place = home /\ fix.wsAt = home.ws

Ranges ==
  /\ versioned \in BOOLEAN
  /\ stage \in {"start", "walked", "planning", "placing", "built", "live", "refused"}
  /\ todo \in [backFill : SUBSET Paths, linkDirs : SUBSET Paths,
               copyFiles : SUBSET Paths, strays : SUBSET Paths]
  /\ strays \cup late \cup touched \cup excused \cup blind \cup folded \subseteq Paths
  /\ seam \in SeamType /\ fix \in FixType
  /\ whole \in BOOLEAN /\ events \in 0..MaxEvents

LEMMA LocatedInit == Init => Located /\ Ranges
<1> SUFFICES ASSUME Init PROVE Located /\ Ranges
  OBVIOUS
<1>1. Located
  BY BirthplaceAssumption DEF Init, Located, NoFix, RecordAt
<1>2. seam \in SeamType /\ fix \in FixType
  BY DEF Init, NoSeam, NoFix, SeamType, FixType
<1>3. versioned \in BOOLEAN /\ todo = NoPlan
  BY DEF Init
<1>4. events \in 0..MaxEvents
  BY EventsBound DEF Init
<1> QED
  BY <1>1, <1>2, <1>3, <1>4 DEF Init, Ranges, NoPlan

LEMMA LocatedStep ==
  ASSUME Located, [Next]_vars
  PROVE  Located'
<1>1. CASE UNCHANGED <<home, rules, rec, fix>>
  BY <1>1 DEF Located
<1>2. CASE FixLoad
  <2>1. /\ UNCHANGED <<home, rules>> /\ rec.place \in Places /\ home \in Places
        /\ rec.wsAt = rec.place.ws /\ rec.treesAt = TreesOf(rec.place)
    BY <1>2 DEF FixLoad, Fix, Located, RecordAt
  <2>2. /\ Swap(rec.wsAt, rec.place, home) = home.ws
        /\ Swap(rec.treesAt, rec.place, home) = TreesOf(home)
    BY <2>1, SwapFollows
  <2>3. rec' = RecordAt(home) /\ fix'.wsAt = home.ws
    BY <1>2, <2>2 DEF FixLoad, Fix, RecordAt
  <2> QED
    BY <2>1, <2>3 DEF Located, RecordAt
<1>3. CASE FixRules
  <2>1. /\ UNCHANGED <<home, rec>> /\ rules' \in {rules, home} /\ fix.pc = "rules"
        /\ fix'.wsAt = fix.wsAt
    BY <1>3 DEF FixRules, Fix
  <2> QED
    BY <2>1 DEF Located
<1>4. CASE FixWorktrees
  <2>1. /\ UNCHANGED <<home, rec, rules>> /\ fix.pc = "worktrees" /\ fix'.wsAt = fix.wsAt
    BY <1>4 DEF FixWorktrees, Fix
  <2> QED
    BY <2>1 DEF Located
<1>5. ASSUME NEW p \in Paths, FixLink(p) PROVE Located'
  <2>1. /\ UNCHANGED <<home, rec, rules>> /\ fix.pc = "links" /\ fix'.wsAt = fix.wsAt
    BY <1>5 DEF FixLink, Fix
  <2> QED
    BY <2>1 DEF Located
<1>6. CASE FixEnd
  BY <1>6 DEF FixEnd, Fix, Located, NoFix
<1>7. CASE Move
  BY <1>7 DEF Move, Located
<1>8. CASE \/ UNCHANGED <<home, rules, rec>> /\ fix' = [fix EXCEPT !.clean = FALSE]
           \/ UNCHANGED <<home, rules, rec>> /\ fix' = NoFix
  <2>1. \/ fix'.pc = fix.pc /\ fix'.wsAt = fix.wsAt
        \/ fix'.pc = "idle"
    <3>1. CASE fix' = [fix EXCEPT !.clean = FALSE]
      BY <3>1
    <3>2. CASE fix' = NoFix
      BY <3>2 DEF NoFix
    <3> QED
      BY <1>8, <3>1, <3>2
  <2> QED
    BY <1>8, <2>1 DEF Located
<1>9. CASE Creation
  <2>1. UNCHANGED <<home, rules, rec, fix>>
    <3>1. CASE Walk \/ Save \/ Develop
      BY <3>1 DEF Walk, Save, Develop, life
    <3>2. CASE Worktrees \/ Refuse
      BY <3>2 DEF Worktrees, Refuse
    <3>3. CASE Plan \/ Carry
      BY <3>2, <3>3 DEF Plan, Carry, life
    <3>4. ASSUME NEW p \in Paths, LinkRepository(p) \/ LinkDir(p) \/ Copy(p) \/ CopyStray(p)
          PROVE  UNCHANGED <<home, rules, rec, fix>>
      BY <3>2, <3>4 DEF LinkRepository, LinkDir, Copy, CopyStray, Place, life
    <3> QED
      BY <1>9, <3>1, <3>2, <3>3, <3>4 DEF Creation
  <2> QED
    BY <1>1, <2>1
<1>10. CASE Agent \/ Script \/ Crash \/ SeamBegin
  <2>1. \/ UNCHANGED <<home, rules, rec>> /\ fix' = [fix EXCEPT !.clean = FALSE]
        \/ UNCHANGED <<home, rules, rec>> /\ fix' = NoFix
    BY <1>10 DEF Agent, Script, Changed, Crash, SeamBegin, Seam
  <2> QED
    BY <1>8, <2>1
<1>11. CASE ScriptEnds \/ SeamRun \/ SeamRecord \/ SeamRestore
  BY <1>1, <1>11 DEF ScriptEnds, SeamRun, SeamRecord, SeamRestore, Seam
<1>12. ASSUME NEW p \in Paths, Withdraw(p) PROVE Located'
  BY <1>1, <1>12 DEF Withdraw, Seam
<1>13. CASE UNCHANGED vars
  BY <1>1, <1>13 DEF vars, life
<1> QED
  BY <1>2, <1>3, <1>4, <1>5, <1>6, <1>7, <1>9, <1>10, <1>11, <1>12, <1>13 DEF Next
\* Of the making's variables.
LEMMA MakingRanges ==
  ASSUME Shape, Ranges, Creation
  PROVE  Ranges'
<1>1. events' = events \/ (events < MaxEvents /\ events' = events + 1)
  <2>1. CASE Walk \/ Save \/ Develop
    BY <2>1 DEF Walk, Save, Develop, Event
  <2>2. CASE Worktrees \/ Refuse
    BY <2>2 DEF Worktrees, Refuse
  <2>3. CASE Plan \/ Carry
    BY <2>2, <2>3 DEF Plan, Carry
  <2>4. ASSUME NEW p \in Paths, LinkRepository(p) \/ LinkDir(p) \/ Copy(p) \/ CopyStray(p)
        PROVE  events' = events
    BY <2>2, <2>4 DEF LinkRepository, LinkDir, Copy, CopyStray, Place, Refuse
  <2> QED
    BY <2>1, <2>2, <2>3, <2>4 DEF Creation
<1>2. events' \in 0..MaxEvents
  BY <1>1, EventsBound DEF Ranges
<1>3. CASE Refuse
  <2>1. UNCHANGED <<versioned, late, touched, excused, blind, folded, seam, fix, whole>>
    BY <1>3 DEF Refuse
  <2> QED
    BY <1>2, <1>3, <2>1 DEF Refuse, Ranges, NoPlan
<1>4. CASE Walk \/ Save
  <2>1. /\ UNCHANGED <<versioned, todo, strays, late, touched, excused, blind, folded,
                       seam, fix, whole>>
        /\ stage' \in {"walked", "live"}
    BY <1>4 DEF Walk, Save, life
  <2> QED
    BY <1>2, <2>1 DEF Ranges
<1>5. CASE Develop
  <2>1. /\ UNCHANGED <<versioned, stage, todo, strays, touched, excused, blind, folded,
                       seam, fix, whole>>
        /\ \E v : late' = late \cup {q \in Linked : Shares(v, q) /\ ~Shares(ws, q)}
    BY <1>5 DEF Develop, life, Linked
  <2>2. Linked \subseteq Paths
    BY DEF Shape, Typed, Linked, Slots
  <2> QED
    BY <1>2, <2>1, <2>2 DEF Ranges
<1>6. CASE Worktrees
  <2>1. /\ UNCHANGED <<versioned, todo, strays, late, touched, excused, blind, folded,
                       seam, fix, whole>>
        /\ stage' = "planning"
    BY <1>6 DEF Worktrees
  <2> QED
    BY <1>2, <2>1 DEF Ranges
<1>7. CASE Plan /\ ~Refuse
  <2>1. /\ UNCHANGED <<versioned, strays, late, touched, excused, blind, folded,
                       seam, fix, whole>>
        /\ stage' = "placing" /\ todo' = PlanFor(ws, repos, selected)
    BY <1>7 DEF Plan, life
  <2>2. repos \subseteq Paths /\ Leaves(ws, repos, selected) \subseteq Paths
        /\ Ancestors(repos, selected) \subseteq Paths
    BY DEF Shape, Typed, Leaves, Ancestors
  <2>3. todo' \in [backFill : SUBSET Paths, linkDirs : SUBSET Paths,
                   copyFiles : SUBSET Paths, strays : SUBSET Paths]
    BY <2>1, <2>2 DEF PlanFor
  <2> QED
    BY <1>2, <2>1, <2>3 DEF Ranges
<1>8. CASE Carry /\ ~Refuse
  <2>1. /\ UNCHANGED <<versioned, todo, strays, late, touched, excused, blind, folded,
                       seam, fix, whole>>
        /\ stage' = "built"
    BY <1>8 DEF Carry, life
  <2> QED
    BY <1>2, <2>1 DEF Ranges
<1>9. ASSUME NEW p \in Paths, LinkRepository(p) \/ LinkDir(p) \/ Copy(p) \/ CopyStray(p),
             ~Refuse
      PROVE  Ranges'
  <2>1. /\ UNCHANGED <<versioned, stage, late, touched, excused, blind, folded,
                       seam, fix, whole>>
        /\ strays' \in {strays, strays \cup {p}}
        /\ todo' \in {[todo EXCEPT !.backFill = @ \ {p}], [todo EXCEPT !.linkDirs = @ \ {p}],
                      [todo EXCEPT !.copyFiles = @ \ {p}], [todo EXCEPT !.strays = @ \ {p}]}
    BY <1>9 DEF LinkRepository, LinkDir, Copy, CopyStray, Place, life
  <2>2. todo' \in [backFill : SUBSET Paths, linkDirs : SUBSET Paths,
                   copyFiles : SUBSET Paths, strays : SUBSET Paths]
    BY <2>1 DEF Ranges
  <2>3. strays' \subseteq Paths
    BY <2>1 DEF Ranges
  <2> QED
    BY <1>2, <2>1, <2>2, <2>3 DEF Ranges
<1> QED
  BY <1>3, <1>4, <1>5, <1>6, <1>7, <1>8, <1>9 DEF Creation

\* Of the life's.
LEMMA LifeRanges ==
  ASSUME Shape, Located, Ranges, [Next]_vars, ~Creation
  PROVE  Ranges'
<1> DEFINE Kept == UNCHANGED <<versioned, stage, todo, strays, late>>
           Held == touched' \cup excused' \cup blind' \cup folded' \subseteq Paths
           Counted == events' = events \/ (events < MaxEvents /\ events' = events + 1)
<1>1. ASSUME Kept, Held, Counted, seam' \in SeamType, fix' \in FixType, whole' \in BOOLEAN
      PROVE  Ranges'
  <2>1. events' \in 0..MaxEvents
    BY <1>1, EventsBound DEF Ranges
  <2> QED
    BY <1>1, <2>1 DEF Ranges
<1>2. ASSUME UNCHANGED <<making, touched, excused, blind, folded>>
      PROVE  Kept /\ Held
  BY <1>2 DEF making, Ranges
<1>3. /\ seam \in SeamType /\ fix \in FixType /\ whole \in BOOLEAN
      /\ touched \cup excused \cup blind \cup folded \subseteq Paths
      /\ Linked \subseteq Paths /\ selected \subseteq Paths /\ attached \subseteq Paths
      /\ Snapshot(tree, base, selected, attached) \subseteq Paths
  BY SnapshotPaths DEF Ranges, Shape, Typed, Linked, Slots
<1>4. [fix EXCEPT !.clean = FALSE] \in FixType /\ NoSeam \in SeamType /\ NoFix \in FixType
  <2>1. [fix EXCEPT !.clean = FALSE] \in FixType
    BY <1>3 DEF FixType
  <2>2. NoSeam \in SeamType
    BY DEF NoSeam, SeamType
  <2>3. NoFix \in FixType
    BY DEF NoFix, FixType
  <2> QED
    BY <2>1, <2>2, <2>3
<1>5. CASE UNCHANGED vars
  <2>1. /\ UNCHANGED <<making, touched, excused, blind, folded>> /\ Counted
        /\ UNCHANGED <<seam, fix, whole>>
    BY <1>5 DEF vars, life
  <2> QED
    BY <1>1, <1>2, <1>3, <2>1
<1>6. CASE Agent \/ Script
  <2>1. \E S, t : Changed(t, S) /\ S \subseteq Paths
    <3>1. CASE Agent
      <4>1. PICK p \in Paths :
              \/ Changed(Put(tree, p, File("agent")), {p})
              \/ Changed(Put(tree, p, [is |-> "dir", by |-> "agent"]), {p})
              \/ Changed([q \in Paths |-> IF Within(q, p) THEN Nothing ELSE tree[q]],
                         {q \in Paths : Within(q, p)})
        BY <3>1 DEF Agent
      <4>2. {p} \subseteq Paths /\ {q \in Paths : Within(q, p)} \subseteq Paths
        OBVIOUS
      <4> QED
        BY <4>1, <4>2
    <3>2. CASE Script
      <4>1. PICK p \in Paths : \E t : Changed(t, {}) \/ Changed(t, {p})
        BY <3>2 DEF Script
      <4>2. {} \subseteq Paths /\ {p} \subseteq Paths
        OBVIOUS
      <4> QED
        BY <4>1, <4>2
    <3> QED
      BY <1>6, <3>1, <3>2
  <2>2. PICK S : /\ S \subseteq Paths /\ touched' = touched \cup S
                 /\ fix' = [fix EXCEPT !.clean = FALSE]
                 /\ UNCHANGED <<making, seam, blind, folded, whole>> /\ Counted
    BY <2>1 DEF Changed, Event
  <2>3. \E p \in Paths : excused' \in {excused, excused \cup {p}}
    BY <1>6 DEF Agent, Script
  <2>4. Kept /\ Held
    BY <1>3, <2>2, <2>3 DEF making
  <2> QED
    BY <1>1, <1>3, <1>4, <2>2, <2>4
<1>7. CASE ScriptEnds \/ Move
  <2>1. /\ UNCHANGED <<making, touched, excused, blind, folded>> /\ Counted
        /\ UNCHANGED <<seam, fix>> /\ whole' \in {whole, FALSE}
    BY <1>7 DEF ScriptEnds, Move, Event
  <2> QED
    BY <1>1, <1>2, <1>3, <2>1
<1>8. CASE Crash
  <2>1. /\ UNCHANGED <<making, excused, blind, folded>> /\ Counted
        /\ seam' \in {seam, NoSeam}
        /\ fix' = NoFix \/ fix' = [fix EXCEPT !.clean = FALSE]
        /\ whole' \in {whole, FALSE}
    BY <1>8 DEF Crash, Event
  <2>2. touched' \subseteq touched \cup Snapshot(tree, base, selected, attached)
    BY <1>8 DEF Crash
  <2>3. Kept /\ Held
    BY <1>3, <2>1, <2>2 DEF making
  <2> QED
    BY <1>1, <1>3, <1>4, <2>1, <2>3
<1>9. CASE SeamBegin \/ SeamRun \/ SeamRestore
  <2>1. /\ UNCHANGED <<making, touched, excused, blind, folded>> /\ Counted
        /\ UNCHANGED whole /\ fix' \in {fix, [fix EXCEPT !.clean = FALSE]}
    BY <1>9 DEF SeamBegin, SeamRun, SeamRestore, Seam
  <2>2. seam' \in SeamType
    <3>1. CASE SeamBegin
      <4>1. seam' = [NoSeam EXCEPT !.pc = "withdraw", !.todo = Linked]
        BY <3>1 DEF SeamBegin, Seam, Linked
      <4> QED
        BY <1>3, <1>4, <4>1 DEF SeamType
    <3>2. CASE SeamRun
      <4>1. seam' = [seam EXCEPT !.pc = "script", !.asked = attached,
                                 !.before = Snapshot(tree, base, selected, attached)]
        BY <3>2 DEF SeamRun, Seam
      <4> QED
        BY <1>3, <4>1 DEF SeamType
    <3>3. CASE SeamRestore
      BY <1>4, <3>3 DEF SeamRestore, Seam
    <3> QED
      BY <1>9, <3>1, <3>2, <3>3
  <2> QED
    BY <1>1, <1>2, <1>3, <1>4, <2>1, <2>2
<1>10. CASE SeamRecord
  <2> DEFINE new == NewSince(seam.before, Snapshot(tree, base, selected, attached))
  <2>1. new \subseteq Paths
    BY <1>3 DEF NewSince
  <2>2. /\ UNCHANGED <<making, touched, excused, fix, whole>> /\ Counted
        /\ blind' \subseteq blind \cup new /\ folded' \subseteq folded \cup new
        /\ seam' = [seam EXCEPT !.pc = "restore"]
    <3>1. /\ blind' = blind \cup {p \in new : \E r \in attached \ seam.asked : Below(p, r)}
          /\ folded' = folded \cup {p \in new : tree[p].is = "dir"}
      BY <1>10 DEF SeamRecord
    <3> QED
      BY <1>10, <3>1 DEF SeamRecord, Seam
  <2> HIDE DEF new
  <2>3. seam' \in SeamType
    BY <1>3, <2>2 DEF SeamType
  <2>4. Kept /\ Held
    BY <1>3, <2>1, <2>2 DEF making
  <2> QED
    BY <1>1, <1>3, <2>2, <2>3, <2>4
<1>11. ASSUME NEW p \in Paths, Withdraw(p) PROVE Ranges'
  <2>1. /\ UNCHANGED <<making, touched, excused, blind, folded>> /\ Counted
        /\ UNCHANGED <<whole, fix>>
        /\ seam' \in {NoSeam, [seam EXCEPT !.todo = @ \ {p}],
                      [seam EXCEPT !.todo = @ \ {p}, !.held = @ \cup {p}]}
    BY <1>11 DEF Withdraw, Seam
  <2>2. seam' \in SeamType
    <3>1. /\ [seam EXCEPT !.todo = @ \ {p}] \in SeamType
          /\ [seam EXCEPT !.todo = @ \ {p}, !.held = @ \cup {p}] \in SeamType
      BY <1>3 DEF SeamType
    <3> QED
      BY <1>4, <2>1, <3>1
  <2> QED
    BY <1>1, <1>2, <1>3, <2>1, <2>2
<1>12. CASE FixLoad
  <2>1. /\ UNCHANGED <<making, touched, excused, blind, folded>> /\ Counted
        /\ UNCHANGED <<whole, seam>>
        /\ fix'.wsAt = home.ws /\ fix' = [pc |-> fix'.pc, todo |-> Linked, wsAt |-> fix'.wsAt, clean |-> TRUE]
        /\ fix'.pc \in {"rules", "worktrees"}
    <3>1. home \in Places /\ rec.place \in Places /\ rec.wsAt = rec.place.ws
      BY DEF Located, RecordAt
    <3>2. Swap(rec.wsAt, rec.place, home) = home.ws
      BY <3>1, SwapFollows
    <3> QED
      BY <1>12, <3>2 DEF FixLoad, Fix, Linked
  <2>2. home.ws \in Seq(STRING)
    BY PlacesAssumption DEF Located
  <2>3. fix' \in FixType
    <3>1. \A pc \in {"rules", "worktrees"}, at \in Seq(STRING) :
            [pc |-> pc, todo |-> Linked, wsAt |-> at, clean |-> TRUE] \in FixType
      BY <1>3 DEF FixType
    <3> QED
      BY <2>1, <2>2, <3>1
  <2> QED
    BY <1>1, <1>2, <1>3, <2>1, <2>3
<1>13. CASE FixRules \/ FixWorktrees \/ FixEnd
  <2>1. /\ UNCHANGED <<making, touched, excused, blind, folded>> /\ Counted
        /\ UNCHANGED seam
        /\ fix' \in {NoFix, [fix EXCEPT !.pc = "worktrees"],
                     [fix EXCEPT !.pc = "links", !.clean =
                        @ /\ (rec.treesAt = TreesOf(home) => attached' = selected)]}
    BY <1>13 DEF FixRules, FixWorktrees, FixEnd, Fix
  <2>2. fix' \in FixType
    <3>1. /\ fix.clean \in BOOLEAN
          /\ (fix.clean /\ (rec.treesAt = TreesOf(home) => attached' = selected)) \in BOOLEAN
      BY <1>3 DEF FixType
    <3> QED
      BY <1>3, <1>4, <2>1, <3>1 DEF FixType
  <2>3. whole' \in BOOLEAN
    BY <1>3, <1>13 DEF FixRules, FixWorktrees, FixEnd, FixType
  <2> QED
    BY <1>1, <1>2, <1>3, <2>1, <2>2, <2>3
<1>14. ASSUME NEW p \in Paths, FixLink(p) PROVE Ranges'
  <2>1. /\ UNCHANGED <<making, touched, excused, blind, folded>> /\ Counted
        /\ UNCHANGED <<whole, seam>> /\ fix' = [fix EXCEPT !.todo = @ \ {p}]
    BY <1>14 DEF FixLink, Fix
  <2>2. fix' \in FixType
    BY <1>3, <2>1 DEF FixType
  <2> QED
    BY <1>1, <1>2, <1>3, <2>1, <2>2
<1> QED
  BY <1>5, <1>6, <1>7, <1>8, <1>9, <1>10, <1>11, <1>12, <1>13, <1>14 DEF Next

\* What is known of a tree at any time.
Known == IInv /\ Shape /\ Located /\ Ranges

LEMMA KnownStep == Known /\ [Next]_vars => Known'
<1> SUFFICES ASSUME Known, [Next]_vars PROVE Known'
  OBVIOUS
<1>1. CASE Creation
  BY <1>1, CreationKeeps, CreationShape, LocatedStep, MakingRanges DEF Known
<1>2. CASE ~Creation
  BY <1>2, LifeKeeps, LifeShape, LocatedStep, LifeRanges DEF Known
<1> QED
  BY <1>1, <1>2

LEMMA KnownIsTyped == Known => TypeOK
<1> SUFFICES ASSUME Known PROVE TypeOK
  OBVIOUS
<1>1. ws \in Workspaces
  BY DEF Known, IInv, Closed, Workspaces, Standing
<1>2. \A p \in Paths : tree[p].is # "none" /\ Len(p) > 1 => tree[Front(p)].is = "dir"
  BY AboveIsFront DEF Known, Shape, Stands
<1>3. todo.backFill \cup todo.linkDirs \cup todo.copyFiles \cup todo.strays \subseteq Paths
  BY DEF Known, Ranges
<1>4. /\ seam.pc \in {"idle", "withdraw", "script", "restore"}
      /\ fix.pc \in {"idle", "rules", "worktrees", "links"}
  BY DEF Known, Ranges, SeamType, FixType
<1>5. seam.held \cup seam.todo \subseteq Slots({"symlink"})
  BY DEF Known, Shape, Typed, Linked
<1> QED
  BY <1>1, <1>2, <1>3, <1>4, <1>5 DEF Known, Shape, Typed, Ranges, Located, TypeOK

-----------------------------------------------------------------------------
\* Whatever developer, agent and script do, whatever is killed and wherever
\* everything is moved: what stands in a tree stands in directories, links are
\* held only for slots that are recorded as links, and git is only asked about
\* worktrees.
THEOREM TreeTyped == Spec => []TypeOK
<1>1. Init => Known
  BY InvInit, ShapeInit, LocatedInit DEF Known
<1> QED
  BY <1>1, KnownStep, KnownIsTyped, PTL DEF Spec
-----------------------------------------------------------------------------
(* Whose files are whose: what is recorded as produced was made while the  *)
(* script was watched, or is one of the exceptions.                        *)

Carried == Slots({"carry"})
Produced == Slots({"produced"})

\* A file that the snapshot after the script will have.
Fresh(p) ==
  /\ tree[p].is = "file"
  /\ \/ p \notin base /\ \E r \in seam.asked : Below(p, r) /\ RuledOut(p, r) /\ Cut(p, r) = p
     \/ (\A r \in selected : ~Within(p, r)) /\ ~\E q \in Regenerable : Below(p, q)

Owed ==
  /\ \A p \in Paths : tree[p].by = "agent" => stage = "live"
  /\ \A p \in Carried : \E r \in selected : Below(p, r)
  /\ Produced \subseteq excused \cup blind \cup folded
  /\ seam.pc = "script" => \A p \in Paths : Fresh(p) => p \in seam.before \cup excused

\* The records, as the actions change the slots.
LEMMA SlotsGrow ==
  ASSUME NEW S, NEW t, slots' = slots \cup {[path |-> p, type |-> t] : p \in S}
  PROVE  /\ Carried' = IF t = "carry" THEN Carried \cup S ELSE Carried
         /\ Produced' = IF t = "produced" THEN Produced \cup S ELSE Produced
<1> DEFINE New == {[path |-> p, type |-> t] : p \in S}
<1>1. \A x : x \in Carried <=> \E s \in slots : s.type = "carry" /\ s.path = x
  BY DEF Carried, Slots
<1>2. \A x : x \in Carried' <=> \E s \in slots' : s.type = "carry" /\ s.path = x
  BY DEF Carried, Slots
<1>3. \A x : x \in Produced <=> \E s \in slots : s.type = "produced" /\ s.path = x
  BY DEF Produced, Slots
<1>4. \A x : x \in Produced' <=> \E s \in slots' : s.type = "produced" /\ s.path = x
  BY DEF Produced, Slots
<1>5. /\ \A s \in New : s.type = t /\ s.path \in S
      /\ \A p \in S : \E s \in New : s.type = t /\ s.path = p
  <2>1. ASSUME NEW p \in S PROVE \E s \in New : s.type = t /\ s.path = p
    <3> WITNESS [path |-> p, type |-> t] \in New
    <3> QED
      OBVIOUS
  <2> QED
    BY <2>1
<1>6. \A s : s \in slots' <=> s \in slots \/ s \in New
  OBVIOUS
<1> HIDE DEF New
<1>7. \A x : x \in Carried' <=> x \in Carried \/ (t = "carry" /\ x \in S)
  BY <1>1, <1>2, <1>5, <1>6
<1>8. \A x : x \in Produced' <=> x \in Produced \/ (t = "produced" /\ x \in S)
  BY <1>3, <1>4, <1>5, <1>6
<1> QED
  BY <1>7, <1>8

\* Where the making of a tree has not come to life, none of it is the agent's.
LEMMA CreationOwed ==
  ASSUME Known, Owed, Creation
  PROVE  Owed'
<1>1. /\ tree \in [Paths -> Things] /\ stage \in {"start", "walked", "planning", "placing", "built"}
      /\ seam = NoSeam
  <2>1. stage \in {"start", "walked", "planning", "placing", "built"}
    BY DEF Creation, Walk, Worktrees, Plan, LinkRepository, LinkDir, Copy, CopyStray,
           Carry, Save, Develop
  <2> QED
    BY <2>1 DEF Known, Shape, Typed
<1>2. \A p \in Paths : tree[p].by # "agent"
  BY <1>1 DEF Owed
<1>3. CASE Refuse
  <2>1. /\ \A p \in Paths : tree'[p].by # "agent"
        /\ Carried' = {} /\ Produced' = {} /\ seam' = seam
    BY <1>3, ThingsAreThings DEF Refuse, Carried, Produced, Slots
  <2> QED
    BY <1>1, <2>1 DEF Owed, NoSeam
<1>4. ASSUME UNCHANGED <<tree, seam, selected, slots>>, Produced \subseteq excused' \cup blind' \cup folded'
      PROVE  Owed'
  <2>1. Carried' = Carried /\ Produced' = Produced
    BY <1>4 DEF Carried, Produced, Slots
  <2>2. \A p \in Paths : tree'[p].by # "agent"
    BY <1>2, <1>4
  <2>3. seam'.pc # "script"
    BY <1>1, <1>4 DEF NoSeam
  <2> QED
    BY <1>4, <2>1, <2>2, <2>3 DEF Owed
<1>5. CASE Walk
  <2>1. slots = {}
    BY <1>5 DEF Walk, Known, Shape, Typed
  <2>2. slots' = {} /\ UNCHANGED <<tree, seam>>
    BY <1>5, <2>1 DEF Walk, life
  <2>3. Carried' = {} /\ Produced' = {}
    BY <2>2 DEF Carried, Produced, Slots
  <2> QED
    BY <1>1, <1>2, <2>2, <2>3 DEF Owed, NoSeam
<1>6. CASE Worktrees
  <2>1. slots = {}
    BY <1>6 DEF Worktrees, Known, Shape, Typed
  <2>2. slots' = {} /\ UNCHANGED seam
    BY <1>6, <2>1 DEF Worktrees
  <2>3. Carried' = {} /\ Produced' = {}
    BY <2>2 DEF Carried, Produced, Slots
  <2>4. \A p \in Paths : tree'[p] \in {File("base"), Dir, Nothing}
    BY <1>6 DEF Worktrees
  <2>5. \A p \in Paths : tree'[p].by # "agent"
    BY <2>4, ThingsAreThings
  <2> QED
    BY <1>1, <2>2, <2>3, <2>5 DEF Owed, NoSeam
<1>7. CASE Plan /\ ~Refuse
  BY <1>4, <1>7 DEF Plan, life, Owed
<1>8. CASE Save \/ Develop
  BY <1>4, <1>8 DEF Save, Develop, life, Owed
<1>9. CASE Carry /\ ~Refuse
  <2> DEFINE plan == CarryPlan(ws, selected)
  <2>1. /\ tree' = [p \in Paths |-> IF p \in plan THEN File("carry")
                                    ELSE IF \E q \in plan : Below(q, p) THEN Dir ELSE tree[p]]
        /\ slots' = slots \cup {[path |-> p, type |-> "carry"] : p \in plan}
        /\ UNCHANGED <<selected, seam, excused, blind, folded>>
    BY <1>9 DEF Carry, life
  <2>2. \A p \in plan : \E r \in selected : Below(p, r)
    BY DEF CarryPlan
  <2> HIDE DEF plan
  <2>3. Carried' = Carried \cup plan /\ Produced' = Produced
    BY <2>1, SlotsGrow
  <2>4. \A p \in Paths : tree'[p] \in {File("carry"), Dir, tree[p]}
    BY <2>1
  <2>5. \A p \in Paths : tree'[p].by # "agent"
    BY <1>2, <2>4, ThingsAreThings
  <2> QED
    BY <1>1, <2>1, <2>2, <2>3, <2>5 DEF Owed, NoSeam
<1>10. ASSUME NEW p, NEW x \in {Link, File("wkt")}, NEW type \in {"symlink", "copy"}, NEW left,
              Place(p, x, type, left)
       PROVE  Owed'
  <2>1. /\ tree' = Put(tree, p, x) /\ slots' = slots \cup {[path |-> q, type |-> type] : q \in {p}}
        /\ UNCHANGED <<selected, seam, excused, blind, folded>>
    BY <1>10 DEF Place
  <2>2. Carried' = Carried /\ Produced' = Produced
    BY <2>1, SlotsGrow
  <2>3. \A q \in Paths : tree'[q] \in {x, Dir, tree[q]}
    BY <2>1 DEF Put
  <2>4. \A q \in Paths : tree'[q].by # "agent"
    BY <1>2, <2>3, ThingsAreThings
  <2> QED
    BY <1>1, <2>1, <2>2, <2>4 DEF Owed, NoSeam
<1>11. ASSUME NEW p \in Paths, LinkRepository(p) \/ LinkDir(p) \/ Copy(p), ~Refuse PROVE Owed'
  BY <1>10, <1>11 DEF LinkRepository, LinkDir, Copy
<1>12. ASSUME NEW p \in Paths, CopyStray(p), ~Refuse PROVE Owed'
  BY <1>4, <1>12 DEF CopyStray, life, Owed
<1> QED
  BY <1>3, <1>5, <1>6, <1>7, <1>8, <1>9, <1>11, <1>12 DEF Creation
\* What git reports below a worktree, it reports at a name of its rules.
LEMMA ReportedAt ==
  ASSUME NEW r \in Paths, NEW c \in IgnoredIn(tree, base, r)
  PROVE  /\ c \in Ignored /\ c \in Paths /\ Below(c, r)
         /\ \E x \in Paths \ base : /\ Below(x, r) /\ RuledOut(x, r) /\ c = Cut(x, r)
                                    /\ Within(x, c) /\ tree[x].is \in {"file", "link"}
<1>1. PICK x \in Paths \ base : /\ Below(x, r) /\ RuledOut(x, r) /\ c = Cut(x, r)
                                /\ tree[x].is \in {"file", "link"}
  BY DEF IgnoredIn
<1>2. c \in Ignored /\ Below(c, r) /\ Within(x, c)
  BY <1>1, CutIsThere
<1> QED
  BY <1>1, <1>2, NamesAssumption

\* A snapshot is what git reports, and what the walk finds.
LEMMA SnapshotParts ==
  ASSUME NEW c
  PROVE  c \in Snapshot(tree, base, selected, attached) <=>
           \/ \E r \in attached : c \in IgnoredIn(tree, base, r)
           \/ /\ c \in Paths /\ tree[c].is \in {"dir", "file"}
              /\ \A r \in selected : ~Within(c, r)
              /\ ~\E q \in Regenerable : Below(c, q)
<1> DEFINE S == {IgnoredIn(tree, base, r) : r \in attached}
           W == {p \in Paths : /\ tree[p].is \in {"dir", "file"}
                               /\ \A r \in selected : ~Within(p, r)
                               /\ ~\E q \in Regenerable : Below(p, q)}
<1>1. Snapshot(tree, base, selected, attached) = (UNION S) \cup W
  BY DEF Snapshot
<1>2. c \in UNION S <=> \E r \in attached : c \in IgnoredIn(tree, base, r)
  OBVIOUS
<1>3. c \in W <=> /\ c \in Paths /\ tree[c].is \in {"dir", "file"}
                  /\ \A r \in selected : ~Within(c, r)
                  /\ ~\E q \in Regenerable : Below(c, q)
  OBVIOUS
<1> HIDE DEF S, W
<1> QED
  BY <1>1, <1>2, <1>3

\* What a snapshot has and is no directory is a file that is fresh, or in a
\* worktree git has not been asked about.
LEMMA SnapshotIsFresh ==
  ASSUME Known, stage = "live", NEW c \in Snapshot(tree, base, selected, attached),
         tree[c].is # "dir"
  PROVE  Fresh(c) \/ \E r \in attached \ seam.asked : Below(c, r)
<1>1. /\ tree \in [Paths -> Things] /\ Stands(tree) /\ attached \subseteq Paths
      /\ attached \subseteq selected /\ selected \subseteq Paths
      /\ \A p \in Paths : tree[p].is = "link" => p \in Linked
      /\ \A p \in Linked, r \in selected : ~Within(p, r)
  BY DEF Known, Shape, Typed, Outside
<1>2. CASE \E r \in attached : c \in IgnoredIn(tree, base, r)
  <2>1. PICK r \in attached : c \in IgnoredIn(tree, base, r)
    BY <1>2
  <2>2. PICK x \in Paths \ base :
          /\ c \in Paths /\ Below(c, r) /\ Below(x, r) /\ RuledOut(x, r)
          /\ c = Cut(x, r) /\ Within(x, c) /\ tree[x].is \in {"file", "link"}
    BY <1>1, <2>1, ReportedAt
  <2>3. x = c
    <3>1. x = c \/ Below(x, c)
      BY <2>2, WithinIsBelow
    <3> QED
      BY <1>1, <2>2, <3>1 DEF Stands
  <2>4. tree[c].is = "file"
    BY <1>1, <2>2, <2>3, WithinIsBelow
  <2> QED
    BY <2>1, <2>2, <2>3, <2>4 DEF Fresh
<1>3. CASE ~\E r \in attached : c \in IgnoredIn(tree, base, r)
  BY <1>3, SnapshotParts DEF Fresh
<1> QED
  BY <1>2, <1>3

\* The other way round.
LEMMA FreshIsInSnapshot ==
  ASSUME Known, seam.asked = attached, NEW p \in Paths, Fresh(p)
  PROVE  p \in Snapshot(tree, base, selected, attached)
<1>1. CASE \E r \in attached : p \notin base /\ Below(p, r) /\ RuledOut(p, r) /\ Cut(p, r) = p
  <2>1. PICK r \in attached : p \notin base /\ Below(p, r) /\ RuledOut(p, r) /\ Cut(p, r) = p
    BY <1>1
  <2>2. p \in IgnoredIn(tree, base, r)
    BY <2>1 DEF Fresh, IgnoredIn
  <2> QED
    BY <2>1, <2>2, SnapshotParts
<1>2. CASE ~\E r \in attached : p \notin base /\ Below(p, r) /\ RuledOut(p, r) /\ Cut(p, r) = p
  BY <1>2, SnapshotParts DEF Fresh
<1> QED
  BY <1>1, <1>2

LEMMA LifeOwed ==
  ASSUME Known, Owed, [Next]_vars, ~Creation
  PROVE  Owed'
<1>1. ASSUME stage = "live", UNCHANGED making, UNCHANGED <<base, slots>>,
             excused \subseteq excused', UNCHANGED <<blind, folded>>,
             seam'.pc = "script" => UNCHANGED seam,
             \A p \in Paths : tree'[p].is = "file" => tree'[p] = tree[p] \/
                                                      (seam.pc = "script" => p \in excused')
      PROVE  Owed'
  <2>1. UNCHANGED <<stage, selected, Carried, Produced>>
    BY <1>1 DEF making, Carried, Produced, Slots
  <2>2. ASSUME seam'.pc = "script", NEW p \in Paths, Fresh(p)'
        PROVE  p \in seam'.before \cup excused'
    <3>1. seam' = seam /\ seam.pc = "script"
      BY <1>1, <2>2
    <3>2. CASE p \in excused'
      BY <3>2
    <3>3. CASE p \notin excused'
      <4>1. tree'[p].is = "file" /\ tree'[p] = tree[p]
        BY <1>1, <2>2, <3>1, <3>3 DEF Fresh
      <4>2. Fresh(p)
        BY <1>1, <2>1, <2>2, <3>1, <4>1 DEF Fresh
      <4> QED
        BY <1>1, <3>1, <4>2 DEF Owed
    <3> QED
      BY <3>2, <3>3
  <2> QED
    BY <1>1, <2>1, <2>2 DEF Owed
<1>2. CASE UNCHANGED vars
  <2>1. UNCHANGED <<stage, selected, tree, base, slots, excused, blind, folded, seam>>
    BY <1>2 DEF vars, making, life
  <2>2. UNCHANGED <<Carried, Produced>>
    BY <2>1 DEF Carried, Produced, Slots
  <2>3. \A p \in Paths : Fresh(p)' <=> Fresh(p)
    BY <2>1 DEF Fresh
  <2> QED
    BY <2>1, <2>2, <2>3 DEF Owed
<1>3. \A p, x : \A q \in Paths : Put(tree, p, x)[q] \in {x, Dir, tree[q]} /\
                                 (q # p => Put(tree, p, x)[q] \in {Dir, tree[q]})
  BY DEF Put
<1>4. CASE Agent
  <2>1. PICK p \in Paths :
          /\ \/ Changed(Put(tree, p, File("agent")), {p})
             \/ Changed(Put(tree, p, [is |-> "dir", by |-> "agent"]), {p})
             \/ Changed([q \in Paths |-> IF Within(q, p) THEN Nothing ELSE tree[q]],
                        {q \in Paths : Within(q, p)})
          /\ excused' = IF seam.pc = "script" THEN excused \cup {p} ELSE excused
    BY <1>4 DEF Agent
  <2>2. \A q \in Paths : \/ tree'[q] \in {Dir, Nothing, [is |-> "dir", by |-> "agent"], tree[q]}
                         \/ q = p
    BY <1>3, <2>1 DEF Changed
  <2>3. \A q \in Paths : tree'[q].is = "file" => tree'[q] = tree[q] \/ q = p
    BY <2>2, ThingsAreThings
  <2>4. UNCHANGED <<making, base, slots, blind, folded, seam>> /\ stage = "live"
    BY <1>4, <2>1 DEF Agent, Changed
  <2>5. excused \subseteq excused' /\ (seam.pc = "script" => p \in excused')
    BY <2>1
  <2> QED
    BY <1>1, <2>3, <2>4, <2>5
<1>5. CASE Script
  <2>1. PICK p \in Paths : /\ \E x, S : Changed(Put(tree, p, x), S)
                           /\ excused' = excused \cup {p}
    BY <1>5 DEF Script
  <2>2. \A q \in Paths : tree'[q] \in {Dir, tree[q]} \/ q = p
    BY <1>3, <2>1 DEF Changed
  <2>3. \A q \in Paths : tree'[q].is = "file" => tree'[q] = tree[q] \/ q = p
    BY <2>2, ThingsAreThings
  <2>4. UNCHANGED <<making, base, slots, blind, folded, seam>> /\ stage = "live"
    BY <1>5, <2>1 DEF Script, Changed, Known, Shape, Typed
  <2> QED
    BY <1>1, <2>1, <2>3, <2>4
<1>6. CASE ScriptEnds \/ Crash \/ Move
  <2>1. /\ UNCHANGED <<making, base, slots, blind, folded, excused, tree>> /\ stage = "live"
        /\ seam' = seam \/ seam' = NoSeam
    <3>1. CASE ScriptEnds \/ Move
      BY <3>1 DEF ScriptEnds, Move, Known, Shape, Typed
    <3>2. CASE Crash
      <4>1. seam.pc # "idle" \/ fix.pc # "idle"
        BY <3>2 DEF Crash
      <4>2. stage = "live"
        BY <4>1 DEF Known, Shape, Typed, NoSeam, NoFix
      <4> QED
        BY <3>2, <4>2 DEF Crash
    <3> QED
      BY <1>6, <3>1, <3>2
  <2>2. seam'.pc = "script" => UNCHANGED seam
    BY <2>1 DEF NoSeam
  <2> QED
    BY <1>1, <2>1, <2>2
<1>7. CASE SeamBegin
  <2>1. /\ UNCHANGED <<making, base, slots, blind, folded, excused, tree>> /\ stage = "live"
        /\ seam'.pc = "withdraw"
    BY <1>7 DEF SeamBegin, Seam, NoSeam
  <2> QED
    BY <1>1, <2>1
<1>8. CASE SeamRestore
  <2>1. /\ UNCHANGED <<making, base, slots, blind, folded, excused>> /\ stage = "live"
        /\ seam'.pc = "idle" /\ tree' = Restored
    BY <1>8 DEF SeamRestore, Seam, NoSeam, Known, Shape, Typed
  <2>2. \A p \in Paths : tree'[p] \in {tree[p], Link}
    BY <2>1, RestoredStands DEF Known
  <2> QED
    BY <1>1, <2>1, <2>2, ThingsAreThings
<1>9. CASE SeamRun
  <2>1. /\ UNCHANGED <<making, base, slots, blind, folded, excused, tree, attached>>
        /\ stage = "live"
        /\ seam' = [seam EXCEPT !.pc = "script", !.asked = attached,
                                !.before = Snapshot(tree, base, selected, attached)]
    BY <1>9 DEF SeamRun, Seam, Known, Shape, Typed, NoSeam
  <2>2. /\ seam'.asked = attached /\ UNCHANGED <<stage, selected, Carried, Produced>>
        /\ seam'.before = Snapshot(tree, base, selected, attached)
    BY <2>1 DEF making, Carried, Produced, Slots, Known, Ranges, SeamType
  <2>3. Known'
    BY KnownStep
  <2>4. \A p \in Paths : Fresh(p)' => p \in Snapshot(tree, base, selected, attached)'
    <3>1. SUFFICES ASSUME NEW p \in Paths, Fresh(p)'
                   PROVE  p \in Snapshot(tree, base, selected, attached)'
      OBVIOUS
    <3>2. (seam.asked = attached)'
      BY <2>1, <2>2
    <3>3. (Known /\ seam.asked = attached /\ Fresh(p) =>
             p \in Snapshot(tree, base, selected, attached))'
      BY FreshIsInSnapshot, PTL
    <3> QED
      BY <2>3, <3>1, <3>2, <3>3
  <2>5. Snapshot(tree, base, selected, attached)' = Snapshot(tree, base, selected, attached)
    BY <2>1, <2>2
  <2> QED
    BY <2>1, <2>2, <2>4, <2>5 DEF Owed
<1>10. CASE SeamRecord
  <2> DEFINE new == NewSince(seam.before, Snapshot(tree, base, selected, attached))
  <2>1. /\ UNCHANGED <<making, base, excused, tree>> /\ stage = "live"
        /\ slots' = slots \cup {[path |-> p, type |-> "produced"] : p \in new}
        /\ blind' = blind \cup {p \in new : \E r \in attached \ seam.asked : Below(p, r)}
        /\ folded' = folded \cup {p \in new : tree[p].is = "dir"}
        /\ seam.pc = "script" /\ seam' = [seam EXCEPT !.pc = "restore"]
    BY <1>10 DEF SeamRecord, Seam, Known, Shape, Typed, NoSeam
  <2>2. \A p \in new : p \in Snapshot(tree, base, selected, attached) /\ p \notin seam.before
    BY DEF NewSince
  <2>3. new \subseteq Paths
    BY <2>2, SnapshotPaths DEF Known
  <2> HIDE DEF new
  <2>4. ASSUME NEW p \in new PROVE p \in excused \cup blind' \cup folded'
    <3>1. CASE tree[p].is = "dir"
      BY <2>1, <2>4, <3>1
    <3>2. CASE tree[p].is # "dir" /\ Fresh(p)
      BY <2>1, <2>2, <2>3, <2>4, <3>2 DEF Owed
    <3>3. CASE tree[p].is # "dir" /\ \E r \in attached \ seam.asked : Below(p, r)
      BY <2>1, <2>4, <3>3
    <3> QED
      BY <2>1, <2>2, <2>4, <3>1, <3>2, <3>3, SnapshotIsFresh
  <2>5. Produced' = Produced \cup new /\ Carried' = Carried
    BY <2>1, SlotsGrow
  <2>6. seam'.pc # "script"
    BY <2>1 DEF Known, Ranges, SeamType
  <2>7. Produced \subseteq excused \cup blind' \cup folded'
    BY <2>1 DEF Owed
  <2> QED
    BY <2>1, <2>4, <2>5, <2>6, <2>7 DEF Owed, making
<1>11. ASSUME NEW p \in Paths, Withdraw(p) PROVE Owed'
  <2>1. /\ UNCHANGED <<making, base, slots, blind, folded, excused>> /\ stage = "live"
        /\ seam.pc = "withdraw"
        /\ seam' \in {NoSeam, [seam EXCEPT !.todo = @ \ {p}],
                      [seam EXCEPT !.todo = @ \ {p}, !.held = @ \cup {p}]}
        /\ tree' \in {tree, [tree EXCEPT ![p] = Nothing], Restored}
    BY <1>11 DEF Withdraw, Seam, Known, Shape, Typed, NoSeam
  <2>2. seam'.pc # "script"
    <3>1. /\ [seam EXCEPT !.todo = @ \ {p}].pc = seam.pc
          /\ [seam EXCEPT !.todo = @ \ {p}, !.held = @ \cup {p}].pc = seam.pc
          /\ NoSeam.pc = "idle"
      BY DEF NoSeam
    <3> QED
      BY <2>1, <3>1
  <2>3. \A q \in Paths : tree'[q] \in {tree[q], Nothing, Link}
    <3>1. tree \in [Paths -> Things]
      BY DEF Known, Shape, Typed
    <3>2. \A q \in Paths : [tree EXCEPT ![p] = Nothing][q] \in {tree[q], Nothing}
      BY <3>1
    <3>3. \A q \in Paths : Restored[q] \in {tree[q], Link}
      BY RestoredStands DEF Known
    <3> QED
      BY <2>1, <3>2, <3>3
  <2> QED
    BY <1>1, <2>1, <2>2, <2>3, ThingsAreThings
<1>12. CASE FixLoad \/ FixRules \/ FixWorktrees \/ FixEnd
  <2>1. /\ UNCHANGED <<making, base, slots, blind, folded, excused, tree, seam>> /\ stage = "live"
    BY <1>12 DEF FixLoad, FixRules, FixWorktrees, FixEnd, Fix, Known, Shape, Typed, NoFix
  <2> QED
    BY <1>1, <2>1
<1>13. ASSUME NEW p \in Paths, FixLink(p) PROVE Owed'
  <2>1. /\ UNCHANGED <<making, base, slots, blind, folded, excused, seam>> /\ stage = "live"
        /\ tree' \in {tree, Put(tree, p, Link)}
    BY <1>13 DEF FixLink, Fix, Known, Shape, Typed, NoFix
  <2>2. \A q \in Paths : tree'[q] \in {tree[q], Dir, Link}
    BY <1>3, <2>1
  <2> QED
    BY <1>1, <2>1, <2>2, ThingsAreThings
<1> QED
  BY <1>2, <1>4, <1>5, <1>6, <1>7, <1>8, <1>9, <1>10, <1>11, <1>12, <1>13 DEF Next
\* What Preflight has to go by where the agent's file is.
LEMMA WorkIsSeen ==
  ASSUME Known, Owed, NEW p \in Paths, tree[p] = File("agent"), ~Spared(p),
         p \notin blind \cup folded
  PROVE  Blockers \ Veils # {}
<1>1. /\ stage = "live" /\ tree[p].is = "file"
  BY ThingsAreThings DEF Owed
<1>2. /\ tree \in [Paths -> Things] /\ Stands(tree) /\ selected \subseteq Paths
      /\ attached \subseteq selected /\ \A r \in selected : tree[r].is = "dir"
      /\ \A s \in slots : s.path \in Paths
  BY <1>1 DEF Known, Shape, Typed, Raised
<1>3. p \notin Produced /\ ~Remade(p)
  BY DEF Owed, Spared
<1>4. ~ProducedExempt(p)
  BY <1>3 DEF ProducedExempt, Produced
<1>5. /\ \A r \in selected \ attached : <<"failed", r>> \in Blockers \ Veils
      /\ \A r \in selected : Dirty(r) => <<"dirty", r>> \in Blockers \ Veils
      /\ \A r \in selected : \A c \in Precious(r) : <<"ignored", c>> \in Blockers \ Veils
      /\ \A c \in Untracked : <<"untracked", c>> \in Blockers \ Veils
      /\ \A c \in Slots(Placed) : tree[c].is = "none" => <<"slot missing", c>> \in Blockers \ Veils
      /\ \A c \in Slots({"symlink"}) : tree[c].is # "link" => <<"slot changed", c>> \in Blockers \ Veils
      /\ \A c \in Slots({"copy"}) : tree[c] # File("wkt") => <<"copy diverged", c>> \in Blockers \ Veils
  BY DEF Blockers, Veils
<1>6. CASE \E r \in selected : Below(p, r)
  <2>1. PICK r \in selected : Below(p, r)
    BY <1>6
  <2>2. CASE r \notin attached
    BY <1>5, <2>1, <2>2
  <2>3. CASE p \in base \/ ~RuledOut(p, r)
    <3>1. File("agent") # File("base")
      BY ThingsAreThings
    <3>2. Dirty(r)
      BY <1>1, <2>1, <2>3, <3>1 DEF Dirty
    <3> QED
      BY <1>5, <3>2
  <2>4. CASE r \in attached /\ p \notin base /\ RuledOut(p, r)
    <3> DEFINE c == Cut(p, r)
    <3>1. c \in IgnoredIn(tree, base, r)
      BY <1>1, <2>1, <2>4 DEF IgnoredIn
    <3>2. c \in Paths /\ Below(c, r) /\ (p = c \/ Below(p, c))
      BY <1>2, <2>4, CutIsThere, NamesAssumption, WithinIsBelow
    <3> HIDE DEF c
    <3>3. tree[c].is = "dir" \/ p = c
      BY <1>1, <1>2, <3>2 DEF Stands
    <3>4. ~Remade(c)
      <4>1. SUFFICES ASSUME NEW q \in Regenerable, Within(c, q) PROVE Within(p, q)
        BY <1>3 DEF Remade
      <4>2. q \in Paths /\ (c = q \/ Below(c, q))
        BY <3>2, <4>1, NamesAssumption, WithinIsBelow
      <4> QED
        BY <3>2, <4>2, BelowOrders, WithinIsBelow
    <3>5. ~CarriedUnchanged(c)
      <4>1. File("carry").is = "file" /\ File("carry") # File("agent")
        BY ThingsAreThings
      <4> QED
        BY <3>3, <4>1 DEF CarriedUnchanged
    <3>6. ~ProducedExempt(c)
      BY <1>4, <2>1, <3>2, <3>3 DEF ProducedExempt
    <3>7. c \in Precious(r)
      BY <3>1, <3>4, <3>5, <3>6 DEF Precious
    <3> QED
      BY <1>5, <3>7
  <2> QED
    BY <2>2, <2>3, <2>4
<1>7. CASE \A r \in selected : ~Below(p, r)
  <2>1. \A r \in selected : ~Within(p, r)
    BY <1>1, <1>2, <1>7, WithinIsBelow
  <2>2. CASE p \in Slots({"symlink"})
    BY <1>1, <1>5, <2>2
  <2>3. CASE p \in Slots({"copy"})
    <3>1. File("agent") # File("wkt")
      BY ThingsAreThings
    <3> QED
      BY <1>5, <2>3, <3>1
  <2>4. p \notin Slots({"carry"})
    BY <1>7 DEF Owed, Carried
  <2>5. CASE \E q \in selected \cup Slots(Placed) : Below(q, p)
    <3>1. PICK q \in selected \cup Slots(Placed) : Below(q, p)
      BY <2>5
    <3>2. q \in Paths
      BY <1>2 DEF Slots
    <3>3. tree[q].is = "none"
      BY <1>1, <1>2, <3>1, <3>2 DEF Stands
    <3> QED
      BY <1>2, <1>5, <3>1, <3>3
  <2>6. CASE /\ p \notin Slots({"symlink", "carry"}) /\ p \notin Slots({"copy"})
             /\ ~\E q \in selected \cup Slots(Placed) : Below(q, p)
    <3>1. p \in Untracked
      BY <1>1, <1>3, <1>4, <2>1, <2>6 DEF Untracked
    <3> QED
      BY <1>5, <3>1
  <2>7. p \in Slots({"symlink", "carry"}) => p \in Slots({"symlink"}) \/ p \in Slots({"carry"})
    BY DEF Slots
  <2> QED
    BY <2>2, <2>3, <2>4, <2>5, <2>6, <2>7
<1> QED
  BY <1>6, <1>7

-----------------------------------------------------------------------------
\* Whatever else happens to a tree, the agent's own file in it keeps wkt rm
\* from it, and not merely wkt's own settings (Preflight, producedExempt, carriedUnchanged): unless its name is
\* one a tool makes again, it was made while a script was watched, git had not
\* answered before that script, or it stands where a directory of the script's
\* did.
THEOREM WorkIsAsked == Spec => []WorkBlocks
<1>1. Init => Known /\ Owed
  <2> SUFFICES ASSUME Init PROVE Known /\ Owed
    OBVIOUS
  <2>1. Carried = {} /\ Produced = {}
    BY DEF Init, Carried, Produced, Slots
  <2>2. \A p \in Paths : tree[p].by # "agent"
    BY ThingsAreThings DEF Init
  <2> QED
    BY <2>1, <2>2, InvInit, ShapeInit, LocatedInit DEF Known, Owed, Init, NoSeam
<1>2. Known /\ Owed /\ [Next]_vars => Known' /\ Owed'
  BY KnownStep, CreationOwed, LifeOwed
<1>3. Known /\ Owed => WorkBlocks
  BY WorkIsSeen DEF WorkBlocks
<1> QED
  BY <1>1, <1>2, <1>3, PTL DEF Spec
-----------------------------------------------------------------------------
(* Links: nothing but what others have taken charge of comes between a     *)
(* link and the workspace, and once a repair has done a slot it is done.   *)

Taken(p) == \E q \in touched : Within(q, p) \/ Below(p, q)

\* A link or the room for one.
Sound(p) ==
  Taken(p) \/ (tree[p] \in {Nothing, Link} /\
               \A q \in Paths : Below(p, q) => tree[q].is = "dir")

\* It leads where it should, or will when the seam has put it back.
Fine(p) ==
  Taken(p) \/ (target[p] = home.ws \o p /\ (tree[p] = Link \/ p \in seam.held))

Lead ==
  /\ target \in [Paths -> Seq(STRING)]
  /\ \A p \in Linked : p \in Paths \ Way /\ \A q \in Paths : Below(p, q) => q \in Way
  /\ \A p \in Linked : Sound(p)
  /\ stage # "live" => whole /\ touched = {}
  /\ seam.pc = "idle" => seam.held = {}
  /\ whole => \A p \in Linked : Fine(p)
  /\ whole /\ stage \in {"planning", "placing", "built", "live"} => attached = selected
  /\ fix.pc # "idle" /\ fix.clean => \A p \in Linked \ fix.todo : Fine(p)
  /\ fix.pc = "links" /\ fix.clean => attached = selected

\* Places and paths are put together to paths.
LEMMA TargetsAreSequences ==
  ASSUME Located, NEW p \in Paths
  PROVE  home.ws \o p \in Seq(STRING)
<1>1. home.ws \in Seq(STRING) /\ p \in Seq(STRING)
  BY PlacesAssumption, PathsAreSequences DEF Located
<1> QED
  BY <1>1, ConcatProperties

\* What goes on elsewhere in the tree leaves a slot as it is.
LEMMA PutSpares ==
  ASSUME NEW p \in Paths, Sound(p), NEW x \in Paths, tree[x].is # "dir", NEW v,
         tree' = Put(tree, x, v), touched \subseteq touched',
         Within(x, p) => x \in touched'
  PROVE  Taken(p)' \/ (tree'[p] = tree[p] /\ Sound(p)')
<1>1. CASE Taken(p) \/ Within(x, p)
  BY <1>1 DEF Taken
<1>2. CASE ~Taken(p) /\ ~Within(x, p)
  <2>1. x # p /\ ~Below(x, p)
    BY <1>2, WithinIsBelow
  <2>2. /\ tree[p] \in {Nothing, Link} /\ \A q \in Paths : Below(p, q) => tree[q].is = "dir"
    BY <1>2 DEF Sound
  <2>3. \A q \in Paths : q # x /\ (tree[q].is = "dir" \/ ~Below(x, q)) => tree'[q] = tree[q]
    BY DEF Put
  <2>4. tree'[p] = tree[p]
    BY <2>1, <2>3
  <2>5. \A q \in Paths : Below(p, q) => tree'[q].is = "dir"
    BY <2>2, <2>3
  <2> QED
    BY <2>2, <2>4, <2>5 DEF Sound
<1> QED
  BY <1>1, <1>2

\* Only what is done to a link or to where it leads makes it a bad one.
LEMMA FineStays ==
  ASSUME NEW p \in Paths, Fine(p), Taken(p) => Taken(p)',
         Taken(p)' \/ tree'[p] = tree[p] \/ tree'[p] = Link,
         home' = home, target'[p] = target[p],
         p \in seam.held => p \in seam'.held \/ tree'[p] = Link
  PROVE  Fine(p)'
BY DEF Fine

\* In a tree being made: a new link is one more slot beside the way.
LEMMA PlaceLeads ==
  ASSUME Known, Lead, stage = "placing", NEW p \in ToPlace, p \in Paths, tree[p].is = "none",
         NEW x \in {Link, File("wkt")}, NEW type \in {"symlink", "copy"},
         (x = Link) <=> (type = "symlink"),
         NEW left, Place(p, x, type, left)
  PROVE  Lead'
<1>1. /\ tree' = Put(tree, p, x) /\ slots' = slots \cup {[path |-> p, type |-> type]}
      /\ target' = IF type = "symlink" THEN [target EXCEPT ![p] = home.ws \o p] ELSE target
      /\ UNCHANGED <<stage, repos, selected, home, attached, seam, fix, touched, whole>>
  BY DEF Place
<1>2. Linked' = IF type = "symlink" THEN Linked \cup {p} ELSE Linked
  BY <1>1, LinkedGrows
<1>3. /\ p \notin Way /\ \A q \in Paths : Below(p, q) => q \in Way
      /\ \A d \in Way : tree[d].is \in {"none", "dir"}
      /\ seam = NoSeam /\ fix = NoFix
  BY DEF Known, Shape, Raised, Typed
<1>4. Way' = Way
  BY <1>1 DEF Way
<1>5. target' \in [Paths -> Seq(STRING)]
  BY <1>1, TargetsAreSequences DEF Lead, Known
<1>6. \A q \in Linked' : q \in Paths \ Way /\ \A d \in Paths : Below(q, d) => d \in Way
  BY <1>2, <1>3 DEF Lead
<1>7. /\ \A q \in Paths : q # p /\ ~Below(p, q) => tree'[q] = tree[q]
      /\ \A q \in Paths : q # p /\ Below(p, q) /\ tree[q].is = "none" => tree'[q] = Dir
      /\ \A q \in Paths : q # p /\ tree[q].is # "none" => tree'[q] = tree[q]
      /\ tree'[p] = x
  BY <1>1 DEF Put
<1>8. \A q \in Linked \ {p} : q \in Paths /\ tree'[q] = tree[q]
  <2>1. SUFFICES ASSUME NEW q \in Linked \ {p} PROVE q \in Paths /\ ~Below(p, q)
    BY <1>7
  <2> QED
    BY <1>3 DEF Lead
<1>9. \A q \in Paths : tree[q].is = "dir" => tree'[q].is = "dir"
  <2>1. tree[p].is # "dir"
    OBVIOUS
  <2> QED
    BY <1>7, <2>1
<1>10. ASSUME NEW q \in Linked \ {p} PROVE Sound(q)' /\ (Fine(q) => Fine(q)')
  <2>1. Sound(q) /\ q \in Paths /\ tree'[q] = tree[q] /\ (Taken(q)' <=> Taken(q))
    BY <1>1, <1>8 DEF Lead, Taken
  <2>2. Sound(q)'
    BY <1>9, <2>1 DEF Sound
  <2>3. target'[q] = target[q]
    BY <1>1, <2>1 DEF Lead
  <2> QED
    BY <1>1, <2>1, <2>2, <2>3, FineStays
<1>11. ASSUME type = "symlink" PROVE Sound(p)' /\ Fine(p)'
  <2>1. tree'[p] = Link /\ target'[p] = home.ws \o p
    BY <1>1, <1>7, <1>11 DEF Lead
  <2>2. \A q \in Paths : Below(p, q) => tree'[q].is = "dir"
    <3>1. SUFFICES ASSUME NEW q \in Paths, Below(p, q) PROVE tree'[q].is = "dir"
      OBVIOUS
    <3>2. tree[q].is \in {"none", "dir"} /\ q # p
      BY <1>3, <3>1
    <3> QED
      BY <1>7, <1>9, <3>1, <3>2, ThingsAreThings
  <2> QED
    BY <1>1, <2>1, <2>2 DEF Sound, Fine
<1>12. p \notin Linked
  <2>1. SUFFICES ASSUME p \in Linked PROVE FALSE
    OBVIOUS
  <2>2. Fine(p) /\ ~Taken(p)
    BY <2>1 DEF Lead, Taken
  <2> QED
    BY <1>3, <2>2, ThingsAreThings DEF Fine, NoSeam
<1>13. \A q \in Linked' : Sound(q)' /\ Fine(q)'
  <2>1. SUFFICES ASSUME NEW q \in Linked' PROVE Sound(q)' /\ Fine(q)'
    OBVIOUS
  <2>2. CASE q = p
    BY <1>2, <1>11, <1>12, <2>1, <2>2
  <2>3. CASE q # p
    <3>1. q \in Linked \ {p}
      BY <1>2, <2>1, <2>3
    <3>2. Fine(q)
      BY <3>1 DEF Lead
    <3> QED
      BY <1>10, <3>1, <3>2
  <2> QED
    BY <2>2, <2>3
<1>14. attached' = selected' /\ whole' /\ touched' = {} /\ fix'.pc = "idle" /\ seam'.held = {}
  BY <1>1, <1>3 DEF Lead, NoSeam, NoFix
<1> QED
  BY <1>1, <1>4, <1>5, <1>6, <1>13, <1>14 DEF Lead

\* A slot that is left alone while something happens to the rest of the making.
LEMMA MakingLeads ==
  ASSUME Known, Lead, stage # "live", Linked' = Linked, Way' = Way,
         UNCHANGED <<home, target, seam, fix, touched, whole>>,
         \A p \in Linked : tree'[p] = tree[p],
         \A p \in Linked, q \in Paths : Below(p, q) /\ tree[q].is = "dir" => tree'[q].is = "dir",
         stage' \in {"planning", "placing", "built", "live"} => attached' = selected'
  PROVE  Lead'
<1>1. seam = NoSeam /\ fix = NoFix
  BY DEF Known, Shape, Typed
<1>2. ASSUME NEW p \in Linked PROVE Sound(p)' /\ Fine(p)'
  <2>1. Sound(p) /\ Fine(p) /\ (Taken(p)' <=> Taken(p)) /\ p \in Paths
    BY DEF Lead, Taken
  <2> QED
    BY <1>2, <2>1 DEF Sound, Fine
<1> QED
  BY <1>1, <1>2 DEF Lead, NoFix

LEMMA CreationLeads ==
  ASSUME Known, Lead, Creation
  PROVE  Lead'
<1>1. /\ stage \in {"start", "walked", "planning", "placing", "built"}
      /\ seam = NoSeam /\ fix = NoFix
  <2>1. stage \in {"start", "walked", "planning", "placing", "built"}
    BY DEF Creation, Walk, Worktrees, Plan, LinkRepository, LinkDir, Copy, CopyStray,
           Carry, Save, Develop
  <2> QED
    BY <2>1 DEF Known, Shape, Typed
<1>2. CASE Refuse
  <2>1. /\ stage' = "refused" /\ Linked' = {}
        /\ UNCHANGED <<target, seam, fix, touched, whole>>
    BY <1>2 DEF Refuse, Linked, Slots
  <2> QED
    BY <1>1, <2>1 DEF Lead, NoFix
<1>3. CASE Walk
  <2>1. /\ stage = "start" /\ stage' = "walked"
        /\ UNCHANGED <<slots, target, seam, fix, touched, whole>>
    BY <1>3 DEF Walk, life
  <2>2. Linked' = {}
    BY <2>1 DEF Known, Shape, Typed, Linked, Slots
  <2> QED
    BY <1>1, <2>1, <2>2 DEF Lead, NoFix
<1>4. CASE Worktrees
  <2>1. /\ stage = "walked" /\ stage' = "planning" /\ attached' = selected'
        /\ UNCHANGED <<slots, target, seam, fix, touched, whole>>
    BY <1>4 DEF Worktrees
  <2>2. Linked' = {}
    BY <2>1 DEF Known, Shape, Typed, Linked, Slots
  <2> QED
    BY <1>1, <2>1, <2>2 DEF Lead, NoFix
<1>5. CASE (Plan /\ ~Refuse) \/ Save \/ Develop
  <2>1. /\ UNCHANGED <<slots, repos, selected, home, target, seam, fix, touched, whole, tree,
                       attached>>
        /\ stage \in {"planning", "placing", "built"} \/ stage' = stage
    BY <1>5 DEF Plan, Save, Develop, life
  <2>2. Linked' = Linked /\ Way' = Way
    BY <2>1 DEF Linked, Slots, Way
  <2>3. stage' \in {"planning", "placing", "built", "live"} => attached' = selected'
    BY <1>1, <2>1 DEF Lead
  <2> QED
    BY <1>1, <2>1, <2>2, <2>3, MakingLeads
<1>6. ASSUME NEW p \in Paths, CopyStray(p), ~Refuse PROVE Lead'
  <2>1. UNCHANGED <<slots, repos, selected, home, target, seam, fix, touched, whole, tree,
                    attached, stage>>
    BY <1>6 DEF CopyStray, life
  <2>2. Linked' = Linked /\ Way' = Way
    BY <2>1 DEF Linked, Slots, Way
  <2>3. stage' \in {"planning", "placing", "built", "live"} => attached' = selected'
    BY <1>1, <2>1 DEF Lead
  <2> QED
    BY <1>1, <2>1, <2>2, <2>3, MakingLeads
<1>7. ASSUME NEW p \in Paths, LinkRepository(p) \/ LinkDir(p) \/ Copy(p), ~Refuse PROVE Lead'
  <2>1. stage = "placing" /\ p \in ToPlace /\ tree[p].is = "none"
    BY <1>7 DEF LinkRepository, LinkDir, Copy, ToPlace, Known, Shape, Raised
  <2>2. \/ \E left : Place(p, Link, "symlink", left)
        \/ \E left : Place(p, File("wkt"), "copy", left)
    BY <1>7 DEF LinkRepository, LinkDir, Copy
  <2>3. File("wkt") # Link
    BY DEF File, Link
  <2> QED
    BY <2>1, <2>2, <2>3, PlaceLeads
<1>8. CASE Carry /\ ~Refuse
  <2> DEFINE plan == CarryPlan(ws, selected)
  <2>1. /\ stage = "placing"
        /\ UNCHANGED <<repos, selected, home, target, seam, fix, touched, whole, attached>>
        /\ slots' = slots \cup {[path |-> p, type |-> "carry"] : p \in plan}
        /\ \A p \in plan : tree[p].is # "dir"
        /\ tree' = [p \in Paths |-> IF p \in plan THEN File("carry")
                                    ELSE IF \E q \in plan : Below(q, p) THEN Dir ELSE tree[p]]
    BY <1>8 DEF Carry, life
  <2>2. plan \subseteq Paths /\ \A p \in plan : \E r \in selected : Below(p, r)
    BY DEF CarryPlan
  <2> HIDE DEF plan
  <2>3. Linked' = Linked /\ Way' = Way
    BY <2>1, LinkedStays DEF Way
  <2>4. /\ selected \subseteq repos /\ repos \subseteq Paths
        /\ \A p \in Linked, r \in selected : ~Within(p, r)
    BY DEF Known, Shape, Typed, Outside
  <2>5. ASSUME NEW p \in Linked PROVE tree'[p] = tree[p]
    <3>1. p \in Paths \ Way
      BY DEF Lead
    <3>2. p \notin plan
      BY <2>2, <2>4, <3>1, WithinIsBelow
    <3>3. ASSUME NEW q \in plan, Below(q, p) PROVE FALSE
      <4>1. PICK r \in selected : Below(q, r)
        BY <2>2
      <4>2. p = r \/ Below(p, r) \/ Below(r, p)
        BY <2>2, <2>4, <3>1, <3>3, <4>1, OneWay, WithinIsBelow
      <4>3. ~Below(r, p)
        BY <2>4, <3>1 DEF Way, Ancestors
      <4> QED
        BY <2>4, <3>1, <4>2, <4>3, WithinIsBelow
    <3> QED
      BY <2>1, <3>1, <3>2, <3>3
  <2>6. \A q \in Paths : tree[q].is = "dir" => tree'[q].is = "dir"
    BY <2>1, ThingsAreThings
  <2>7. attached' = selected'
    BY <1>1, <2>1 DEF Lead
  <2> QED
    BY <1>1, <2>1, <2>3, <2>5, <2>6, <2>7, MakingLeads
<1> QED
  BY <1>2, <1>3, <1>4, <1>5, <1>6, <1>7, <1>8 DEF Creation
\* What a step in a tree's life has to keep.
LEMMA LifeLeadsIf ==
  ASSUME Known, Lead, stage = "live", UNCHANGED making, Linked' = Linked,
         target' \in [Paths -> Seq(STRING)],
         \A p \in Linked : Sound(p)',
         seam'.pc = "idle" => seam'.held = {},
         whole' => (\A p \in Linked : Fine(p)') /\ attached' = selected,
         fix'.pc # "idle" /\ fix'.clean => \A p \in Linked \ fix'.todo : Fine(p)',
         fix'.pc = "links" /\ fix'.clean => attached' = selected
  PROVE  Lead'
<1>1. stage' = stage /\ selected' = selected /\ Way' = Way
  BY DEF making, Way
<1> QED
  BY <1>1 DEF Lead

\* A step of agent, script or seam, as far as it leaves fine links fine.
LEMMA OthersLead ==
  ASSUME Known, Lead, stage = "live", UNCHANGED making, Linked' = Linked,
         UNCHANGED <<home, target, attached, whole>>, touched \subseteq touched',
         fix' = fix \/ fix' = NoFix \/ fix' = [fix EXCEPT !.clean = FALSE],
         seam'.pc = "idle" => seam'.held = {},
         \A p \in Linked :
           Taken(p)' \/ (Sound(p)' /\ (tree'[p] = tree[p] \/ tree'[p] = Link \/ p \in seam'.held)),
         \A p \in Linked : Taken(p)' \/ (p \in seam.held => p \in seam'.held \/ tree'[p] = Link)
  PROVE  Lead'
<1>1. ASSUME NEW p \in Linked PROVE Sound(p)' /\ (Fine(p) => Fine(p)')
  <2>1. p \in Paths /\ (Taken(p) => Taken(p)')
    BY DEF Lead, Taken
  <2>2. Sound(p)'
    BY DEF Sound
  <2>3. CASE Taken(p)'
    BY <2>2, <2>3 DEF Fine
  <2>4. CASE ~Taken(p)'
    BY <2>1, <2>2, <2>4 DEF Fine
  <2> QED
    BY <2>3, <2>4
<1>2. whole' => (\A p \in Linked : Fine(p)') /\ attached' = selected
  BY <1>1 DEF Lead
<1>3. /\ fix'.pc # "idle" /\ fix'.clean => fix' = fix
      /\ fix'.pc = "links" => fix.pc = "links"
  <2>1. CASE fix' = [fix EXCEPT !.clean = FALSE]
    BY <2>1 DEF Known, Ranges, FixType
  <2>2. CASE fix' = fix \/ fix' = NoFix
    BY <2>2 DEF NoFix
  <2> QED
    BY <2>1, <2>2
<1>4. fix'.pc # "idle" /\ fix'.clean => \A p \in Linked \ fix'.todo : Fine(p)'
  BY <1>1, <1>3 DEF Lead
<1>5. fix'.pc = "links" /\ fix'.clean => attached' = selected
  BY <1>3 DEF Lead
<1>6. target' \in [Paths -> Seq(STRING)]
  BY DEF Lead
<1> QED
  BY <1>1, <1>2, <1>4, <1>5, <1>6, LifeLeadsIf

LEMMA AgentLeads ==
  ASSUME Known, Lead, Agent \/ Script
  PROVE  Lead'
<1>1. PICK p \in Paths :
        \/ /\ tree[p].is # "dir"
           /\ \E v, S : /\ Changed(Put(tree, p, v), S)
                        /\ p \in S \/ ~\E q \in Slots(Placed) : Within(p, q)
        \/ Changed([q \in Paths |-> IF Within(q, p) THEN Nothing ELSE tree[q]],
                   {q \in Paths : Within(q, p)})
  <2>1. CASE Agent
    <3>1. PICK p \in Paths :
            \/ /\ tree[p].is # "dir" /\ Changed(Put(tree, p, File("agent")), {p})
            \/ /\ tree[p].is = "none"
               /\ Changed(Put(tree, p, [is |-> "dir", by |-> "agent"]), {p})
            \/ Changed([q \in Paths |-> IF Within(q, p) THEN Nothing ELSE tree[q]],
                       {q \in Paths : Within(q, p)})
      BY <2>1 DEF Agent
    <3>2. p \in {p} /\ (tree[p].is = "none" => tree[p].is # "dir")
      OBVIOUS
    <3> QED
      BY <3>1, <3>2
  <2>2. CASE Script
    <3>1. PICK p \in Paths :
            /\ tree[p].is # "dir"
            /\ \E v : \/ Changed(Put(tree, p, v), {p})
                      \/ Changed(Put(tree, p, v), {}) /\ ~\E q \in Slots(Placed) : Within(p, q)
      BY <2>2 DEF Script
    <3>2. p \in {p}
      OBVIOUS
    <3> QED
      BY <3>1, <3>2
  <2> QED
    BY <2>1, <2>2
<1>2. /\ UNCHANGED <<making, home, target, attached, whole, slots, seam>>
      /\ touched \subseteq touched' /\ fix' = [fix EXCEPT !.clean = FALSE] /\ stage = "live"
  BY <1>1 DEF Changed, Agent, Script, Known, Shape, Typed
<1>3. Linked' = Linked /\ Linked \subseteq Slots(Placed) /\ Linked \subseteq Paths
  BY <1>2 DEF Linked, Slots, Placed, Known, Shape, Typed
<1>4. \A q \in Linked : Taken(q)' \/ (Sound(q)' /\ tree'[q] = tree[q])
  <2>1. SUFFICES ASSUME NEW q \in Linked PROVE Taken(q)' \/ (Sound(q)' /\ tree'[q] = tree[q])
    OBVIOUS
  <2>2. Sound(q) /\ q \in Paths
    BY <1>3 DEF Lead
  <2>3. CASE /\ tree[p].is # "dir"
             /\ \E v, S : /\ Changed(Put(tree, p, v), S)
                          /\ p \in S \/ ~\E o \in Slots(Placed) : Within(p, o)
    <3>1. PICK v, S : /\ Changed(Put(tree, p, v), S)
                      /\ p \in S \/ ~\E o \in Slots(Placed) : Within(p, o)
      BY <2>3
    <3>2. tree' = Put(tree, p, v) /\ touched' = touched \cup S
      BY <3>1 DEF Changed
    <3>3. Within(p, q) => p \in touched'
      BY <1>3, <3>1, <3>2
    <3> QED
      BY <1>2, <2>2, <2>3, <3>2, <3>3, PutSpares
  <2>4. CASE Changed([o \in Paths |-> IF Within(o, p) THEN Nothing ELSE tree[o]],
                     {o \in Paths : Within(o, p)})
    <3>1. /\ \A o \in Paths : tree'[o] = IF o = p \/ Below(o, p) THEN Nothing ELSE tree[o]
          /\ \A o \in Paths : o = p \/ Below(o, p) => o \in touched'
      BY <2>4, WithinIsBelow DEF Changed
    <3>2. CASE q = p \/ Below(q, p)
      <4>1. q \in touched' /\ Within(q, q)
        BY <2>2, <3>1, <3>2, WithinIsBelow
      <4> QED
        BY <4>1 DEF Taken
    <3>3. CASE ~(q = p \/ Below(q, p))
      <4>1. tree'[q] = tree[q] /\ (Taken(q) => Taken(q)')
        BY <1>2, <2>2, <3>1, <3>3 DEF Taken
      <4>2. \A o \in Paths : Below(q, o) => tree'[o] = tree[o]
        BY <2>2, <3>1, <3>3, BelowOrders
      <4> QED
        BY <2>2, <4>1, <4>2 DEF Sound
    <3> QED
      BY <3>2, <3>3
  <2> QED
    BY <1>1, <2>3, <2>4
<1>5. seam'.pc = "idle" => seam'.held = {}
  BY <1>2 DEF Lead
<1> QED
  BY <1>2, <1>3, <1>4, <1>5, OthersLead

\* The seam puts every link back it has taken, where nobody else has been.
LEMMA RestoredLeads ==
  ASSUME Known, Lead, stage = "live", UNCHANGED making, Linked' = Linked,
         UNCHANGED <<home, target, attached, whole, touched, fix>>,
         seam' = NoSeam, tree' = Restored
  PROVE  Lead'
<1>1. ASSUME NEW p \in Linked
      PROVE  Taken(p)' \/ (Sound(p)' /\ (tree'[p] = tree[p] \/ tree'[p] = Link)
                           /\ (p \in seam.held => tree'[p] = Link))
  <2>1. Sound(p) /\ p \in Paths
    BY DEF Lead
  <2>2. CASE Taken(p)
    BY <2>2 DEF Taken
  <2>3. CASE ~Taken(p)
    <3>1. /\ tree[p] \in {Nothing, Link}
          /\ \A q \in Paths : Below(p, q) => tree[q].is = "dir"
      BY <2>1, <2>3 DEF Sound
    <3>2. \A q \in Paths : tree'[q] = tree[q] \/ (tree[q].is = "none" /\ tree'[q] = Link)
      BY RestoredStands DEF Known
    <3>3. \A q \in Paths : Below(p, q) => tree'[q].is = "dir"
      BY <3>1, <3>2
    <3>4. p \in seam.held => tree'[p] = Link
      <4>1. SUFFICES ASSUME p \in seam.held, tree[p] = Nothing PROVE tree'[p] = Link
        BY <2>1, <3>1, <3>2, ThingsAreThings
      <4>2. Len(p) = 1 \/ (Len(p) > 1 /\ Front(p) \in Paths /\ Below(p, Front(p)))
        <5>1. Len(p) = 1 \/ Len(p) > 1
          <6> DEFINE n == Len(p)
          <6>1. p \in Seq(STRING) /\ p # <<>>
            BY <2>1, PathsAssumption
          <6>2. n \in Nat /\ n >= 1
            BY <6>1
          <6> HIDE DEF n
          <6>3. n = 1 \/ n > 1
            BY <6>2
          <6> QED
            BY <6>3 DEF n
        <5> QED
          BY <2>1, <5>1, AboveIsFront
      <4>3. Len(p) = 1 \/ tree[Front(p)].is = "dir"
        BY <3>1, <4>2
      <4> QED
        BY <2>1, <4>1, <4>3, ThingsAreThings DEF Restored
    <3>5. tree'[p] \in {Nothing, Link}
      BY <2>1, <3>1, <3>2
    <3> QED
      BY <2>1, <3>2, <3>3, <3>4, <3>5 DEF Sound
  <2> QED
    BY <2>2, <2>3
<1>2. seam'.held = {}
  BY DEF NoSeam
<1> QED
  BY <1>1, <1>2, OthersLead
LEMMA SeamLeads ==
  ASSUME Known, Lead, \/ SeamBegin \/ SeamRun \/ SeamRecord \/ SeamRestore
                      \/ \E p \in Paths : Withdraw(p)
  PROVE  Lead'
<1>1. /\ stage = "live"
      /\ UNCHANGED <<making, home, target, attached, whole, touched>>
      /\ fix' = fix \/ fix' = [fix EXCEPT !.clean = FALSE]
  <2>1. CASE SeamBegin
    BY <2>1 DEF SeamBegin, Seam
  <2>2. CASE SeamRun \/ SeamRecord \/ SeamRestore
    BY <2>2 DEF SeamRun, SeamRecord, SeamRestore, Seam, Known, Shape, Typed, NoSeam
  <2>3. CASE \E p \in Paths : Withdraw(p)
    <3>1. PICK p \in Paths : Withdraw(p)
      BY <2>3
    <3>2. seam.pc = "withdraw" /\ UNCHANGED <<target, fix, whole>>
      BY <3>1 DEF Withdraw
    <3>3. UNCHANGED <<making, home, attached, touched>>
      BY <3>1 DEF Withdraw, Seam
    <3>4. stage = "live"
      BY <3>2 DEF Known, Shape, Typed, NoSeam
    <3> QED
      BY <3>2, <3>3, <3>4
  <2> QED
    BY <2>1, <2>2, <2>3
<1>2. Linked' = Linked
  <2>1. CASE SeamRecord
    <3>1. PICK new : slots' = slots \cup {[path |-> p, type |-> "produced"] : p \in new}
      BY <2>1 DEF SeamRecord
    <3> QED
      BY <3>1, LinkedStays
  <2>2. CASE ~SeamRecord
    <3>1. slots' = slots
      BY <2>2 DEF SeamBegin, SeamRun, SeamRestore, Withdraw
    <3> QED
      BY <3>1 DEF Linked, Slots
  <2> QED
    BY <2>1, <2>2
<1>3. /\ \A p \in Linked : Sound(p) /\ p \in Paths /\ (Taken(p)' <=> Taken(p))
      /\ seam.pc = "idle" => seam.held = {}
  BY <1>1 DEF Lead, Taken
<1>4. ASSUME tree' = tree, seam'.held = seam.held, seam'.pc = "idle" => seam.pc = "idle"
      PROVE  Lead'
  <2>1. \A p \in Linked : Sound(p)'
    BY <1>3, <1>4 DEF Sound
  <2> QED
    BY <1>1, <1>2, <1>3, <1>4, <2>1, OthersLead
<1>5. CASE SeamBegin
  <2>1. tree' = tree /\ seam'.held = {} /\ seam.pc = "idle"
    BY <1>5 DEF SeamBegin, Seam, NoSeam
  <2> QED
    BY <1>3, <1>4, <2>1
<1>6. CASE SeamRun \/ SeamRecord
  <2>1. tree' = tree /\ seam'.held = seam.held /\ seam'.pc \in {"script", "restore"}
    BY <1>6 DEF SeamRun, SeamRecord, Seam, Known, Ranges, SeamType
  <2> QED
    BY <1>4, <2>1
<1>7. CASE SeamRestore
  <2>1. tree' = Restored /\ seam' = NoSeam /\ fix' = fix
    BY <1>7 DEF SeamRestore, Seam
  <2> QED
    BY <1>1, <1>2, <2>1, RestoredLeads
<1>8. ASSUME NEW p \in Paths, Withdraw(p) PROVE Lead'
  <2>1. fix' = fix /\ p \in seam.todo /\ seam.pc = "withdraw" /\ seam \in SeamType
    BY <1>8 DEF Withdraw, Known, Ranges
  <2>2. CASE Clear(p)
    <3>1. tree' = tree /\ seam' = [seam EXCEPT !.todo = @ \ {p}]
      BY <1>8, <2>2 DEF Withdraw, Seam, Clear
    <3>2. seam'.held = seam.held /\ seam'.pc = seam.pc
      BY <3>1
    <3> QED
      BY <1>4, <3>1, <3>2
  <2>3. CASE tree[p].is = "link"
    <3>1. /\ tree' = [tree EXCEPT ![p] = Nothing]
          /\ seam' = [seam EXCEPT !.todo = @ \ {p}, !.held = @ \cup {p}]
      BY <1>8, <2>3, ThingsAreThings DEF Withdraw, Seam, Clear
    <3>2. seam'.held = seam.held \cup {p} /\ seam'.pc = "withdraw"
      BY <2>1, <3>1 DEF SeamType
    <3>3. tree'[p] = Nothing /\ \A q \in Paths : q # p => tree'[q] = tree[q]
      BY <3>1 DEF Known, Shape, Typed
    <3>4. \A q \in Paths : tree[q].is = "dir" => tree'[q] = tree[q]
      BY <2>3, <3>3
    <3>5. ASSUME NEW q \in Linked
          PROVE  Taken(q)' \/ (Sound(q)' /\ (tree'[q] = tree[q] \/ q \in seam'.held))
      <4>1. CASE Taken(q)
        BY <1>3, <4>1
      <4>2. CASE ~Taken(q)
        <5>1. /\ tree[q] \in {Nothing, Link} /\ q \in Paths
              /\ \A o \in Paths : Below(q, o) => tree[o].is = "dir"
          BY <1>3, <4>2 DEF Sound
        <5>2. tree'[q] \in {Nothing, Link} /\ (tree'[q] = tree[q] \/ q \in seam'.held)
          BY <3>2, <3>3, <5>1
        <5>3. \A o \in Paths : Below(q, o) => tree'[o].is = "dir"
          BY <3>4, <5>1
        <5> QED
          BY <5>2, <5>3 DEF Sound
      <4> QED
        BY <4>1, <4>2
    <3>6. seam.held \subseteq seam'.held
      BY <3>2
    <3> QED
      BY <1>1, <1>2, <2>1, <3>2, <3>5, <3>6, OthersLead
  <2>4. CASE tree[p].is # "link" /\ ~Clear(p)
    <3>1. tree' = Restored /\ seam' = NoSeam
      BY <1>8, <2>4 DEF Withdraw, Seam, Clear
    <3> QED
      BY <1>1, <1>2, <2>1, <3>1, RestoredLeads
  <2> QED
    BY <2>2, <2>3, <2>4
<1> QED
  BY <1>5, <1>6, <1>7, <1>8

\* A repair makes a slot good that nobody has taken.
LEMMA FixLinkLeads ==
  ASSUME Known, Lead, NEW p \in Paths, FixLink(p)
  PROVE  Lead'
<1>1. /\ fix.pc = "links" /\ p \in fix.todo /\ fix' = [fix EXCEPT !.todo = @ \ {p}]
      /\ UNCHANGED <<making, home, seam, touched, slots, attached, whole>>
      /\ stage = "live" /\ p \in Linked /\ fix \in FixType
  BY DEF FixLink, Fix, Known, Shape, Typed, NoFix, Ranges
<1>2. Linked' = Linked
  BY <1>1 DEF Linked, Slots
<1>3. fix.wsAt = home.ws /\ home.ws \o p \in Seq(STRING)
  BY <1>1, TargetsAreSequences DEF Known, Located
<1>4. \A q \in Linked : Sound(q) /\ q \in Paths /\ (Taken(q)' <=> Taken(q))
  BY <1>1 DEF Lead, Taken
<1>5. target' = target \/ target' = [target EXCEPT ![p] = home.ws \o p]
  BY <1>3 DEF FixLink
<1>6. target' \in [Paths -> Seq(STRING)] /\ \A q \in Paths : q # p => target'[q] = target[q]
  BY <1>3, <1>5 DEF Lead
<1>7. /\ \A q \in Paths : q # p /\ ~Below(p, q) => tree'[q] = tree[q]
      /\ \A q \in Paths : q # p /\ tree[q].is = "dir" => tree'[q] = tree[q]
      /\ tree'[p] = Link \/ tree'[p] = tree[p]
  BY DEF FixLink, Put
<1>8. ASSUME NEW q \in Linked, q # p PROVE Sound(q)' /\ (Fine(q) => Fine(q)')
  <2>1. /\ p \in Paths \ Way /\ q \in Paths \ Way
        /\ \A o \in Paths : Below(q, o) => o \in Way
        /\ \A o \in Paths : Below(p, o) => o \in Way
    BY <1>1 DEF Lead
  <2>2. tree'[q] = tree[q]
    BY <1>7, <1>8, <2>1
  <2>3. Sound(q)'
    BY <1>4, <1>7, <2>1, <2>2 DEF Sound
  <2> QED
    BY <1>1, <1>4, <1>6, <1>8, <2>2, <2>3, FineStays
<1>9. Sound(p)' /\ Fine(p)'
  <2>1. CASE Taken(p)
    BY <1>1, <1>4, <2>1 DEF Sound, Fine
  <2>2. CASE ~Taken(p)
    <3>1. /\ tree[p] \in {Nothing, Link} /\ \A q \in Paths : Below(p, q) => tree[q].is = "dir"
      BY <1>1, <1>4, <2>2 DEF Sound
    <3>2. Mendable(p)
      BY <3>1, ThingsAreThings DEF Mendable
    <3>3. tree' = Put(tree, p, Link) /\ target' = [target EXCEPT ![p] = fix.wsAt \o p]
      BY <3>1, <3>2 DEF FixLink
    <3>4. tree'[p] = Link /\ target'[p] = home.ws \o p
      BY <1>3, <3>3 DEF Put, Lead
    <3>5. \A q \in Paths : Below(p, q) => tree'[q].is = "dir"
      <4>1. \A q \in Paths : Below(p, q) => q # p
        BY DEF Below, IsStrictPrefix
      <4> QED
        BY <1>7, <3>1, <4>1
    <3> QED
      BY <1>1, <3>4, <3>5 DEF Sound, Fine
  <2> QED
    BY <2>1, <2>2
<1>10. whole' => (\A q \in Linked : Fine(q)') /\ attached' = selected
  BY <1>1, <1>8, <1>9 DEF Lead
<1>11. fix'.pc = "links" /\ fix'.clean = fix.clean /\ fix'.todo = fix.todo \ {p}
  BY <1>1 DEF FixType
<1>12. fix'.clean => \A q \in Linked \ fix'.todo : Fine(q)'
  BY <1>1, <1>8, <1>9, <1>11 DEF Lead
<1>13. (fix'.clean => attached' = selected) /\ (seam'.pc = "idle" => seam'.held = {})
  BY <1>1, <1>11 DEF Lead
<1> QED
  BY <1>1, <1>2, <1>6, <1>8, <1>9, <1>10, <1>12, <1>13, LifeLeadsIf

LEMMA LifeLeads ==
  ASSUME Known, Lead, [Next]_vars, ~Creation
  PROVE  Lead'
<1>1. CASE UNCHANGED vars
  <2>1. UNCHANGED <<stage, repos, selected, tree, slots, home, target, attached, seam, fix,
                    touched, whole>>
    BY <1>1 DEF vars, making, life
  <2>2. UNCHANGED <<Linked, Way>>
    BY <2>1 DEF Linked, Slots, Way
  <2> QED
    BY <2>1, <2>2 DEF Lead, Sound, Fine, Taken
<1>2. CASE Agent \/ Script
  BY <1>2, AgentLeads
<1>3. CASE \/ SeamBegin \/ SeamRun \/ SeamRecord \/ SeamRestore
           \/ \E p \in Paths : Withdraw(p)
  BY <1>3, SeamLeads
<1>4. ASSUME NEW p \in Paths, FixLink(p) PROVE Lead'
  BY <1>4, FixLinkLeads
<1>5. ASSUME stage = "live", UNCHANGED <<making, slots, tree>>, touched \subseteq touched'
      PROVE  /\ Linked' = Linked /\ \A p \in Linked : Sound(p)' /\ (Taken(p) => Taken(p)')
  <2>1. \A p \in Linked : Sound(p) /\ p \in Paths /\ (Taken(p) => Taken(p)')
    BY <1>5 DEF Lead, Taken
  <2>2. \A p \in Linked : Sound(p)'
    BY <1>5, <2>1 DEF Sound
  <2>3. Linked' = Linked
    BY <1>5 DEF Linked, Slots
  <2> QED
    BY <2>1, <2>2, <2>3
<1>6. CASE ScriptEnds
  <2>1. /\ stage = "live" /\ UNCHANGED <<making, slots, tree, touched, home, target, attached, whole,
                                         seam, fix>>
    BY <1>6 DEF ScriptEnds, Known, Shape, Typed
  <2>2. seam'.pc = "idle" => seam'.held = {}
    BY <2>1 DEF Lead
  <2> QED
    BY <1>5, <2>1, <2>2, OthersLead
<1>7. CASE Crash
  <2>1. /\ stage = "live" /\ UNCHANGED <<making, slots, tree, home, target, attached>>
        /\ touched \subseteq touched'
        /\ \/ /\ seam' = NoSeam /\ whole' = FALSE /\ fix' = [fix EXCEPT !.clean = FALSE]
           \/ UNCHANGED <<seam, whole>> /\ fix' = NoFix
    <3>1. seam.pc # "idle" \/ fix.pc # "idle"
      BY <1>7 DEF Crash
    <3>2. stage = "live"
      BY <3>1 DEF Known, Shape, Typed, NoSeam, NoFix
    <3> QED
      BY <1>7, <3>2 DEF Crash
  <2>2. CASE UNCHANGED <<seam, whole>> /\ fix' = NoFix
    <3>1. seam'.pc = "idle" => seam'.held = {}
      BY <2>2 DEF Lead
    <3> QED
      BY <1>5, <2>1, <2>2, <3>1, OthersLead
  <2>3. CASE seam' = NoSeam /\ whole' = FALSE /\ fix' = [fix EXCEPT !.clean = FALSE]
    <3>1. fix'.clean = FALSE /\ fix'.pc = fix.pc /\ seam'.held = {}
      BY <2>3 DEF Known, Ranges, FixType, NoSeam
    <3>3. target' \in [Paths -> Seq(STRING)]
      BY <2>1 DEF Lead
    <3> QED
      BY <1>5, <2>1, <2>3, <3>1, <3>3, LifeLeadsIf
  <2> QED
    BY <2>1, <2>2, <2>3
<1>8. CASE Move
  <2>1. /\ stage = "live" /\ UNCHANGED <<making, slots, tree, target, seam, touched, fix>>
        /\ whole' = FALSE /\ fix.pc = "idle"
    BY <1>8 DEF Move
  <2>2. target' \in [Paths -> Seq(STRING)] /\ (seam'.pc = "idle" => seam'.held = {})
    BY <2>1 DEF Lead
  <2> QED
    BY <1>5, <2>1, <2>2, LifeLeadsIf
<1>9. ASSUME stage = "live", UNCHANGED <<making, slots, tree, target, seam, touched, home>>
      PROVE  /\ Linked' = Linked /\ target' \in [Paths -> Seq(STRING)]
             /\ \A p \in Linked : Sound(p)' /\ (Fine(p) => Fine(p)')
             /\ seam'.pc = "idle" => seam'.held = {}
  <2>1. \A p \in Linked : Fine(p) => Fine(p)'
    BY <1>9 DEF Fine, Taken
  <2> QED
    BY <1>5, <1>9, <2>1 DEF Lead
<1>10. CASE FixLoad
  <2>1. /\ stage = "live" /\ UNCHANGED <<making, slots, tree, target, seam, touched, home,
                                         attached, whole>>
        /\ fix'.todo = Linked /\ fix'.pc # "links"
    BY <1>10 DEF FixLoad, Fix, Linked
  <2>2. whole' => (\A p \in Linked : Fine(p)') /\ attached' = selected
    BY <1>9, <2>1 DEF Lead
  <2> QED
    BY <1>9, <2>1, <2>2, LifeLeadsIf
<1>11. CASE FixRules
  <2>1. /\ stage = "live" /\ UNCHANGED <<making, slots, tree, target, seam, touched, home,
                                         attached, whole>>
        /\ fix' = [fix EXCEPT !.pc = "worktrees"] /\ fix.pc = "rules"
    BY <1>11 DEF FixRules, Fix, Known, Shape, Typed, NoFix
  <2>2. fix'.pc = "worktrees" /\ fix'.todo = fix.todo /\ fix'.clean = fix.clean
    BY <2>1 DEF Known, Ranges, FixType
  <2>3. whole' => (\A p \in Linked : Fine(p)') /\ attached' = selected
    BY <1>9, <2>1 DEF Lead
  <2>4. fix'.clean => \A p \in Linked \ fix'.todo : Fine(p)'
    BY <1>9, <2>1, <2>2 DEF Lead
  <2> QED
    BY <1>9, <2>1, <2>2, <2>3, <2>4, LifeLeadsIf
<1>12. CASE FixWorktrees
  <2>1. /\ stage = "live" /\ UNCHANGED <<making, slots, tree, target, seam, touched, home, whole>>
        /\ fix' = [fix EXCEPT !.pc = "links", !.clean =
                     @ /\ (rec.treesAt = TreesOf(home) => attached' = selected)]
        /\ fix.pc = "worktrees" /\ attached \subseteq attached' /\ attached' \subseteq selected
    BY <1>12 DEF FixWorktrees, Fix, Known, Shape, Typed, NoFix
  <2>2. /\ fix'.pc = "links" /\ fix'.todo = fix.todo
        /\ fix'.clean => fix.clean /\ attached' = selected
    <3>1. rec.treesAt = TreesOf(home)
      BY <2>1 DEF Known, Located, RecordAt
    <3> QED
      BY <2>1, <3>1 DEF Known, Ranges, FixType
  <2>4. whole' => (\A p \in Linked : Fine(p)') /\ attached' = selected
    BY <1>9, <2>1 DEF Lead
  <2>5. fix'.clean => \A p \in Linked \ fix'.todo : Fine(p)'
    BY <1>9, <2>1, <2>2 DEF Lead
  <2> QED
    BY <1>9, <2>1, <2>2, <2>4, <2>5, LifeLeadsIf
<1>13. CASE FixEnd
  <2>1. /\ stage = "live" /\ UNCHANGED <<making, slots, tree, target, seam, touched, home, attached>>
        /\ fix' = NoFix /\ fix.pc = "links" /\ fix.todo = {} /\ whole' = (whole \/ fix.clean)
    BY <1>13 DEF FixEnd, Fix, Known, Shape, Typed, NoFix
  <2>2. whole' => attached' = selected
    BY <2>1 DEF Lead
  <2>3. whole' => \A p \in Linked : Fine(p)'
    <3>1. CASE whole
      BY <1>9, <2>1, <3>1 DEF Lead
    <3>2. CASE fix.clean
      BY <1>9, <2>1, <3>2 DEF Lead
    <3> QED
      BY <2>1, <3>1, <3>2
  <2>4. fix'.pc = "idle"
    BY <2>1 DEF NoFix
  <2> QED
    BY <1>9, <2>1, <2>2, <2>3, <2>4, LifeLeadsIf
<1> QED
  BY <1>1, <1>2, <1>3, <1>4, <1>6, <1>7, <1>8, <1>10, <1>11, <1>12, <1>13 DEF Next

-----------------------------------------------------------------------------
\* Whoever else is at the tree, and wherever it has been moved: when no seam
\* and no repair is under way, and nothing is broken that no repair has come
\* to the end of since (runSeam, WithdrawBackFill, relocate, Repair), every
\* link nobody has taken leads to its path of the workspace as it is now, and
\* git finds every worktree.
THEOREM LinksAreMended == Spec => []LinksStand
<1>1. Init => Known /\ Lead
  <2> SUFFICES ASSUME Init PROVE Known /\ Lead
    OBVIOUS
  <2>1. Linked = {}
    BY DEF Init, Linked, Slots
  <2>2. target \in [Paths -> Seq(STRING)]
    <3>1. <<>> \in Seq(STRING)
      OBVIOUS
    <3> QED
      BY <3>1 DEF Init
  <2>3. Lead
    BY <2>1, <2>2 DEF Init, Lead, NoSeam, NoFix
  <2> QED
    BY <2>3, InvInit, ShapeInit, LocatedInit DEF Known
<1>2. Known /\ Lead /\ [Next]_vars => Known' /\ Lead'
  BY KnownStep, CreationLeads, LifeLeads
<1>3. Known /\ Lead => LinksStand
  <2> SUFFICES ASSUME Known, Lead, Resting PROVE LinksStand
    BY DEF LinksStand
  <2>1. seam.held = {} /\ attached = selected /\ \A p \in Linked : Fine(p)
    BY DEF Resting, Lead
  <2> QED
    BY <2>1 DEF LinksStand, Linked, Fine, Taken
<1> QED
  BY <1>1, <1>2, <1>3, PTL DEF Spec
-----------------------------------------------------------------------------
(* Reasons: in a tree nobody else has been at, whatever stands has one that *)
(* Preflight knows.                                                        *)

Copied == Slots({"copy"})

\* Made since the seam has looked.
Watched(p) == seam.pc = "script" /\ p \notin seam.before

\* What wkt has placed is as it was placed.
Pristine ==
  /\ \A p \in Copied : tree[p] = File("wkt") /\ \A r \in selected : ~Within(p, r)
  /\ \A p \in Carried : /\ tree[p] = File("carry")
                        /\ \A r \in selected : Below(p, r) => RuledOut(p, r)
  /\ \A p \in base \ Carried : tree[p] = File("base")

\* A file in a worktree is git's or carried, or it is the script's and git
\* reports it under its own name.
Inside ==
  \A p \in Paths, r \in selected :
    tree[p].is = "file" /\ Below(p, r) =>
      \/ p \in base \cup Carried
      \/ /\ RuledOut(p, r) /\ Cut(p, r) = p
         /\ p \in Produced \/ (Watched(p) /\ seam.asked = selected)

\* What is around the worktrees has a reason to be there.
Around ==
  \A p \in Paths :
    tree[p].is \in {"dir", "file"} /\ (\A r \in selected : ~Within(p, r)) =>
      \/ p \in Copied \/ \E q \in selected \cup Slots(Placed) : Below(q, p)
      \/ Remade(p) \/ p \in Produced \/ Watched(p)

\* What the seam has seen is still there, and git still answers.
Seen ==
  seam.pc = "script" =>
    /\ seam.asked \subseteq attached
    /\ \A p \in seam.before : tree[p].is \in {"dir", "file"}

Kept ==
  /\ stage = "start" => base = {} /\ \A p \in Paths : tree[p].is = "none"
  /\ whole => rec.place = home
  /\ touched = {} => Pristine /\ Inside /\ Around /\ Seen

\* The slots of some types, as the actions change the records.
LEMMA SlotsOf ==
  ASSUME NEW T, NEW S, NEW t, slots' = slots \cup {[path |-> p, type |-> t] : p \in S}
  PROVE  Slots(T)' = IF t \in T THEN Slots(T) \cup S ELSE Slots(T)
<1> DEFINE New == {[path |-> p, type |-> t] : p \in S}
<1>1. \A x : x \in Slots(T) <=> \E s \in slots : s.type \in T /\ s.path = x
  BY DEF Slots
<1>2. \A x : x \in Slots(T)' <=> \E s \in slots' : s.type \in T /\ s.path = x
  BY DEF Slots
<1>3. /\ \A s \in New : s.type = t /\ s.path \in S
      /\ \A p \in S : \E s \in New : s.type = t /\ s.path = p
  <2>1. ASSUME NEW p \in S PROVE \E s \in New : s.type = t /\ s.path = p
    <3> WITNESS [path |-> p, type |-> t] \in New
    <3> QED
      OBVIOUS
  <2> QED
    BY <2>1
<1>4. \A s : s \in slots' <=> s \in slots \/ s \in New
  OBVIOUS
<1> HIDE DEF New
<1>5. \A x : x \in Slots(T)' <=> x \in Slots(T) \/ (t \in T /\ x \in S)
  BY <1>1, <1>2, <1>3, <1>4
<1> QED
  BY <1>5

\* Where nothing is recorded nothing is owed a reason.
LEMMA SlotsArePaths ==
  ASSUME Known
  PROVE  /\ Copied \subseteq Paths /\ Carried \subseteq Paths /\ base \subseteq Paths
         /\ Copied \subseteq Slots(Placed) /\ Carried \subseteq Slots(Placed)
         /\ Linked \subseteq Slots(Placed) /\ Slots(Placed) \subseteq Paths
BY DEF Known, Shape, Typed, Copied, Carried, Linked, Slots, Placed

\* A worktree is below no other.
LEMMA OneWorktree ==
  ASSUME Known, NEW p \in Paths, NEW r \in selected, NEW q \in selected,
         Below(p, r), Below(p, q)
  PROVE  q = r
<1>1. r \in Paths /\ q \in Paths /\ ~Below(r, q) /\ ~Below(q, r)
  BY DEF Known, Shape, Typed
<1>2. Within(p, r) /\ Within(p, q)
  BY <1>1, WithinIsBelow
<1> QED
  BY <1>1, <1>2, OneWay

\* What the script has made since the seam has looked, the seam will find.
LEMMA WatchedIsShown ==
  ASSUME Known, Kept, touched = {}, NEW p \in Paths, Watched(p)
  PROVE  /\ (tree[p].is \in {"dir", "file"} /\ \A r \in selected : ~Within(p, r))
              => Remade(p) \/ p \in Snapshot(tree, base, selected, attached)
         /\ \A r \in selected :
              (/\ tree[p].is = "file" /\ Below(p, r) /\ p \notin base
               /\ RuledOut(p, r) /\ Cut(p, r) = p /\ seam.asked = selected)
                => p \in Snapshot(tree, base, selected, attached)
<1>1. ASSUME tree[p].is \in {"dir", "file"}, \A r \in selected : ~Within(p, r), ~Remade(p)
      PROVE  p \in Snapshot(tree, base, selected, attached)
  <2>1. ~\E q \in Regenerable : Below(p, q)
    BY <1>1, NamesAssumption, WithinIsBelow DEF Remade
  <2> QED
    BY <1>1, <2>1, SnapshotParts
<1>2. ASSUME NEW r \in selected, tree[p].is = "file", Below(p, r), p \notin base,
             RuledOut(p, r), Cut(p, r) = p, seam.asked = selected
      PROVE  p \in Snapshot(tree, base, selected, attached)
  <2>1. r \in attached
    BY <1>2 DEF Kept, Seen, Watched
  <2>2. p \in IgnoredIn(tree, base, r)
    BY <1>2 DEF IgnoredIn
  <2> QED
    BY <2>1, <2>2, SnapshotParts
<1> QED
  BY <1>1, <1>2

\* A step that leaves files and directories alone, and lets nothing the script
\* has made go unrecorded unless it is no secret that others were there.
LEMMA KeptAside ==
  ASSUME Known, Kept, stage = "live", UNCHANGED making, base' = base,
         UNCHANGED <<Copied, Carried, Slots(Placed)>>, Produced \subseteq Produced',
         touched \subseteq touched', whole' => rec'.place = home',
         touched' = {} =>
           \A p \in Paths : tree[p].is \in {"dir", "file"} \/ tree'[p].is \in {"dir", "file"} =>
             tree'[p] = tree[p],
         touched' = {} =>
           \A p \in Snapshot(tree, base, selected, attached) :
             Watched(p) => p \in Produced' \/ (Watched(p)' /\ seam'.asked = seam.asked),
         touched' = {} /\ seam'.pc = "script" =>
           \/ Seen'
           \/ seam' = seam /\ attached \subseteq attached'
  PROVE  Kept'
<1>1. stage' = "live" /\ selected' = selected
  BY DEF making
<1>2. CASE touched' # {}
  BY <1>1, <1>2 DEF Kept
<1>3. CASE touched' = {}
  <2>1. touched = {} /\ Pristine /\ Inside /\ Around /\ Seen
    BY <1>3 DEF Kept
  <2>2. \A p \in Paths : tree[p].is \in {"dir", "file"} \/ tree'[p].is \in {"dir", "file"} =>
          tree'[p] = tree[p]
    BY <1>3
  <2>3. Pristine'
    <3>1. \A by \in {"wkt", "carry", "base"} :
            \A p \in Paths : tree[p] = File(by) => tree'[p] = File(by)
      BY <2>2, ThingsAreThings
    <3>2. \A p \in Copied' : tree'[p] = File("wkt") /\ \A r \in selected' : ~Within(p, r)
      BY <1>1, <2>1, <3>1, SlotsArePaths DEF Pristine
    <3>3. \A p \in Carried' : /\ tree'[p] = File("carry")
                              /\ \A r \in selected' : Below(p, r) => RuledOut(p, r)
      BY <1>1, <2>1, <3>1, SlotsArePaths DEF Pristine
    <3>4. \A p \in base' \ Carried' : tree'[p] = File("base")
      BY <2>1, <3>1, SlotsArePaths DEF Pristine
    <3> QED
      BY <3>2, <3>3, <3>4 DEF Pristine
  <2>4. Inside'
    <3>1. SUFFICES ASSUME NEW p \in Paths, NEW r \in selected,
                          tree'[p].is = "file", Below(p, r), p \notin base \cup Carried
                   PROVE  /\ RuledOut(p, r) /\ Cut(p, r) = p
                          /\ p \in Produced' \/ (Watched(p)' /\ seam'.asked = selected)
      BY <1>1 DEF Inside
    <3>2. tree[p].is = "file"
      BY <2>2, <3>1
    <3>3. /\ RuledOut(p, r) /\ Cut(p, r) = p
          /\ p \in Produced \/ (Watched(p) /\ seam.asked = selected)
      BY <2>1, <3>1, <3>2 DEF Inside
    <3>4. CASE p \in Produced
      BY <3>3, <3>4
    <3>5. CASE Watched(p) /\ seam.asked = selected
      <4>1. p \in Snapshot(tree, base, selected, attached)
        BY <2>1, <3>1, <3>2, <3>3, <3>5, WatchedIsShown
      <4> QED
        BY <1>3, <3>3, <3>5, <4>1
    <3> QED
      BY <3>3, <3>4, <3>5
  <2>5. Around'
    <3>1. SUFFICES ASSUME NEW p \in Paths, tree'[p].is \in {"dir", "file"},
                          \A r \in selected : ~Within(p, r)
                   PROVE  \/ p \in Copied \/ \E q \in selected \cup Slots(Placed) : Below(q, p)
                          \/ Remade(p) \/ p \in Produced' \/ Watched(p)'
      BY <1>1 DEF Around
    <3>2. tree[p].is \in {"dir", "file"}
      BY <2>2, <3>1
    <3>3. \/ p \in Copied \/ \E q \in selected \cup Slots(Placed) : Below(q, p)
          \/ Remade(p) \/ p \in Produced \/ Watched(p)
      BY <2>1, <3>1, <3>2 DEF Around
    <3>4. CASE Watched(p) /\ ~Remade(p)
      <4>1. p \in Snapshot(tree, base, selected, attached)
        BY <2>1, <3>1, <3>2, <3>4, WatchedIsShown
      <4> QED
        BY <1>3, <3>4, <4>1
    <3> QED
      BY <3>3, <3>4
  <2>6. Seen'
    <3>1. SUFFICES ASSUME seam'.pc = "script", seam' = seam,
                          attached \subseteq attached'
                   PROVE  Seen'
      BY <1>3 DEF Seen
    <3>2. seam.asked \subseteq selected /\ seam.before \subseteq Paths
      BY DEF Known, Shape, Typed, Ranges, SeamType
    <3>3. seam.asked \subseteq attached /\ \A p \in seam.before : tree[p].is \in {"dir", "file"}
      BY <2>1, <3>1 DEF Seen
    <3>4. \A p \in seam.before : tree'[p].is \in {"dir", "file"}
      BY <2>2, <3>2, <3>3
    <3> QED
      BY <3>1, <3>2, <3>3, <3>4 DEF Seen
  <2> QED
    BY <1>1, <2>3, <2>4, <2>5, <2>6 DEF Kept
<1> QED
  BY <1>2, <1>3

\* What a script makes that keeps to itself, the seam has not seen before.
LEMMA ScriptKept ==
  ASSUME Known, Kept, Script
  PROVE  Kept'
<1>1. PICK p \in Paths, is \in {"file", "dir"} :
        LET kept == /\ tree[p].is = "none" /\ seam.pc = "script"
                    /\ seam.asked = selected
                    /\ ~\E q \in Slots(Placed) : Within(p, q)
                    /\ \A r \in selected : Below(p, r) =>
                         RuledOut(p, r) /\ Cut(p, r) = p /\ is = "file"
        IN Changed(Put(tree, p, [is |-> is, by |-> "script"]), IF kept THEN {} ELSE {p})
  BY DEF Script
<1>2. /\ tree' = Put(tree, p, [is |-> is, by |-> "script"])
      /\ UNCHANGED <<stage, selected, seam, attached, base, slots, whole, rec, home>>
      /\ stage = "live" /\ touched \subseteq touched'
  BY <1>1 DEF Changed, making, Script, Known, Shape, Typed
<1>3. whole' => rec'.place = home'
  BY <1>2 DEF Kept
<1>4. CASE touched' # {}
  BY <1>2, <1>3, <1>4 DEF Kept
<1>5. CASE touched' = {}
  <2>1. /\ tree[p].is = "none" /\ seam.pc = "script" /\ seam.asked = selected
        /\ \A r \in selected : Below(p, r) =>
             RuledOut(p, r) /\ Cut(p, r) = p /\ is = "file"
    BY <1>1, <1>5 DEF Changed
  <2>2. touched = {} /\ Pristine /\ Inside /\ Around /\ Seen
    BY <1>2, <1>5 DEF Kept
  <2>3. /\ UNCHANGED <<Copied, Carried, Produced, Slots(Placed)>>
        /\ \A q \in Paths : Watched(q)' <=> Watched(q)
    BY <1>2 DEF Copied, Carried, Produced, Slots, Watched
  <2>4. /\ \A q \in Paths : tree[q].is # "none" => tree'[q] = tree[q]
        /\ \A q \in Paths : tree'[q] # tree[q] => q = p \/ tree'[q] = Dir
        /\ \A q \in Paths : tree'[q] # tree[q] => tree[q].is = "none"
        /\ tree'[p].is = is
    BY <1>2, <2>1 DEF Put
  <2>5. \A q \in Paths : tree'[q] # tree[q] => Watched(q)
    BY <2>1, <2>2, <2>4 DEF Seen, Watched
  <2>6. Pristine'
    <3>1. \A by \in {"wkt", "carry", "base"} :
            \A q \in Paths : tree[q] = File(by) => tree'[q] = File(by)
      BY <2>4, ThingsAreThings
    <3>2. \A q \in Copied' : tree'[q] = File("wkt") /\ \A r \in selected' : ~Within(q, r)
      BY <1>2, <2>2, <2>3, <3>1, SlotsArePaths DEF Pristine
    <3>3. \A q \in Carried' : /\ tree'[q] = File("carry")
                              /\ \A r \in selected' : Below(q, r) => RuledOut(q, r)
      BY <1>2, <2>2, <2>3, <3>1, SlotsArePaths DEF Pristine
    <3>4. \A q \in base' \ Carried' : tree'[q] = File("base")
      BY <1>2, <2>2, <2>3, <3>1, SlotsArePaths DEF Pristine
    <3> QED
      BY <3>2, <3>3, <3>4 DEF Pristine
  <2>7. Inside'
    <3>1. SUFFICES ASSUME NEW q \in Paths, NEW r \in selected, tree'[q].is = "file", Below(q, r)
                   PROVE  \/ q \in base \cup Carried
                          \/ /\ RuledOut(q, r) /\ Cut(q, r) = q
                             /\ q \in Produced \/ (Watched(q) /\ seam.asked = selected)
      BY <1>2, <2>3 DEF Inside
    <3>2. CASE tree'[q] = tree[q]
      BY <2>2, <3>1, <3>2 DEF Inside
    <3>3. CASE tree'[q] # tree[q]
      <4>1. q = p
        BY <2>4, <3>1, <3>3, ThingsAreThings
      <4> QED
        BY <2>1, <2>5, <3>1, <3>3, <4>1
    <3> QED
      BY <3>2, <3>3
  <2>8. Around'
    <3>1. SUFFICES ASSUME NEW q \in Paths, tree'[q].is \in {"dir", "file"},
                          \A r \in selected : ~Within(q, r)
                   PROVE  \/ q \in Copied \/ \E o \in selected \cup Slots(Placed) : Below(o, q)
                          \/ Remade(q) \/ q \in Produced \/ Watched(q)
      BY <1>2, <2>3 DEF Around
    <3>2. CASE tree'[q] = tree[q]
      BY <2>2, <3>1, <3>2 DEF Around
    <3> QED
      BY <2>5, <3>2
  <2>9. Seen'
    <3>1. seam.before \subseteq Paths
      BY DEF Known, Ranges, SeamType
    <3> QED
      BY <1>2, <2>2, <2>4, <3>1 DEF Seen
  <2> QED
    BY <1>2, <1>3, <2>6, <2>7, <2>8, <2>9 DEF Kept
<1> QED
  BY <1>4, <1>5

\* The seam sees what stands.
LEMMA BeforeIsSeen ==
  ASSUME Known, NEW c \in Snapshot(tree, base, selected, attached)
  PROVE  c \in Paths /\ tree[c].is \in {"dir", "file"}
<1>1. /\ Stands(tree) /\ attached \subseteq selected /\ selected \subseteq Paths
      /\ tree \in [Paths -> Things]
      /\ \A p \in Paths : tree[p].is = "link" => p \in Linked
      /\ \A p \in Linked, r \in selected : ~Within(p, r)
  BY DEF Known, Shape, Typed, Outside
<1>2. ASSUME NEW r \in attached, c \in IgnoredIn(tree, base, r)
      PROVE  c \in Paths /\ tree[c].is \in {"dir", "file"}
  <2>1. r \in selected /\ r \in Paths
    BY <1>1
  <2>2. PICK x \in Paths \ base : /\ c \in Paths /\ Below(c, r) /\ Within(x, c)
                                  /\ tree[x].is \in {"file", "link"}
    BY <1>2, <2>1, ReportedAt
  <2>3. x = c \/ Below(x, c)
    BY <2>2, WithinIsBelow
  <2>4. Within(c, r)
    BY <2>1, <2>2, WithinIsBelow
  <2>5. CASE Below(x, c)
    BY <1>1, <2>2, <2>5 DEF Stands
  <2>6. CASE x = c
    BY <1>1, <2>1, <2>2, <2>4, <2>6
  <2> QED
    BY <2>2, <2>3, <2>5, <2>6
<1> QED
  BY <1>2, SnapshotParts

LEMMA SeamKept ==
  ASSUME Known, Kept, SeamBegin \/ SeamRun \/ SeamRecord
  PROVE  Kept'
<1>1. /\ stage = "live" /\ UNCHANGED <<making, base, tree, touched, whole, rec, home, attached>>
  <2>1. stage = "live" /\ UNCHANGED <<whole, tree>>
    BY DEF SeamBegin, SeamRun, SeamRecord, Known, Shape, Typed, NoSeam
  <2> QED
    BY <2>1 DEF SeamBegin, SeamRun, SeamRecord, Seam
<1>2. whole' => rec'.place = home'
  BY <1>1 DEF Kept
<1>3. CASE SeamBegin
  <2>1. UNCHANGED slots /\ seam'.pc = "withdraw" /\ seam.pc = "idle"
    BY <1>3 DEF SeamBegin, Seam, NoSeam
  <2>2. UNCHANGED <<Copied, Carried, Produced, Slots(Placed)>>
    BY <2>1 DEF Copied, Carried, Produced, Slots
  <2>3. \A p \in Paths : ~Watched(p)
    BY <2>1 DEF Watched
  <2>4. Snapshot(tree, base, selected, attached) \subseteq Paths
    BY BeforeIsSeen
  <2> QED
    BY <1>1, <1>2, <2>1, <2>2, <2>3, <2>4, KeptAside
<1>4. CASE SeamRun
  <2>1. /\ UNCHANGED slots /\ seam.pc = "withdraw"
        /\ seam'.asked = attached
        /\ seam'.before = Snapshot(tree, base, selected, attached)
    BY <1>4 DEF SeamRun, Seam, Known, Ranges, SeamType
  <2>2. UNCHANGED <<Copied, Carried, Produced, Slots(Placed)>>
    BY <2>1 DEF Copied, Carried, Produced, Slots
  <2>3. \A p \in Snapshot(tree, base, selected, attached) : ~Watched(p)
    BY <2>1 DEF Watched
  <2>4. Seen'
    BY <1>1, <2>1, BeforeIsSeen DEF Seen
  <2> QED
    BY <1>1, <1>2, <2>2, <2>3, <2>4, KeptAside
<1>5. CASE SeamRecord
  <2> DEFINE new == NewSince(seam.before, Snapshot(tree, base, selected, attached))
  <2>1. /\ slots' = slots \cup {[path |-> p, type |-> "produced"] : p \in new}
        /\ seam'.pc = "restore"
    BY <1>5 DEF SeamRecord, Seam, Known, Ranges, SeamType
  <2>2. \A p \in Snapshot(tree, base, selected, attached) : Watched(p) => p \in new
    BY DEF NewSince, Watched
  <2> HIDE DEF new
  <2>3. \A T : Slots(T)' = IF "produced" \in T THEN Slots(T) \cup new ELSE Slots(T)
    BY <2>1, SlotsOf
  <2>4. UNCHANGED <<Copied, Carried, Slots(Placed)>>
    BY <2>3 DEF Copied, Carried, Placed
  <2>5. Produced' = Produced \cup new
    BY <2>3 DEF Produced
  <2> QED
    BY <1>1, <1>2, <2>1, <2>2, <2>4, <2>5, KeptAside
<1> QED
  BY <1>3, <1>4, <1>5

\* Links that come and go where nothing else stands.
LEMMA LinksKept ==
  ASSUME Known, Lead, Kept, SeamRestore \/ \E p \in Paths : Withdraw(p) \/ FixLink(p)
  PROVE  Kept'
<1>1. /\ stage = "live" /\ UNCHANGED <<making, base, slots, touched, whole, rec, home, attached>>
  <2>1. seam.pc # "idle" \/ fix.pc # "idle"
    BY DEF SeamRestore, Withdraw, FixLink
  <2>2. stage = "live"
    BY <2>1 DEF Known, Shape, Typed, NoSeam, NoFix
  <2>3. CASE SeamRestore
    BY <2>2, <2>3 DEF SeamRestore, Seam
  <2>4. ASSUME NEW p \in Paths, Withdraw(p)
        PROVE  UNCHANGED <<making, base, slots, touched, whole, rec, home, attached>>
    <3>1. UNCHANGED <<slots, whole>>
      BY <2>4 DEF Withdraw
    <3>2. UNCHANGED <<making, base, touched, rec, home, attached>>
      BY <2>4 DEF Withdraw, Seam
    <3> QED
      BY <3>1, <3>2
  <2>5. ASSUME NEW p \in Paths, FixLink(p)
        PROVE  UNCHANGED <<making, base, slots, touched, whole, rec, home, attached>>
    BY <2>5 DEF FixLink, Fix
  <2> QED
    BY <2>2, <2>3, <2>4, <2>5
<1>2. UNCHANGED <<Copied, Carried, Produced, Slots(Placed)>>
  BY <1>1 DEF Copied, Carried, Produced, Slots
<1>3. whole' => rec'.place = home'
  BY <1>1 DEF Kept
<1>4. tree \in [Paths -> Things]
  BY DEF Known, Shape, Typed
<1>5. seam' = seam \/ (seam.pc # "script" /\ seam'.pc # "script")
  <2>1. CASE SeamRestore
    BY <2>1 DEF SeamRestore, Seam, NoSeam
  <2>2. ASSUME NEW p \in Paths, Withdraw(p)
        PROVE  seam.pc # "script" /\ seam'.pc # "script"
    <3>1. /\ seam.pc = "withdraw"
          /\ seam' \in {NoSeam, [seam EXCEPT !.todo = @ \ {p}],
                        [seam EXCEPT !.todo = @ \ {p}, !.held = @ \cup {p}]}
      BY <2>2 DEF Withdraw, Seam
    <3>2. /\ [seam EXCEPT !.todo = @ \ {p}].pc = seam.pc
          /\ [seam EXCEPT !.todo = @ \ {p}, !.held = @ \cup {p}].pc = seam.pc
          /\ NoSeam.pc = "idle"
      BY DEF NoSeam, Known, Ranges, SeamType
    <3> QED
      BY <3>1, <3>2
  <2>3. ASSUME NEW p \in Paths, FixLink(p) PROVE seam' = seam
    BY <2>3 DEF FixLink, Fix
  <2> QED
    BY <2>1, <2>2, <2>3
<1>6. ASSUME touched' = {}
      PROVE  \A q \in Paths : tree'[q] = tree[q] \/
               (tree[q].is \in {"none", "link"} /\ tree'[q].is \in {"none", "link"})
  <2>1. CASE tree' = Restored
    BY <2>1, RestoredStands, ThingsAreThings DEF Known
  <2>2. ASSUME NEW p \in Paths, Withdraw(p)
        PROVE  \A q \in Paths : tree'[q] = tree[q] \/
                 (tree[q].is \in {"none", "link"} /\ tree'[q].is \in {"none", "link"})
    <3>1. \/ tree' = tree \/ tree' = Restored
          \/ tree[p].is = "link" /\ tree' = [tree EXCEPT ![p] = Nothing]
      BY <2>2 DEF Withdraw
    <3> QED
      BY <1>4, <2>1, <3>1, ThingsAreThings
  <2>3. ASSUME NEW p \in Paths, FixLink(p)
        PROVE  \A q \in Paths : tree'[q] = tree[q] \/
                 (tree[q].is \in {"none", "link"} /\ tree'[q].is \in {"none", "link"})
    <3>1. \/ tree' = tree
          \/ Mendable(p) /\ tree' = Put(tree, p, Link)
      BY <2>3 DEF FixLink
    <3>2. p \in Linked
      BY <2>3 DEF FixLink, Known, Shape, Typed
    <3>3. \A q \in Paths : Below(p, q) => tree[q].is = "dir"
      BY <1>1, <1>6, <3>2 DEF Lead, Sound, Taken
    <3>4. CASE Mendable(p) /\ tree' = Put(tree, p, Link)
      BY <3>3, <3>4, ThingsAreThings DEF Put, Mendable
    <3> QED
      BY <3>1, <3>4
  <2> QED
    BY <2>1, <2>2, <2>3 DEF SeamRestore
<1>7. touched' = {} =>
        \A p \in Paths : tree[p].is \in {"dir", "file"} \/ tree'[p].is \in {"dir", "file"} =>
          tree'[p] = tree[p]
  BY <1>6
<1>8. \A p \in Snapshot(tree, base, selected, attached) :
        Watched(p) => Watched(p)' /\ seam'.asked = seam.asked
  BY <1>5 DEF Watched
<1>9. seam'.pc = "script" => seam' = seam
  BY <1>5
<1> QED
  BY <1>1, <1>2, <1>3, <1>7, <1>8, <1>9, KeptAside

LEMMA LifeKept ==
  ASSUME Known, Lead, Kept, [Next]_vars, ~Creation
  PROVE  Kept'
<1>1. CASE UNCHANGED vars
  <2>1. UNCHANGED <<stage, selected, tree, base, slots, home, rec, attached, seam, touched, whole>>
    BY <1>1 DEF vars, making, life
  <2>2. UNCHANGED <<Copied, Carried, Produced, Slots(Placed)>>
    BY <2>1 DEF Copied, Carried, Produced, Slots
  <2> QED
    BY <2>1, <2>2 DEF Kept, Pristine, Inside, Around, Seen, Watched
<1>2. CASE Script
  BY <1>2, ScriptKept
<1>3. CASE SeamBegin \/ SeamRun \/ SeamRecord
  BY <1>3, SeamKept
<1>4. CASE SeamRestore \/ \E p \in Paths : Withdraw(p) \/ FixLink(p)
  BY <1>4, LinksKept
<1>5. CASE Agent
  <2>1. /\ UNCHANGED <<making, base, slots, whole, rec, home>> /\ touched \subseteq touched'
        /\ touched' # {} /\ stage = "live"
    <3>1. PICK p \in Paths :
            \E t, S : Changed(t, S) /\ (S = {p} \/ S = {q \in Paths : Within(q, p)})
      BY <1>5 DEF Agent
    <3>2. PICK t, S : Changed(t, S) /\ (S = {p} \/ S = {q \in Paths : Within(q, p)})
      BY <3>1
    <3>3. p \in S
      BY <3>2, WithinIsBelow
    <3> QED
      BY <1>5, <3>2, <3>3 DEF Changed, Agent
  <2>2. UNCHANGED <<Copied, Carried, Produced, Slots(Placed)>>
    BY <2>1 DEF Copied, Carried, Produced, Slots
  <2>3. whole' => rec'.place = home'
    BY <2>1 DEF Kept
  <2> QED
    BY <2>1, <2>2, <2>3, KeptAside
<1>6. ASSUME stage = "live", UNCHANGED <<making, base, slots, tree, seam>>,
             touched \subseteq touched', whole' => rec'.place = home',
             seam.pc = "script" => attached \subseteq attached'
      PROVE  Kept'
  <2>1. UNCHANGED <<Copied, Carried, Produced, Slots(Placed)>>
    BY <1>6 DEF Copied, Carried, Produced, Slots
  <2>2. \A p \in Snapshot(tree, base, selected, attached) :
          Watched(p) => Watched(p)' /\ seam'.asked = seam.asked
    BY <1>6 DEF Watched
  <2> QED
    BY <1>6, <2>1, <2>2, KeptAside
<1>7. CASE ScriptEnds
  BY <1>6, <1>7 DEF ScriptEnds, Kept, Known, Shape, Typed
<1>8. CASE Move
  <2>1. seam.pc = "idle"
    BY <1>8 DEF Move
  <2> QED
    BY <1>6, <1>8, <2>1 DEF Move
<1>9. CASE FixLoad \/ FixRules \/ FixWorktrees \/ FixEnd
  <2>1. /\ stage = "live" /\ UNCHANGED <<making, base, slots, tree, seam, touched, home>>
    BY <1>9 DEF FixLoad, FixRules, FixWorktrees, FixEnd, Fix, Known, Shape, Typed, NoFix
  <2>2. attached \subseteq attached'
    BY <1>9 DEF FixLoad, FixRules, FixWorktrees, FixEnd
  <2>3. whole' => rec'.place = home
    <3>1. CASE FixLoad
      BY <3>1 DEF FixLoad
    <3>2. CASE FixRules \/ FixWorktrees
      BY <3>2 DEF FixRules, FixWorktrees, Kept
    <3>3. CASE FixEnd
      <4>1. rec' = rec /\ rec.place = home
        BY <3>3 DEF FixEnd, Known, Located
      <4> QED
        BY <4>1
    <3> QED
      BY <1>9, <3>1, <3>2, <3>3
  <2> QED
    BY <1>6, <2>1, <2>2, <2>3
<1>10. CASE Crash
  <2>1. /\ stage = "live" /\ UNCHANGED <<making, base, slots, tree, home, rec, attached>>
        /\ touched \subseteq touched'
    <3>1. seam.pc # "idle" \/ fix.pc # "idle"
      BY <1>10 DEF Crash
    <3>2. stage = "live"
      BY <3>1 DEF Known, Shape, Typed, NoSeam, NoFix
    <3> QED
      BY <1>10, <3>2 DEF Crash
  <2>2. CASE UNCHANGED <<seam, whole>>
    <3>1. whole' => rec'.place = home'
      BY <2>1, <2>2 DEF Kept
    <3> QED
      BY <1>6, <2>1, <2>2, <3>1
  <2>3. CASE ~UNCHANGED <<seam, whole>>
    <3>1. /\ seam' = NoSeam /\ whole' = FALSE
          /\ touched' = touched \cup
               (IF seam.pc = "script"
                  THEN Snapshot(tree, base, selected, attached) \ seam.before ELSE {})
      BY <1>10, <2>3 DEF Crash
    <3>2. touched' = {} => \A p \in Snapshot(tree, base, selected, attached) : ~Watched(p)
      BY <3>1 DEF Watched
    <3>3. UNCHANGED <<Copied, Carried, Produced, Slots(Placed)>>
      BY <2>1 DEF Copied, Carried, Produced, Slots
    <3>4. seam'.pc # "script"
      BY <3>1 DEF NoSeam
    <3> QED
      BY <2>1, <3>1, <3>2, <3>3, <3>4, KeptAside
  <2> QED
    BY <2>2, <2>3
<1> QED
  BY <1>1, <1>2, <1>3, <1>4, <1>5, <1>7, <1>8, <1>9, <1>10 DEF Next

\* A thing and the directories it needs, put outside of the worktrees.
LEMMA PlaceKept ==
  ASSUME Known, Kept, stage = "placing", NEW p \in ToPlace, p \in Paths, tree[p].is = "none",
         NEW x \in {Link, File("wkt")}, NEW type \in {"symlink", "copy"},
         (x = Link) <=> (type = "symlink"),
         NEW left, Place(p, x, type, left)
  PROVE  Kept'
<1>1. /\ tree' = Put(tree, p, x) /\ slots' = slots \cup {[path |-> q, type |-> type] : q \in {p}}
      /\ UNCHANGED <<stage, selected, base, seam, touched, whole, rec, home>>
  BY DEF Place
<1>2. /\ \A r \in selected : ~Within(p, r)
      /\ seam = NoSeam /\ selected \subseteq Paths
  BY DEF Known, Shape, Raised, Typed
<1>3. \A T : Slots(T)' = IF type \in T THEN Slots(T) \cup {p} ELSE Slots(T)
  BY <1>1, SlotsOf
<1>4. /\ Carried' = Carried /\ Produced' = Produced /\ Slots(Placed)' = Slots(Placed) \cup {p}
      /\ Copied' = IF type = "copy" THEN Copied \cup {p} ELSE Copied
  BY <1>3 DEF Copied, Carried, Produced, Placed
<1>5. /\ \A q \in Paths : tree[q].is # "none" => tree'[q] = tree[q]
      /\ \A q \in Paths : q # p /\ tree'[q] # tree[q] => Below(p, q) /\ tree'[q] = Dir
      /\ tree'[p] = x
  BY <1>1 DEF Put
<1>6. whole' => rec'.place = home'
  BY <1>1 DEF Kept
<1>7. CASE touched = {}
  <2>1. Pristine /\ Inside /\ Around
    BY <1>7 DEF Kept
  <2>2. Pristine'
    <3>1. \A by \in {"wkt", "carry", "base"} :
            \A q \in Paths : tree[q] = File(by) => tree'[q] = File(by)
      BY <1>5, ThingsAreThings
    <3>2. type = "copy" => tree'[p] = File("wkt")
      BY <1>5
    <3>3. \A q \in Copied' : tree'[q] = File("wkt") /\ \A r \in selected' : ~Within(q, r)
      BY <1>1, <1>2, <1>4, <2>1, <3>1, <3>2, SlotsArePaths DEF Pristine
    <3>4. \A q \in Carried' : /\ tree'[q] = File("carry")
                              /\ \A r \in selected' : Below(q, r) => RuledOut(q, r)
      BY <1>1, <1>4, <2>1, <3>1, SlotsArePaths DEF Pristine
    <3>5. \A q \in base' \ Carried' : tree'[q] = File("base")
      BY <1>1, <1>4, <2>1, <3>1, SlotsArePaths DEF Pristine
    <3> QED
      BY <3>3, <3>4, <3>5 DEF Pristine
  <2>3. \A q \in Paths : ~Watched(q) /\ ~Watched(q)'
    BY <1>1, <1>2 DEF Watched, NoSeam
  <2>4. Inside'
    <3>1. SUFFICES ASSUME NEW q \in Paths, NEW r \in selected, tree'[q].is = "file", Below(q, r)
                   PROVE  \/ q \in base \cup Carried
                          \/ RuledOut(q, r) /\ Cut(q, r) = q /\ q \in Produced
      BY <1>1, <1>4 DEF Inside
    <3>2. q # p
      BY <1>2, <3>1, WithinIsBelow
    <3>3. tree'[q] = tree[q]
      BY <1>5, <3>1, <3>2, ThingsAreThings
    <3> QED
      BY <2>1, <2>3, <3>1, <3>3 DEF Inside
  <2>5. Around'
    <3>1. SUFFICES ASSUME NEW q \in Paths, tree'[q].is \in {"dir", "file"},
                          \A r \in selected : ~Within(q, r)
                   PROVE  \/ q \in Copied' \/ \E o \in selected \cup Slots(Placed)' : Below(o, q)
                          \/ Remade(q) \/ q \in Produced
      BY <1>1, <1>4 DEF Around
    <3>2. CASE tree'[q] = tree[q]
      BY <1>4, <2>1, <2>3, <3>1, <3>2 DEF Around
    <3>3. CASE q # p /\ tree'[q] # tree[q]
      BY <1>4, <1>5, <3>3
    <3>4. CASE q = p
      <4>1. x # Link
        BY <1>5, <3>1, <3>4, ThingsAreThings
      <4> QED
        BY <1>4, <3>4, <4>1
    <3> QED
      BY <3>2, <3>3, <3>4
  <2>6. Seen'
    BY <1>1, <1>2 DEF Seen, NoSeam
  <2> QED
    BY <1>1, <1>6, <2>2, <2>4, <2>5, <2>6 DEF Kept
<1> QED
  BY <1>1, <1>6, <1>7 DEF Kept

\* What git checks out and what is carried is below the worktrees, and so is
\* on the way there or does not count as around them.
LEMMA AroundIsOnTheWay ==
  ASSUME Known, NEW p \in Paths, NEW q \in Paths, Below(q, p), NEW r \in selected, Below(q, r),
         ~Within(p, r)
  PROVE  Below(r, p)
<1>1. r \in Paths
  BY DEF Known, Shape, Typed
<1>2. Within(q, p) /\ Within(q, r)
  BY <1>1, WithinIsBelow
<1> QED
  BY <1>1, <1>2, OneWay, WithinIsBelow

LEMMA CarryKept ==
  ASSUME Known, Kept, Carry, ~Refuse
  PROVE  Kept'
<1> DEFINE plan == CarryPlan(ws, selected)
<1>1. /\ tree' = [p \in Paths |-> IF p \in plan THEN File("carry")
                                  ELSE IF \E q \in plan : Below(q, p) THEN Dir ELSE tree[p]]
      /\ slots' = slots \cup {[path |-> p, type |-> "carry"] : p \in plan}
      /\ stage = "placing" /\ stage' = "built"
      /\ UNCHANGED <<selected, seam, base, touched, whole, rec, home>>
      /\ \A p \in plan : tree[p].is # "dir" /\ \A q \in Paths : Below(p, q) => tree[q].is # "file"
  BY DEF Carry, life
<1>2. /\ plan \subseteq Paths
      /\ \A p \in plan : \E r \in selected : Below(p, r) /\ RuledOut(p, r)
  BY DEF CarryPlan
<1> HIDE DEF plan
<1>3. \A p \in plan, r \in selected : Below(p, r) => RuledOut(p, r)
  BY <1>2, OneWorktree
<1>4. \A T : Slots(T)' = IF "carry" \in T THEN Slots(T) \cup plan ELSE Slots(T)
  BY <1>1, SlotsOf
<1>5. /\ Carried' = Carried \cup plan /\ Produced' = Produced /\ Copied' = Copied
      /\ Slots(Placed)' = Slots(Placed) \cup plan
  BY <1>4 DEF Copied, Carried, Produced, Placed
<1>6. seam = NoSeam /\ selected \subseteq Paths
  BY <1>1 DEF Known, Shape, Typed
<1>7. whole' => rec'.place = home'
  BY <1>1 DEF Kept
<1>8. /\ \A p \in plan : tree'[p] = File("carry")
      /\ \A p \in Paths \ plan : tree[p].is = "file" => tree'[p] = tree[p]
      /\ \A p \in Paths \ plan : tree'[p] = tree[p] \/
                                 (tree'[p] = Dir /\ \E q \in plan : Below(q, p))
  BY <1>1, <1>2
<1>9. CASE touched = {}
  <2>1. Pristine /\ Inside /\ Around
    BY <1>9 DEF Kept
  <2>2. Pristine'
    <3>1. \A by \in {"wkt", "carry", "base"} :
            \A q \in Paths \ plan : tree[q] = File(by) => tree'[q] = File(by)
      BY <1>8, ThingsAreThings
    <3>2. \A q \in Copied : q \in Paths \ plan
      <4>1. SUFFICES ASSUME NEW q \in Copied, q \in plan PROVE FALSE
        BY SlotsArePaths
      <4>2. PICK r \in selected : Below(q, r)
        BY <1>2, <4>1
      <4> QED
        BY <1>2, <1>6, <2>1, <4>1, <4>2, WithinIsBelow DEF Pristine
    <3>3. \A q \in Copied' : tree'[q] = File("wkt") /\ \A r \in selected' : ~Within(q, r)
      BY <1>1, <1>5, <2>1, <3>1, <3>2 DEF Pristine
    <3>4. \A q \in Carried' : /\ tree'[q] = File("carry")
                              /\ \A r \in selected' : Below(q, r) => RuledOut(q, r)
      BY <1>1, <1>3, <1>5, <1>8, <2>1, <3>1, SlotsArePaths DEF Pristine
    <3>5. \A q \in base' \ Carried' : tree'[q] = File("base")
      BY <1>1, <1>5, <2>1, <3>1, SlotsArePaths DEF Pristine
    <3> QED
      BY <3>3, <3>4, <3>5 DEF Pristine
  <2>3. \A q \in Paths : ~Watched(q) /\ ~Watched(q)'
    BY <1>1, <1>6 DEF Watched, NoSeam
  <2>4. Inside'
    <3>1. SUFFICES ASSUME NEW q \in Paths, NEW r \in selected, tree'[q].is = "file", Below(q, r)
                   PROVE  \/ q \in base \cup Carried'
                          \/ RuledOut(q, r) /\ Cut(q, r) = q /\ q \in Produced
      BY <1>1, <1>5 DEF Inside
    <3>2. CASE q \in plan
      BY <1>5, <3>2
    <3>3. CASE q \notin plan
      <4>1. tree'[q] = tree[q]
        BY <1>8, <3>1, <3>3, ThingsAreThings
      <4> QED
        BY <1>5, <2>1, <2>3, <3>1, <4>1 DEF Inside
    <3> QED
      BY <3>2, <3>3
  <2>5. Around'
    <3>1. SUFFICES ASSUME NEW q \in Paths, tree'[q].is \in {"dir", "file"},
                          \A r \in selected : ~Within(q, r)
                   PROVE  \/ q \in Copied \/ \E o \in selected \cup Slots(Placed)' : Below(o, q)
                          \/ Remade(q) \/ q \in Produced
      BY <1>1, <1>5 DEF Around
    <3>2. q \notin plan
      <4>1. SUFFICES ASSUME q \in plan PROVE FALSE
        OBVIOUS
      <4>2. PICK r \in selected : Below(q, r)
        BY <1>2, <4>1
      <4> QED
        BY <1>6, <3>1, <4>2, WithinIsBelow
    <3>3. CASE tree'[q] = tree[q]
      BY <1>5, <2>1, <2>3, <3>1, <3>3 DEF Around
    <3>4. CASE \E o \in plan : Below(o, q)
      BY <1>5, <3>4
    <3> QED
      BY <1>8, <3>2, <3>3, <3>4
  <2>6. Seen'
    BY <1>1, <1>6 DEF Seen, NoSeam
  <2> QED
    BY <1>1, <1>7, <2>2, <2>4, <2>5, <2>6 DEF Kept
<1> QED
  BY <1>1, <1>7, <1>9 DEF Kept

\* A tree that has nothing but what git checks out.
LEMMA WorktreesKept ==
  ASSUME Known, Kept, Worktrees
  PROVE  Kept'
<1>1. /\ base' = {p \in Paths : ws[p] \in {"file", "big"} /\
                    \E r \in selected : Below(p, r) /\ (RuledOut(p, r) => versioned)}
      /\ tree' = [p \in Paths |->
           IF p \in base' THEN File("base")
           ELSE IF p \in selected \/ \E q \in selected \cup base' : Below(q, p)
             THEN Dir ELSE Nothing]
      /\ stage = "walked" /\ stage' = "planning"
      /\ UNCHANGED <<selected, seam, slots, touched, whole, rec, home>>
  BY DEF Worktrees
<1>2. slots' = {} /\ selected \subseteq Paths /\ seam = NoSeam
  BY <1>1 DEF Known, Shape, Typed
<1>3. Copied' = {} /\ Carried' = {}
  BY <1>2 DEF Copied, Carried, Slots
<1>4. /\ base' \subseteq Paths /\ \A p \in base' : \E r \in selected : Below(p, r)
  BY <1>1
<1>5. \A p \in Paths :
        /\ p \in base' => tree'[p] = File("base")
        /\ tree'[p].is = "file" => p \in base'
        /\ tree'[p].is = "dir" => p \in selected \/ \E q \in selected \cup base' : Below(q, p)
  <2>1. \A p \in Paths :
          /\ p \in base' => tree'[p] = File("base")
          /\ p \notin base' => tree'[p] \in {Dir, Nothing}
          /\ tree'[p] \in {File("base"), Nothing} \/ p \in selected
               \/ \E q \in selected \cup base' : Below(q, p)
    BY <1>1, Zenon
  <2> QED
    BY <2>1, ThingsAreThings
<1>6. Pristine'
  BY <1>3, <1>4, <1>5 DEF Pristine
<1>7. Inside'
  BY <1>5 DEF Inside
<1>8. Around'
  <2>1. SUFFICES ASSUME NEW p \in Paths, tree'[p].is \in {"dir", "file"},
                        \A r \in selected : ~Within(p, r)
                 PROVE  \E q \in selected : Below(q, p)
    BY <1>1 DEF Around
  <2>2. p \notin base' /\ p \notin selected
    BY <1>2, <1>4, <2>1, WithinIsBelow
  <2>3. PICK q \in selected \cup base' : Below(q, p)
    BY <1>5, <2>1, <2>2
  <2>4. CASE q \in base'
    <3>1. PICK r \in selected : Below(q, r)
      BY <1>4, <2>4
    <3> QED
      BY <1>4, <2>1, <2>3, <2>4, <3>1, AroundIsOnTheWay
  <2> QED
    BY <2>3, <2>4
<1>9. Seen'
  BY <1>1, <1>2 DEF Seen, NoSeam
<1>10. whole' => rec'.place = home'
  BY <1>1 DEF Kept
<1> QED
  BY <1>1, <1>6, <1>7, <1>8, <1>9, <1>10 DEF Kept

LEMMA CreationKept ==
  ASSUME Known, Kept, Creation
  PROVE  Kept'
<1>1. /\ stage \in {"start", "walked", "planning", "placing", "built"} /\ seam = NoSeam
  <2>1. stage \in {"start", "walked", "planning", "placing", "built"}
    BY DEF Creation, Walk, Worktrees, Plan, LinkRepository, LinkDir, Copy, CopyStray,
           Carry, Save, Develop
  <2> QED
    BY <2>1 DEF Known, Shape, Typed
<1>2. ASSUME UNCHANGED <<seam, whole, rec, home>>, base' = {}, slots' = {},
             \A p \in Paths : tree'[p].is = "none"
      PROVE  Kept'
  <2>1. Copied' = {} /\ Carried' = {}
    BY <1>2 DEF Copied, Carried, Slots
  <2>2. Pristine' /\ Inside' /\ Around'
    BY <1>2, <2>1 DEF Pristine, Inside, Around
  <2>3. Seen'
    BY <1>1, <1>2 DEF Seen, NoSeam
  <2> QED
    BY <1>2, <2>2, <2>3 DEF Kept
<1>3. CASE Refuse
  BY <1>2, <1>3, ThingsAreThings DEF Refuse
<1>4. CASE Walk
  <2>1. UNCHANGED <<seam, whole, rec, home, base, slots, tree>> /\ stage = "start"
    BY <1>4 DEF Walk, life
  <2>2. base = {} /\ slots = {} /\ \A p \in Paths : tree[p].is = "none"
    BY <2>1 DEF Kept, Known, Shape, Typed
  <2> QED
    BY <1>2, <2>1, <2>2
<1>5. CASE Worktrees
  BY <1>5, WorktreesKept
<1>6. ASSUME UNCHANGED <<selected, tree, base, slots, home, rec, attached, seam, touched, whole>>,
             stage' = "start" => stage = "start"
      PROVE  Kept'
  <2>1. UNCHANGED <<Copied, Carried, Produced, Slots(Placed)>>
    BY <1>6 DEF Copied, Carried, Produced, Slots
  <2> QED
    BY <1>6, <2>1 DEF Kept, Pristine, Inside, Around, Seen, Watched
<1>7. CASE (Plan /\ ~Refuse) \/ Save \/ Develop
  BY <1>6, <1>7 DEF Plan, Save, Develop, life
<1>8. ASSUME NEW p \in Paths, CopyStray(p), ~Refuse PROVE Kept'
  BY <1>6, <1>8 DEF CopyStray, life
<1>9. ASSUME NEW p \in Paths, LinkRepository(p) \/ LinkDir(p) \/ Copy(p), ~Refuse PROVE Kept'
  <2>1. stage = "placing" /\ p \in ToPlace /\ tree[p].is = "none"
    BY <1>9 DEF LinkRepository, LinkDir, Copy, ToPlace, Known, Shape, Raised
  <2>2. \/ \E left : Place(p, Link, "symlink", left)
        \/ \E left : Place(p, File("wkt"), "copy", left)
    BY <1>9 DEF LinkRepository, LinkDir, Copy
  <2>3. File("wkt") # Link
    BY DEF File, Link
  <2> QED
    BY <2>1, <2>2, <2>3, PlaceKept
<1>10. CASE Carry /\ ~Refuse
  BY <1>10, CarryKept
<1> QED
  BY <1>3, <1>4, <1>5, <1>7, <1>8, <1>9, <1>10 DEF Creation

\* Preflight finds a reason for all of it.
LEMMA KeptIsRemovable ==
  ASSUME Known, Lead, Owed, Kept, Resting, touched = {}, ~Foreseen
  PROVE  Blockers = {}
<1>1. /\ stage = "live" /\ seam.pc = "idle" /\ whole /\ attached = selected
      /\ Pristine /\ Inside /\ Around
      /\ \A p \in Paths : ~Watched(p)
  BY DEF Resting, Lead, Kept, Watched
<1>2. rec.treesAt = TreesOf(home)
  BY <1>1 DEF Kept, Known, Located, RecordAt
<1>3. strays = {} /\ Carried \cap base = {} /\
      \A r \in selected, p \in Carried : Below(p, r) => Cut(p, r) = p
  BY DEF Foreseen, Carried
<1>4. /\ \A p \in Linked : tree[p] = Link
      /\ \A p \in Copied : tree[p] = File("wkt")
      /\ \A p \in Carried : tree[p] = File("carry")
      /\ \A p \in base : tree[p] = File("base")
  BY <1>1, <1>3 DEF Lead, Fine, Taken, Pristine
<1>5. /\ selected \subseteq Paths /\ tree \in [Paths -> Things]
      /\ \A p \in Paths : tree[p].is = "link" => p \in Linked
      /\ \A p \in Linked, r \in selected : ~Within(p, r)
  BY DEF Known, Shape, Typed, Outside
<1>6. ASSUME NEW r \in selected, NEW p \in Paths, Below(p, r), tree[p].is \in {"file", "link"},
             p \notin base
      PROVE  /\ tree[p].is = "file" /\ RuledOut(p, r) /\ Cut(p, r) = p
             /\ p \in Carried \/ p \in Produced
  <2>1. tree[p].is = "file"
    BY <1>5, <1>6, WithinIsBelow
  <2> QED
    BY <1>1, <1>3, <1>6, <2>1 DEF Inside, Pristine
<1>7. \A r \in selected : ~Dirty(r)
  BY <1>4, <1>6 DEF Dirty
<1>8. ASSUME NEW r \in selected, NEW c \in Precious(r) PROVE FALSE
  <2>1. PICK p \in Paths \ base : /\ Below(p, r) /\ c = Cut(p, r)
                                  /\ tree[p].is \in {"file", "link"}
    BY <1>8 DEF Precious, IgnoredIn
  <2>2. c = p /\ tree[p].is = "file" /\ (p \in Carried \/ p \in Produced)
    BY <1>6, <2>1
  <2>3. CarriedUnchanged(c) \/ ProducedExempt(c)
    BY <1>4, <2>2 DEF CarriedUnchanged, ProducedExempt, Carried, Produced
  <2> QED
    BY <1>8, <2>3 DEF Precious
<1>9. ASSUME NEW p \in Untracked PROVE FALSE
  <2>1. /\ p \in Paths /\ tree[p].is # "none" /\ \A r \in selected : ~Within(p, r)
        /\ p \notin Linked /\ ~(p \in Copied /\ tree[p] = File("wkt"))
        /\ p \in Copied \/ ~\E q \in selected \cup Slots(Placed) : Below(q, p)
        /\ ~Remade(p) /\ ~ProducedExempt(p)
    BY <1>9 DEF Untracked, Linked, Copied, Slots
  <2>2. tree[p].is \in {"dir", "file"}
    BY <1>5, <2>1 DEF Things
  <2>3. p \in Produced
    BY <1>1, <1>4, <2>1, <2>2 DEF Around
  <2>4. \A r \in selected : ~Below(p, r)
    BY <1>5, <2>1, WithinIsBelow
  <2> QED
    BY <2>1, <2>3, <2>4 DEF ProducedExempt, Produced
<1>10. \A p \in Slots(Placed) : tree[p].is # "none"
  <2>1. Slots(Placed) \subseteq Linked \cup Copied \cup Carried
    BY DEF Slots, Placed, Linked, Copied, Carried
  <2> QED
    BY <1>4, <2>1, ThingsAreThings
<1>11. \A p \in Slots({"symlink"}) : tree[p].is = "link"
  BY <1>4, ThingsAreThings DEF Linked
<1>12. \A p \in Slots({"copy"}) : tree[p] = File("wkt")
  BY <1>4 DEF Copied
<1>13. /\ {<<"failed", r>> : r \in selected \ attached} = {}
       /\ {<<"dirty", r>> : r \in {r \in selected : Dirty(r)}} = {}
       /\ {<<"ignored", p>> : p \in UNION {Precious(r) : r \in selected}} = {}
       /\ {<<"untracked", p>> : p \in Untracked} = {}
       /\ {<<"foreign", d>> : d \in strays} = {}
  BY <1>1, <1>3, <1>7, <1>8, <1>9
<1>14. /\ {<<"slot missing", p>> : p \in {p \in Slots(Placed) : tree[p].is = "none"}} = {}
       /\ {<<"slot changed", p>> : p \in {p \in Slots({"symlink"}) : tree[p].is # "link"}} = {}
       /\ {<<"copy diverged", p>> : p \in {p \in Slots({"copy"}) : tree[p] # File("wkt")}} = {}
  BY <1>10, <1>11, <1>12
<1>15. Veils = {}
  BY DEF Foreseen
<1> QED
  BY <1>2, <1>13, <1>14, <1>15 DEF Blockers

\* At the beginning there is nothing.
LEMMA KeptInit == Init => Known /\ Owed /\ Lead /\ Kept
<1> SUFFICES ASSUME Init PROVE Known /\ Owed /\ Lead /\ Kept
  OBVIOUS
<1>1. Linked = {} /\ Copied = {} /\ Carried = {} /\ Produced = {}
  BY DEF Init, Linked, Copied, Carried, Produced, Slots
<1>2. \A p \in Paths : tree[p].is = "none" /\ tree[p].by # "agent"
  BY ThingsAreThings DEF Init
<1>3. Owed
  BY <1>1, <1>2 DEF Owed, Init, NoSeam
<1>4. target \in [Paths -> Seq(STRING)]
  <2>1. <<>> \in Seq(STRING)
    OBVIOUS
  <2> QED
    BY <2>1 DEF Init
<1>5. Lead
  BY <1>1, <1>4 DEF Init, Lead, NoSeam, NoFix
<1>6. base = {} /\ Pristine /\ Inside /\ Around
  BY <1>1, <1>2 DEF Init, Pristine, Inside, Around
<1>7. Kept
  BY <1>2, <1>6 DEF Init, Kept, Seen, NoSeam, RecordAt
<1> QED
  BY <1>3, <1>5, <1>7, InvInit, ShapeInit, LocatedInit DEF Known

-----------------------------------------------------------------------------
\* A tree in which only wkt has been, and a script that keeps to itself, can be
\* removed without --force once seam and repair rest and nothing is broken:
\* through every seam, kill, move and repair, Preflight has a reason for all
\* that stands in it (Snapshot, producedExempt, carriedUnchanged, the walk past
\* slots), the places the property names excepted.
THEOREM UntouchedIsRemovable == Spec => []UntouchedRemovable
<1>1. Init => Known /\ Owed /\ Lead /\ Kept
  BY KeptInit
<1>2. Known /\ Owed /\ Lead /\ Kept /\ [Next]_vars => Known' /\ Owed' /\ Lead' /\ Kept'
  BY KnownStep, CreationOwed, LifeOwed, CreationLeads, LifeLeads, CreationKept, LifeKept
<1>3. Known /\ Owed /\ Lead /\ Kept => UntouchedRemovable
  BY KeptIsRemovable DEF UntouchedRemovable
<1> QED
  BY <1>1, <1>2, <1>3, PTL DEF Spec
-----------------------------------------------------------------------------
(* The way of the plan: in a workspace that rests, what has been placed and *)
(* what has yet to be are the plan, and all of the plan can be placed.     *)

Planned == PlanFor(ws, repos, selected)

Mirrored ==
  still =>
    /\ \A r \in repos : ws[r] = "repo"
    /\ stage \in {"planning", "placing", "built"} =>
         \A p \in Paths : (\A r \in selected : ~Within(p, r)) =>
           /\ tree[p].is = "file" => p \in Copied
           /\ tree[p].is = "dir" => p \in Way
    /\ stage \in {"planning", "placing"} =>
         \A p \in Paths : (\E r \in selected : Within(p, r)) =>
           /\ tree[p].is = "file" => ws[p] \in {"file", "big"}
           /\ tree[p].is = "dir" => ws[p] \in Folders
    /\ stage \in {"placing", "built"} =>
         /\ todo.backFill \subseteq Planned.backFill
         /\ todo.linkDirs \subseteq Planned.linkDirs
         /\ todo.copyFiles \subseteq Planned.copyFiles
         /\ todo.strays \subseteq Planned.strays
         /\ Linked = (Planned.backFill \cup Planned.linkDirs)
                       \ (todo.backFill \cup todo.linkDirs)
         /\ Copied = Planned.copyFiles \ todo.copyFiles
    /\ stage = "built" => todo = NoPlan
    /\ stage = "refused" => Hopeless(ws, repos)

\* Some path above another is the highest that is not on the way.
LEMMA Highest ==
  ASSUME NEW W, NEW p \in Paths, p \notin W
  PROVE  \E q \in Paths : /\ p = q \/ Below(p, q)
                          /\ q \notin W /\ (Len(q) = 1 \/ Front(q) \in W)
<1> DEFINE S == {q \in Paths : (p = q \/ Below(p, q)) /\ q \notin W}
<1>1. S \in SUBSET Paths /\ S # {}
  OBVIOUS
<1>2. PICK q \in S : \A o \in S : Len(q) <= Len(o)
  BY <1>1, Shortest
<1>3. ASSUME Len(q) # 1 PROVE Front(q) \in W
  <2>1. Len(q) > 1
    <3> DEFINE n == Len(q)
    <3>1. q \in Seq(STRING) /\ q # <<>>
      BY PathsAssumption
    <3>2. n \in Nat /\ n >= 1
      BY <3>1
    <3>3. n # 1
      BY <1>3
    <3> HIDE DEF n
    <3>4. n > 1
      BY <3>2, <3>3
    <3> QED
      BY <3>4 DEF n
  <2>2. Front(q) \in Paths /\ Below(q, Front(q))
    BY <2>1, AboveIsFront
  <2>3. Below(p, Front(q))
    BY <2>2, BelowOrders
  <2>4. ~(Len(q) <= Len(Front(q)))
    <3>1. q \in Seq(STRING) /\ Front(q) \in Seq(STRING)
      BY <2>2, PathsAreSequences
    <3>2. Len(Front(q)) <= Len(q) /\ \A i \in 1..Len(Front(q)) : Front(q)[i] = q[i]
      BY <2>2, <3>1, PrefixElements DEF Below, IsStrictPrefix
    <3>3. Front(q) # q
      BY <2>2 DEF Below, IsStrictPrefix
    <3> QED
      BY <3>1, <3>2, <3>3
  <2> QED
    BY <1>2, <2>2, <2>3, <2>4
<1> QED
  BY <1>2, <1>3

\* What the plan is made of.
LEMMA PlanIs ==
  /\ Planned.backFill = repos \ selected
  /\ \A p : p \in Planned.linkDirs <=>
              p \in Leaves(ws, repos, selected) /\ ws[p] # "file"
  /\ \A p : p \in Planned.copyFiles <=>
              p \in Leaves(ws, repos, selected) /\ p \notin Regenerable /\ ws[p] = "file"
  /\ \A p : p \in Planned.strays => ws[p] = "checkout"
  /\ \A p : p \in Leaves(ws, repos, selected) <=>
              /\ p \in Paths /\ p \notin repos /\ p \notin Way
              /\ ws[p] # "none" /\ (Len(p) = 1 \/ Front(p) \in Way)
BY DEF Planned, PlanFor, Leaves, Way

\* Above a known repository everything is on the way, and nothing below it.
LEMMA WayIsAbove ==
  ASSUME Known
  PROVE  /\ \A p \in Paths : p \in Way <=> \E r \in repos : Below(r, p)
         /\ \A p \in Way, q \in Paths : Below(p, q) => q \in Way
         /\ repos \cap Way = {}
<1>1. repos \subseteq Paths /\ \A r, q \in repos : ~Below(r, q)
  BY DEF Known, Shape, Typed
<1>2. \A p \in Paths : p \in Way <=> \E r \in repos : Below(r, p)
  BY DEF Way, Ancestors
<1>3. Way \subseteq Paths
  BY DEF Way, Ancestors
<1> QED
  BY <1>1, <1>2, <1>3, BelowOrders

\* In a tree being made every link and every copy stands at its slot.
LEMMA PlacedStand ==
  ASSUME Known, Lead, Kept, stage \in {"planning", "placing", "built"}
  PROVE  /\ \A p \in Linked : p \in Paths /\ p \notin Way /\ tree[p].is = "link"
         /\ \A p \in Paths : tree[p].is = "link" => p \in Linked
         /\ \A p \in Copied : p \in Paths /\ tree[p].is = "file"
         /\ touched = {}
<1>1. whole /\ touched = {} /\ seam = NoSeam
  BY DEF Lead, Known, Shape, Typed
<1>2. \A p \in Linked : p \in Paths /\ p \notin Way /\ tree[p] = Link
  BY <1>1 DEF Lead, Fine, Taken, NoSeam
<1>3. \A p \in Copied : p \in Paths /\ tree[p] = File("wkt")
  BY <1>1, SlotsArePaths DEF Kept, Pristine
<1> QED
  BY <1>1, <1>2, <1>3, ThingsAreThings DEF Known, Shape, Outside

\* A tree that has been made to the end of the plan.
LEMMA BuiltMirrors ==
  ASSUME Known, Lead, Kept, Mirrored, still, stage = "built", NEW p \in Paths
  PROVE  Leads(p) = Should(ws, repos, selected, p)
<1>1. /\ selected \subseteq repos /\ repos \subseteq Paths /\ tree \in [Paths -> Things]
      /\ Stands(tree) /\ Closed(ws) /\ ws \in [Paths -> Kinds]
      /\ \A q \in Linked, r \in selected : ~Within(q, r)
      /\ \A r \in selected : tree[r].is = "dir"
  BY DEF Known, IInv, Shape, Typed, Outside, Raised
<1>2. /\ Linked = Planned.backFill \cup Planned.linkDirs
      /\ Copied = Planned.copyFiles
      /\ \A r \in repos : ws[r] = "repo"
      /\ \A q \in Paths : (\A r \in selected : ~Within(q, r)) =>
           /\ tree[q].is = "file" => q \in Copied
           /\ tree[q].is = "dir" => q \in Way
  <2>1. todo = NoPlan
    BY DEF Mirrored
  <2>2. todo.backFill = {} /\ todo.linkDirs = {} /\ todo.copyFiles = {}
    BY <2>1 DEF NoPlan
  <2>3. /\ Linked = (Planned.backFill \cup Planned.linkDirs)
                       \ (todo.backFill \cup todo.linkDirs)
        /\ Copied = Planned.copyFiles \ todo.copyFiles
    BY DEF Mirrored
  <2>4. /\ \A r \in repos : ws[r] = "repo"
        /\ \A q \in Paths : (\A r \in selected : ~Within(q, r)) =>
             /\ tree[q].is = "file" => q \in Copied
             /\ tree[q].is = "dir" => q \in Way
    BY DEF Mirrored
  <2> QED
    BY <2>2, <2>3, <2>4, Zenon
<1>3. /\ \A q \in Linked : q \in Paths /\ q \notin Way /\ tree[q].is = "link"
      /\ \A q \in Paths : tree[q].is = "link" <=> q \in Linked
      /\ \A q \in Copied : q \in Paths /\ tree[q].is = "file"
  BY PlacedStand
<1> DEFINE own == \E r \in selected : Within(p, r)
           linked == \E q \in Linked : p = q \/ Below(p, q)
<1>4. /\ own <=> \E r \in selected : p = r \/ Below(p, r)
      /\ (\E q \in Paths : Within(p, q) /\ tree[q].is = "link") <=> linked
  BY <1>1, <1>3, WithinIsBelow
<1>5. Leads(p) = IF linked THEN IF ws[p] = "none" THEN "none" ELSE "workspace"
                 ELSE IF own THEN "own"
                 ELSE IF tree[p].is = "file" THEN "copy" ELSE tree[p].is
  BY <1>4 DEF Leads
<1>6. /\ \A q \in Paths : q \in Way <=> \E r \in repos : Below(r, q)
      /\ \A d \in Way, q \in Paths : Below(d, q) => q \in Way
      /\ repos \cap Way = {}
  BY WayIsAbove
<1>7. CASE own
  <2>1. PICK r \in selected : p = r \/ Below(p, r)
    BY <1>4, <1>7
  <2>2. ~linked
    <3>1. SUFFICES ASSUME NEW q \in Linked, p = q \/ Below(p, q) PROVE FALSE
      OBVIOUS
    <3>2. q \in Paths /\ r \in Paths /\ ~Within(q, r) /\ q \notin Way
      BY <1>1, <1>3
    <3>3. q # r /\ ~Below(q, r)
      BY <3>2, WithinIsBelow
    <3>4. Within(p, q) /\ Within(p, r)
      BY <2>1, <3>1, <3>2, WithinIsBelow
    <3>5. Below(r, q)
      BY <3>2, <3>3, <3>4, OneWay
    <3> QED
      BY <1>1, <1>6, <3>2, <3>5
  <2> QED
    BY <1>5, <1>7, <2>2 DEF Should
<1>8. CASE ~own /\ p \in Way
  <2>1. ~linked
    BY <1>3, <1>6, <1>8
  <2>2. PICK r \in repos : Below(r, p)
    BY <1>6, <1>8
  <2>3. tree[r].is # "none"
    <3>1. CASE r \in selected
      BY <1>1, <3>1
    <3>2. CASE r \notin selected
      BY <1>2, <1>3, <3>2, PlanIs
    <3> QED
      BY <3>1, <3>2
  <2>4. tree[p].is = "dir"
    BY <1>1, <2>2, <2>3 DEF Stands
  <2> QED
    BY <1>5, <1>6, <1>8, <2>1, <2>4 DEF Should
<1>9. CASE ~own /\ p \notin Way /\ ws[p] = "none"
  <2>1. Should(ws, repos, selected, p) = "none"
    BY <1>6, <1>9 DEF Should
  <2>2. ~linked => tree[p].is = "none"
    <3>1. p \notin Copied
      BY <1>2, <1>9, PlanIs
    <3> QED
      BY <1>1, <1>2, <1>3, <1>9, <3>1 DEF Things
  <2> QED
    BY <1>5, <1>9, <2>1, <2>2
<1>10. CASE ~own /\ p \notin Way /\ ws[p] # "none" /\ \E r \in repos : Within(p, r)
  <2>1. Should(ws, repos, selected, p) = "workspace"
    BY <1>6, <1>10 DEF Should
  <2>2. PICK r \in repos : Within(p, r)
    BY <1>10
  <2>3. r \in Linked
    BY <1>2, <1>10, <2>2, PlanIs
  <2>4. linked
    BY <1>1, <2>2, <2>3, WithinIsBelow
  <2> QED
    BY <1>5, <1>10, <2>1, <2>4
<1>11. CASE /\ ~own /\ p \notin Way /\ ws[p] = "file" /\ ~\E r \in repos : Within(p, r)
            /\ Len(p) = 1 \/ Front(p) \in Way
  <2>1. (Len(p) = 1 \/ \E r \in repos : Below(r, Front(p)))
    BY <1>11 DEF Way, Ancestors
  <2>2. Should(ws, repos, selected, p) = IF p \in Regenerable THEN "none" ELSE "copy"
    BY <1>6, <1>11, <2>1 DEF Should
  <2>3. ~linked
    <3>1. SUFFICES ASSUME NEW q \in Linked, p = q \/ Below(p, q) PROVE FALSE
      OBVIOUS
    <3>2. CASE p = q
      BY <1>2, <1>11, <3>1, <3>2, PlanIs
    <3>3. CASE Below(p, q)
      <4>1. Len(p) > 1 /\ (q = Front(p) \/ Below(Front(p), q)) /\ q \in Paths
        BY <1>3, <3>3, AboveIsFront
      <4>2. Front(p) \in Way
        BY <1>11, <4>1, OneIsNotMore
      <4> QED
        BY <1>3, <1>6, <4>1, <4>2
    <3> QED
      BY <3>1, <3>2, <3>3
  <2>4. p \in Leaves(ws, repos, selected)
    <3>1. p \notin repos
      BY <1>2, <1>11
    <3> QED
      BY <1>11, <3>1, PlanIs
  <2>5. p \in Copied <=> p \notin Regenerable
    BY <1>2, <1>11, <2>4, PlanIs
  <2>6. tree[p].is = IF p \in Regenerable THEN "none" ELSE "file"
    BY <1>1, <1>2, <1>3, <1>11, <2>3, <2>5 DEF Things
  <2> QED
    BY <1>5, <1>11, <2>2, <2>3, <2>6
<1>12. CASE /\ ~own /\ p \notin Way /\ ws[p] # "none" /\ ~\E r \in repos : Within(p, r)
            /\ ~(ws[p] = "file" /\ (Len(p) = 1 \/ Front(p) \in Way))
  <2>1. Should(ws, repos, selected, p) = "workspace"
    <3>1. ~(ws[p] = "file" /\ (Len(p) = 1 \/ \E r \in repos : Below(r, Front(p))))
      <4>1. SUFFICES ASSUME ws[p] = "file", Len(p) # 1, \E r \in repos : Below(r, Front(p))
                     PROVE  Front(p) \in Way
        BY <1>12
      <4>2. Front(p) \in Paths
        <5>1. p \in Seq(STRING) /\ p # <<>> /\ (Len(p) > 1 => Front(p) \in Paths)
          BY PathsAssumption
        <5>2. Len(p) = 1 \/ Len(p) > 1
          <6> DEFINE n == Len(p)
          <6>1. n \in Nat /\ n >= 1
            BY <5>1
          <6> HIDE DEF n
          <6>2. n = 1 \/ n > 1
            BY <6>1
          <6> QED
            BY <6>2 DEF n
        <5> QED
          BY <4>1, <5>1, <5>2
      <4> QED
        BY <1>6, <4>1, <4>2
    <3> QED
      BY <1>6, <1>12, <3>1 DEF Should
  <2>2. PICK q \in Paths : /\ p = q \/ Below(p, q)
                           /\ q \notin Way /\ (Len(q) = 1 \/ Front(q) \in Way)
    BY <1>12, Highest
  <2>3. q \notin repos
    BY <1>12, <2>2, WithinIsBelow
  <2>4. ws[q] # "none" /\ ws[q] # "file"
    <3>1. CASE p = q
      BY <1>12, <2>2, <3>1
    <3>2. CASE Below(p, q)
      BY <1>1, <1>12, <3>2 DEF Closed, Folders
    <3> QED
      BY <2>2, <3>1, <3>2
  <2>5. q \in Linked
    BY <1>2, <2>2, <2>3, <2>4, PlanIs
  <2> QED
    BY <1>5, <1>12, <2>1, <2>2, <2>5
<1> QED
  BY <1>7, <1>8, <1>9, <1>10, <1>11, <1>12

\* What lies below the plan's links leads to no known repository: one it does
\* lead to makes the plan hopeless.
LEMMA HidesIsHopeless ==
  ASSUME Known, NEW p \in Leaves(ws, repos, selected), Hides(ws, p)
  PROVE  Hopeless(ws, repos)
<1>1. /\ p \in Paths /\ p \notin repos /\ p \notin Way
      /\ Len(p) = 1 \/ Front(p) \in Way
  BY PlanIs
<1>2. repos \subseteq Paths
  BY DEF Known, Shape, Typed
<1>3. CASE ws[p] = "alias"
  <2>1. PICK q \in Paths : Within(q, Target) /\ ws[q] \in {"repo", "checkout"}
    BY <1>3 DEF Hides
  <2>2. Shares(ws, p)
    BY <1>3, <2>1 DEF Shares
  <2> QED
    BY <1>1, <1>3, <2>2 DEF Hopeless
<1>4. CASE ws[p] # "alias"
  <2>1. PICK q \in Paths : Within(q, p) /\ ws[q] \in {"repo", "checkout"}
    BY <1>4 DEF Hides
  <2>2. q = p \/ Below(q, p)
    BY <1>1, <2>1, WithinIsBelow
  <2>3. ASSUME NEW r \in repos PROVE ~Within(q, r) /\ ~Below(r, q)
    <3>1. r \in Paths /\ ~Below(r, p) /\ r # p
      BY <1>1, <1>2, WayIsAbove
    <3>2. ~Below(p, r)
      <4>1. SUFFICES ASSUME Below(p, r) PROVE FALSE
        OBVIOUS
      <4>2. Len(p) > 1 /\ (r = Front(p) \/ Below(Front(p), r))
        BY <1>1, <3>1, <4>1, AboveIsFront
      <4>3. Front(p) \in Way
        BY <1>1, <4>2, OneIsNotMore
      <4>4. r \in Way
        BY <3>1, <4>2, <4>3, WayIsAbove
      <4> QED
        BY <4>4, WayIsAbove
    <3>3. ~Below(r, q)
      BY <1>1, <2>2, <3>1, BelowOrders
    <3>4. ~Within(q, r)
      BY <1>1, <2>1, <3>1, <3>2, OneWay
    <3> QED
      BY <3>3, <3>4
  <2> QED
    BY <2>1, <2>3 DEF Hopeless
<1> QED
  BY <1>3, <1>4

\* What is to be linked has nothing in its place.
LEMMA RoomForLinks ==
  ASSUME Known, Lead, Kept, Mirrored, still, stage = "placing",
         NEW p \in todo.backFill \cup todo.linkDirs
  PROVE  tree[p].is = "none"
<1>1. /\ p \in Paths \ Way /\ \A r \in selected : ~Within(p, r)
      /\ tree \in [Paths -> Things]
  BY DEF Known, Shape, Typed, Raised, ToPlace
<1>2. /\ Linked = (Planned.backFill \cup Planned.linkDirs)
                    \ (todo.backFill \cup todo.linkDirs)
      /\ Copied \subseteq Planned.copyFiles
      /\ p \in Planned.backFill \cup Planned.linkDirs
      /\ tree[p].is = "file" => p \in Copied
      /\ tree[p].is = "dir" => p \in Way
  <2>1. /\ todo.backFill \subseteq Planned.backFill /\ todo.linkDirs \subseteq Planned.linkDirs
        /\ Linked = (Planned.backFill \cup Planned.linkDirs)
                      \ (todo.backFill \cup todo.linkDirs)
        /\ Copied = Planned.copyFiles \ todo.copyFiles
    BY DEF Mirrored
  <2>2. /\ tree[p].is = "file" => p \in Copied
        /\ tree[p].is = "dir" => p \in Way
    BY <1>1 DEF Mirrored
  <2> QED
    BY <2>1, <2>2
<1>3. p \notin Copied
  BY <1>2, PlanIs
<1>4. tree[p].is # "link"
  BY <1>1, <1>2, PlacedStand
<1> QED
  BY <1>1, <1>2, <1>3, <1>4 DEF Things

\* One more of the plan is in its place.
LEMMA PlaceMirrors ==
  ASSUME Known, Lead, Kept, Mirrored, still, stage = "placing",
         NEW p \in ToPlace, p \in Paths, tree[p].is = "none",
         NEW x \in {Link, File("wkt")}, NEW type \in {"symlink", "copy"},
         (x = Link) <=> (type = "symlink"), NEW left, Place(p, x, type, left),
         \/ type = "symlink" /\ p \in todo.backFill /\ left = [todo EXCEPT !.backFill = @ \ {p}]
         \/ /\ type = "symlink" /\ p \in todo.linkDirs /\ todo.backFill = {}
            /\ left = [todo EXCEPT !.linkDirs = @ \ {p}]
         \/ type = "copy" /\ p \in todo.copyFiles /\ left = [todo EXCEPT !.copyFiles = @ \ {p}]
  PROVE  Mirrored'
<1>1. /\ tree' = Put(tree, p, x) /\ slots' = slots \cup {[path |-> q, type |-> type] : q \in {p}}
      /\ todo' = left /\ UNCHANGED <<ws, stage, repos, selected, still>>
  BY DEF Place
<1>2. UNCHANGED <<Planned, Way>>
  BY <1>1 DEF Planned, Way
<1>3. /\ \A r \in selected : ~Within(p, r) /\ r \in Paths
      /\ \A q \in Paths : Below(p, q) => q \in Way
  BY DEF Known, Shape, Raised, Typed
<1>4. \A T : Slots(T)' = IF type \in T THEN Slots(T) \cup {p} ELSE Slots(T)
  BY <1>1, SlotsOf
<1>5. /\ Linked' = IF type = "symlink" THEN Linked \cup {p} ELSE Linked
      /\ Copied' = IF type = "copy" THEN Copied \cup {p} ELSE Copied
  BY <1>4 DEF Copied, Linked
<1>6. /\ \A q \in Paths : q # p /\ tree'[q] # tree[q] => Below(p, q) /\ tree'[q] = Dir
      /\ tree'[p] = x
  BY <1>1 DEF Put
<1>7. ASSUME NEW q \in Paths, \A r \in selected : ~Within(q, r)
      PROVE  /\ tree'[q].is = "file" => q \in Copied'
             /\ tree'[q].is = "dir" => q \in Way
  <2>1. /\ tree[q].is = "file" => q \in Copied
        /\ tree[q].is = "dir" => q \in Way
    BY <1>7 DEF Mirrored
  <2>2. CASE tree'[q] = tree[q]
    BY <1>5, <2>1, <2>2
  <2>3. CASE q # p /\ tree'[q] # tree[q]
    BY <1>3, <1>6, <2>3, ThingsAreThings
  <2>4. CASE q = p
    BY <1>5, <1>6, <2>4, ThingsAreThings
  <2> QED
    BY <2>2, <2>3, <2>4
<1>8. ASSUME NEW q \in Paths, NEW r \in selected, Within(q, r)
      PROVE  /\ tree'[q].is = "file" => ws[q] \in {"file", "big"}
             /\ tree'[q].is = "dir" => ws[q] \in Folders
  <2>1. q # p /\ ~Below(p, q)
    BY <1>3, <1>8, WithinIsBelow, BelowOrders
  <2>2. tree'[q] = tree[q]
    BY <1>6, <2>1
  <2> QED
    BY <1>8, <2>2 DEF Mirrored
<1>9. /\ todo \in [backFill : SUBSET Paths, linkDirs : SUBSET Paths,
                   copyFiles : SUBSET Paths, strays : SUBSET Paths]
      /\ todo.backFill \subseteq Planned.backFill
      /\ todo.linkDirs \subseteq Planned.linkDirs
      /\ todo.copyFiles \subseteq Planned.copyFiles
      /\ todo.strays \subseteq Planned.strays
      /\ Linked = (Planned.backFill \cup Planned.linkDirs)
                    \ (todo.backFill \cup todo.linkDirs)
      /\ Copied = Planned.copyFiles \ todo.copyFiles
  BY DEF Mirrored, Known, Ranges
<1>10. Planned.backFill \cap Planned.linkDirs = {}
  BY PlanIs
<1>11. /\ todo'.backFill \subseteq Planned.backFill
       /\ todo'.linkDirs \subseteq Planned.linkDirs
       /\ todo'.copyFiles \subseteq Planned.copyFiles
       /\ todo'.strays \subseteq Planned.strays
       /\ Linked' = (Planned.backFill \cup Planned.linkDirs)
                      \ (todo'.backFill \cup todo'.linkDirs)
       /\ Copied' = Planned.copyFiles \ todo'.copyFiles
  <2>1. CASE type = "symlink" /\ p \in todo.backFill /\ left = [todo EXCEPT !.backFill = @ \ {p}]
    <3>1. /\ todo'.backFill = todo.backFill \ {p} /\ todo'.linkDirs = todo.linkDirs
          /\ todo'.copyFiles = todo.copyFiles /\ todo'.strays = todo.strays
      BY <1>1, <1>9, <2>1
    <3> QED
      BY <1>5, <1>9, <1>10, <2>1, <3>1
  <2>2. CASE /\ type = "symlink" /\ p \in todo.linkDirs /\ todo.backFill = {}
             /\ left = [todo EXCEPT !.linkDirs = @ \ {p}]
    <3>1. /\ todo'.backFill = todo.backFill /\ todo'.linkDirs = todo.linkDirs \ {p}
          /\ todo'.copyFiles = todo.copyFiles /\ todo'.strays = todo.strays
      BY <1>1, <1>9, <2>2
    <3> QED
      BY <1>5, <1>9, <1>10, <2>2, <3>1
  <2>3. CASE type = "copy" /\ p \in todo.copyFiles /\ left = [todo EXCEPT !.copyFiles = @ \ {p}]
    <3>1. /\ todo'.backFill = todo.backFill /\ todo'.linkDirs = todo.linkDirs
          /\ todo'.copyFiles = todo.copyFiles \ {p} /\ todo'.strays = todo.strays
      BY <1>1, <1>9, <2>3
    <3> QED
      BY <1>5, <1>9, <1>10, <2>3, <3>1
  <2> QED
    BY <2>1, <2>2, <2>3
<1>12. \A r \in repos : ws[r] = "repo"
  BY DEF Mirrored
<1> QED
  BY <1>1, <1>2, <1>7, <1>8, <1>11, <1>12 DEF Mirrored

\* git checks out nothing but files of the workspace, as long as it rests.
LEMMA WorktreesMirror ==
  ASSUME Known, Mirrored, still, Worktrees
  PROVE  Mirrored'
<1>1. /\ base' = {p \in Paths : ws[p] \in {"file", "big"} /\
                    \E r \in selected : Below(p, r) /\ (RuledOut(p, r) => versioned)}
      /\ tree' = [p \in Paths |->
           IF p \in base' THEN File("base")
           ELSE IF p \in selected \/ \E q \in selected \cup base' : Below(q, p)
             THEN Dir ELSE Nothing]
      /\ stage' = "planning" /\ UNCHANGED <<ws, repos, selected, still>>
  BY DEF Worktrees
<1>2. /\ \A r \in repos : ws[r] = "repo"
      /\ selected \subseteq repos /\ repos \subseteq Paths /\ Closed(ws)
      /\ ws \in [Paths -> Kinds]
  BY DEF Mirrored, Known, Shape, Typed, IInv
<1>3. Way' = Way
  BY <1>1 DEF Way
<1>4. \A p \in base' : /\ p \in Paths /\ ws[p] \in {"file", "big"}
                       /\ \E r \in selected : Below(p, r)
  BY <1>1
<1>5. \A p \in Paths :
        /\ tree'[p].is = "file" => p \in base'
        /\ tree'[p].is = "dir" => p \in selected \/ \E q \in selected \cup base' : Below(q, p)
  <2>1. \A p \in Paths :
          /\ p \notin base' => tree'[p] \in {Dir, Nothing}
          /\ tree'[p] \in {File("base"), Nothing} \/ p \in selected
               \/ \E q \in selected \cup base' : Below(q, p)
    BY <1>1, Zenon
  <2> QED
    BY <2>1, ThingsAreThings
<1>6. ASSUME NEW p \in Paths, \A r \in selected : ~Within(p, r)
      PROVE  tree'[p].is # "file" /\ (tree'[p].is = "dir" => p \in Way)
  <2>1. p \notin base' /\ p \notin selected
    BY <1>2, <1>4, <1>6, WithinIsBelow
  <2>2. ASSUME tree'[p].is = "dir" PROVE p \in Way
    <3>1. PICK q \in selected \cup base' : Below(q, p)
      BY <1>5, <2>1, <2>2
    <3>2. \E r \in selected : Below(r, p)
      <4>1. CASE q \in base'
        <5>1. PICK r \in selected : Below(q, r)
          BY <1>4, <4>1
        <5> QED
          BY <1>4, <1>6, <3>1, <4>1, <5>1, AroundIsOnTheWay
      <4> QED
        BY <3>1, <4>1
    <3> QED
      BY <1>2, <3>2, WayIsAbove
  <2> QED
    BY <1>5, <2>1, <2>2
<1>7. ASSUME NEW p \in Paths
      PROVE  /\ tree'[p].is = "file" => ws[p] \in {"file", "big"}
             /\ tree'[p].is = "dir" => ws[p] \in Folders
  <2>1. tree'[p].is = "file" => ws[p] \in {"file", "big"}
    BY <1>4, <1>5
  <2>2. ASSUME p \in selected PROVE ws[p] \in Folders
    BY <1>2, <2>2 DEF Folders
  <2>3. ASSUME NEW q \in selected \cup base', Below(q, p) PROVE ws[p] \in Folders
    <3>1. q \in Paths /\ ws[q] # "none"
      BY <1>2, <1>4
    <3> QED
      BY <1>2, <2>3, <3>1 DEF Closed
  <2> QED
    BY <1>5, <2>1, <2>2, <2>3
<1> QED
  BY <1>1, <1>2, <1>3, <1>6, <1>7 DEF Mirrored

\* Nothing is in the way of what is carried, and it is below the worktrees.
LEMMA CarryMirrors ==
  ASSUME Known, Lead, Kept, Mirrored, still, Carry
  PROVE  ~Refuse /\ Mirrored'
<1> DEFINE plan == CarryPlan(ws, selected)
<1>1. stage = "placing" /\ todo = NoPlan
  BY DEF Carry
<1>2. /\ plan \subseteq Paths
      /\ \A p \in plan : ws[p] \in {"file", "big"} /\ \E r \in selected : Below(p, r)
  BY DEF CarryPlan
<1>3. /\ selected \subseteq repos /\ repos \subseteq Paths /\ Closed(ws) /\ Stands(tree)
      /\ \A r \in selected : tree[r].is = "dir"
      /\ \A p \in Paths, r \in selected : Within(p, r) =>
           /\ tree[p].is = "file" => ws[p] \in {"file", "big"}
           /\ tree[p].is = "dir" => ws[p] \in Folders
  BY <1>1 DEF Mirrored, Known, Shape, Typed, Raised, IInv
<1>4. ASSUME NEW p \in plan
      PROVE  tree[p].is # "dir" /\ \A q \in Paths : Below(p, q) => tree[q].is # "file"
  <2>1. PICK r \in selected : Below(p, r)
    BY <1>2
  <2>2. p \in Paths /\ r \in Paths /\ Within(p, r)
    BY <1>2, <1>3, <2>1, WithinIsBelow
  <2>3. tree[p].is # "dir"
    BY <1>2, <1>3, <2>2 DEF Folders
  <2>4. ASSUME NEW q \in Paths, Below(p, q), tree[q].is = "file" PROVE FALSE
    <3>1. ws[q] \in Folders
      BY <1>2, <1>3, <2>2, <2>4 DEF Closed
    <3>2. ~Within(q, r)
      BY <1>3, <2>4, <3>1 DEF Folders
    <3>3. Below(r, q)
      BY <2>1, <2>2, <2>4, <3>2, AroundIsOnTheWay
    <3> QED
      BY <1>3, <2>2, <2>4, <3>3 DEF Stands
  <2> QED
    BY <2>3, <2>4
<1>5. /\ tree' = [p \in Paths |-> IF p \in plan THEN File("carry")
                                  ELSE IF \E q \in plan : Below(q, p) THEN Dir ELSE tree[p]]
      /\ slots' = slots \cup {[path |-> p, type |-> "carry"] : p \in plan}
      /\ stage' = "built" /\ UNCHANGED <<ws, repos, selected, todo, still>>
  BY <1>4 DEF Carry
<1> HIDE DEF plan
<1>6. \A T : Slots(T)' = IF "carry" \in T THEN Slots(T) \cup plan ELSE Slots(T)
  BY <1>5, SlotsOf
<1>7. Linked' = Linked /\ Copied' = Copied /\ Planned' = Planned /\ Way' = Way
  BY <1>5, <1>6 DEF Copied, Linked, Planned, Way
<1>8. ASSUME NEW p \in Paths, \A r \in selected : ~Within(p, r)
      PROVE  /\ tree'[p].is = "file" => p \in Copied
             /\ tree'[p].is = "dir" => p \in Way
  <2>1. /\ tree[p].is = "file" => p \in Copied
        /\ tree[p].is = "dir" => p \in Way
    BY <1>1, <1>8 DEF Mirrored
  <2>2. p \notin plan
    BY <1>2, <1>3, <1>8, WithinIsBelow
  <2>3. CASE \E q \in plan : Below(q, p)
    <3>1. PICK q \in plan : Below(q, p)
      BY <2>3
    <3>2. PICK r \in selected : Below(q, r)
      BY <1>2
    <3>3. Below(r, p)
      BY <1>2, <1>8, <3>1, <3>2, AroundIsOnTheWay
    <3>4. p \in Way
      BY <1>3, <3>3, WayIsAbove
    <3>5. tree'[p] = Dir
      BY <1>5, <2>2, <2>3
    <3> QED
      BY <3>4, <3>5, ThingsAreThings
  <2>4. CASE ~\E q \in plan : Below(q, p)
    BY <1>5, <2>1, <2>2, <2>4
  <2> QED
    BY <2>3, <2>4
<1>9. Mirrored'
  BY <1>1, <1>5, <1>7, <1>8 DEF Mirrored
<1>10. ~Refuse
  BY <1>5 DEF Refuse
<1> QED
  BY <1>9, <1>10

\* When it comes to a refusal, the plan has met a repository nobody knows.
LEMMA RefuseMirrors ==
  ASSUME Refuse, Mirrored, still => Hopeless(ws, repos)
  PROVE  Mirrored'
BY DEF Refuse, Mirrored, Hopeless, Shares

LEMMA CreationMirrors ==
  ASSUME Known, Lead, Kept, Mirrored, Creation
  PROVE  Mirrored'
<1>1. CASE Develop
  BY <1>1 DEF Develop, Mirrored
<1>2. CASE ~still /\ ~Develop
  <2>1. still' = still
    <3>1. CASE Walk \/ Save \/ Worktrees \/ Refuse
      BY <3>1 DEF Walk, Save, Worktrees, Refuse
    <3>2. CASE Plan \/ Carry
      BY <3>1, <3>2 DEF Plan, Carry
    <3>3. ASSUME NEW p \in Paths, LinkRepository(p) \/ LinkDir(p) \/ Copy(p) \/ CopyStray(p)
          PROVE  still' = still
      BY <3>1, <3>3 DEF LinkRepository, LinkDir, Copy, CopyStray, Place
    <3> QED
      BY <1>2, <3>1, <3>2, <3>3 DEF Creation
  <2> QED
    BY <1>2, <2>1 DEF Mirrored
<1> SUFFICES ASSUME still, ~Develop PROVE Mirrored'
  BY <1>1, <1>2
<1>3. CASE Walk
  <2>1. /\ repos' = Repositories(ws) /\ stage' = "walked" /\ ws' = ws
    BY <1>3 DEF Walk
  <2>2. \A r \in repos' : ws'[r] = "repo"
    BY <2>1 DEF Repositories, Discovered
  <2> QED
    BY <2>1, <2>2 DEF Mirrored
<1>4. CASE Worktrees
  BY <1>4, WorktreesMirror
<1>5. CASE Save
  BY <1>5 DEF Save, Mirrored
<1>6. CASE Plan
  <2>1. \A r \in repos : ws[r] = "repo" /\ r \in Paths
    BY DEF Mirrored, Known, Shape, Typed
  <2>2. ~Unreadable(ws, repos, selected)
    <3>1. SUFFICES ASSUME NEW d \in Way, ws[d] \notin Folders \cup {"none"} PROVE FALSE
      BY DEF Unreadable, Way
    <3>2. PICK r \in repos : d \in Paths /\ Below(r, d)
      BY DEF Way, Ancestors
    <3> QED
      BY <2>1, <3>1, <3>2 DEF Known, IInv, Closed
  <2>3. /\ todo' = Planned /\ stage' = "placing" /\ stage = "planning"
        /\ UNCHANGED <<ws, repos, selected, still, tree, slots>>
    BY <1>6, <2>2 DEF Plan, Planned
  <2>4. /\ Linked' = {} /\ Copied' = {} /\ Linked = {} /\ Copied = {}
        /\ Planned' = Planned /\ Way' = Way
    BY <2>3 DEF Known, Shape, Typed, Linked, Copied, Slots, Planned, Way
  <2>5. /\ \A p \in Paths : (\A r \in selected : ~Within(p, r)) =>
             /\ tree[p].is = "file" => p \in Copied
             /\ tree[p].is = "dir" => p \in Way
        /\ \A p \in Paths : (\E r \in selected : Within(p, r)) =>
             /\ tree[p].is = "file" => ws[p] \in {"file", "big"}
             /\ tree[p].is = "dir" => ws[p] \in Folders
    BY <2>3 DEF Mirrored
  <2> QED
    BY <2>1, <2>3, <2>4, <2>5 DEF Mirrored
<1>7. CASE Carry
  BY <1>7, CarryMirrors
<1>8. stage = "placing" =>
        /\ todo.backFill \subseteq Planned.backFill
        /\ todo.linkDirs \subseteq Planned.linkDirs
        /\ todo.copyFiles \subseteq Planned.copyFiles
        /\ todo.strays \subseteq Planned.strays
  BY DEF Mirrored
<1>9. ASSUME NEW p \in Paths, LinkRepository(p) PROVE Mirrored'
  <2>1. stage = "placing" /\ p \in todo.backFill /\ p \in ToPlace
    BY <1>9 DEF LinkRepository, ToPlace
  <2>2. tree[p].is = "none"
    BY <2>1, RoomForLinks
  <2>3. Place(p, Link, "symlink", [todo EXCEPT !.backFill = @ \ {p}])
    BY <1>9, <2>2 DEF LinkRepository
  <2> QED
    BY <2>1, <2>2, <2>3, PlaceMirrors
<1>10. ASSUME NEW p \in Paths, LinkDir(p) PROVE Mirrored'
  <2>1. stage = "placing" /\ p \in todo.linkDirs /\ p \in ToPlace /\ todo.backFill = {}
    BY <1>10 DEF LinkDir, ToPlace
  <2>2. tree[p].is = "none"
    BY <2>1, RoomForLinks
  <2>3. CASE Hides(ws, p)
    <3>1. Hopeless(ws, repos)
      BY <1>8, <2>1, <2>3, HidesIsHopeless, PlanIs
    <3>2. Refuse
      BY <1>10, <2>3 DEF LinkDir
    <3> QED
      BY <3>1, <3>2, RefuseMirrors
  <2>4. CASE ~Hides(ws, p)
    <3>1. Place(p, Link, "symlink", [todo EXCEPT !.linkDirs = @ \ {p}])
      BY <1>10, <2>2, <2>4 DEF LinkDir
    <3> QED
      BY <2>1, <2>2, <3>1, PlaceMirrors
  <2> QED
    BY <2>3, <2>4
<1>11. ASSUME NEW p \in Paths, Copy(p) PROVE Mirrored'
  <2>1. stage = "placing" /\ p \in todo.copyFiles /\ p \in ToPlace
    BY <1>11 DEF Copy, ToPlace
  <2>2. tree[p].is = "none"
    BY <2>1 DEF Known, Shape, Raised
  <2>3. ws[p] = "file"
    BY <1>8, <2>1, PlanIs
  <2>4. Place(p, File("wkt"), "copy", [todo EXCEPT !.copyFiles = @ \ {p}])
    BY <1>11, <2>3 DEF Copy
  <2>5. File("wkt") # Link
    BY DEF File, Link
  <2> QED
    BY <2>1, <2>2, <2>4, <2>5, PlaceMirrors
<1>12. ASSUME NEW p \in Paths, CopyStray(p) PROVE Mirrored'
  <2>1. stage = "placing" /\ p \in todo.strays
    BY <1>12 DEF CopyStray
  <2>2. ws[p] = "checkout"
    BY <1>8, <2>1, PlanIs
  <2>3. /\ todo' = [todo EXCEPT !.strays = @ \ {p}]
        /\ UNCHANGED <<ws, stage, repos, selected, still, tree, slots>>
    BY <1>12, <2>2 DEF CopyStray
  <2>4. /\ todo'.backFill = todo.backFill /\ todo'.linkDirs = todo.linkDirs
        /\ todo'.copyFiles = todo.copyFiles /\ todo'.strays \subseteq todo.strays
    BY <2>3 DEF Known, Ranges
  <2>5. UNCHANGED <<Linked, Copied, Planned, Way>>
    BY <2>3 DEF Linked, Copied, Slots, Planned, Way
  <2> QED
    BY <2>1, <2>3, <2>4, <2>5 DEF Mirrored
<1> QED
  BY <1>3, <1>4, <1>5, <1>6, <1>7, <1>9, <1>10, <1>11, <1>12 DEF Creation

\* Everything but the making happens to a tree that lives.
LEMMA LifeIsLive ==
  ASSUME Known, [Next]_vars, ~Creation
  PROVE  (stage = "live" /\ UNCHANGED making) \/ UNCHANGED vars
<1>1. script \/ seam.pc # "idle" \/ fix.pc # "idle" => stage = "live"
  BY DEF Known, Shape, Typed, NoSeam, NoFix
<1>2. CASE Agent \/ Script
  BY <1>1, <1>2 DEF Agent, Script, Changed
<1>3. CASE ScriptEnds \/ Crash \/ Move
  BY <1>1, <1>3 DEF ScriptEnds, Crash, Move
<1>4. CASE SeamBegin \/ SeamRun \/ SeamRecord \/ SeamRestore
  BY <1>1, <1>4 DEF SeamBegin, SeamRun, SeamRecord, SeamRestore, Seam
<1>5. CASE FixLoad \/ FixRules \/ FixWorktrees \/ FixEnd
  BY <1>1, <1>5 DEF FixLoad, FixRules, FixWorktrees, FixEnd, Fix
<1>6. ASSUME NEW p \in Paths, Withdraw(p) PROVE stage = "live" /\ UNCHANGED making
  BY <1>1, <1>6 DEF Withdraw, Seam
<1>7. ASSUME NEW p \in Paths, FixLink(p) PROVE stage = "live" /\ UNCHANGED making
  BY <1>1, <1>7 DEF FixLink, Fix
<1> QED
  BY <1>2, <1>3, <1>4, <1>5, <1>6, <1>7 DEF Next

LEMMA LifeMirrors ==
  ASSUME Known, Mirrored, [Next]_vars, ~Creation
  PROVE  Mirrored'
<1>1. CASE stage = "live" /\ UNCHANGED making
  BY <1>1 DEF making, Mirrored
<1>2. CASE UNCHANGED vars
  <2>1. UNCHANGED <<ws, stage, repos, selected, todo, still, tree, slots>>
    BY <1>2 DEF vars, making
  <2>2. UNCHANGED <<Linked, Copied, Planned, Way>>
    BY <2>1 DEF Linked, Copied, Slots, Planned, Way
  <2>3. Hopeless(ws, repos)' <=> Hopeless(ws, repos)
    BY <2>1
  <2> QED
    BY <2>1, <2>2, <2>3 DEF Mirrored
<1> QED
  BY <1>1, <1>2, LifeIsLive

-----------------------------------------------------------------------------
\* In a workspace that rests, wkt new makes a tree whose every path leads to
\* what the workspace has there (PlanFor, placing, Should), and it fails only
\* over a repository that is not known or a symlink to one: neither order of
\* the placing, nor what else stands in the tree, nor what is carried into it,
\* is ever in the way of the rest of the plan.
THEOREM TreesMirror == Spec => []Mirrors
<1>1. Init => Known /\ Lead /\ Kept /\ Mirrored
  <2> SUFFICES ASSUME Init PROVE Known /\ Lead /\ Kept /\ Mirrored
    OBVIOUS
  <2>1. Mirrored
    BY DEF Init, Mirrored
  <2> QED
    BY <2>1, KeptInit
<1>2. Known /\ Lead /\ Kept /\ Mirrored /\ [Next]_vars => Known' /\ Lead' /\ Kept' /\ Mirrored'
  BY KnownStep, CreationLeads, LifeLeads, CreationKept, LifeKept, CreationMirrors, LifeMirrors
<1>3. Known /\ Lead /\ Kept /\ Mirrored => Mirrors
  BY BuiltMirrors DEF Mirrors, Mirrored
<1> QED
  BY <1>1, <1>2, <1>3, PTL DEF Spec
=============================================================================
