--------------------------- MODULE CreationProofs ---------------------------
(***************************************************************************)
(* Proofs about Creation, for any number of repositories and events, any   *)
(* faults and whoever acts besides the command.                            *)
(***************************************************************************)
EXTENDS Creation, SequenceTheorems, WellFoundedInduction, TLAPS

Loop == {"pin", "ensure", "clone", "fetch", "fetched", "unlink", "worktree",
         "lock"}

\* What a command knows about itself at each label.
Control ==
  /\ Len(log) <= 2 * events
  /\ pc = "idle" <=> cmd.verb = "none"
  /\ pc = "idle" => cmd.sel = {}
  /\ pc # "idle" => at \in cmd.sel
  /\ pc \in {"idle", "validate", "mkdir"} => undos = <<>>
  /\ cmd.verb = "new" => rec.repos = {}
  /\ cmd.verb = "add" => rec.repos # {} /\ cmd.sel = {at} /\ at \notin rec.repos
                         /\ pc # "mkdir"
  /\ \A i \in 1..Len(undos) :
       IF undos[i].do = "tree" THEN cmd.verb = "new" ELSE undos[i].r \in cmd.sel

Basic == TypeOK /\ Control

Commits == Seq([repo : Repos, date : Clock])

\* The developer's commits, whatever their dates.
SomeCommit ==
  \E r \in Repos : \E pulled \in BOOLEAN : \E tick \in {0, 1} :
    \E date \in Clock : Commit(r, pulled, tick, date)

-----------------------------------------------------------------------------
(* Least and greatest.                                                     *)

LEMMA Least ==
  ASSUME NEW S \in SUBSET Nat, S # {}
  PROVE  Min(S) \in S /\ \A y \in S : Min(S) <= y
<1> DEFINE R == OpToRel(<, Nat)
<1>1. \E x \in S : \A y \in S : <<y, x>> \notin R
  <2>1. IsWellFoundedOn(R, Nat)
    BY NatLessThanWellFounded
  <2> HIDE DEF R
  <2> QED
    BY <2>1, WFMin
<1>2. \A x, y \in S : (<<y, x>> \notin R) => ~(y < x)
  BY DEF OpToRel
<1>3. \E x \in S : \A y \in S : ~(y < x)
  <2> HIDE DEF R
  <2> QED
    BY <1>1, <1>2
<1>4. \E x \in S : \A y \in S : x =< y
  BY <1>3
<1> QED
  BY <1>4 DEF Min

LEMMA Greatest ==
  ASSUME NEW n \in Nat, NEW S \in SUBSET (0..n), S # {}
  PROVE  Max(S) \in S /\ \A y \in S : Max(S) >= y
<1> DEFINE T == {n - x : x \in S}
<1>1. T \in SUBSET Nat /\ T # {}
  <2>1. \A x \in S : n - x \in Nat
    OBVIOUS
  <2>2. T \subseteq Nat
    BY <2>1
  <2> QED
    BY <2>2
<1>2. Min(T) \in T /\ \A y \in T : Min(T) <= y
  BY <1>1, Least
<1>3. PICK x \in S : Min(T) = n - x
  BY <1>2
<1>4. \A y \in S : n - x <= n - y
  BY <1>2, <1>3
<1>5. \A y \in S : x >= y
  BY <1>4
<1> QED
  BY <1>5 DEF Max

\* The first of a selection, and the next.
LEMMA FirstOf ==
  ASSUME NEW S \in SUBSET Repos, S # {}
  PROVE  Min(S) \in S /\ \A y \in S : Min(S) <= y
<1>1. S \in SUBSET Nat
  BY DEF Repos
<1> QED
  BY <1>1, Least

LEMMA MaxOfTwo ==
  ASSUME NEW a \in Times, NEW b \in Times
  PROVE  Max({a, b}) \in Times /\ Max({a, b}) >= a
<1>1. 2 * MaxEvents \in Nat /\ {a, b} \in SUBSET (0..(2 * MaxEvents))
  BY EventsBound DEF Times
<1>2. Max({a, b}) \in {a, b} /\ \A y \in {a, b} : Max({a, b}) >= y
  BY <1>1, Greatest
<1> QED
  BY <1>2

\* What git finds on its way back is a commit of the kind it looks for, and
\* of these the latest; or there is none.
LEMMA NewestIs ==
  ASSUME log \in Commits, NEW r, NEW n \in Nat, n <= Len(log), NEW e \in Clock
  PROVE  /\ Newest(r, n, e) \in {0} \cup Before(r, n, e) /\ Newest(r, n, e) \in 0..n
         /\ \A i \in Before(r, n, e) :
              /\ log[i].date <= Dated(Newest(r, n, e))
              /\ log[i].date = Dated(Newest(r, n, e)) => i <= Newest(r, n, e)
<1> DEFINE B == Before(r, n, e)
           D == {0} \cup {log[i].date : i \in B}
           S(d) == {0} \cup {i \in B : log[i].date = d}
<1>1. MaxClock \in Nat /\ Clock = 0..MaxClock
  BY ClockBound DEF Clock
<1>2. ASSUME NEW i \in B PROVE i \in 1..n /\ log[i].date \in 0..MaxClock
  <2>1. i \in 1..n /\ i \in 1..Len(log)
    BY <1>2 DEF Before, Commits
  <2>2. log[i] \in [repo : Repos, date : Clock]
    BY <2>1, ElementOfSeq DEF Commits
  <2> QED
    BY <1>1, <2>1, <2>2
<1>3. D \in SUBSET (0..MaxClock) /\ D # {}
  BY <1>1, <1>2
<1>4. Max(D) \in D /\ \A y \in D : Max(D) >= y
  BY <1>1, <1>3, Greatest
<1>5. S(Max(D)) \in SUBSET (0..n) /\ S(Max(D)) # {}
  BY <1>2
<1>6. Max(S(Max(D))) \in S(Max(D)) /\ \A y \in S(Max(D)) : Max(S(Max(D))) >= y
  <2> HIDE DEF D
  <2> QED
    BY <1>5, Greatest
<1>7. Newest(r, n, e) = Max(S(Max(D)))
  BY DEF Newest
<1> DEFINE b == Newest(r, n, e)
<1>8. b \in {0} \cup B /\ b \in 0..n
  BY <1>2, <1>6, <1>7
<1>9. Dated(b) = Max(D)
  <2>1. CASE b # 0
    BY <1>6, <1>7, <2>1 DEF Dated
  <2>2. CASE b = 0
    <3>1. \A i \in B : log[i].date # Max(D)
      <4>1. \A i \in B : log[i].date = Max(D) => i \in S(Max(D)) /\ i > 0
        BY <1>2
      <4>2. \A y \in S(Max(D)) : y <= 0
        BY <1>5, <1>6, <1>7, <2>2
      <4> HIDE DEF S, D, B
      <4> QED
        BY <4>1, <4>2, <1>2
    <3> QED
      BY <1>4, <2>2, <3>1 DEF Dated
  <2> QED
    BY <2>1, <2>2
<1>10. ASSUME NEW i \in B PROVE log[i].date <= Dated(b) /\ (log[i].date = Dated(b) => i <= b)
  <2>1. log[i].date \in D /\ (log[i].date = Max(D) => i \in S(Max(D)))
    OBVIOUS
  <2>2. log[i].date <= Max(D)
    <3> HIDE DEF D, B
    <3> QED
      BY <1>1, <1>2, <1>3, <1>4, <1>10, <2>1
  <2>3. i \in S(Max(D)) => i <= b
    <3> HIDE DEF S, D, B
    <3> QED
      BY <1>2, <1>5, <1>6, <1>7, <1>10
  <2> QED
    BY <1>9, <2>1, <2>2, <2>3
<1> QED
  BY <1>8, <1>10

LEMMA NewestBound ==
  ASSUME log \in Commits, Len(log) \in Times, NEW r, NEW e \in Clock
  PROVE  Newest(r, Len(log), e) \in Times
<1>1. Len(log) \in Nat /\ Newest(r, Len(log), e) \in 0..Len(log)
  BY NewestIs DEF Commits
<1> QED
  BY <1>1, EventsBound DEF Times

-----------------------------------------------------------------------------
(* Types and control.                                                      *)

LEMMA Numbers == /\ N \in Nat \ {0} /\ MaxEvents \in Nat /\ Repos = 1..N
                 /\ Times = 0..(2 * MaxEvents) /\ 0 \notin Repos
                 /\ MaxClock \in Nat /\ Clock = 0..MaxClock
                 /\ 0 \in Times /\ 0 \in Clock
BY NAssumption, EventsBound, ClockBound DEF Repos, Times, Clock

\* Where the command goes next.
LEMMA NextRepoKeeps ==
  ASSUME Basic, NEW first \in Labels, NEW l \in Labels, NextRepo(first, l), pc # "idle"
  PROVE  /\ pc' \in {first, l} /\ at' \in cmd.sel /\ at' \in Repos
         /\ UNCHANGED <<cmd, last>>
         /\ pc' = first /\ first # l => at < at' /\ \A r \in cmd.sel : r < at' => r <= at
         /\ pc' = l /\ first # l => \A r \in cmd.sel : r <= at /\ at' <= r
<1> DEFINE rest == {r \in cmd.sel : r > at}
<1>1. cmd.sel \in SUBSET Repos /\ cmd.sel # {} /\ at \in Repos
  BY DEF Basic, TypeOK, Control
<1>2. rest \in SUBSET Repos
  BY <1>1
<1>3. CASE rest # {}
  <2>1. Min(rest) \in rest /\ \A y \in rest : Min(rest) <= y
    BY <1>2, <1>3, FirstOf
  <2>2. at' = Min(rest) /\ pc' = first /\ UNCHANGED <<cmd, last>>
    BY <1>3 DEF NextRepo
  <2>3. at' \in cmd.sel /\ at' > at
    BY <2>1, <2>2
  <2>4. \A r \in cmd.sel : r > at => at' <= r
    BY <2>1, <2>2
  <2>5. \A r \in cmd.sel : r < at' => r <= at
    BY <1>1, <2>3, <2>4, Numbers
  <2> QED
    BY <1>1, <2>2, <2>3, <2>5, Numbers
<1>4. CASE rest = {}
  <2>1. Min(cmd.sel) \in cmd.sel /\ \A y \in cmd.sel : Min(cmd.sel) <= y
    BY <1>1, FirstOf
  <2>2. at' = Min(cmd.sel) /\ pc' = l /\ UNCHANGED <<cmd, last>>
    BY <1>4 DEF NextRepo
  <2>3. \A r \in cmd.sel : r <= at
    BY <1>1, <1>4, Numbers
  <2> QED
    BY <1>1, <2>1, <2>2, <2>3, Numbers
<1> QED
  BY <1>3, <1>4

\* The end of a command.
LEMMA OverKeeps ==
  ASSUME Basic, NEW result \in {"done", "failed", "hurt"}, Over(result), undos' = <<>>,
         UNCHANGED <<log, now, own, main, held, phase, branch, admin, pin, slot, sweeping, swept>>,
         root' \in BOOLEAN, events' \in Times, events' >= events,
         rec' \in [repos : SUBSET Repos, links : SUBSET Repos, from : Times, upto : Times, epoch : Clock]
  PROVE  Basic'
<1>1. base' \in [Repos -> Times]
  <2>1. 0 \in Times
    BY Numbers
  <2> HIDE DEF Times
  <2> QED
    BY <2>1 DEF Basic, TypeOK, Over
<1>2. NoCmd \in [verb : {"none", "new", "add"}, sel : SUBSET Repos,
                 seen : SUBSET Repos, from : Times, upto : Times, epoch : Clock]
  BY Numbers DEF NoCmd
<1>3. Len(log) <= 2 * events'
  <2>1. /\ Len(log) \in Nat /\ events \in Nat /\ events' \in Nat
        /\ Len(log) <= 2 * events /\ events <= events'
    BY Numbers DEF Basic, TypeOK, Control
  <2> QED
    BY <2>1
<1>4. TypeOK'
  BY <1>1, <1>2 DEF Basic, TypeOK, Over, Labels
<1>5. Control'
  BY <1>3 DEF Basic, Control, Over, NoCmd
<1> QED
  BY <1>4, <1>5 DEF Basic

LEMMA OverKeptKeeps ==
  ASSUME Basic, Over("failed"), undos' = <<>>,
         UNCHANGED <<log, now, own, main, held, phase, branch, admin, pin, slot, root, rec,
                     sweeping, swept, events>>
  PROVE  Basic'
<1>1. events' \in Times /\ events' >= events /\ root' \in BOOLEAN
  BY Numbers DEF Basic, TypeOK
<1>2. rec' \in [repos : SUBSET Repos, links : SUBSET Repos, from : Times, upto : Times, epoch : Clock]
  BY DEF Basic, TypeOK
<1> QED
  BY <1>1, <1>2, OverKeeps

\* A step within a command that only goes on.
LEMMA GotoKeeps ==
  ASSUME Basic, pc # "idle", NEW l \in Labels \ {"idle", "validate", "mkdir"}, Goto(l),
         UNCHANGED <<log, now, own, main, rec, sweeping, swept, events>>,
         phase' \in [Repos -> {"absent", "partial", "built"}],
         held' \in [Repos -> Times],
         branch' \in [Repos -> {"none", "ours", "theirs"}],
         admin' \in [Repos -> {"none", "added", "locked"}],
         slot' \in [Repos -> {"none", "link", "worktree", "file", "dir"}],
         pin' \subseteq Repos, root' \in BOOLEAN,
         undos' \in Seq([do : {"tree", "pin", "branch", "worktree", "link"},
                         r : Repos \cup {0}]),
         \A i \in 1..Len(undos') :
           IF undos'[i].do = "tree" THEN cmd.verb = "new" ELSE undos'[i].r \in cmd.sel
  PROVE  Basic'
<1>1. TypeOK'
  BY DEF Basic, TypeOK, Goto
<1>2. Control'
  BY DEF Basic, Control, Goto
<1> QED
  BY <1>1, <1>2 DEF Basic

\* What others do leaves the command where it is.
LEMMA OthersKeep ==
  ASSUME Basic, UNCHANGED <<pc, cmd, at, base, undos, rec>>, last' \in {last, "none"},
         Len(log') <= 2 * events', log' \in Commits, Len(log') \in Times,
         now' \in Clock, own' \subseteq Repos, main' \in [Repos -> Times], held' = held, phase' = phase,
         branch' \in [Repos -> {"none", "ours", "theirs"}],
         admin' \in [Repos -> {"none", "added", "locked"}],
         slot' \in [Repos -> {"none", "link", "worktree", "file", "dir"}],
         pin' \subseteq Repos, root' \in BOOLEAN, sweeping' \in BOOLEAN,
         swept' \subseteq Repos, events' \in Times
  PROVE  Basic'
<1>1. TypeOK'
  BY DEF Basic, TypeOK, Commits
<1>2. Control'
  BY DEF Basic, Control
<1> QED
  BY <1>1, <1>2 DEF Basic

LEMMA BasicInit == Init => Basic
<1> SUFFICES ASSUME Init PROVE Basic
  OBVIOUS
<1>1. TypeOK
  <2>1. cmd \in [verb : {"none", "new", "add"}, sel : SUBSET Repos,
                 seen : SUBSET Repos, from : Times, upto : Times, epoch : Clock]
    BY Numbers DEF Init, NoCmd
  <2>2. rec \in [repos : SUBSET Repos, links : SUBSET Repos, from : Times, upto : Times, epoch : Clock]
    BY Numbers DEF Init, NoRec
  <2>3. log = <<>> /\ log \in Commits /\ Len(log) \in Times /\ events \in Times
    BY Numbers DEF Init, Commits
  <2>4. undos \in Seq([do : {"tree", "pin", "branch", "worktree", "link"},
                       r : Repos \cup {0}])
    BY DEF Init
  <2> QED
    BY <2>1, <2>2, <2>3, <2>4, Numbers DEF Init, TypeOK, Labels, Commits
<1>2. Control
  BY Numbers DEF Init, Control, NoCmd, NoRec
<1> QED
  BY <1>1, <1>2 DEF Basic

\* One more undo of the repository in hand.
LEMMA UndoKeeps ==
  ASSUME Basic, pc # "idle", NEW what \in {"pin", "branch", "worktree", "link"},
         NEW us \in Seq([do : {"tree", "pin", "branch", "worktree", "link"},
                         r : Repos \cup {0}]),
         \A i \in 1..Len(us) :
           IF us[i].do = "tree" THEN cmd.verb = "new" ELSE us[i].r \in cmd.sel
  PROVE  LET vs == Append(us, Undo(what)) IN
         /\ vs \in Seq([do : {"tree", "pin", "branch", "worktree", "link"},
                        r : Repos \cup {0}])
         /\ \A i \in 1..Len(vs) :
              IF vs[i].do = "tree" THEN cmd.verb = "new" ELSE vs[i].r \in cmd.sel
<1>1. at \in cmd.sel /\ at \in Repos
  BY DEF Basic, TypeOK, Control
<1>2. Undo(what) \in [do : {"tree", "pin", "branch", "worktree", "link"}, r : Repos \cup {0}]
      /\ Undo(what).do # "tree" /\ Undo(what).r \in cmd.sel
  BY <1>1 DEF Undo
<1> HIDE DEF Undo
<1>3. \A i \in 1..Len(Append(us, Undo(what))) :
        Append(us, Undo(what))[i] = IF i <= Len(us) THEN us[i] ELSE Undo(what)
  OBVIOUS
<1> QED
  BY <1>2, <1>3

UndoList == Seq([do : {"tree", "pin", "branch", "worktree", "link"}, r : Repos \cup {0}])
UndosOf(us) ==
  \A i \in 1..Len(us) :
    IF us[i].do = "tree" THEN cmd.verb = "new" ELSE us[i].r \in cmd.sel

\* The command's own steps up to the worktree.
LEMMA BuildingKeeps ==
  ASSUME Basic,
         \/ \E s \in (SUBSET Repos) \ {{}} : \E seen \in SUBSET Repos : New(s, seen)
         \/ \E r \in Repos : Add(r)
         \/ Validate \/ MakeTree \/ Pin \/ Ensure \/ FinishStore \/ FetchBase
         \/ Fetched \/ Unlink
  PROVE  Basic'
<1>1. ASSUME NEW s \in SUBSET Repos, s # {}, NEW seen \in SUBSET Repos, NEW verb \in {"new", "add"},
             Begin(verb, s, seen),
             verb = "new" => rec.repos = {},
             verb = "add" => rec.repos # {} /\ \E r : s = {r} /\ r \notin rec.repos
      PROVE  Basic'
  <2>1. Min(s) \in s
    BY <1>1, FirstOf
  <2>2. cmd' \in [verb : {"none", "new", "add"}, sel : SUBSET Repos,
                  seen : SUBSET Repos, from : Times, upto : Times, epoch : Clock]
    <3>1. Len(log) \in Times /\ 0 \in Times /\ 0 \in Clock
      BY Numbers DEF Basic, TypeOK
    <3>2. cmd' = [verb |-> verb, sel |-> s, seen |-> seen, from |-> Len(log), upto |-> 0,
                   epoch |-> 0]
      BY <1>1 DEF Begin
    <3> QED
      BY <3>1, <3>2
  <2>3. TypeOK'
    BY <1>1, <2>1, <2>2 DEF Begin, store, world, work, Basic, TypeOK, Labels
  <2>4. undos' = <<>>
    BY <1>1 DEF Begin, Basic, Control
  <2>5. Control'
    BY <1>1, <2>1, <2>4 DEF Begin, store, world, work, Basic, Control
  <2> QED
    BY <2>3, <2>5 DEF Basic
<1>2. ASSUME NEW s \in SUBSET Repos, s # {}, NEW seen \in SUBSET Repos, New(s, seen) PROVE Basic'
  BY <1>1, <1>2 DEF New, Recorded
<1>3. ASSUME NEW r \in Repos, Add(r) PROVE Basic'
  BY <1>1, <1>3 DEF Add, Recorded
<1>4. CASE Validate
  <2>1. undos' = <<>> /\ pc # "idle" /\ rec' = rec
    BY <1>4 DEF Validate, work, Basic, Control
  <2>2. CASE Over("failed")
    <3>1. UNCHANGED <<store, world, work, undos, sweeping, ghost>>
      BY <1>4 DEF Validate
    <3>2. UNCHANGED <<log, now, own, main, held, phase, branch, admin, pin, slot, root, rec,
                      sweeping, swept, events>>
      BY <3>1 DEF store, world, work, ghost
    <3> QED
      BY <2>1, <2>2, <3>2, OverKeptKeeps
  <2>3. CASE ~Over("failed")
    <3> DEFINE l == IF cmd.verb = "new" THEN "mkdir" ELSE "pin"
    <3>1. base' = [base EXCEPT ![at] = BaseOf(at)] /\ NextRepo("validate", l)
      BY <1>4, <2>3 DEF Validate
    <3>2. BaseOf(at) \in Times
      <4>1. log \in Commits /\ Len(log) \in Times /\ rec.epoch \in Clock /\ MaxClock \in Clock
        BY Numbers DEF Basic, TypeOK, Commits
      <4> QED
        BY <4>1, NewestBound DEF BaseOf
    <3>3. "validate" \in Labels /\ l \in Labels
      BY DEF Labels
    <3>4. pc' \in {"validate", l} /\ at' \in cmd.sel /\ at' \in Repos /\ UNCHANGED <<cmd, last>>
      BY <2>1, <3>1, <3>3, NextRepoKeeps
    <3>5. TypeOK'
      BY <1>4, <3>1, <3>2, <3>3, <3>4 DEF Validate, store, world, work, ghost, Basic, TypeOK
    <3>6. Control'
      BY <1>4, <2>1, <3>4 DEF Validate, store, world, work, ghost, Basic, Control
    <3> QED
      BY <3>5, <3>6 DEF Basic
  <2> QED
    BY <2>2, <2>3
<1>5. CASE MakeTree
  <2>1. CASE Over("failed")
    <3>1. undos' = <<>>
      BY <1>5, <2>1 DEF MakeTree, Basic, Control, Over, Goto
    <3>2. UNCHANGED <<log, now, own, main, held, phase, branch, admin, pin, slot, root, rec,
                      sweeping, swept, events>>
      BY <1>5, <2>1 DEF MakeTree, Over, Goto, store, world, ghost, Basic, TypeOK
    <3> QED
      BY <2>1, <3>1, <3>2, OverKeptKeeps
  <2>2. CASE ~Over("failed")
    <3>1. /\ undos' = <<[do |-> "tree", r |-> 0]>> /\ cmd.verb = "new" /\ pc # "idle"
          /\ Goto("pin") /\ root' = TRUE
      BY <1>5, <2>2 DEF MakeTree, Basic, TypeOK, Control
    <3>2. undos' \in UndoList /\ UndosOf(undos')
      BY <3>1 DEF UndoList, UndosOf
    <3> QED
      BY <1>5, <3>1, <3>2, GotoKeeps
         DEF MakeTree, store, world, ghost, Basic, TypeOK, Labels, UndoList, UndosOf
  <2> QED
    BY <2>1, <2>2
<1>6. CASE Pin
  <2>1. undos' \in UndoList /\ UndosOf(undos') /\ at \in Repos
    BY <1>6, UndoKeeps DEF Pin, UndoList, UndosOf, Basic, TypeOK, Control
  <2> QED
    BY <1>6, <2>1, GotoKeeps
       DEF Pin, Fail, store, world, ghost, Basic, TypeOK, Labels, UndoList, UndosOf
<1>7. CASE Ensure
  <2>1. UNCHANGED undos /\ undos' \in UndoList /\ UndosOf(undos') /\ pc # "idle"
    BY <1>7 DEF Ensure, work, UndoList, UndosOf, Basic, TypeOK, Control
  <2>2. /\ phase' \in [Repos -> {"absent", "partial", "built"}]
        /\ held' \in [Repos -> Times]
        /\ branch' \in [Repos -> {"none", "ours", "theirs"}]
    <3>1. at \in Repos
      BY <2>1 DEF Basic, TypeOK, Control
    <3>2. CASE UNCHANGED <<phase, held, branch>>
      BY <3>2 DEF Basic, TypeOK
    <3>3. CASE /\ phase' = [phase EXCEPT ![at] = "partial"]
               /\ held' = [held EXCEPT ![at] = main[at]]
               /\ branch' = [branch EXCEPT ![at] = IF at \in own THEN "theirs" ELSE @]
      BY <3>1, <3>3 DEF Basic, TypeOK
    <3> QED
      BY <1>7, <3>2, <3>3 DEF Ensure
  <2>3. Goto("clone") \/ Goto("fetch") \/ Goto("undo")
    BY <1>7 DEF Ensure, Fail
  <2> QED
    BY <1>7, <2>1, <2>2, <2>3, GotoKeeps
       DEF Ensure, world, work, Basic, TypeOK, Labels, UndoList, UndosOf
<1>8. CASE FinishStore
  <2>1. UNCHANGED undos /\ undos' \in UndoList /\ UndosOf(undos') /\ pc # "idle"
    BY <1>8 DEF FinishStore, work, UndoList, UndosOf, Basic, TypeOK, Control
  <2>2. Goto("fetch") \/ Goto("undo")
    BY <1>8 DEF FinishStore, Fail
  <2> QED
    BY <1>8, <2>1, <2>2, GotoKeeps
       DEF FinishStore, world, work, ghost, Basic, TypeOK, Labels, UndoList, UndosOf
<1>9. CASE FetchBase
  <2>1. UNCHANGED undos /\ undos' \in UndoList /\ UndosOf(undos') /\ pc # "idle" /\ at \in Repos
    BY <1>9 DEF FetchBase, work, UndoList, UndosOf, Basic, TypeOK, Control
  <2>2. Goto("worktree") \/ Goto("fetched") \/ Goto("undo")
    BY <1>9 DEF FetchBase, Fail
  <2>3. held' \in [Repos -> Times]
    <3>1. Max({held[at], main[at]}) \in Times
      BY <2>1, MaxOfTwo DEF Basic, TypeOK
    <3> QED
      BY <1>9, <3>1 DEF FetchBase, Basic, TypeOK
  <2> QED
    BY <1>9, <2>1, <2>2, <2>3, GotoKeeps
       DEF FetchBase, world, work, ghost, Basic, TypeOK, Labels, UndoList, UndosOf
<1>10. CASE Fetched
  <2>1. undos' \in UndoList /\ UndosOf(undos') /\ pc # "idle"
    <3>1. pc # "idle" /\ undos \in UndoList /\ UndosOf(undos)
      BY <1>10 DEF Fetched, UndoList, UndosOf, Basic, TypeOK, Control
    <3>2. undos' = undos \/ \E what \in {"branch", "link"} : undos' = Append(undos, Undo(what))
      BY <1>10 DEF Fetched
    <3> QED
      BY <3>1, <3>2, UndoKeeps DEF UndoList, UndosOf
  <2>2. Goto("unlink") \/ Goto("undo")
    BY <1>10 DEF Fetched, Fail
  <2> QED
    BY <1>10, <2>1, <2>2, GotoKeeps
       DEF Fetched, store, world, work, ghost, Basic, TypeOK, Labels, UndoList, UndosOf
<1>11. CASE Unlink
  <2>1. undos' \in UndoList /\ UndosOf(undos') /\ pc # "idle"
    <3>1. pc # "idle" /\ undos \in UndoList /\ UndosOf(undos)
      BY <1>11 DEF Unlink, UndoList, UndosOf, Basic, TypeOK, Control
    <3>2. undos' = undos \/ \E what \in {"branch", "link"} : undos' = Append(undos, Undo(what))
      BY <1>11 DEF Unlink
    <3> QED
      BY <3>1, <3>2, UndoKeeps DEF UndoList, UndosOf
  <2>2. Goto("worktree") \/ Goto("undo")
    BY <1>11 DEF Unlink, Fail
  <2>3. slot' \in [Repos -> {"none", "link", "worktree", "file", "dir"}]
    BY <1>11 DEF Unlink, Basic, TypeOK
  <2> QED
    BY <1>11, <2>1, <2>2, <2>3, GotoKeeps
       DEF Unlink, store, world, ghost, Basic, TypeOK, Labels, UndoList, UndosOf
<1> QED
  BY <1>2, <1>3, <1>4, <1>5, <1>6, <1>7, <1>8, <1>9, <1>10, <1>11

\* The last step before the record reads the clock at most.
LEMMA BuildCommand ==
  ASSUME Basic, Build
  PROVE  /\ pc = "build" /\ pc' \in {"save", "undo"} /\ UNCHANGED <<at, base, last>>
         /\ cmd'.verb = cmd.verb /\ cmd'.sel = cmd.sel /\ cmd'.from = cmd.from
         /\ UNCHANGED <<store, world, pin, root, rec, undos, sweeping, ghost>>
         /\ pc' = "save" => cmd'.upto = Len(log) /\ cmd'.epoch = now
<1>1. pc = "build" /\ UNCHANGED <<store, world, pin, root, rec, undos, sweeping, ghost>>
  BY DEF Build
<1>2. CASE Goto("undo")
  BY <1>1, <1>2 DEF Goto
<1>3. CASE ~Goto("undo")
  <2>1. cmd' = [cmd EXCEPT !.upto = Len(log), !.epoch = now] /\ pc' = "save"
        /\ UNCHANGED <<at, base, last>>
    BY <1>3 DEF Build, Fail
  <2> QED
    BY <1>1, <2>1 DEF Basic, TypeOK
<1> QED
  BY <1>2, <1>3

LEMMA EventCounts ==
  ASSUME Basic, Event
  PROVE  events' \in Times /\ events' >= events
         /\ Len(log) + 1 <= 2 * events' /\ Len(log) + 2 <= 2 * events'
         /\ Len(log) + 1 \in Times /\ Len(log) + 2 \in Times /\ Len(log) <= 2 * events'
<1>1. /\ events \in Nat /\ MaxEvents \in Nat /\ Len(log) \in Nat
      /\ Len(log) <= 2 * events
  BY Numbers DEF Basic, TypeOK, Control
<1>2. events < MaxEvents /\ events' = events + 1
  BY DEF Event
<1> QED
  BY <1>1, <1>2, Numbers

\* From the worktree to the record, and back.
LEMMA FinishingKeeps ==
  ASSUME Basic, AddWorktree \/ Lock \/ Build \/ Save \/ Rollback \/ RolledBack \/ Crash
  PROVE  Basic'
<1>1. CASE AddWorktree
  <2>1. pc # "idle" /\ undos \in UndoList /\ UndosOf(undos) /\ at \in Repos
    BY <1>1 DEF AddWorktree, UndoList, UndosOf, Basic, TypeOK, Control
  <2>2. /\ undos \o BranchUndo \in UndoList /\ UndosOf(undos \o BranchUndo)
        /\ undos \o BranchUndo \o <<Undo("worktree")>> \in UndoList
        /\ UndosOf(undos \o BranchUndo \o <<Undo("worktree")>>)
    <3>1. undos \o BranchUndo = undos \/ undos \o BranchUndo = Append(undos, Undo("branch"))
      BY <2>1 DEF BranchUndo, UndoList
    <3>2. undos \o BranchUndo \in UndoList /\ UndosOf(undos \o BranchUndo)
      BY <2>1, <3>1, UndoKeeps DEF UndoList, UndosOf
    <3>3. undos \o BranchUndo \o <<Undo("worktree")>>
            = Append(undos \o BranchUndo, Undo("worktree"))
      BY <3>2 DEF UndoList
    <3> HIDE DEF BranchUndo
    <3> QED
      BY <2>1, <3>2, <3>3, UndoKeeps DEF UndoList, UndosOf
  <2>3. /\ branch' \in [Repos -> {"none", "ours", "theirs"}]
        /\ admin' \in [Repos -> {"none", "added", "locked"}]
        /\ slot' \in [Repos -> {"none", "link", "worktree", "file", "dir"}]
        /\ root' \in BOOLEAN
    BY <1>1, <2>1 DEF AddWorktree, Basic, TypeOK
  <2>4. undos' \in UndoList /\ UndosOf(undos')
    BY <1>1, <2>2 DEF AddWorktree
  <2>5. Goto("lock") \/ Goto("undo")
    BY <1>1 DEF AddWorktree, Fail
  <2>6. UNCHANGED <<log, now, own, main, rec, sweeping, swept, events, phase, held, pin>>
    BY <1>1 DEF AddWorktree, world, ghost
  <2> QED
    BY <2>1, <2>3, <2>4, <2>5, <2>6, GotoKeeps DEF Basic, TypeOK, Labels, UndoList, UndosOf
<1>2. CASE Lock
  <2>1. pc # "idle" /\ undos \in UndoList /\ UndosOf(undos) /\ at \in Repos
    BY <1>2 DEF Lock, UndoList, UndosOf, Basic, TypeOK, Control
  <2>2. UNCHANGED <<phase, held, branch, log, now, own, main, pin, root, slot, rec, undos,
                    sweeping, swept, had, late, events>>
    BY <1>2 DEF Lock, world, work, ghost
  <2>3. admin' \in [Repos -> {"none", "added", "locked"}]
    BY <1>2, <2>1 DEF Lock, Basic, TypeOK
  <2>4. CASE Goto("undo")
    BY <2>1, <2>2, <2>3, <2>4, GotoKeeps DEF Basic, TypeOK, Labels, UndoList, UndosOf
  <2>5. CASE ~Goto("undo")
    <3>1. NextRepo("pin", "build") /\ base' = base
      BY <1>2, <2>5 DEF Lock, Fail
    <3>2. pc' \in {"pin", "build"} /\ at' \in cmd.sel /\ at' \in Repos /\ UNCHANGED <<cmd, last>>
      BY <2>1, <3>1, NextRepoKeeps DEF Labels
    <3>3. TypeOK'
      BY <2>2, <2>3, <3>1, <3>2 DEF Basic, TypeOK, Labels
    <3>4. Control'
      BY <2>1, <2>2, <3>2 DEF Basic, Control
    <3> QED
      BY <3>3, <3>4 DEF Basic
  <2> QED
    BY <2>4, <2>5
<1>3. CASE Build
  <2>1. pc # "idle" /\ undos \in UndoList /\ UndosOf(undos)
    BY <1>3 DEF Build, UndoList, UndosOf, Basic, TypeOK, Control
  <2>2. UNCHANGED <<phase, held, branch, admin, log, now, own, main, pin, root, rec, undos,
                    sweeping, swept, had, late, events>>
    BY <1>3 DEF Build, store, world, ghost
  <2>3. slot' \in [Repos -> {"none", "link", "worktree", "file", "dir"}]
    BY <1>3 DEF Build, Basic, TypeOK
  <2>4. CASE Goto("undo")
    BY <2>1, <2>2, <2>3, <2>4, GotoKeeps DEF Basic, TypeOK, Labels, UndoList, UndosOf
  <2>5. CASE ~Goto("undo")
    <3>1. cmd' = [cmd EXCEPT !.upto = Len(log), !.epoch = now] /\ pc' = "save"
          /\ UNCHANGED <<at, base, last>>
      BY <1>3, <2>5 DEF Build, Fail
    <3>2. Len(log) \in Times /\ now \in Clock
      BY DEF Basic, TypeOK
    <3>3. TypeOK'
      BY <2>2, <2>3, <3>1, <3>2 DEF Basic, TypeOK, Labels
    <3>4. cmd'.verb = cmd.verb /\ cmd'.sel = cmd.sel
      BY <3>1 DEF Basic, TypeOK
    <3>5. Control'
      BY <2>1, <2>2, <3>1, <3>4 DEF Basic, Control
    <3> QED
      BY <3>3, <3>5 DEF Basic
  <2> QED
    BY <2>4, <2>5
<1>4. CASE Save
  <2>1. pc # "idle" /\ undos \in UndoList /\ UndosOf(undos)
    BY <1>4 DEF Save, UndoList, UndosOf, Basic, TypeOK, Control
  <2>2. UNCHANGED <<phase, held, branch, admin, log, now, own, main, pin, root, slot,
                    sweeping, swept, had, late, events>>
    BY <1>4 DEF Save, store, world, ghost
  <2>3. CASE Goto("undo")
    <3>1. UNCHANGED <<rec, undos>>
      BY <1>4, <2>3 DEF Save, Goto, Over
    <3> QED
      BY <2>1, <2>2, <2>3, <3>1, GotoKeeps DEF Basic, TypeOK, Labels, UndoList, UndosOf
  <2>4. CASE ~Goto("undo")
    <3>1. /\ rec' = IF cmd.verb = "new"
                      THEN [repos |-> cmd.sel, links |-> cmd.seen \ cmd.sel,
                            from |-> cmd.from, upto |-> cmd.upto, epoch |-> cmd.epoch]
                      ELSE [rec EXCEPT !.repos = @ \cup cmd.sel, !.links = @ \ cmd.sel]
          /\ undos' = <<>> /\ Over("done")
      BY <1>4, <2>4 DEF Save, Fail
    <3>2. rec' \in [repos : SUBSET Repos, links : SUBSET Repos, from : Times, upto : Times, epoch : Clock]
      BY <3>1 DEF Basic, TypeOK
    <3>3. events' \in Times /\ events' >= events /\ root' \in BOOLEAN
      BY <2>2, Numbers DEF Basic, TypeOK
    <3> QED
      BY <2>2, <3>1, <3>2, <3>3, OverKeeps
  <2> QED
    BY <2>3, <2>4
<1>5. CASE Rollback
  <2>1. pc = "undo" /\ undos \in UndoList /\ UndosOf(undos) /\ undos # <<>>
    BY <1>5 DEF Rollback, UndoList, UndosOf, Basic, TypeOK, Control
  <2>2. UNCHANGED <<phase, held, log, now, own, main, rec, pc, cmd, at, base, sweeping,
                    swept, had, late>>
    BY <1>5 DEF Rollback, world
  <2>3. undos' \in UndoList /\ UndosOf(undos') /\ Len(undos') <= Len(undos)
        /\ \A i \in 1..Len(undos') : undos'[i] = undos[i]
    <3>1. undos' = [i \in 1..(Len(undos) - 1) |-> undos[i]]
      <4>1. undos' = [i \in 1..(Len(undos) - 1) |->
                        IF i < Len(undos) THEN undos[i] ELSE undos[i + 1]]
        BY <1>5 DEF Rollback, NextUndo
      <4>2. \A i \in 1..(Len(undos) - 1) : i < Len(undos)
        BY <2>1 DEF UndoList
      <4> QED
        BY <4>1, <4>2
    <3>2. Len(undos) - 1 \in Nat
      BY <2>1 DEF UndoList
    <3>3. undos' \in UndoList /\ Len(undos') = Len(undos) - 1
      <4>1. \A i \in 1..(Len(undos) - 1) : i \in 1..Len(undos)
        BY <3>2
      <4>2. \A i \in 1..(Len(undos) - 1) :
              undos[i] \in [do : {"tree", "pin", "branch", "worktree", "link"},
                            r : Repos \cup {0}]
        BY <2>1, <4>1, ElementOfSeq DEF UndoList
      <4> QED
        BY <3>1, <3>2, <4>2, IsASeq DEF UndoList
    <3> QED
      BY <2>1, <3>1, <3>2, <3>3 DEF UndosOf
  <2>4. /\ branch' \in [Repos -> {"none", "ours", "theirs"}]
        /\ admin' \in [Repos -> {"none", "added", "locked"}]
        /\ slot' \in [Repos -> {"none", "link", "worktree", "file", "dir"}]
        /\ root' \in BOOLEAN /\ pin' \subseteq Repos
    <3>1. \/ UNCHANGED <<branch, admin, pin, root, slot>> \/ UndoTree
          \/ \E r : UndoBranch(r) \/ UndoWorktree(r) \/ UndoLink(r) \/ UndoPin(r)
      BY <1>5 DEF Rollback
    <3>2. CASE UNCHANGED <<branch, admin, pin, root, slot>>
      BY <3>2 DEF Basic, TypeOK
    <3>3. CASE UndoTree
      BY <3>3 DEF UndoTree, Basic, TypeOK
    <3>4. ASSUME NEW r, UndoBranch(r) \/ UndoWorktree(r)
          PROVE  /\ branch' \in [Repos -> {"none", "ours", "theirs"}]
                 /\ admin' \in [Repos -> {"none", "added", "locked"}]
                 /\ slot' \in [Repos -> {"none", "link", "worktree", "file", "dir"}]
                 /\ root' \in BOOLEAN /\ pin' \subseteq Repos
      BY <3>4 DEF UndoBranch, UndoWorktree, Basic, TypeOK
    <3>5. ASSUME NEW r, UndoLink(r)
          PROVE  /\ slot' \in [Repos -> {"none", "link", "worktree", "file", "dir"}]
                 /\ UNCHANGED <<branch, admin, pin, root>>
      <4>1. slot' = [slot EXCEPT ![r] = IF slot[r] = "none" THEN "link" ELSE slot[r]]
        BY <3>5 DEF UndoLink
      <4>2. slot \in [Repos -> {"none", "link", "worktree", "file", "dir"}]
        BY DEF Basic, TypeOK
      <4> QED
        BY <3>5, <4>1, <4>2 DEF UndoLink
    <3>6. ASSUME NEW r, UndoPin(r)
          PROVE  pin' \subseteq Repos /\ UNCHANGED <<branch, admin, slot, root>>
      BY <3>6 DEF UndoPin, Basic, TypeOK
    <3> QED
      BY <3>1, <3>2, <3>3, <3>4, <3>5, <3>6 DEF Basic, TypeOK
  <2>5. last' \in {last, "hurt"} /\ events' \in Times /\ events' >= events
    <3>1. (UNCHANGED <<last, events>>) \/ (last' = "hurt" /\ Event)
      BY <1>5 DEF Rollback
    <3>2. events \in Times /\ events >= events
      BY Numbers DEF Basic, TypeOK
    <3> QED
      BY <3>1, <3>2, EventCounts
  <2>6. TypeOK'
    BY <2>2, <2>3, <2>4, <2>5 DEF Basic, TypeOK, UndoList
  <2>7. Control'
    <3>1. Len(log') <= 2 * events'
      BY <2>2, <2>5, Numbers DEF Basic, TypeOK, Control
    <3> QED
      BY <2>1, <2>2, <2>3, <3>1 DEF Basic, Control, UndosOf
  <2> QED
    BY <2>6, <2>7 DEF Basic
<1>6. CASE RolledBack
  <2>1. UNCHANGED <<log, now, own, main, held, phase, branch, admin, pin, slot, root, rec,
                    sweeping, swept, events>> /\ undos' = <<>>
    BY <1>6 DEF RolledBack, store, world, work, ghost
  <2>2. events' \in Times /\ events' >= events /\ root' \in BOOLEAN /\ rec' = rec
    BY <2>1, Numbers DEF Basic, TypeOK
  <2>3. rec' \in [repos : SUBSET Repos, links : SUBSET Repos, from : Times, upto : Times, epoch : Clock]
    BY <2>2 DEF Basic, TypeOK
  <2>4. PICK result \in {"hurt", "failed"} : Over(result)
    BY <1>6 DEF RolledBack
  <2> QED
    BY <2>1, <2>2, <2>3, <2>4, OverKeeps
<1>7. CASE Crash
  <2>1. UNCHANGED <<log, now, own, main, held, phase, branch, admin, pin, slot, root, rec,
                    sweeping, swept>> /\ undos' = <<>> /\ Over("hurt")
    BY <1>7 DEF Crash, store, world, work
  <2>2. events' \in Times /\ events' >= events /\ root' \in BOOLEAN
    BY <1>7, <2>1, Numbers DEF Crash, Event, Basic, TypeOK
  <2>3. rec' \in [repos : SUBSET Repos, links : SUBSET Repos, from : Times, upto : Times, epoch : Clock]
    BY <2>1 DEF Basic, TypeOK
  <2> QED
    BY <2>1, <2>2, <2>3, OverKeeps
<1> QED
  BY <1>1, <1>2, <1>3, <1>4, <1>5, <1>6, <1>7

\* A change by others as the command sees it.
LEMMA OfOthers ==
  ASSUME Basic, NEW made, NEW taken, NEW unseen, Change(made, taken, unseen)
  PROVE  /\ UNCHANGED <<pc, cmd, at, base, undos>> /\ last' \in {last, "none"}
         /\ pc # "idle" => late' = late \cup unseen
BY DEF Change

LEMMA WhileOthersAct ==
  ASSUME Basic, NEW made, NEW taken, NEW unseen, Change(made, taken, unseen),
         log' = log, Event \/ events' = events
  PROVE  /\ UNCHANGED <<pc, cmd, at, base, undos>> /\ last' \in {last, "none"}
         /\ Len(log') <= 2 * events' /\ events' \in Times
<1>1. Len(log) <= 2 * events /\ events \in Times
  BY DEF Basic, TypeOK, Control
<1>2. Len(log) <= 2 * events' /\ events' \in Times
  BY <1>1, EventCounts
<1> QED
  BY <1>2, OfOthers

Meddling ==
  \/ SomeCommit
  \/ \E r \in Repos : MakeOwnBranch(r) \/ AgentBranch(r)
  \/ Tidy
  \/ \E r \in Repos : \E what \in {"none", "file", "dir"} : AgentPut(r, what)
  \/ DoctorList \/ DoctorSweep

\* History only grows, by commits that are not of the future.
Grows == /\ Len(log) \in Nat /\ Len(log') \in Nat /\ Len(log) <= Len(log')
         /\ \A i \in 1..Len(log) : log'[i] = log[i]

LEMMA Appends ==
  ASSUME Basic, NEW r \in Repos, NEW pulled, NEW tick \in {0, 1}, NEW date \in Clock,
         Commit(r, pulled, tick, date)
  PROVE  /\ Grows /\ log' \in Commits /\ Len(log') \in {Len(log) + 1, Len(log) + 2}
         /\ now <= now' /\ \A i \in (Len(log) + 1)..Len(log') : log'[i].date <= now'
<1> DEFINE one == <<[repo |-> r, date |-> date]>>
           two == <<[repo |-> r, date |-> date], [repo |-> r, date |-> now']>>
<1>1. log \in Commits /\ Len(log) \in Nat /\ now \in Nat /\ now' \in Clock /\ date \in Nat
  BY Numbers DEF Basic, TypeOK, Commits, Commit
<1>2. now <= now' /\ date <= now' /\ now' \in Nat
  BY <1>1, Numbers DEF Commit
<1>3. CASE log' = log \o one
  <2>1. one \in Commits /\ Len(one) = 1 /\ one[1] = [repo |-> r, date |-> date]
    BY DEF Commits
  <2>2. /\ log' \in Commits /\ Len(log') = Len(log) + 1
        /\ \A i \in 1..Len(log') :
             log'[i] = IF i <= Len(log) THEN log[i] ELSE one[i - Len(log)]
    BY <1>1, <1>3, <2>1, ConcatProperties DEF Commits
  <2>3. \A i \in (Len(log) + 1)..Len(log') : log'[i] = one[1]
    BY <1>1, <2>2
  <2> QED
    BY <1>1, <1>2, <2>1, <2>2, <2>3 DEF Grows
<1>4. CASE log' = log \o two
  <2>1. /\ two \in Commits /\ Len(two) = 2 /\ two[1] = [repo |-> r, date |-> date]
        /\ two[2] = [repo |-> r, date |-> now']
    BY <1>1 DEF Commits
  <2>2. /\ log' \in Commits /\ Len(log') = Len(log) + 2
        /\ \A i \in 1..Len(log') :
             log'[i] = IF i <= Len(log) THEN log[i] ELSE two[i - Len(log)]
    BY <1>1, <1>4, <2>1, ConcatProperties DEF Commits
  <2>3. \A i \in (Len(log) + 1)..Len(log') : log'[i] = two[1] \/ log'[i] = two[2]
    <3>1. ASSUME NEW i \in (Len(log) + 1)..Len(log')
          PROVE  log'[i] = two[i - Len(log)] /\ i - Len(log) \in {1, 2}
      BY <1>1, <2>2, <3>1
    <3> QED
      BY <3>1
  <2> QED
    BY <1>1, <1>2, <2>1, <2>2, <2>3 DEF Grows
<1> QED
  BY <1>3, <1>4 DEF Commit

LEMMA MeddlingKeeps ==
  ASSUME Basic, Meddling
  PROVE  Basic'
<1>1. ASSUME SomeCommit PROVE Basic'
  <2>0. PICK r \in Repos, pulled \in BOOLEAN, tick \in {0, 1}, date \in Clock :
          Commit(r, pulled, tick, date)
    BY <1>1 DEF SomeCommit
  <2>1. Change({}, {}, {}) /\ Event /\ now' \in Clock
    BY <2>0 DEF Commit, Theirs
  <2>2. Grows /\ log' \in Commits
    BY <2>0, <2>1, Appends
  <2>3. Len(log') \in Times /\ Len(log') <= 2 * events' /\ events' \in Times
    <3>1. Len(log') \in {Len(log) + 1, Len(log) + 2}
      BY <2>0, Appends
    <3>2. /\ Len(log) + 1 \in Times /\ Len(log) + 2 \in Times /\ events' \in Times
          /\ Len(log) + 1 <= 2 * events' /\ Len(log) + 2 <= 2 * events'
      BY <2>1, EventCounts
    <3> QED
      BY <3>1, <3>2
  <2>4. main' \in [Repos -> Times]
    BY <2>0, <2>3 DEF Commit, Basic, TypeOK
  <2>5. UNCHANGED <<own, store, work, sweeping, swept>>
    BY <2>0 DEF Commit
  <2>6. UNCHANGED <<pc, cmd, at, base, undos>> /\ last' \in {last, "none"}
    BY <2>1, OfOthers
  <2> QED
    BY <2>1, <2>2, <2>3, <2>4, <2>5, <2>6, OthersKeep DEF store, work, Basic, TypeOK, Commits
<1>2. ASSUME NEW r \in Repos, MakeOwnBranch(r) PROVE Basic'
  <2>1. Change({}, {}, {}) /\ Event /\ UNCHANGED <<log, now, main, store, work, sweeping, swept>>
        /\ own' \subseteq Repos
    BY <1>2 DEF MakeOwnBranch, Theirs, Basic, TypeOK
  <2>2. UNCHANGED <<pc, cmd, at, base, undos>> /\ last' \in {last, "none"}
        /\ Len(log') <= 2 * events' /\ events' \in Times
    BY <2>1, WhileOthersAct
  <2> QED
    BY <2>1, <2>2, OthersKeep DEF store, work, Basic, TypeOK, Commits
<1>3. ASSUME NEW r \in Repos, AgentBranch(r) PROVE Basic'
  <2>1. PICK unseen : Change({<<"branch", r>>}, {}, unseen)
    BY <1>3 DEF AgentBranch, Theirs
  <2>2. Event /\ UNCHANGED <<phase, held, admin, world, work, sweeping, swept>>
        /\ branch' \in [Repos -> {"none", "ours", "theirs"}]
    BY <1>3 DEF AgentBranch, Theirs, Basic, TypeOK
  <2>3. UNCHANGED <<pc, cmd, at, base, undos>> /\ last' \in {last, "none"}
        /\ log' = log /\ Len(log') <= 2 * events' /\ events' \in Times
    BY <2>1, <2>2, WhileOthersAct DEF world
  <2> QED
    BY <2>2, <2>3, OthersKeep DEF world, work, Basic, TypeOK, Commits
<1>4. CASE Tidy
  <2>1. Change({}, {}, {}) /\ Event /\ UNCHANGED <<world, phase, held, pin, rec, sweeping, swept>>
    BY <1>4 DEF Tidy, Theirs
  <2>2. /\ branch' \in [Repos -> {"none", "ours", "theirs"}]
        /\ admin' \in [Repos -> {"none", "added", "locked"}]
        /\ slot' \in [Repos -> {"none", "link", "worktree", "file", "dir"}]
        /\ root' \in BOOLEAN
    BY <1>4 DEF Tidy, Basic, TypeOK
  <2>3. UNCHANGED <<pc, cmd, at, base, undos>> /\ last' \in {last, "none"}
        /\ log' = log /\ Len(log') <= 2 * events' /\ events' \in Times
    BY <2>1, WhileOthersAct DEF world
  <2> QED
    BY <2>1, <2>2, <2>3, OthersKeep DEF world, Basic, TypeOK, Commits
<1>5. ASSUME NEW r \in Repos, NEW what \in {"none", "file", "dir"}, AgentPut(r, what) PROVE Basic'
  <2>1. PICK made, taken, unseen : Change(made, taken, unseen)
    BY <1>5 DEF AgentPut, Theirs
  <2>2. Event /\ UNCHANGED <<store, world, pin, root, rec, sweeping, swept>>
        /\ slot' \in [Repos -> {"none", "link", "worktree", "file", "dir"}]
    BY <1>5 DEF AgentPut, Theirs, Basic, TypeOK
  <2>3. UNCHANGED <<pc, cmd, at, base, undos>> /\ last' \in {last, "none"}
        /\ log' = log /\ Len(log') <= 2 * events' /\ events' \in Times
    BY <2>1, <2>2, WhileOthersAct DEF world
  <2> QED
    BY <2>2, <2>3, OthersKeep DEF store, world, Basic, TypeOK, Commits
<1>6. CASE DoctorList
  <2>1. Change({}, {}, {}) /\ Event /\ UNCHANGED <<store, world, work, swept>> /\ sweeping' = TRUE
    BY <1>6 DEF DoctorList, Theirs
  <2>2. UNCHANGED <<pc, cmd, at, base, undos>> /\ last' \in {last, "none"}
        /\ log' = log /\ Len(log') <= 2 * events' /\ events' \in Times
    BY <2>1, WhileOthersAct DEF world
  <2> QED
    BY <2>1, <2>2, OthersKeep DEF store, world, work, Basic, TypeOK, Commits
<1>7. CASE DoctorSweep
  <2>1. PICK taken : Change({}, taken, {})
    BY <1>7 DEF DoctorSweep
  <2>2. /\ UNCHANGED <<store, world, slot, rec, events>> /\ sweeping' = FALSE /\ pin' = {}
        /\ swept' \subseteq Repos /\ root' \in BOOLEAN
    BY <1>7 DEF DoctorSweep, Basic, TypeOK
  <2>3. UNCHANGED <<pc, cmd, at, base, undos>> /\ last' \in {last, "none"}
        /\ log' = log /\ Len(log') <= 2 * events' /\ events' \in Times
    BY <2>1, <2>2, WhileOthersAct DEF world
  <2> QED
    BY <2>2, <2>3, OthersKeep DEF store, world, Basic, TypeOK, Commits
<1> QED
  BY <1>1, <1>2, <1>3, <1>4, <1>5, <1>6, <1>7 DEF Meddling

LEMMA BasicStep == Basic /\ [Next]_vars => Basic'
<1>1. ASSUME Basic, Next PROVE Basic'
  BY <1>1, BuildingKeeps, FinishingKeeps, MeddlingKeeps DEF Next, Meddling, SomeCommit
<1>2. ASSUME Basic, UNCHANGED vars PROVE Basic'
  BY <1>2 DEF vars, Basic, TypeOK, Control
<1> QED
  BY <1>1, <1>2

\* Every variable of a creation keeps its type, whatever fails, whoever acts
\* besides the command and however many repositories it takes.
THEOREM CreationTyped == Spec => []TypeOK
<1>1. Basic => TypeOK
  BY DEF Basic
<1> QED
  BY BasicInit, BasicStep, <1>1, PTL DEF Spec

-----------------------------------------------------------------------------
(* What a record says is built.                                            *)

Built(r) ==
  /\ branch[r] = "ours" /\ admin[r] = "locked" /\ slot[r] = "worktree"
  /\ phase[r] = "built" /\ held[r] >= base[r]
  /\ r \in pin \cup swept

\* The repositories the command is done with.
Done(r) == pc \in {"build", "save"} \/ (pc \in Loop /\ r < at)

\* What of the repository in hand is there.
AtHand ==
  /\ pc = "mkdir" => \A r \in cmd.sel : at <= r
  /\ pc \in Loop \ {"pin"} => at \in pin \cup swept
  /\ pc = "clone" => phase[at] = "partial"
  /\ pc \in {"fetch", "fetched", "unlink", "worktree", "lock"} => phase[at] = "built"
  /\ pc = "lock" => branch[at] = "ours" /\ slot[at] = "worktree" /\ held[at] >= base[at]

BuiltInv ==
  /\ \A r \in rec.repos : Built(r)
  /\ \A r \in cmd.sel : Done(r) => Built(r)
  /\ AtHand

\* A repository nobody touches stays built.
LEMMA BuiltStays ==
  ASSUME Basic, Basic', NEW r \in Repos, Built(r), branch'[r] = branch[r],
         admin'[r] = admin[r], slot'[r] = slot[r], phase'[r] = phase[r],
         base'[r] = base[r], held'[r] >= held[r], r \in pin' \cup swept'
  PROVE  Built(r)'
<1>1. held[r] \in Times /\ base[r] \in Times /\ held'[r] \in Times
  BY DEF Basic, TypeOK
<1>2. held'[r] >= base'[r]
  BY <1>1, Numbers DEF Built
<1> QED
  BY <1>2 DEF Built

LEMMA RecordedApart ==
  ASSUME Basic, pc # "idle", NEW r \in rec.repos
  PROVE  r \in Repos /\ r # at /\ cmd.verb = "add" /\ r \notin cmd.sel
BY DEF Basic, TypeOK, Control

LEMMA HeldTyped ==
  ASSUME Basic, NEW r \in Repos
  PROVE  held[r] >= held[r]
BY Numbers DEF Basic, TypeOK

\* A step about the repository in hand.
LEMMA InLoop ==
  ASSUME Basic, Basic', BuiltInv, pc \in Loop, pc' \in Loop \cup {"undo"},
         UNCHANGED <<at, cmd, base, rec, swept>>, pin \subseteq pin',
         \A r \in Repos \ {at} : /\ branch'[r] = branch[r] /\ admin'[r] = admin[r]
                                 /\ slot'[r] = slot[r] /\ phase'[r] = phase[r]
                                 /\ held'[r] = held[r],
         AtHand'
  PROVE  BuiltInv'
<1>0. pc # "idle" /\ cmd.sel \subseteq Repos /\ at \in Repos /\ Repos \subseteq Nat
  <2>1. pc # "idle"
    BY DEF Loop
  <2>2. Repos \subseteq Nat
    BY Numbers
  <2> QED
    BY <2>1, <2>2 DEF Basic, TypeOK, Control
<1>1. ASSUME NEW r \in Repos, Built(r), r # at PROVE Built(r)'
  BY <1>1, BuiltStays, HeldTyped DEF Built
<1>2. \A r \in rec'.repos : Built(r)'
  BY <1>0, <1>1, RecordedApart DEF BuiltInv
<1>3. ASSUME NEW r \in cmd'.sel, Done(r)' PROVE Built(r)'
  <2>1. r \in Repos /\ r \in cmd.sel /\ r < at /\ pc \in Loop
    BY <1>0, <1>3 DEF Done, Loop
  <2>2. r # at /\ Built(r)
    BY <1>0, <2>1 DEF Done, BuiltInv
  <2> QED
    BY <1>1, <2>1, <2>2
<1> QED
  BY <1>2, <1>3 DEF BuiltInv

\* No command is under way, or it has built nothing yet, or no more.
LEMMA OutOfLoop ==
  ASSUME Basic, Basic', BuiltInv,
         pc' \in {"idle", "validate", "mkdir", "undo"},
         pc' = "mkdir" => \A r \in cmd'.sel : at' <= r,
         UNCHANGED <<rec, phase, held, swept>>,
         \A r \in rec.repos : /\ branch'[r] = branch[r] /\ admin'[r] = admin[r]
                              /\ slot'[r] = slot[r] /\ base'[r] = base[r]
                              /\ r \in pin \cup swept => r \in pin' \cup swept
  PROVE  BuiltInv'
<1>1. \A r \in rec'.repos : Built(r)'
  <2> TAKE r \in rec'.repos
  <2>1. r \in Repos /\ Built(r) /\ r \in rec.repos
    BY DEF BuiltInv, Basic, TypeOK
  <2>2. r \in pin \cup swept
    BY <2>1 DEF Built
  <2> QED
    BY <2>1, <2>2, BuiltStays, HeldTyped
<1>2. \A r \in cmd'.sel : ~Done(r)'
  BY DEF Done, Loop
<1>3. AtHand'
  BY DEF AtHand, Loop
<1> QED
  BY <1>1, <1>2, <1>3 DEF BuiltInv

LEMMA BuiltInit == Init => BuiltInv
BY DEF Init, BuiltInv, NoRec, NoCmd, AtHand, Loop

\* The bases on record outlive the command.
LEMMA OverLeavesBases ==
  ASSUME Basic, NEW result, Over(result), NEW r \in rec.repos
  PROVE  base'[r] = base[r]
BY DEF Over, Basic, TypeOK

LEMMA BuildingKeepsBuilt ==
  ASSUME Basic, Basic', BuiltInv,
         \/ \E s \in (SUBSET Repos) \ {{}} : \E seen \in SUBSET Repos : New(s, seen)
         \/ \E r \in Repos : Add(r)
         \/ Validate \/ MakeTree \/ Pin \/ Ensure \/ FinishStore \/ FetchBase
         \/ Fetched \/ Unlink
  PROVE  BuiltInv'
<1>0. pc # "idle" => at \in Repos
  BY DEF Basic, TypeOK, Control
<1>1. ASSUME NEW verb, NEW s, NEW seen, Begin(verb, s, seen) PROVE BuiltInv'
  BY <1>1, OutOfLoop DEF Begin, store, world, work
<1>2. CASE Validate
  <2>1. UNCHANGED <<phase, held, branch, admin, pin, slot, rec, swept>> /\ pc # "idle"
    BY <1>2 DEF Validate, store, work, ghost
  <2>2. CASE Over("failed")
    <3>1. pc' = "idle"
      BY <2>2 DEF Over
    <3> QED
      BY <2>1, <2>2, <3>1, OverLeavesBases, OutOfLoop
  <2>3. CASE ~Over("failed")
    <3> DEFINE l == IF cmd.verb = "new" THEN "mkdir" ELSE "pin"
    <3>1. base' = [base EXCEPT ![at] = BaseOf(at)] /\ NextRepo("validate", l)
      BY <1>2, <2>3 DEF Validate
    <3>2. /\ pc' \in {"validate", l} /\ at' \in cmd.sel /\ cmd' = cmd
          /\ pc' = l => \A r \in cmd.sel : at' <= r
      BY <2>1, <3>1, NextRepoKeeps DEF Labels
    <3>3. \A r \in rec.repos : base'[r] = base[r]
      BY <2>1, <3>1, RecordedApart DEF Basic, TypeOK
    <3>4. CASE pc' # "pin"
      BY <2>1, <3>2, <3>3, <3>4, OutOfLoop
    <3>5. CASE pc' = "pin"
      <4>1. \A r \in rec'.repos : Built(r)'
        <5> TAKE r \in rec'.repos
        <5>1. r \in Repos /\ Built(r) /\ r \in rec.repos
          BY <2>1 DEF BuiltInv, Basic, TypeOK
        <5> QED
          BY <2>1, <3>3, <5>1, BuiltStays, HeldTyped DEF Built
      <4>2. \A r \in cmd'.sel : ~Done(r)'
        <5>1. \A r \in cmd.sel : at' <= r /\ r \in Nat /\ at' \in Nat
          <6>1. cmd.sel \subseteq Repos
            BY DEF Basic, TypeOK
          <6>2. Repos = 1..N /\ N \in Nat
            BY Numbers
          <6>3. \A r \in Repos : r \in Nat
            BY <6>2
          <6> QED
            BY <3>2, <3>5, <6>1, <6>3
        <5> QED
          BY <3>2, <3>5, <5>1 DEF Done
      <4>3. AtHand'
        BY <3>5 DEF AtHand, Loop
      <4> QED
        BY <4>1, <4>2, <4>3 DEF BuiltInv
    <3> QED
      BY <3>4, <3>5
  <2> QED
    BY <2>2, <2>3
<1>3. CASE MakeTree
  <2>1. UNCHANGED <<phase, held, branch, admin, pin, slot, rec, swept>> /\ pc = "mkdir"
    BY <1>3 DEF MakeTree, store, ghost
  <2>2. CASE Over("failed")
    <3>1. pc' = "idle"
      BY <2>2 DEF Over
    <3> QED
      BY <2>1, <2>2, <3>1, OverLeavesBases, OutOfLoop
  <2>3. CASE Goto("pin")
    <3>1. cmd.verb = "new" /\ rec'.repos = {}
      BY <2>1 DEF Basic, TypeOK, Control
    <3>2. \A r \in cmd'.sel : ~Done(r)'
      <4>1. \A r \in cmd.sel : at <= r /\ r \in Nat /\ at \in Nat
        BY <1>0, <2>1, Numbers DEF BuiltInv, AtHand, Basic, TypeOK
      <4> QED
        BY <2>3, <4>1 DEF Goto, Done
    <3>3. AtHand'
      BY <2>3 DEF Goto, AtHand, Loop
    <3> QED
      BY <3>1, <3>2, <3>3 DEF BuiltInv
  <2> QED
    BY <1>3, <2>2, <2>3 DEF MakeTree
<1>4. CASE Pin
  <2>1. /\ UNCHANGED <<at, cmd, base, rec, swept, phase, held, branch, admin, slot>>
        /\ pc = "pin" /\ pin \subseteq pin'
        /\ (pc' = "ensure" /\ at \in pin') \/ pc' = "undo"
    BY <1>4 DEF Pin, Fail, Goto, store, ghost
  <2>2. AtHand'
    BY <2>1 DEF AtHand, Loop
  <2> QED
    BY <2>1, <2>2, InLoop DEF Loop
<1>5. CASE Ensure
  <2>1. /\ UNCHANGED <<at, cmd, base, rec, swept, admin, slot, pin>> /\ pc = "ensure"
        /\ \/ pc' = "clone" /\ phase'[at] = "partial"
           \/ pc' = "fetch" /\ phase'[at] = "built"
           \/ pc' = "undo"
    BY <1>0, <1>5 DEF Ensure, Adoptable, Fail, Goto, work, ghost, Basic, TypeOK
  <2>2. \A r \in Repos \ {at} : /\ branch'[r] = branch[r] /\ phase'[r] = phase[r]
                                /\ held'[r] = held[r]
    BY <1>5 DEF Ensure, Basic, TypeOK
  <2>3. AtHand'
    BY <2>1 DEF BuiltInv, AtHand, Loop
  <2> QED
    BY <2>1, <2>2, <2>3, InLoop DEF Loop
<1>6. CASE FinishStore
  <2>1. /\ UNCHANGED <<at, cmd, base, rec, swept, admin, slot, pin, held, branch>> /\ pc = "clone"
        /\ (pc' = "fetch" /\ phase'[at] = "built") \/ pc' = "undo"
        /\ \A r \in Repos \ {at} : phase'[r] = phase[r]
    BY <1>0, <1>6 DEF FinishStore, Fail, Goto, work, ghost, Basic, TypeOK
  <2>2. AtHand'
    BY <2>1 DEF BuiltInv, AtHand, Loop
  <2> QED
    BY <2>1, <2>2, InLoop DEF Loop
<1>7. CASE FetchBase
  <2>1. /\ UNCHANGED <<at, cmd, base, rec, swept, admin, slot, pin, phase, branch>> /\ pc = "fetch"
        /\ pc' \in {"worktree", "fetched", "undo"}
        /\ \A r \in Repos \ {at} : held'[r] = held[r]
    BY <1>7 DEF FetchBase, Fail, Goto, work, ghost, Basic, TypeOK
  <2>2. AtHand'
    BY <2>1 DEF BuiltInv, AtHand, Loop
  <2> QED
    BY <2>1, <2>2, InLoop DEF Loop
<1>8. CASE Fetched
  <2>1. /\ UNCHANGED <<at, cmd, base, rec, swept, admin, slot, pin, phase, branch, held>>
        /\ pc = "fetched" /\ pc' \in {"unlink", "undo"}
    BY <1>8 DEF Fetched, Fail, Goto, store, work, ghost
  <2>2. AtHand'
    BY <2>1 DEF BuiltInv, AtHand, Loop
  <2> QED
    BY <2>1, <2>2, InLoop DEF Loop
<1>9. CASE Unlink
  <2>1. /\ UNCHANGED <<at, cmd, base, rec, swept, admin, pin, phase, branch, held>>
        /\ pc = "unlink" /\ pc' \in {"worktree", "undo"}
        /\ \A r \in Repos \ {at} : slot'[r] = slot[r]
    BY <1>9 DEF Unlink, Fail, Goto, store, ghost, Basic, TypeOK
  <2>2. AtHand'
    BY <2>1 DEF BuiltInv, AtHand, Loop
  <2> QED
    BY <2>1, <2>2, InLoop DEF Loop
<1> QED
  BY <1>1, <1>2, <1>3, <1>4, <1>5, <1>6, <1>7, <1>8, <1>9 DEF New, Add

LEMMA FinishingKeepsBuilt ==
  ASSUME Basic, Basic', BuiltInv,
         AddWorktree \/ Lock \/ Build \/ Save \/ Rollback \/ RolledBack \/ Crash
  PROVE  BuiltInv'
<1>0. pc # "idle" => at \in Repos /\ at \in cmd.sel
  BY DEF Basic, TypeOK, Control
<1>1. CASE AddWorktree
  <2>1. /\ UNCHANGED <<at, cmd, base, rec, swept, pin, phase, held>> /\ pc = "worktree"
        /\ \A r \in Repos \ {at} : /\ branch'[r] = branch[r] /\ admin'[r] = admin[r]
                                   /\ slot'[r] = slot[r]
    BY <1>1 DEF AddWorktree, Fail, Goto, ghost, Basic, TypeOK
  <2>2. \/ /\ pc' = "lock" /\ branch'[at] = "ours" /\ slot'[at] = "worktree"
           /\ held[at] >= base[at]
        \/ pc' = "undo"
    BY <1>0, <1>1 DEF AddWorktree, Fail, Goto, HasObject, Basic, TypeOK
  <2>3. AtHand'
    BY <2>1, <2>2 DEF BuiltInv, AtHand, Loop
  <2> QED
    BY <2>1, <2>2, <2>3, InLoop DEF Loop
<1>2. CASE Lock
  <2>1. /\ UNCHANGED <<cmd, base, rec, swept, pin, phase, held, branch, slot>> /\ pc = "lock"
        /\ \A r \in Repos \ {at} : admin'[r] = admin[r]
    BY <1>2, NextRepoKeeps DEF Lock, Fail, Goto, work, ghost, Basic, TypeOK, Labels
  <2>2. CASE Goto("undo")
    <3>1. AtHand' /\ pc' = "undo" /\ at' = at
      BY <2>2 DEF Goto, AtHand, Loop
    <3> QED
      BY <2>1, <3>1, InLoop DEF Loop
  <2>3. CASE ~Goto("undo")
    <3>1. NextRepo("pin", "build") /\ admin' = [admin EXCEPT ![at] = "locked"]
      BY <1>2, <2>3 DEF Lock, Fail
    <3>2. /\ pc' \in {"pin", "build"}
          /\ pc' = "pin" => \A r \in cmd.sel : r < at' => r <= at
          /\ pc' = "build" => \A r \in cmd.sel : r <= at
      BY <2>1, <3>1, NextRepoKeeps DEF Labels
    <3>3. ASSUME NEW r \in Repos, r = at PROVE Built(r)'
      <4>1. /\ phase[r] = "built" /\ branch[r] = "ours" /\ slot[r] = "worktree"
            /\ held[r] >= base[r] /\ r \in pin \cup swept
        BY <2>1, <3>3 DEF BuiltInv, AtHand, Loop
      <4>2. admin'[r] = "locked"
        BY <3>1, <3>3 DEF Basic, TypeOK
      <4> QED
        BY <2>1, <4>1, <4>2 DEF Built
    <3>4. ASSUME NEW r \in Repos, Built(r) PROVE Built(r)'
      <4>1. CASE r = at
        BY <3>3, <4>1
      <4>2. CASE r # at
        BY <2>1, <3>4, <4>2, BuiltStays, HeldTyped DEF Built
      <4> QED
        BY <4>1, <4>2
    <3>5. \A r \in rec'.repos : Built(r)'
      BY <2>1, <3>4 DEF BuiltInv, Basic, TypeOK
    <3>6. ASSUME NEW r \in cmd'.sel, Done(r)' PROVE Built(r)'
      <4>1. r \in cmd.sel /\ r \in Repos /\ r <= at
        BY <2>1, <3>2, <3>6 DEF Done, Basic, TypeOK
      <4>2. r = at \/ r < at
        BY <1>0, <2>1, <4>1, Numbers
      <4>3. r < at => Built(r)
        BY <2>1, <4>1 DEF BuiltInv, Done, Loop
      <4> QED
        BY <3>3, <3>4, <4>1, <4>2, <4>3
    <3>7. AtHand'
      BY <3>2 DEF AtHand, Loop
    <3> QED
      BY <3>5, <3>6, <3>7 DEF BuiltInv
  <2> QED
    BY <2>2, <2>3
<1>3. CASE Build
  <2>1. /\ UNCHANGED <<at, base, rec, swept, pin, phase, held, branch, admin>> /\ pc = "build"
        /\ pc' \in {"save", "undo"} /\ cmd'.sel = cmd.sel
    BY <1>3, BuildCommand DEF store, ghost
  <2>2. \A r \in cmd.sel \cup rec.repos : slot'[r] = slot[r]
    <3>1. PICK made \in SUBSET (IF cmd.verb = "new" THEN cmd.seen \ cmd.sel ELSE {}) :
            slot' = [r \in Repos |-> IF r \in made THEN "link" ELSE slot[r]]
      BY <1>3 DEF Build
    <3>2. \A r \in cmd.sel \cup rec.repos : r \in Repos /\ r \notin made
      BY <2>1, <3>1, RecordedApart DEF Basic, TypeOK
    <3> QED
      BY <3>1, <3>2
  <2>3. ASSUME NEW r \in cmd.sel \cup rec.repos PROVE Built(r) /\ r \in Repos
    BY <2>1 DEF BuiltInv, Done, Basic, TypeOK
  <2>4. ASSUME NEW r \in cmd.sel \cup rec.repos PROVE Built(r)'
    BY <2>1, <2>2, <2>3, BuiltStays, HeldTyped DEF Built
  <2>5. AtHand'
    BY <2>1 DEF AtHand, Loop
  <2> QED
    BY <2>1, <2>4, <2>5 DEF BuiltInv
<1>4. CASE Save
  <2>1. UNCHANGED <<swept, pin, phase, held, branch, admin, slot>> /\ pc = "save"
    BY <1>4 DEF Save, store, ghost
  <2>2. CASE Goto("undo")
    <3>1. rec' = rec /\ pc' = "undo" /\ base' = base
      BY <1>4, <2>2 DEF Save, Goto, Over
    <3> QED
      BY <2>1, <3>1, OutOfLoop
  <2>3. CASE ~Goto("undo")
    <3>1. /\ rec' = IF cmd.verb = "new"
                      THEN [repos |-> cmd.sel, links |-> cmd.seen \ cmd.sel,
                            from |-> cmd.from, upto |-> cmd.upto, epoch |-> cmd.epoch]
                      ELSE [rec EXCEPT !.repos = @ \cup cmd.sel, !.links = @ \ cmd.sel]
          /\ Over("done")
      BY <1>4, <2>3 DEF Save, Fail
    <3>2. rec'.repos \subseteq rec.repos \cup cmd.sel
      BY <3>1 DEF Basic, TypeOK
    <3>3. \A r \in rec.repos \cup cmd.sel : r \in Repos /\ base'[r] = base[r] /\ Built(r)
      BY <2>1, <3>1 DEF Over, BuiltInv, Done, Basic, TypeOK
    <3>4. ASSUME NEW r \in rec'.repos PROVE Built(r)'
      BY <2>1, <3>2, <3>3, BuiltStays, HeldTyped DEF Built
    <3>5. AtHand' /\ cmd'.sel = {}
      BY <3>1 DEF Over, AtHand, Loop, NoCmd
    <3> QED
      BY <3>4, <3>5 DEF BuiltInv
  <2> QED
    BY <2>2, <2>3
<1>5. CASE Rollback
  <2>1. UNCHANGED <<phase, held, rec, pc, cmd, at, base, swept>> /\ pc = "undo" /\ undos # <<>>
    BY <1>5 DEF Rollback
  <2>2. CASE rec.repos = {}
    BY <2>1, <2>2, OutOfLoop
  <2>3. CASE rec.repos # {}
    <3> DEFINE u == undos[Len(undos)]
    <3>1. Len(undos) \in 1..Len(undos)
      BY <2>1 DEF Basic, TypeOK
    <3>2. u.do # "tree" /\ u.r \in cmd.sel
      BY <2>1, <2>3, <3>1 DEF Basic, Control
    <3>3. \A r \in rec.repos : r # u.r /\ r \in Repos
      BY <2>1, <3>2, RecordedApart
    <3>4. \/ UNCHANGED <<branch, admin, pin, slot>>
          \/ UndoBranch(u.r) \/ UndoWorktree(u.r) \/ UndoLink(u.r) \/ UndoPin(u.r)
      BY <1>5, <3>2 DEF Rollback, NextUndo
    <3> HIDE DEF u
    <3>5. \A r \in rec.repos : branch'[r] = branch[r] /\ admin'[r] = admin[r]
      BY <3>3, <3>4 DEF UndoBranch, UndoWorktree, UndoLink, UndoPin, Basic, TypeOK
    <3>6. \A r \in rec.repos : slot'[r] = slot[r]
      BY <3>3, <3>4 DEF UndoBranch, UndoWorktree, UndoLink, UndoPin, Basic, TypeOK
    <3>7. \A r \in rec.repos : r \in pin => r \in pin'
      BY <3>3, <3>4 DEF UndoBranch, UndoWorktree, UndoLink, UndoPin
    <3> QED
      BY <2>1, <3>5, <3>6, <3>7, OutOfLoop
  <2> QED
    BY <2>2, <2>3
<1>6. CASE RolledBack
  <2>1. UNCHANGED <<phase, held, branch, admin, pin, slot, rec, swept>>
    BY <1>6 DEF RolledBack, store, work, ghost
  <2>2. PICK result : Over(result)
    BY <1>6 DEF RolledBack
  <2>3. pc' = "idle"
    BY <2>2 DEF Over
  <2> QED
    BY <2>1, <2>2, <2>3, OverLeavesBases, OutOfLoop
<1>7. CASE Crash
  <2>1. UNCHANGED <<phase, held, branch, admin, pin, slot, rec, swept>> /\ Over("hurt")
    BY <1>7 DEF Crash, store, work
  <2>2. pc' = "idle"
    BY <2>1 DEF Over
  <2> QED
    BY <2>1, <2>2, OverLeavesBases, OutOfLoop
<1> QED
  BY <1>1, <1>2, <1>3, <1>4, <1>5, <1>6, <1>7

\* What others do to what is built, or being built.
LEMMA MeddlingSparesBuilt ==
  ASSUME Basic, Basic', BuiltInv, UNCHANGED <<pc, cmd, at, base, rec, phase, held>>,
         \A r \in Repos : /\ branch[r] = "ours" => branch'[r] = "ours" \/ cmd.sel \cup rec.repos = {}
                          /\ slot[r] = "worktree" =>
                               slot'[r] = "worktree" \/ cmd.sel \cup rec.repos = {}
                          /\ admin'[r] = admin[r] \/ cmd.sel \cup rec.repos = {},
         \A r \in cmd.sel \cup rec.repos : r \in pin \cup swept => r \in pin' \cup swept'
  PROVE  BuiltInv'
<1>1. ASSUME NEW r \in cmd.sel \cup rec.repos, Built(r) PROVE Built(r)'
  BY <1>1 DEF Built, Basic, TypeOK
<1>2. AtHand'
  <2>1. pc \in Loop \/ pc = "mkdir" => at \in cmd.sel /\ at \in Repos
    BY DEF Basic, TypeOK, Control, Loop
  <2> QED
    BY <2>1 DEF BuiltInv, AtHand, Loop
<1>3. \A r : Done(r)' <=> Done(r)
  BY DEF Done
<1> QED
  BY <1>1, <1>2, <1>3 DEF BuiltInv

LEMMA MeddlingKeepsBuilt ==
  ASSUME Basic, Basic', BuiltInv, Meddling
  PROVE  BuiltInv'
<1>1. UNCHANGED <<pc, cmd, at, base, rec, phase, held>>
  BY DEF Meddling, SomeCommit, Commit, MakeOwnBranch, AgentBranch, Tidy, AgentPut, DoctorList,
         DoctorSweep, Theirs, Change, store, work
<1>2. CASE SomeCommit \/ (\E r \in Repos : MakeOwnBranch(r)) \/ DoctorList
  <2>1. UNCHANGED <<branch, slot, admin, pin, swept>>
    BY <1>2 DEF SomeCommit, Commit, MakeOwnBranch, DoctorList, store, work
  <2> QED
    BY <1>1, <2>1, MeddlingSparesBuilt
<1>3. ASSUME NEW r \in Repos, AgentBranch(r) PROVE BuiltInv'
  <2>1. UNCHANGED <<slot, admin, pin, swept>> /\ branch[r] = "none"
        /\ branch' = [branch EXCEPT ![r] = "theirs"]
    BY <1>3 DEF AgentBranch, work
  <2>2. \A q \in Repos : branch[q] = "ours" => branch'[q] = "ours"
    BY <2>1 DEF Basic, TypeOK
  <2> QED
    BY <1>1, <2>1, <2>2, MeddlingSparesBuilt
<1>4. CASE Tidy
  <2>1. UNCHANGED <<pin, swept>> /\ cmd.sel \cup rec.repos = {}
    BY <1>4 DEF Tidy, Recorded, Basic, Control
  <2> QED
    BY <1>1, <2>1, MeddlingSparesBuilt
<1>5. ASSUME NEW r \in Repos, NEW what \in {"none", "file", "dir"}, AgentPut(r, what) PROVE BuiltInv'
  <2>1. UNCHANGED <<branch, admin, pin, swept>> /\ slot[r] # "worktree"
        /\ slot' = [slot EXCEPT ![r] = what]
    BY <1>5 DEF AgentPut, store
  <2>2. \A q \in Repos : slot[q] = "worktree" => slot'[q] = "worktree"
    BY <2>1 DEF Basic, TypeOK
  <2> QED
    BY <1>1, <2>1, <2>2, MeddlingSparesBuilt
<1>6. CASE DoctorSweep
  <2>1. UNCHANGED <<branch, admin, slot>>
        /\ swept' = swept \cup {r \in pin : r \in cmd.sel \cup rec.repos}
    BY <1>6 DEF DoctorSweep, store
  <2> QED
    BY <1>1, <2>1, MeddlingSparesBuilt
<1> QED
  BY <1>2, <1>3, <1>4, <1>5, <1>6 DEF Meddling

LEMMA BuiltStep == Basic /\ Basic' /\ BuiltInv /\ [Next]_vars => BuiltInv'
<1>1. ASSUME Basic, Basic', BuiltInv, Next PROVE BuiltInv'
  BY <1>1, BuildingKeepsBuilt, FinishingKeepsBuilt, MeddlingKeepsBuilt DEF Next, Meddling, SomeCommit
<1>2. ASSUME BuiltInv, UNCHANGED vars PROVE BuiltInv'
  BY <1>2 DEF vars, BuiltInv, Built, Done, AtHand
<1> QED
  BY <1>1, <1>2

\* The record of a task never names a repository that is not there: at every
\* moment, also while a graft fails and is rolled back, each has its store,
\* its base, its branch and its locked worktree (task.New and task.Add save
\* last, and their undos are only of what they made).
THEOREM RecordsTellTheTruth == Spec => []RecordIsBuilt
<1>1. BuiltInv => RecordIsBuilt
  BY DEF BuiltInv, Built, RecordIsBuilt
<1> QED
  BY BasicInit, BasicStep, BuiltInit, BuiltStep, <1>1, PTL DEF Spec

-----------------------------------------------------------------------------
(* What each store sees of it.                                             *)

\* A store begins, is finished, gets or loses its worktree, one at a time.
OneThing(r) ==
  \/ phase[r] = "absent" /\ phase'[r] = "partial" /\ admin'[r] = admin[r]
  \/ phase[r] = "partial" /\ phase'[r] = "built" /\ admin'[r] = admin[r]
  \/ phase[r] = "built" /\ phase'[r] = "built" /\ admin'[r] # "none"
  \/ phase'[r] = phase[r] /\ admin'[r] = "none"
  \/ phase'[r] = phase[r] /\ admin'[r] = admin[r]

LEMMA OneThingAtATime ==
  ASSUME Basic, BuiltInv, [Next]_vars, NEW r \in Repos
  PROVE  OneThing(r)
<1>1. CASE Ensure
  BY <1>1 DEF Ensure, work, Basic, TypeOK, Control, OneThing
<1>2. CASE FinishStore
  <2>1. at \in Repos /\ phase[at] = "partial"
    BY <1>2 DEF FinishStore, BuiltInv, AtHand, Basic, TypeOK, Control
  <2> QED
    BY <1>2, <2>1 DEF FinishStore, Basic, TypeOK, OneThing
<1>3. CASE AddWorktree \/ Lock
  <2>1. phase' = phase /\ at \in Repos /\ phase[at] = "built"
    BY <1>3 DEF AddWorktree, Lock, BuiltInv, AtHand, Basic, TypeOK, Control
  <2>2. admin' = admin \/ \E a \in {"added", "locked"} : admin' = [admin EXCEPT ![at] = a]
    BY <1>3 DEF AddWorktree, Lock
  <2> QED
    BY <2>1, <2>2 DEF Basic, TypeOK, OneThing
<1>4. CASE Rollback
  <2>1. phase' = phase
    BY <1>4 DEF Rollback
  <2>2. \/ UNCHANGED admin
        \/ \E q : UndoWorktree(q)
    BY <1>4 DEF Rollback, UndoBranch, UndoLink, UndoPin, UndoTree
  <2> QED
    BY <2>1, <2>2 DEF UndoWorktree, Basic, TypeOK, OneThing
<1>5. CASE Tidy
  BY <1>5 DEF Tidy, OneThing
<1>6. CASE UNCHANGED <<phase, admin>>
  BY <1>6 DEF OneThing
<1>7. CASE \/ \E s \in (SUBSET Repos) \ {{}} : \E seen \in SUBSET Repos : New(s, seen)
           \/ \E q \in Repos : Add(q)
           \/ Validate \/ MakeTree \/ Pin \/ FetchBase \/ Fetched \/ Unlink
           \/ Build \/ Save \/ RolledBack \/ Crash
  BY <1>6, <1>7 DEF New, Add, Begin, Validate, MakeTree, Pin, FetchBase, Fetched, Unlink,
                    Build, Save, RolledBack, Crash, store
<1>8. CASE \/ SomeCommit
           \/ \E q \in Repos : MakeOwnBranch(q) \/ AgentBranch(q)
           \/ \E q \in Repos : \E what \in {"none", "file", "dir"} : AgentPut(q, what)
           \/ DoctorList \/ DoctorSweep
  BY <1>6, <1>8 DEF SomeCommit, Commit, MakeOwnBranch, AgentBranch, AgentPut, DoctorList, DoctorSweep, store
<1>9. CASE UNCHANGED vars
  BY <1>6, <1>9 DEF vars
<1> QED
  BY <1>1, <1>2, <1>3, <1>4, <1>5, <1>7, <1>8, <1>9 DEF Next, SomeCommit

LEMMA PromiseStep ==
  ASSUME Basic, Basic', NEW r \in Repos, OneThing(r)
  PROVE  Promise(r)!Next \/ (Standing(r)' = Standing(r) /\ Users(r)' = Users(r))
<1>1. phase[r] \in {"absent", "partial", "built"} /\ phase'[r] \in {"absent", "partial", "built"}
  BY DEF Basic, TypeOK
<1>2. /\ phase[r] = "absent" => Standing(r) = "absent"
      /\ phase[r] = "partial" => Standing(r) = "building"
      /\ phase[r] = "built" => Standing(r) = "standing"
      /\ phase'[r] = "absent" => Standing(r)' = "absent"
      /\ phase'[r] = "partial" => Standing(r)' = "building"
      /\ phase'[r] = "built" => Standing(r)' = "standing"
  BY DEF Standing
<1>3. /\ Users(r) = IF admin[r] = "none" THEN {} ELSE {"task"}
      /\ Users(r)' = IF admin'[r] = "none" THEN {} ELSE {"task"}
  BY DEF Users
<1>4. CASE phase[r] = "absent" /\ phase'[r] = "partial" /\ admin'[r] = admin[r]
  BY <1>2, <1>3, <1>4 DEF Promise!Next, Promise!Build
<1>5. CASE phase[r] = "partial" /\ phase'[r] = "built" /\ admin'[r] = admin[r]
  BY <1>2, <1>3, <1>5 DEF Promise!Next, Promise!Finish
<1>6. CASE phase[r] = "built" /\ phase'[r] = "built" /\ admin'[r] # "none"
  BY <1>2, <1>3, <1>6 DEF Promise!Next, Promise!Join
<1>7. CASE phase'[r] = phase[r] /\ admin'[r] = "none"
  BY <1>1, <1>2, <1>3, <1>7 DEF Promise!Next, Promise!Leave
<1>8. CASE phase'[r] = phase[r] /\ admin'[r] = admin[r]
  BY <1>1, <1>2, <1>3, <1>8
<1> QED
  BY <1>4, <1>5, <1>6, <1>7, <1>8 DEF OneThing

\* Building a task implements, store by store, the promise that a finished
\* store is never begun again and that a worktree joins no other, with the
\* rollback in the place of the removal.
THEOREM StoresKeepTheirPromise == Spec => KeepsPromise
<1>1. Basic /\ Basic' /\ BuiltInv /\ [Next]_vars =>
        [\A r \in Repos :
           Promise(r)!Next \/ (Standing(r)' = Standing(r) /\ Users(r)' = Users(r))]_vars
  BY OneThingAtATime, PromiseStep
<1> QED
  BY BasicInit, BasicStep, BuiltInit, BuiltStep, <1>1, PTL DEF Spec, KeepsPromise

-----------------------------------------------------------------------------
(* When the bases were.                                                    *)

OnTime(r, a, b) == \E n \in a..b : base[r] = TipAt(r, n)

\* The base of this one has been found.
Resolved(r) == pc \notin {"idle", "validate"} \/ (pc = "validate" /\ r < at)

\* The latest moment a new task's bases may be of: from the reading of the
\* clock on, that of its reading.
Until == IF pc = "save" THEN cmd.upto ELSE Len(log)

\* The first n commits are dated no later than e.
DatedBy(n, e) == \A i \in 1..n : log[i].date <= e

\* A base that suits the record: of its time, or what came later with a date
\* of that time.
Placed(r) ==
  \E b \in 0..Len(log), n \in 0..Len(log), t \in 0..Len(log) :
    /\ b = base[r] /\ n = rec.upto /\ t = TipAt(r, n) /\ Dated(b) <= rec.epoch
    /\ OnTime(r, rec.from, rec.upto) \/ (b > n /\ Dated(t) <= Dated(b))

SliceInv ==
  /\ DatedBy(Len(log), now)
  /\ rec.repos # {} => /\ rec.from <= rec.upto /\ rec.upto <= Len(log)
                       /\ DatedBy(rec.upto, rec.epoch)
  /\ cmd.verb # "none" => cmd.from <= Len(log)
  /\ pc = "save" /\ cmd.verb = "new" => /\ cmd.from <= cmd.upto /\ cmd.upto <= Len(log)
                                        /\ DatedBy(cmd.upto, cmd.epoch)
  /\ \A r \in rec.repos : Placed(r)
  /\ \A r \in cmd.sel : Resolved(r) =>
       IF cmd.verb = "new" THEN OnTime(r, cmd.from, Until) ELSE Placed(r)

LEMMA TimesTyped ==
  ASSUME Basic
  PROVE  /\ log \in Commits /\ Len(log) \in Nat /\ rec.from \in Nat /\ rec.upto \in Nat
         /\ rec.epoch \in Clock /\ rec.epoch \in Nat /\ cmd.from \in Nat /\ cmd.upto \in Nat
         /\ cmd.epoch \in Nat /\ now \in Nat /\ MaxClock \in Clock
BY Numbers DEF Basic, TypeOK, Commits

LEMMA DatesTyped ==
  ASSUME Basic, NEW i \in 0..Len(log)
  PROVE  Dated(i) \in Nat /\ Dated(i) <= MaxClock /\ (i # 0 => log[i].date = Dated(i))
<1>1. CASE i = 0
  BY <1>1, Numbers DEF Dated
<1>2. CASE i # 0
  <2>1. i \in 1..Len(log) /\ log \in Seq([repo : Repos, date : Clock])
    BY <1>2, TimesTyped DEF Commits
  <2>2. log[i] \in [repo : Repos, date : Clock]
    BY <2>1, ElementOfSeq
  <2> QED
    BY <1>2, <2>2, Numbers DEF Dated
<1> QED
  BY <1>1, <1>2

\* History that stays grows too.
LEMMA StillGrows == ASSUME Basic, log' = log PROVE Grows
BY TimesTyped DEF Grows

\* What was there keeps its date, and what was the tip at a time stays the tip
\* at that time.
LEMMA TipStays ==
  ASSUME Basic, Grows, NEW n \in Nat, n <= Len(log)
  PROVE  (\A r : TipAt(r, n)' = TipAt(r, n)) /\ Dated(n)' = Dated(n)
<1>1. \A i \in 1..n : log'[i] = log[i]
  BY DEF Grows
<1>2. ASSUME NEW r PROVE TipAt(r, n)' = TipAt(r, n)
  <2> DEFINE B == Before(r, n, MaxClock)
             D == {0} \cup {log[i].date : i \in B}
             S(d) == {0} \cup {i \in B : log[i].date = d}
  <2>1. B' = B
    BY <1>1 DEF Before
  <2>2. \A i \in B : log'[i] = log[i]
    BY <1>1 DEF Before
  <2>3. D' = D
    <3> HIDE DEF B
    <3> QED
      BY <2>1, <2>2
  <2>4. \A d : S(d)' = S(d)
    <3> HIDE DEF B, D
    <3> QED
      BY <2>1, <2>2
  <2>5. TipAt(r, n) = Max(S(Max(D))) /\ TipAt(r, n)' = Max({0} \cup {i \in B' : log'[i].date = Max(D')})
    BY DEF TipAt, Newest
  <2>6. {0} \cup {i \in B' : log'[i].date = Max(D')} = S(Max(D))
    <3> HIDE DEF B, D
    <3> QED
      BY <2>1, <2>2, <2>3
  <2> HIDE DEF B, D, S
  <2> QED
    BY <2>5, <2>6
<1>3. Dated(n)' = Dated(n)
  <2>1. n # 0 => n \in 1..n
    OBVIOUS
  <2> QED
    BY <1>1, <2>1 DEF Dated
<1> QED
  BY <1>2, <1>3

LEMMA TipIs ==
  ASSUME Basic, NEW r, NEW n \in Nat, n <= Len(log)
  PROVE  TipAt(r, n) \in 0..n
<1>1. TipAt(r, n) = Newest(r, n, MaxClock)
  BY DEF TipAt
<1> QED
  BY <1>1, NewestIs, TimesTyped

\* A base that was of a time is of that time still.
LEMMA Carried ==
  ASSUME Basic, Grows, NEW r, base'[r] = base[r], NEW a \in Nat, NEW b \in Nat, b <= Len(log),
         NEW c \in Nat, b <= c, OnTime(r, a, b)
  PROVE  \E n \in a..c : base'[r] = TipAt(r, n)'
<1>1. PICK n \in a..b : base[r] = TipAt(r, n)
  BY DEF OnTime
<1>2. TipAt(r, n)' = TipAt(r, n) /\ n \in a..c
  BY <1>1, TipStays, TimesTyped
<1> QED
  BY <1>1, <1>2

LEMMA PlacedStill ==
  ASSUME Basic, Grows, rec'.from = rec.from, rec'.upto = rec.upto, rec'.epoch = rec.epoch,
         NEW r, base'[r] = base[r], Placed(r)
  PROVE  Placed(r)'
<1>1. PICK b \in 0..Len(log), n \in 0..Len(log), t \in 0..Len(log) :
        /\ b = base[r] /\ n = rec.upto /\ t = TipAt(r, n) /\ Dated(b) <= rec.epoch
        /\ OnTime(r, rec.from, rec.upto) \/ (b > n /\ Dated(t) <= Dated(b))
  BY DEF Placed
<1>2. b \in Nat /\ n \in Nat /\ t \in Nat /\ b <= Len(log) /\ n <= Len(log) /\ t <= Len(log)
  BY <1>1, TimesTyped
<1>3. TipAt(r, n)' = TipAt(r, n) /\ Dated(b)' = Dated(b) /\ Dated(t)' = Dated(t)
  BY <1>2, TipStays
<1>4. b \in 0..Len(log') /\ n \in 0..Len(log') /\ t \in 0..Len(log')
  BY <1>2 DEF Grows
<1>5. OnTime(r, rec.from, rec.upto) => OnTime(r, rec.from, rec.upto)'
  <2>1. SUFFICES ASSUME OnTime(r, rec.from, rec.upto)
                 PROVE  \E k \in rec.from..rec.upto : base'[r] = TipAt(r, k)'
    BY DEF OnTime
  <2>2. PICK k \in rec.from..rec.upto : base[r] = TipAt(r, k)
    BY <2>1 DEF OnTime
  <2>3. k \in Nat /\ k <= Len(log)
    BY <1>1, <1>2, <2>2, TimesTyped
  <2>4. TipAt(r, k)' = TipAt(r, k)
    BY <2>3, TipStays
  <2> QED
    BY <2>2, <2>4
<1> QED
  BY <1>1, <1>3, <1>4, <1>5 DEF Placed

\* The record as it was.
LEMMA RecordOnTime ==
  ASSUME Basic, SliceInv, Grows, rec' = rec, \A r \in rec.repos : base'[r] = base[r]
  PROVE  /\ rec'.repos # {} => /\ rec'.from <= rec'.upto /\ rec'.upto <= Len(log')
                               /\ DatedBy(rec.upto, rec.epoch)'
         /\ \A r \in rec'.repos : Placed(r)'
<1>1. ASSUME rec.repos # {}
      PROVE  rec.from <= rec.upto /\ rec.upto <= Len(log') /\ DatedBy(rec.upto, rec.epoch)'
  <2>1. rec.from <= rec.upto /\ rec.upto <= Len(log) /\ DatedBy(rec.upto, rec.epoch)
    BY <1>1 DEF SliceInv
  <2>2. \A i \in 1..rec.upto : log'[i] = log[i]
    BY <2>1, TimesTyped DEF Grows
  <2> QED
    BY <2>1, <2>2, TimesTyped DEF Grows, DatedBy
<1>2. \A r \in rec.repos : Placed(r)'
  BY PlacedStill DEF SliceInv
<1> QED
  BY <1>1, <1>2

\* The command's own steps after the bases are found, up to the record.
LEMMA OnwardsOnTime ==
  ASSUME Basic, Basic', SliceInv, UNCHANGED <<log, now, rec, base>>, cmd'.verb = cmd.verb,
         cmd'.sel = cmd.sel, cmd'.from = cmd.from,
         pc \notin {"idle", "validate"}, pc' \notin {"idle", "validate"},
         pc' = "save" => cmd'.upto = Len(log) /\ cmd'.epoch = now /\ pc # "save"
  PROVE  SliceInv'
<1>0. Grows
  BY StillGrows
<1>1. Len(log') = Len(log) /\ Len(log) \in Nat /\ cmd.from \in Nat /\ cmd.from <= Len(log)
  BY TimesTyped DEF SliceInv, Basic, Control
<1>2. /\ rec'.repos # {} => /\ rec'.from <= rec'.upto /\ rec'.upto <= Len(log')
                            /\ DatedBy(rec.upto, rec.epoch)'
      /\ \A r \in rec'.repos : Placed(r)'
  BY <1>0, RecordOnTime
<1>3. ASSUME NEW r \in cmd'.sel, cmd'.verb = "new" PROVE OnTime(r, cmd.from, Until)'
  <2>1. OnTime(r, cmd.from, Until)
    BY <1>3 DEF SliceInv, Resolved
  <2>2. Until \in Nat /\ Until <= Len(log) /\ Until' = Len(log)
    BY <1>1, <1>3, TimesTyped DEF Until, SliceInv
  <2>3. \E n \in cmd.from..Len(log) : base'[r] = TipAt(r, n)'
    BY <1>0, <1>1, <2>1, <2>2, Carried
  <2> QED
    BY <2>2, <2>3 DEF OnTime
<1>4. ASSUME NEW r \in cmd'.sel, cmd'.verb # "new" PROVE Placed(r)'
  <2>1. Placed(r)
    BY <1>4 DEF SliceInv, Resolved
  <2> QED
    BY <1>0, <2>1, PlacedStill
<1>5. DatedBy(Len(log), now) /\ DatedBy(Len(log), now)'
  BY DEF SliceInv, DatedBy
<1>6. /\ cmd'.verb # "none" => cmd'.from <= Len(log')
      /\ pc' = "save" /\ cmd'.verb = "new" => /\ cmd'.from <= cmd'.upto /\ cmd'.upto <= Len(log')
                                              /\ DatedBy(cmd.upto, cmd.epoch)'
  BY <1>1, <1>5 DEF DatedBy
<1> QED
  BY <1>2, <1>3, <1>4, <1>5, <1>6 DEF SliceInv

\* A command that ends leaves a record behind or not.
LEMMA EndOnTime ==
  ASSUME Basic, SliceInv, UNCHANGED <<log, now, rec>>, NEW result, Over(result)
  PROVE  SliceInv'
<1>1. \A r \in rec.repos : base'[r] = base[r]
  BY OverLeavesBases
<1>2. cmd'.sel = {} /\ cmd'.verb = "none" /\ pc' = "idle"
  BY DEF Over, NoCmd
<1>3. DatedBy(Len(log), now)'
  BY DEF SliceInv, DatedBy
<1> QED
  BY <1>1, <1>2, <1>3, StillGrows, RecordOnTime DEF SliceInv

\* While others act, history may grow.
LEMMA MeddlingOnTime ==
  ASSUME Basic, Basic', SliceInv, UNCHANGED <<pc, cmd, at, base, rec>>, Grows,
         DatedBy(Len(log), now)'
  PROVE  SliceInv'
<1>1. /\ rec'.repos # {} => /\ rec'.from <= rec'.upto /\ rec'.upto <= Len(log')
                            /\ DatedBy(rec.upto, rec.epoch)'
      /\ \A r \in rec'.repos : Placed(r)'
      /\ Len(log') \in Nat /\ Len(log) <= Len(log')
  BY RecordOnTime DEF Grows
<1>2. ASSUME NEW r \in cmd.sel, Resolved(r), cmd.verb = "new"
      PROVE  OnTime(r, cmd.from, Until)'
  <2>1. OnTime(r, cmd.from, Until)
    BY <1>2 DEF SliceInv
  <2>2. Until \in Nat /\ Until <= Len(log) /\ Until <= Until' /\ Until' \in Nat
    BY <1>1, <1>2, TimesTyped DEF Until, SliceInv
  <2>3. PICK k \in cmd.from..Until : base[r] = TipAt(r, k)
    BY <2>1 DEF OnTime
  <2>4. k \in Nat /\ k <= Len(log) /\ k \in cmd.from..Until'
    BY <2>2, <2>3, TimesTyped
  <2>5. TipAt(r, k)' = TipAt(r, k)
    BY <2>4, TipStays
  <2>6. \E n \in cmd.from..Until' : base'[r] = TipAt(r, n)'
    BY <2>3, <2>4, <2>5
  <2> QED
    BY <2>6 DEF OnTime
<1>3. ASSUME NEW r \in cmd.sel, Resolved(r), cmd.verb # "new" PROVE Placed(r)'
  <2>1. Placed(r)
    BY <1>3 DEF SliceInv
  <2> QED
    BY <2>1, PlacedStill
<1>4. \A r : Resolved(r)' <=> Resolved(r)
  BY DEF Resolved
<1>5. cmd'.verb # "none" => cmd'.from <= Len(log')
  BY <1>1, TimesTyped DEF SliceInv
<1>6. ASSUME pc' = "save", cmd'.verb = "new"
      PROVE  /\ cmd'.from <= cmd'.upto /\ cmd'.upto <= Len(log')
             /\ DatedBy(cmd.upto, cmd.epoch)'
  <2>1. cmd.from <= cmd.upto /\ cmd.upto <= Len(log) /\ DatedBy(cmd.upto, cmd.epoch)
    BY <1>6 DEF SliceInv
  <2>2. \A i \in 1..cmd.upto : log'[i] = log[i]
    BY <2>1, TimesTyped DEF Grows
  <2> QED
    BY <1>1, <2>1, <2>2, TimesTyped DEF DatedBy
<1> QED
  BY <1>1, <1>2, <1>3, <1>4, <1>5, <1>6 DEF SliceInv

\* What baseAtEpoch finds suits the record.
LEMMA FoundFits ==
  ASSUME Basic, SliceInv, rec.repos # {}, NEW r
  PROVE  LET b == Newest(r, Len(log), rec.epoch)
             n == rec.upto
             t == TipAt(r, n)
         IN /\ b \in 0..Len(log) /\ n \in 0..Len(log) /\ t \in 0..Len(log)
            /\ Dated(b) <= rec.epoch
            /\ (\E k \in rec.from..n : b = TipAt(r, k)) \/ (b > n /\ Dated(t) <= Dated(b))
<1> DEFINE b == Newest(r, Len(log), rec.epoch)
           n == rec.upto
           t == TipAt(r, n)
<1>1. /\ n \in Nat /\ n <= Len(log) /\ Len(log) \in Nat /\ rec.from \in Nat /\ rec.from <= n
      /\ rec.epoch \in Nat /\ rec.epoch \in Clock /\ log \in Commits /\ MaxClock \in Clock
  BY TimesTyped DEF SliceInv
<1>2. /\ b \in {0} \cup Before(r, Len(log), rec.epoch) /\ b \in 0..Len(log)
      /\ \A i \in Before(r, Len(log), rec.epoch) :
           log[i].date <= Dated(b) /\ (log[i].date = Dated(b) => i <= b)
  BY <1>1, NewestIs
<1>3. /\ t \in {0} \cup Before(r, n, MaxClock) /\ t \in 0..n
      /\ \A i \in Before(r, n, MaxClock) :
           log[i].date <= Dated(t) /\ (log[i].date = Dated(t) => i <= t)
  BY <1>1, NewestIs DEF TipAt
<1>4. t \in 0..Len(log)
  BY <1>1, <1>3
<1> HIDE DEF b, t
<1>5. /\ Dated(b) \in Nat /\ Dated(t) \in Nat /\ (b # 0 => log[b].date = Dated(b))
      /\ (t # 0 => log[t].date = Dated(t)) /\ (b = 0 => Dated(b) = 0) /\ (t = 0 => Dated(t) = 0)
      /\ Dated(b) <= MaxClock
  <2>1. (b = 0 => Dated(b) = 0) /\ (t = 0 => Dated(t) = 0)
    BY DEF Dated
  <2> QED
    BY <1>2, <1>4, <2>1, DatesTyped
<1>6. t # 0 => t \in Before(r, Len(log), rec.epoch)
  <2>1. t # 0 => t \in 1..n /\ log[t].repo = r
    BY <1>3 DEF Before
  <2>2. t # 0 => log[t].date <= rec.epoch
    BY <2>1 DEF SliceInv, DatedBy
  <2> QED
    BY <1>1, <2>1, <2>2 DEF Before
<1>7. b # 0 /\ b <= n => b \in Before(r, n, MaxClock)
  BY <1>1, <1>2, <1>5 DEF Before
<1>8. Dated(b) <= rec.epoch
  BY <1>1, <1>2, <1>5 DEF Before
<1>9. Dated(t) <= Dated(b) /\ (Dated(t) = Dated(b) => t <= b)
  BY <1>1, <1>2, <1>3, <1>5, <1>6
<1>10. b <= n => Dated(b) <= Dated(t) /\ (Dated(t) = Dated(b) => b <= t)
  BY <1>1, <1>2, <1>3, <1>5, <1>7
<1>11. CASE b <= n
  <2>1. b = t
    BY <1>1, <1>2, <1>3, <1>5, <1>9, <1>10, <1>11
  <2>2. \E k \in rec.from..n : b = TipAt(r, k)
    BY <1>1, <2>1 DEF t
  <2> QED
    BY <1>1, <1>2, <1>4, <1>8, <2>2 DEF b, t
<1>12. CASE b > n
  BY <1>1, <1>2, <1>4, <1>8, <1>9, <1>12 DEF b, t
<1> QED
  BY <1>1, <1>2, <1>11, <1>12

\* The same, of a base that is found in this step.
LEMMA FoundIsPlacedThen ==
  ASSUME Basic, Basic', SliceInv, UNCHANGED <<log, rec>>, rec.repos # {}, NEW r,
         base'[r] = Newest(r, Len(log), rec.epoch)
  PROVE  Placed(r)'
<1>1. PICK b : b = Newest(r, Len(log), rec.epoch)
  OBVIOUS
<1>2. PICK n : n = rec.upto
  OBVIOUS
<1>3. PICK t : t = TipAt(r, n)
  OBVIOUS
<1>4. /\ b \in 0..Len(log) /\ n \in 0..Len(log) /\ t \in 0..Len(log)
      /\ Dated(b) <= rec.epoch
      /\ (\E k \in rec.from..rec.upto : b = TipAt(r, k)) \/ (b > n /\ Dated(t) <= Dated(b))
  BY <1>1, <1>2, <1>3, FoundFits
<1>5. Dated(b)' = Dated(b) /\ Dated(t)' = Dated(t) /\ \A k : TipAt(r, k)' = TipAt(r, k)
  BY DEF Dated, TipAt, Newest, Before
<1>6. (\E k \in rec.from..rec.upto : b = TipAt(r, k)) => OnTime(r, rec.from, rec.upto)'
  BY <1>1, <1>5 DEF OnTime
<1> QED
  BY <1>1, <1>2, <1>3, <1>4, <1>5, <1>6 DEF Placed

\* The bases of a new task suit its record.
LEMMA NewIsPlaced ==
  ASSUME Basic, SliceInv, Basic', UNCHANGED log, NEW r, base'[r] = base[r],
         cmd.from \in Nat, cmd.upto \in Nat, cmd.upto <= Len(log),
         DatedBy(cmd.upto, cmd.epoch), cmd.epoch \in Nat, OnTime(r, cmd.from, cmd.upto),
         rec'.from = cmd.from, rec'.upto = cmd.upto, rec'.epoch = cmd.epoch
  PROVE  Placed(r)'
<1>1. PICK k \in cmd.from..cmd.upto : base[r] = TipAt(r, k)
  BY DEF OnTime
<1>2. PICK n : n = cmd.upto
  OBVIOUS
<1>3. PICK b : b = base[r]
  OBVIOUS
<1>4. PICK t : t = TipAt(r, n)
  OBVIOUS
<1>5. k \in Nat /\ k <= n /\ n \in Nat /\ n <= Len(log) /\ Len(log) \in Nat
  BY <1>1, <1>2, TimesTyped
<1>6. b \in 0..k /\ t \in 0..n
  BY <1>1, <1>3, <1>4, <1>5, TipIs
<1>7. b \in 0..Len(log) /\ n \in 0..Len(log) /\ t \in 0..Len(log) /\ b <= n
  BY <1>5, <1>6
<1>8. Dated(b) <= cmd.epoch
  <2>1. CASE b = 0
    BY <2>1 DEF Dated
  <2>2. CASE b # 0
    BY <1>2, <1>7, <2>2 DEF Dated, DatedBy
  <2> QED
    BY <2>1, <2>2
<1>9. Dated(b)' = Dated(b) /\ Dated(t)' = Dated(t) /\ \A q : TipAt(r, q)' = TipAt(r, q)
  BY DEF Dated, TipAt, Newest, Before
<1>10. OnTime(r, rec.from, rec.upto)'
  BY <1>1, <1>9 DEF OnTime
<1> QED
  BY <1>2, <1>3, <1>4, <1>7, <1>8, <1>9, <1>10 DEF Placed

LEMMA CommitOnTime ==
  ASSUME Basic, SliceInv, SomeCommit
  PROVE  Grows /\ DatedBy(Len(log), now)'
<1>1. PICK r \in Repos, pulled \in BOOLEAN, tick \in {0, 1}, date \in Clock :
        Commit(r, pulled, tick, date)
  BY DEF SomeCommit
<1>2. /\ Grows /\ now <= now' /\ now' \in Nat /\ log' \in Commits
      /\ \A i \in (Len(log) + 1)..Len(log') : log'[i].date <= now'
  <2>1. now' \in Nat
    BY <1>1, Numbers DEF Commit
  <2> QED
    BY <1>1, <2>1, Appends
<1>3. ASSUME NEW i \in 1..Len(log') PROVE log'[i].date <= now'
  <2>1. CASE i <= Len(log)
    <3>1. i \in 1..Len(log) /\ log'[i] = log[i]
      BY <1>2, <2>1 DEF Grows
    <3>2. log[i].date <= now /\ log[i].date \in Nat
      <4>1. log[i].date = Dated(i) /\ Dated(i) \in Nat
        BY <3>1, DatesTyped, TimesTyped
      <4> QED
        BY <3>1, <4>1 DEF SliceInv, DatedBy
    <3> QED
      BY <1>2, <3>1, <3>2, TimesTyped
  <2>2. CASE i > Len(log)
    <3>1. i \in (Len(log) + 1)..Len(log')
      BY <1>2, <2>2 DEF Grows
    <3> QED
      BY <1>2, <3>1
  <2> QED
    BY <1>2, <2>1, <2>2 DEF Grows
<1> QED
  BY <1>2, <1>3 DEF DatedBy

LEMMA BaseOnTime ==
  ASSUME Basic, Basic', SliceInv, Validate
  PROVE  SliceInv'
<1>0. UNCHANGED <<log, now, rec>> /\ pc = "validate" /\ at \in Repos /\ at \in cmd.sel /\ Grows
  BY StillGrows DEF Validate, world, work, Basic, TypeOK, Control
<1>1. CASE Over("failed")
  BY <1>0, <1>1, EndOnTime
<1>2. CASE ~Over("failed")
  <2> DEFINE l == IF cmd.verb = "new" THEN "mkdir" ELSE "pin"
  <2>1. base' = [base EXCEPT ![at] = BaseOf(at)] /\ NextRepo("validate", l)
    BY <1>2 DEF Validate
  <2>2. /\ pc' \in {"validate", l} /\ UNCHANGED cmd
        /\ pc' = "validate" => \A r \in cmd.sel : r < at' => r <= at
        /\ pc' = l => \A r \in cmd.sel : r <= at
    BY <1>0, <2>1, NextRepoKeeps DEF Labels
  <2>3. \A r \in cmd.sel : Resolved(r)' => r = at \/ r < at
    <3>1. \A r \in cmd.sel : Resolved(r)' => r <= at
      BY <1>0, <2>2 DEF Resolved
    <3>2. \A r \in cmd.sel : r \in Nat /\ at \in Nat
      BY <1>0, Numbers DEF Basic, TypeOK
    <3> QED
      BY <3>1, <3>2
  <2>4. \A r \in rec.repos : base'[r] = base[r]
    BY <1>0, <2>1, RecordedApart DEF Basic, TypeOK
  <2>5. /\ rec'.repos # {} => /\ rec'.from <= rec'.upto /\ rec'.upto <= Len(log')
                              /\ DatedBy(rec.upto, rec.epoch)'
        /\ \A r \in rec'.repos : Placed(r)'
    BY <1>0, <2>4, RecordOnTime
  <2>6. Until = Len(log) /\ Until' = Len(log)
    BY <1>0, <2>2 DEF Until
  <2>7. \A r, n : TipAt(r, n)' = TipAt(r, n)
    BY <1>0 DEF TipAt, Newest, Before
  <2>8. cmd.verb # "none" /\ cmd.from <= Len(log) /\ DatedBy(Len(log), now)'
    BY <1>0 DEF SliceInv, DatedBy, Basic, Control
  <2>9. ASSUME NEW r \in cmd.sel, r = at, cmd.verb = "new" PROVE OnTime(r, cmd.from, Until)'
    <3>1. base'[r] = TipAt(r, Len(log))
      BY <1>0, <2>1, <2>9 DEF BaseOf, TipAt, Basic, TypeOK
    <3>2. Len(log) \in cmd.from..Len(log)
      BY <2>8, TimesTyped
    <3>3. \E n \in cmd.from..Len(log) : base'[r] = TipAt(r, n)'
      BY <2>7, <3>1, <3>2
    <3> QED
      BY <2>2, <2>6, <3>3 DEF OnTime
  <2>10. ASSUME NEW r \in cmd.sel, r = at, cmd.verb # "new" PROVE Placed(r)'
    <3>1. rec.repos # {}
      BY <2>8, <2>10 DEF Basic, TypeOK, Control
    <3>2. base'[r] = Newest(r, Len(log), rec.epoch)
      BY <1>0, <2>1, <2>10 DEF BaseOf, Basic, TypeOK
    <3> QED
      BY <1>0, <2>8, <3>1, <3>2, FoundIsPlacedThen
  <2>11. ASSUME NEW r \in cmd.sel, r # at, r < at
         PROVE  IF cmd.verb = "new" THEN OnTime(r, cmd.from, Until)' ELSE Placed(r)'
    <3>1. base'[r] = base[r] /\ Resolved(r)
      BY <1>0, <2>1, <2>11 DEF Resolved, Basic, TypeOK
    <3>2. IF cmd.verb = "new" THEN OnTime(r, cmd.from, Until) ELSE Placed(r)
      BY <3>1 DEF SliceInv
    <3>3. Placed(r) => Placed(r)'
      BY <1>0, <3>1, PlacedStill
    <3>4. OnTime(r, cmd.from, Until) => OnTime(r, cmd.from, Until)'
      BY <1>0, <2>2, <2>6, <2>7, <3>1 DEF OnTime
    <3> QED
      BY <3>2, <3>3, <3>4
  <2>12. \A r \in cmd'.sel : Resolved(r)' =>
           IF cmd'.verb = "new" THEN OnTime(r, cmd.from, Until)' ELSE Placed(r)'
    BY <2>2, <2>3, <2>9, <2>10, <2>11
  <2> QED
    BY <1>0, <2>2, <2>5, <2>8, <2>12 DEF SliceInv
<1> QED
  BY <1>1, <1>2

LEMMA SaveOnTime ==
  ASSUME Basic, Basic', SliceInv, Save
  PROVE  SliceInv'
<1>0. UNCHANGED <<log, now>> /\ pc = "save" /\ cmd.verb \in {"new", "add"} /\ Grows
  BY StillGrows DEF Save, world, Basic, TypeOK, Control
<1>1. CASE Goto("undo")
  <2>1. UNCHANGED <<rec, base, cmd>> /\ pc' = "undo"
    BY <1>0, <1>1 DEF Save, Goto, Over
  <2> QED
    BY <1>0, <2>1, OnwardsOnTime
<1>2. CASE ~Goto("undo")
  <2>1. /\ rec' = IF cmd.verb = "new"
                    THEN [repos |-> cmd.sel, links |-> cmd.seen \ cmd.sel,
                          from |-> cmd.from, upto |-> cmd.upto, epoch |-> cmd.epoch]
                    ELSE [rec EXCEPT !.repos = @ \cup cmd.sel, !.links = @ \ cmd.sel]
        /\ Over("done")
    BY <1>2 DEF Save, Fail
  <2>2. cmd'.sel = {} /\ cmd'.verb = "none" /\ pc' = "idle"
    BY <2>1 DEF Over, NoCmd
  <2>3. \A r \in rec.repos \cup cmd.sel : base'[r] = base[r]
    BY <2>1 DEF Over, Basic, TypeOK
  <2>4. DatedBy(Len(log), now)'
    BY <1>0 DEF SliceInv, DatedBy
  <2>5. CASE cmd.verb = "new"
    <3>1. /\ rec'.repos = cmd.sel /\ rec'.from = cmd.from /\ rec'.upto = cmd.upto
          /\ rec'.epoch = cmd.epoch
      BY <2>1, <2>5
    <3>2. /\ cmd.from <= cmd.upto /\ cmd.upto <= Len(log) /\ DatedBy(cmd.upto, cmd.epoch)
          /\ cmd.from \in Nat /\ cmd.upto \in Nat /\ cmd.epoch \in Nat
      BY <1>0, <2>5, TimesTyped DEF SliceInv
    <3>3. \A r \in cmd.sel : OnTime(r, cmd.from, cmd.upto)
      BY <1>0, <2>5 DEF SliceInv, Resolved, Until
    <3>4. ASSUME NEW r \in rec'.repos PROVE Placed(r)'
      BY <1>0, <2>3, <3>1, <3>2, <3>3, <3>4, NewIsPlaced
    <3>5. DatedBy(rec.upto, rec.epoch)'
      BY <1>0, <3>1, <3>2 DEF DatedBy
    <3> QED
      BY <1>0, <2>2, <2>4, <3>1, <3>2, <3>4, <3>5 DEF SliceInv
  <2>6. CASE cmd.verb = "add"
    <3>1. /\ rec'.repos = rec.repos \cup cmd.sel /\ rec'.from = rec.from
          /\ rec'.upto = rec.upto /\ rec'.epoch = rec.epoch /\ rec.repos # {}
      BY <2>1, <2>6 DEF Basic, TypeOK, Control
    <3>2. \A r \in rec.repos \cup cmd.sel : Placed(r)
      BY <1>0, <2>6 DEF SliceInv, Resolved
    <3>3. \A r \in rec'.repos : Placed(r)'
      BY <1>0, <2>3, <3>1, <3>2, PlacedStill
    <3>4. DatedBy(rec.upto, rec.epoch)' /\ rec'.from <= rec'.upto /\ rec'.upto <= Len(log')
      BY <1>0, <3>1 DEF SliceInv, DatedBy
    <3> QED
      BY <1>0, <2>2, <2>4, <3>1, <3>3, <3>4 DEF SliceInv
  <2> QED
    BY <1>0, <2>5, <2>6
<1> QED
  BY <1>1, <1>2

LEMMA SliceInit == Init => SliceInv
BY DEF Init, SliceInv, NoCmd, NoRec, DatedBy

LEMMA SliceStep == Basic /\ Basic' /\ SliceInv /\ [Next]_vars => SliceInv'
<1> SUFFICES ASSUME Basic, Basic', SliceInv, [Next]_vars PROVE SliceInv'
  OBVIOUS
<1>0. log' = log /\ now' = now => Grows /\ DatedBy(Len(log), now)'
  BY StillGrows DEF SliceInv, DatedBy
<1>1. ASSUME NEW verb, NEW s, NEW seen, Begin(verb, s, seen), verb \in {"new", "add"},
             s \in SUBSET Repos, s # {}
      PROVE  SliceInv'
  <2>1. /\ cmd'.sel = s /\ cmd'.from = Len(log) /\ pc' = "validate" /\ at' = Min(s)
        /\ UNCHANGED <<log, now, rec, base>>
    BY <1>1 DEF Begin, world, work
  <2>2. \A r \in s : Min(s) <= r /\ r \in Nat /\ Min(s) \in Nat
    <3>1. Min(s) \in s /\ \A r \in s : Min(s) <= r
      BY <1>1, FirstOf
    <3>2. s \subseteq Nat
      BY <1>1, Numbers
    <3> QED
      BY <3>1, <3>2
  <2>3. \A r \in s : ~Resolved(r)'
    BY <2>1, <2>2 DEF Resolved
  <2>4. /\ rec'.repos # {} => /\ rec'.from <= rec'.upto /\ rec'.upto <= Len(log')
                              /\ DatedBy(rec.upto, rec.epoch)'
        /\ \A r \in rec'.repos : Placed(r)'
    BY <1>0, <2>1, RecordOnTime
  <2> QED
    BY <1>0, <2>1, <2>3, <2>4, TimesTyped DEF SliceInv
<1>2. CASE \E s \in (SUBSET Repos) \ {{}} : \E seen \in SUBSET Repos : New(s, seen)
  BY <1>1, <1>2 DEF New
<1>3. CASE \E r \in Repos : Add(r)
  BY <1>1, <1>3 DEF Add
<1>4. CASE Validate
  BY <1>4, BaseOnTime
<1>5. CASE MakeTree
  <2>1. UNCHANGED <<log, now, rec>> /\ pc = "mkdir"
    BY <1>5 DEF MakeTree, world
  <2>2. CASE Over("failed")
    BY <2>1, <2>2, EndOnTime
  <2>3. CASE Goto("pin")
    BY <2>1, <2>3, OnwardsOnTime DEF Goto
  <2> QED
    BY <1>5, <2>2, <2>3 DEF MakeTree
<1>6. CASE Pin \/ Ensure \/ FinishStore \/ FetchBase \/ Fetched \/ Unlink \/ AddWorktree
  <2>1. /\ UNCHANGED <<log, now, rec, base, cmd>>
        /\ pc \notin {"idle", "validate", "save"} /\ pc' \notin {"idle", "validate", "save"}
    BY <1>6 DEF Pin, Ensure, FinishStore, FetchBase, Fetched, Unlink, AddWorktree, Fail,
                Goto, world, work
  <2> QED
    BY <2>1, OnwardsOnTime
<1>7. CASE Lock
  <2>1. UNCHANGED <<log, now, rec, base, cmd>> /\ pc = "lock" /\ pc' \in {"pin", "build", "undo"}
    BY <1>7, NextRepoKeeps DEF Lock, Fail, Goto, world, work, Labels
  <2> QED
    BY <2>1, OnwardsOnTime
<1>8. CASE Build
  <2>1. /\ UNCHANGED <<log, now, rec, base>> /\ pc = "build" /\ pc' \in {"save", "undo"}
        /\ cmd'.verb = cmd.verb /\ cmd'.sel = cmd.sel /\ cmd'.from = cmd.from
        /\ pc' = "save" => cmd'.upto = Len(log) /\ cmd'.epoch = now
    BY <1>8, BuildCommand DEF world
  <2> QED
    BY <2>1, OnwardsOnTime
<1>9. CASE Save
  BY <1>9, SaveOnTime
<1>10. CASE Rollback
  <2>1. UNCHANGED <<log, now, rec, base, cmd>> /\ pc = "undo" /\ pc' = "undo"
    BY <1>10 DEF Rollback, world
  <2> QED
    BY <2>1, OnwardsOnTime
<1>11. CASE RolledBack \/ Crash
  <2>1. UNCHANGED <<log, now, rec>> /\ \E result : Over(result)
    BY <1>11 DEF RolledBack, Crash, world, work
  <2> QED
    BY <2>1, EndOnTime
<1>12. CASE Meddling
  <2>1. UNCHANGED <<pc, cmd, at, base, rec>>
    BY <1>12 DEF Meddling, SomeCommit, Commit, MakeOwnBranch, AgentBranch, Tidy, AgentPut,
                 DoctorList, DoctorSweep, Theirs, Change, store, world, work
  <2>2. Grows /\ DatedBy(Len(log), now)'
    <3>1. CASE SomeCommit
      BY <3>1, CommitOnTime
    <3>2. CASE ~SomeCommit
      BY <1>0, <1>12, <3>2 DEF Meddling, MakeOwnBranch, AgentBranch, Tidy, AgentPut,
                               DoctorList, DoctorSweep, world
    <3> QED
      BY <3>1, <3>2
  <2> QED
    BY <2>1, <2>2, MeddlingOnTime
<1>13. CASE UNCHANGED vars
  <2>1. UNCHANGED <<pc, cmd, at, base, rec, log, now>>
    BY <1>13 DEF vars
  <2> QED
    BY <1>0, <2>1, MeddlingOnTime
<1> QED
  BY <1>2, <1>3, <1>4, <1>5, <1>6, <1>7, <1>8, <1>9, <1>10, <1>11, <1>12, <1>13
     DEF Next, Meddling, SomeCommit

\* A task is a slice of time, for any number of repositories that join it,
\* however much is committed, merged and fetched meanwhile, with whatever
\* honest dates: each base is what its repository's base ref showed at one
\* moment between the beginning of wkt new and the recorded epoch
\* (resolveBase), or, for one that joined, a commit that came later but is
\* dated between that and the epoch (baseAtEpoch).
THEOREM TasksAreSlicesOfTime == Spec => []SliceOfTime
<1>1. SliceInv => SliceOfTime
  BY DEF SliceInv, Placed, OnTime, SliceOfTime
<1> QED
  BY BasicInit, BasicStep, SliceInit, SliceStep, <1>1, PTL DEF Spec

-----------------------------------------------------------------------------
(* Whose branches a rollback deletes.                                      *)

\* A store that is not there has no branches, and once a repository's name
\* has been looked up, another's branch of it is one that came unseen.
LookedUp ==
  /\ \A r \in Repos : phase[r] = "absent" => branch[r] = "none"
  /\ \A r \in cmd.sel : Resolved(r) /\ branch[r] = "theirs" => <<"branch", r>> \in late

LEMMA LookedUpInit == Init => LookedUp
BY DEF Init, LookedUp, NoCmd

LEMMA EndLookedUp ==
  ASSUME LookedUp, UNCHANGED <<phase, branch>>, NEW result, Over(result)
  PROVE  LookedUp'
<1>1. cmd'.sel = {}
  BY DEF Over, NoCmd
<1> QED
  BY <1>1 DEF LookedUp

\* The steps past the look.
LEMMA OnwardsLookedUp ==
  ASSUME Basic, LookedUp, cmd'.sel = cmd.sel, pc \notin {"idle", "validate"},
         late \subseteq late',
         \A r \in Repos : /\ phase'[r] = "absent" => phase[r] = "absent"
                          /\ phase[r] = "absent" /\ phase'[r] = "absent"
                               => branch'[r] = branch[r] \/ branch'[r] = "none"
                          /\ phase[r] # "absent" => phase'[r] # "absent"
                          /\ branch'[r] = "theirs" =>
                               branch[r] = "theirs" \/ <<"branch", r>> \in late'
  PROVE  LookedUp'
<1>1. \A r \in cmd.sel : r \in Repos /\ Resolved(r)
  BY DEF Resolved, Basic, TypeOK
<1>2. \A r \in Repos : phase'[r] = "absent" => branch'[r] = "none"
  BY DEF LookedUp
<1> QED
  BY <1>1, <1>2 DEF LookedUp

LEMMA LookedUpStep == Basic /\ Basic' /\ BuiltInv /\ LookedUp /\ [Next]_vars => LookedUp'
<1> SUFFICES ASSUME Basic, Basic', BuiltInv, LookedUp, [Next]_vars PROVE LookedUp'
  OBVIOUS
<1>0. pc # "idle" => at \in Repos /\ at \in cmd.sel /\ cmd.sel \subseteq Repos
  BY DEF Basic, TypeOK, Control
<1>1. ASSUME NEW verb, NEW s, NEW seen, Begin(verb, s, seen), s \in SUBSET Repos, s # {}
      PROVE  LookedUp'
  <2>1. cmd'.sel = s /\ pc' = "validate" /\ at' = Min(s) /\ UNCHANGED <<phase, branch>>
    BY <1>1 DEF Begin, store
  <2>2. \A r \in s : Min(s) <= r /\ r \in Nat /\ Min(s) \in Nat
    <3>1. Min(s) \in s /\ \A r \in s : Min(s) <= r
      BY <1>1, FirstOf
    <3>2. s \subseteq Nat
      BY <1>1, Numbers
    <3> QED
      BY <3>1, <3>2
  <2>3. \A r \in s : ~Resolved(r)'
    BY <2>1, <2>2 DEF Resolved
  <2> QED
    BY <2>1, <2>3 DEF LookedUp
<1>2. CASE \/ \E s \in (SUBSET Repos) \ {{}} : \E seen \in SUBSET Repos : New(s, seen)
           \/ \E r \in Repos : Add(r)
  BY <1>1, <1>2 DEF New, Add
<1>3. CASE Validate
  <2>1. UNCHANGED <<phase, branch, late>> /\ pc = "validate"
    BY <1>3 DEF Validate, store, ghost
  <2>2. CASE Over("failed")
    BY <2>1, <2>2, EndLookedUp
  <2>3. CASE ~Over("failed")
    <3> DEFINE l == IF cmd.verb = "new" THEN "mkdir" ELSE "pin"
    <3>1. ~Taken(at) /\ NextRepo("validate", l)
      BY <1>3, <2>3 DEF Validate
    <3>2. /\ pc' \in {"validate", l} /\ UNCHANGED cmd
          /\ pc' = "validate" => \A r \in cmd.sel : r < at' => r <= at
          /\ pc' = l => \A r \in cmd.sel : r <= at
      BY <2>1, <3>1, NextRepoKeeps DEF Labels
    <3>3. branch[at] = "none"
      BY <1>0, <2>1, <3>1 DEF Taken, LookedUp
    <3>4. ASSUME NEW r \in cmd.sel, Resolved(r)', branch[r] = "theirs"
          PROVE  <<"branch", r>> \in late
      <4>1. r <= at
        BY <3>2, <3>4 DEF Resolved
      <4>2. r # at /\ r \in Nat /\ at \in Nat
        BY <1>0, <2>1, <3>3, <3>4, Numbers
      <4>3. Resolved(r)
        BY <2>1, <4>1, <4>2 DEF Resolved
      <4> QED
        BY <3>4, <4>3 DEF LookedUp
    <3> QED
      BY <2>1, <3>2, <3>4 DEF LookedUp
  <2> QED
    BY <2>2, <2>3
<1>4. CASE MakeTree
  <2>1. UNCHANGED <<phase, branch, late>> /\ pc = "mkdir"
    BY <1>4 DEF MakeTree, store, ghost
  <2>2. CASE Over("failed")
    BY <2>1, <2>2, EndLookedUp
  <2>3. CASE Goto("pin")
    BY <2>1, <2>3, OnwardsLookedUp DEF Goto
  <2> QED
    BY <1>4, <2>2, <2>3 DEF MakeTree
<1>5. CASE Pin \/ Fetched \/ Unlink \/ FetchBase
  <2>1. /\ UNCHANGED <<phase, branch, cmd>> /\ late \subseteq late'
        /\ pc \in {"pin", "fetched", "unlink", "fetch"}
    BY <1>5 DEF Pin, Fetched, Unlink, FetchBase, Fail, Goto, store, ghost
  <2> QED
    BY <2>1, OnwardsLookedUp
<1>6. CASE Ensure
  <2>1. /\ UNCHANGED cmd /\ pc = "ensure"
        /\ \/ UNCHANGED <<phase, branch, late>>
           \/ /\ phase' = [phase EXCEPT ![at] = "partial"]
              /\ branch' = [branch EXCEPT ![at] = IF at \in own THEN "theirs" ELSE @]
              /\ late' = late \cup {<<"branch", r>> : r \in {at} \cap own}
    BY <1>6 DEF Ensure, Fail, Goto
  <2>2. CASE UNCHANGED <<phase, branch, late>>
    BY <2>1, <2>2, OnwardsLookedUp
  <2>3. CASE ~UNCHANGED <<phase, branch, late>>
    <3>1. late \subseteq late' /\ (at \in own => <<"branch", at>> \in late')
      BY <2>1, <2>3
    <3>2. ASSUME NEW r \in Repos
          PROVE  /\ phase'[r] = "absent" => phase[r] = "absent" /\ branch'[r] = branch[r]
                 /\ phase[r] # "absent" => phase'[r] # "absent"
                 /\ branch'[r] = "theirs" =>
                      branch[r] = "theirs" \/ <<"branch", r>> \in late'
      BY <2>1, <2>3, <3>1 DEF Basic, TypeOK
    <3> QED
      BY <2>1, <3>1, <3>2, OnwardsLookedUp
  <2> QED
    BY <2>2, <2>3
<1>7. CASE FinishStore
  <2>1. /\ UNCHANGED <<cmd, late, branch>> /\ pc = "clone"
        /\ phase' = phase \/ phase' = [phase EXCEPT ![at] = "built"]
    BY <1>7 DEF FinishStore, Fail, Goto, ghost
  <2>2. \A r \in Repos : /\ phase'[r] = "absent" => phase[r] = "absent"
                         /\ phase[r] # "absent" => phase'[r] # "absent"
    BY <2>1 DEF Basic, TypeOK
  <2> QED
    BY <2>1, <2>2, OnwardsLookedUp
<1>8. CASE AddWorktree
  <2>1. UNCHANGED <<cmd, late, phase>> /\ pc = "worktree"
    BY <1>8 DEF AddWorktree, Fail, Goto, ghost
  <2>2. branch' = branch \/ branch' = [branch EXCEPT ![at] = "ours"]
    BY <1>8 DEF AddWorktree
  <2>3. phase[at] = "built"
    BY <2>1 DEF BuiltInv, AtHand
  <2>4. ASSUME NEW r \in Repos
        PROVE  /\ phase[r] = "absent" => branch'[r] = branch[r]
               /\ branch'[r] = "theirs" => branch[r] = "theirs"
    BY <2>2, <2>3 DEF Basic, TypeOK
  <2> QED
    BY <2>1, <2>4, OnwardsLookedUp
<1>9. CASE Lock
  <2>1. UNCHANGED <<phase, branch, late, cmd>> /\ pc = "lock"
    BY <1>9, NextRepoKeeps DEF Lock, Fail, Goto, work, ghost, Labels
  <2> QED
    BY <2>1, OnwardsLookedUp
<1>10. CASE Build
  <2>1. UNCHANGED <<phase, branch, late>> /\ pc = "build" /\ cmd'.sel = cmd.sel
    BY <1>10, BuildCommand DEF store, ghost
  <2> QED
    BY <2>1, OnwardsLookedUp
<1>11. CASE Save
  <2>1. UNCHANGED <<phase, branch, late>> /\ pc = "save"
    BY <1>11 DEF Save, store, ghost
  <2>2. CASE Over("done")
    BY <2>1, <2>2, EndLookedUp
  <2>3. CASE Fail
    BY <2>1, <2>3, OnwardsLookedUp DEF Fail, Goto
  <2> QED
    BY <1>11, <2>2, <2>3 DEF Save
<1>12. CASE Rollback
  <2>1. UNCHANGED <<phase, late, cmd>> /\ pc = "undo"
    BY <1>12 DEF Rollback
  <2>2. branch' = branch \/ \E q : branch' = [branch EXCEPT ![q] = "none"]
    BY <1>12 DEF Rollback, UndoBranch, UndoWorktree, UndoLink, UndoPin, UndoTree
  <2>3. \A r \in Repos : branch'[r] = branch[r] \/ branch'[r] = "none"
    BY <2>2 DEF Basic, TypeOK
  <2> QED
    BY <2>1, <2>3, OnwardsLookedUp
<1>13. CASE RolledBack \/ Crash
  <2>1. UNCHANGED <<phase, branch>> /\ \E result : Over(result)
    BY <1>13 DEF RolledBack, Crash, store
  <2> QED
    BY <2>1, EndLookedUp
<1>14. CASE Meddling
  <2>1. UNCHANGED <<pc, cmd, at, phase>> /\ (pc # "idle" => late \subseteq late')
    BY <1>14 DEF Meddling, SomeCommit, Commit, MakeOwnBranch, AgentBranch, Tidy, AgentPut, DoctorList,
                 DoctorSweep, Theirs, Change, store
  <2>2. \A r : Resolved(r)' <=> Resolved(r)
    BY <2>1 DEF Resolved
  <2>3. ASSUME NEW r \in Repos
        PROVE  \/ branch'[r] = branch[r] \/ branch'[r] = "none"
               \/ /\ phase[r] = "built" /\ branch'[r] = "theirs"
                  /\ Resolved(r) => <<"branch", r>> \in late'
    <3>1. ASSUME NEW q \in Repos, AgentBranch(q), q = r
          PROVE  /\ phase[r] = "built" /\ branch'[r] = "theirs"
                 /\ Resolved(r) => <<"branch", r>> \in late'
      <4>1. phase[r] = "built" /\ branch'[r] = "theirs"
        BY <3>1 DEF AgentBranch, Basic, TypeOK
      <4>2. ASSUME Resolved(r) PROVE <<"branch", r>> \in late'
        <5>1. pc # "idle" /\ r \in Nat
          BY <4>2, Numbers DEF Resolved
        <5>2. ~(pc = "validate" /\ r >= at)
          BY <1>0, <4>2, <5>1, Numbers DEF Resolved
        <5> QED
          BY <3>1, <5>1, <5>2 DEF AgentBranch, Theirs, Change
      <4> QED
        BY <4>1, <4>2
    <3>2. ASSUME NEW q \in Repos, AgentBranch(q), q # r PROVE branch'[r] = branch[r]
      BY <3>2 DEF AgentBranch, Basic, TypeOK
    <3>3. CASE Tidy
      BY <3>3 DEF Tidy
    <3>4. CASE UNCHANGED branch
      BY <3>4
    <3> QED
      BY <1>14, <3>1, <3>2, <3>3, <3>4
         DEF Meddling, SomeCommit, Commit, MakeOwnBranch, AgentPut, DoctorList, DoctorSweep, store
  <2>4. \A r \in Repos : phase'[r] = "absent" => branch'[r] = "none"
    BY <2>1, <2>3 DEF LookedUp
  <2>5. \A r \in cmd.sel : Resolved(r) /\ branch'[r] = "theirs" => <<"branch", r>> \in late'
    <3>1. ASSUME NEW r \in cmd.sel, Resolved(r), branch'[r] = "theirs"
          PROVE  <<"branch", r>> \in late'
      <4>1. pc # "idle" /\ r \in Repos
        BY <1>0, <3>1 DEF Resolved
      <4> QED
        BY <2>1, <2>3, <3>1, <4>1 DEF LookedUp
    <3> QED
      BY <3>1
  <2> QED
    BY <2>1, <2>2, <2>4, <2>5 DEF LookedUp
<1>15. CASE UNCHANGED vars
  BY <1>15 DEF vars, LookedUp, Resolved
<1> QED
  BY <1>2, <1>3, <1>4, <1>5, <1>6, <1>7, <1>8, <1>9, <1>10, <1>11, <1>12, <1>13, <1>14, <1>15
     DEF Next, Meddling, SomeCommit

\* Only a rollback takes a branch of another's away.
LEMMA WhoDeletes ==
  ASSUME Basic, LookedUp, [Next]_vars, NEW r \in Repos,
         branch[r] = "theirs", branch'[r] # "theirs"
  PROVE  <<"branch", r>> \in late
<1>1. CASE Rollback
  <2>1. pc = "undo" /\ undos # <<>>
    BY <1>1 DEF Rollback
  <2>2. PICK u : u = undos[Len(undos)]
    OBVIOUS
  <2>3. Len(undos) \in 1..Len(undos)
    BY <2>1 DEF Basic, TypeOK
  <2>4. u.do = "branch" /\ UndoBranch(u.r)
    BY <1>1, <2>2 DEF Rollback, NextUndo, UndoWorktree, UndoLink, UndoPin, UndoTree
  <2>5. u.r \in cmd.sel /\ u.r = r
    <3>1. u.r \in cmd.sel
      BY <2>2, <2>3, <2>4 DEF Basic, Control
    <3>2. branch' = branch \/ branch' = [branch EXCEPT ![u.r] = "none"]
      BY <2>4 DEF UndoBranch
    <3> QED
      BY <3>1, <3>2 DEF Basic, TypeOK
  <2> QED
    BY <2>1, <2>5 DEF LookedUp, Resolved
<1>2. CASE Ensure
  <2>1. at \in Repos
    BY <1>2 DEF Ensure, Basic, TypeOK, Control
  <2>2. branch' = branch \/ branch' = [branch EXCEPT ![at] = IF at \in own THEN "theirs" ELSE @]
    BY <1>2 DEF Ensure
  <2>3. branch'[r] = "theirs"
    BY <2>1, <2>2 DEF Basic, TypeOK
  <2> QED
    BY <2>3
<1>3. CASE AddWorktree
  <2>1. /\ at \in Repos
        /\ \/ branch' = branch
           \/ branch[at] = "none" /\ branch' = [branch EXCEPT ![at] = "ours"]
    BY <1>3 DEF AddWorktree, Basic, TypeOK, Control
  <2> QED
    BY <2>1 DEF Basic, TypeOK
<1>4. CASE Tidy
  BY <1>4 DEF Tidy
<1>5. CASE \E q \in Repos : AgentBranch(q)
  BY <1>5 DEF AgentBranch, Basic, TypeOK
<1>6. CASE UNCHANGED branch
  BY <1>6
<1>7. CASE \/ \E s \in (SUBSET Repos) \ {{}} : \E seen \in SUBSET Repos : New(s, seen)
           \/ \E q \in Repos : Add(q)
           \/ Validate \/ MakeTree \/ Pin \/ FinishStore \/ FetchBase \/ Fetched \/ Unlink
           \/ Lock \/ Build \/ Save \/ RolledBack \/ Crash
  BY <1>6, <1>7 DEF New, Add, Begin, Validate, MakeTree, Pin, FinishStore, FetchBase,
                    Fetched, Unlink, Lock, Build, Save, RolledBack, Crash, store
<1>8. CASE \/ SomeCommit
           \/ \E q \in Repos : MakeOwnBranch(q)
           \/ \E q \in Repos : \E what \in {"none", "file", "dir"} : AgentPut(q, what)
           \/ DoctorList \/ DoctorSweep
  BY <1>6, <1>8 DEF SomeCommit, Commit, MakeOwnBranch, AgentPut, DoctorList, DoctorSweep, store
<1>9. CASE UNCHANGED vars
  BY <1>6, <1>9 DEF vars
<1> QED
  BY <1>1, <1>2, <1>3, <1>4, <1>5, <1>7, <1>8, <1>9 DEF Next, SomeCommit

\* No rollback deletes a branch of another's that the command could have
\* seen: whoever made it, it came after validateOne had asked for the name,
\* or with a store that was cloned since.
THEOREM ForeseenBranchesSpared == Spec => ForeseenSpared
<1>1. Basic /\ LookedUp /\ [Next]_vars =>
        [\A r \in Repos :
           branch[r] = "theirs" /\ branch'[r] # "theirs"
             => <<"branch", r>> \in late]_vars
  BY WhoDeletes
<1> QED
  BY BasicInit, BasicStep, BuiltInit, BuiltStep, LookedUpInit, LookedUpStep, <1>1,
     PTL DEF Spec, ForeseenSpared
-----------------------------------------------------------------------------
(* A failed command leaves the world as it was.                            *)

\* Among the undos us there is one that does this.
Has(us, what, r) == \E i \in 1..Len(us) : us[i].do = what /\ us[i].r = r
Will(what, r) == Has(undos, what, r)

\* The tree's undo is the first, and after a worktree's comes none for the
\* same repository.
InOrder(us) ==
  /\ \A i \in 1..Len(us) : us[i].do = "tree" => i = 1 /\ us[i].r = 0
  /\ \A i \in 1..Len(us) : \A j \in 1..Len(us) :
       us[i].do = "worktree" /\ i < j => us[j].r # us[i].r

\* What goes with what, in every store and tree.
Tied ==
  \A r \in Repos :
    /\ admin[r] # "none" => branch[r] = "ours"
    /\ slot[r] = "worktree" => admin[r] # "none"
    /\ slot[r] # "none" => root

\* What undos a command has at which label.
Ordered ==
  /\ InOrder(undos)
  /\ pc \in Loop => \A r \in Repos : Will("worktree", r) => r < at \/ (r = at /\ pc = "lock")
  /\ pc \in {"fetched", "unlink"} => cmd.verb = "add"
  /\ \A r \in Repos : Will("link", r) => cmd.verb = "add"
  /\ cmd.verb = "new" /\ pc \in Loop \cup {"build", "save"} => Will("tree", 0)

Running == pc # "idle" /\ last = "running"

\* The link a graft has made anew, or makes.
Relinks(r) == cmd.verb = "add" /\ r \in cmd.sel /\ r \in rec.links
Relinked(r) == slot[r] = "link" /\ Relinks(r)

\* What is there was there before, or came from others, or goes, or is the
\* link of the graft.
Explained ==
  /\ root => <<"tree", 0>> \in had \/ Will("tree", 0)
  /\ \A r \in Repos :
       /\ r \in pin => <<"pin", r>> \in had \/ Will("pin", r)
       /\ branch[r] = "ours" => <<"branch", r>> \in had \cup late \/ Will("branch", r)
       /\ branch[r] = "theirs" => <<"branch", r>> \in had \cup late
       /\ admin[r] # "none" => <<"worktree", r>> \in had \/ Will("worktree", r)
       /\ slot[r] \in {"link", "file", "dir"} =>
            <<slot[r], r>> \in had \cup late \/ Will("tree", 0) \/ Relinked(r)

\* What may have been there.
Universe ==
  {<<"tree", 0>>} \cup ({"pin", "branch", "worktree", "link", "file", "dir",
                       "partial", "built"} \X Repos)

\* validateOne has asked for it.
Asked(r) == r \in cmd.sel /\ (pc = "validate" => r < at)

\* What was there is there, or others have taken it, or it comes back.
Accounted ==
  /\ had \subseteq Universe
  /\ <<"tree", 0>> \in had => root /\ cmd.verb = "add"
  /\ \A r \in Repos :
       /\ <<"worktree", r>> \in had => admin[r] # "none" /\ ~Asked(r)
       /\ <<"branch", r>> \in had \ late => branch[r] # "none" /\ ~Asked(r)
       /\ \A s \in {"link", "file", "dir"} : <<s, r>> \in had \ late =>
            /\ cmd.verb = "add"
            /\ \/ slot[r] = s
               \/ s = "link" /\ Will("link", r) /\ slot[r] \in {"none", "worktree"}
               \/ s = "file" /\ r \in rec.links
       /\ Will("worktree", r) => slot[r] = "worktree"
       /\ Will("link", r) => Relinks(r)

\* Of the stores, what was there is there; one half built that was not there
\* is the one in hand.
Stores ==
  /\ pc = "clone" => phase[at] = "partial" /\ <<"partial", at>> \notin had
  /\ \A r \in Repos :
       /\ <<"built", r>> \in had => phase[r] = "built"
       /\ <<"partial", r>> \in had => phase[r] = "partial"
       /\ phase[r] = "partial" /\ <<"partial", r>> \notin had => r = at /\ pc \in {"clone", "undo"}

\* How a command is doing.
Doing ==
  /\ pc \notin {"idle", "undo"} => last = "running"
  /\ pc = "undo" => last \in {"running", "hurt"}

RestoredInv ==
  /\ Tied /\ Ordered /\ Doing
  /\ pc = "idle" => Restored
  /\ pc # "idle" => Stores
  /\ Running => Explained /\ Accounted

\* One undo more, and one less.
LEMMA Pushed ==
  ASSUME NEW us \in UndoList,
         NEW u \in [do : {"tree", "pin", "branch", "worktree", "link"}, r : Repos \cup {0}],
         u.do # "tree"
  PROVE  /\ Append(us, u) \in UndoList
         /\ \A what, r : Has(Append(us, u), what, r) <=>
                        Has(us, what, r) \/ (u.do = what /\ u.r = r)
         /\ InOrder(us) /\ ~Has(us, "worktree", u.r) => InOrder(Append(us, u))
<1> DEFINE vs == Append(us, u)
<1>1. /\ vs \in UndoList /\ Len(us) \in Nat /\ Len(vs) = Len(us) + 1
      /\ \A i \in 1..Len(us) : vs[i] = us[i]
      /\ vs[Len(us) + 1] = u
  BY DEF UndoList
<1> HIDE DEF vs
<1>2. \A i : i \in 1..Len(vs) <=> i \in 1..Len(us) \/ i = Len(us) + 1
  BY <1>1
<1>3. \A what, r : Has(vs, what, r) <=> Has(us, what, r) \/ (u.do = what /\ u.r = r)
  BY <1>1, <1>2 DEF Has
<1>4. ASSUME InOrder(us), ~Has(us, "worktree", u.r) PROVE InOrder(vs)
  <2>1. \A i \in 1..Len(vs) : vs[i].do = "tree" => i = 1 /\ vs[i].r = 0
    BY <1>1, <1>2, <1>4 DEF InOrder
  <2>2. ASSUME NEW i \in 1..Len(vs), NEW j \in 1..Len(vs), vs[i].do = "worktree", i < j
        PROVE  vs[j].r # vs[i].r
    <3>1. i \in 1..Len(us) /\ vs[i] = us[i]
      BY <1>1, <1>2, <2>2
    <3>2. CASE j \in 1..Len(us)
      BY <1>1, <1>4, <2>2, <3>1, <3>2 DEF InOrder
    <3>3. CASE j = Len(us) + 1
      BY <1>1, <1>4, <2>2, <3>1, <3>3 DEF Has
    <3> QED
      BY <1>2, <3>2, <3>3
  <2> QED
    BY <2>1, <2>2 DEF InOrder
<1> QED
  BY <1>1, <1>3, <1>4 DEF vs

LEMMA Popped ==
  ASSUME NEW us \in UndoList, us # <<>>, InOrder(us),
         NEW vs, vs = [i \in 1..(Len(us) - 1) |->
                         IF i < Len(us) THEN us[i] ELSE us[i + 1]]
  PROVE  LET u == us[Len(us)] IN
         /\ u \in [do : {"tree", "pin", "branch", "worktree", "link"}, r : Repos \cup {0}]
         /\ vs \in UndoList /\ InOrder(vs)
         /\ \A what, r : Has(us, what, r) <=>
                        Has(vs, what, r) \/ (u.do = what /\ u.r = r)
         /\ ~Has(vs, "worktree", u.r)
         /\ u.do = "tree" => u.r = 0 /\ \A what, r : ~Has(vs, what, r)
<1> DEFINE u == us[Len(us)]
           n == Len(us) - 1
<1>1. Len(us) \in Nat \ {0} /\ n \in Nat /\ n + 1 = Len(us)
  BY EmptySeq DEF UndoList
<1>2. u \in [do : {"tree", "pin", "branch", "worktree", "link"}, r : Repos \cup {0}]
  <2>1. Len(us) \in 1..Len(us)
    BY <1>1
  <2> QED
    BY <2>1, ElementOfSeq DEF UndoList
<1>3. \A i : i \in 1..Len(us) <=> i \in 1..n \/ i = Len(us)
  BY <1>1
<1>4. vs = [i \in 1..n |-> us[i]]
  BY <1>1
<1>5. vs \in UndoList /\ Len(vs) = n /\ \A i \in 1..n : vs[i] = us[i]
  <2>1. \A i \in 1..n : us[i] \in [do : {"tree", "pin", "branch", "worktree", "link"},
                                   r : Repos \cup {0}]
    BY <1>3, ElementOfSeq DEF UndoList
  <2>2. vs \in UndoList
    BY <1>1, <1>4, <2>1, IsASeq DEF UndoList
  <2> QED
    BY <1>1, <1>4, <2>2, LenProperties DEF UndoList
<1> HIDE DEF n, u
<1>6. \A what, r : Has(us, what, r) <=> Has(vs, what, r) \/ (u.do = what /\ u.r = r)
  BY <1>3, <1>5 DEF Has, u
<1>7. InOrder(vs)
  BY <1>3, <1>5 DEF InOrder
<1>8. ~Has(vs, "worktree", u.r)
  <2> SUFFICES ASSUME NEW i \in 1..n, us[i].do = "worktree", us[i].r = u.r PROVE FALSE
    BY <1>5 DEF Has
  <2>1. i \in 1..Len(us) /\ Len(us) \in 1..Len(us) /\ i < Len(us)
    BY <1>1, <1>3
  <2> QED
    BY <2>1 DEF InOrder, u
<1>9. ASSUME u.do = "tree" PROVE u.r = 0 /\ \A what, r : ~Has(vs, what, r)
  <2>1. Len(us) = 1 /\ u.r = 0
    <3>1. Len(us) \in 1..Len(us)
      BY <1>1
    <3> QED
      BY <1>9, <3>1 DEF InOrder, u
  <2>2. 1..n = {}
    BY <1>1, <2>1
  <2> QED
    BY <1>5, <2>1, <2>2 DEF Has
<1> QED
  BY <1>2, <1>5, <1>6, <1>7, <1>8, <1>9 DEF u

\* A step of the command, or of others, that takes nothing without saying so.
LEMMA Forward ==
  ASSUME Explained, Accounted,
         had' = had, late \subseteq late', cmd'.verb = cmd.verb, cmd'.sel = cmd.sel, rec' = rec,
         root => root', root' => root \/ Will("tree", 0)',
         \A what, r : Will(what, r) => Will(what, r)',
         \A r \in Repos :
           /\ Asked(r)' => Asked(r) \/ (branch[r] = "none" /\ admin[r] = "none")
           /\ r \in pin' => r \in pin \/ Will("pin", r)'
           /\ \/ branch'[r] = branch[r]
              \/ branch'[r] = "theirs" /\ <<"branch", r>> \in late'
              \/ branch'[r] = "ours" /\ Will("branch", r)'
           /\ admin'[r] = "none" => admin[r] = "none"
           /\ admin'[r] # "none" => admin[r] # "none" \/ Will("worktree", r)'
           /\ \/ slot'[r] = slot[r]
              \/ slot[r] = "none" /\ slot'[r] = "worktree"
              \/ slot'[r] = "link" /\ cmd.verb = "new" /\ Will("tree", 0)'
              \/ slot'[r] = "none" /\ slot[r] = "link" /\ Will("link", r)'
              \/ slot'[r] = "none" /\ slot[r] = "file" /\ r \in rec.links
           /\ Will("worktree", r)' => slot'[r] = "worktree"
           /\ Will("link", r)' => Will("link", r) \/ Relinks(r)
  PROVE  Explained' /\ Accounted'
<1>1. Explained'
  <2>1. root' => <<"tree", 0>> \in had' \/ Will("tree", 0)'
    BY DEF Explained
  <2> SUFFICES ASSUME NEW r \in Repos
      PROVE
       /\ r \in pin' => <<"pin", r>> \in had' \/ Will("pin", r)'
       /\ branch'[r] = "ours" => <<"branch", r>> \in had' \cup late' \/ Will("branch", r)'
       /\ branch'[r] = "theirs" => <<"branch", r>> \in had' \cup late'
       /\ admin'[r] # "none" => <<"worktree", r>> \in had' \/ Will("worktree", r)'
       /\ slot'[r] \in {"link", "file", "dir"} =>
            <<slot'[r], r>> \in had' \cup late' \/ Will("tree", 0)' \/ Relinked(r)'
    BY <2>1 DEF Explained
  <2>2. r \in pin' => <<"pin", r>> \in had' \/ Will("pin", r)'
    BY DEF Explained
  <2>3. /\ branch'[r] = "ours" => <<"branch", r>> \in had' \cup late' \/ Will("branch", r)'
        /\ branch'[r] = "theirs" => <<"branch", r>> \in had' \cup late'
    BY DEF Explained
  <2>4. admin'[r] # "none" => <<"worktree", r>> \in had' \/ Will("worktree", r)'
    BY DEF Explained
  <2>5. slot'[r] \in {"link", "file", "dir"} =>
          <<slot'[r], r>> \in had' \cup late' \/ Will("tree", 0)' \/ Relinked(r)'
    <3>1. CASE slot'[r] = slot[r]
      BY <3>1 DEF Explained, Relinked, Relinks
    <3>2. CASE slot'[r] = "link" /\ Will("tree", 0)'
      BY <3>2
    <3> QED
      BY <3>1, <3>2
  <2> QED
    BY <2>2, <2>3, <2>4, <2>5
<1>2. Accounted'
  <2>1. had' \subseteq Universe /\ (<<"tree", 0>> \in had' => root' /\ cmd'.verb = "add")
    BY DEF Accounted, Universe
  <2> SUFFICES ASSUME NEW r \in Repos
      PROVE
       /\ <<"worktree", r>> \in had' => admin'[r] # "none" /\ ~Asked(r)'
       /\ <<"branch", r>> \in had' \ late' => branch'[r] # "none" /\ ~Asked(r)'
       /\ \A s \in {"link", "file", "dir"} : <<s, r>> \in had' \ late' =>
            /\ cmd'.verb = "add"
            /\ \/ slot'[r] = s
               \/ s = "link" /\ Will("link", r)' /\ slot'[r] \in {"none", "worktree"}
               \/ s = "file" /\ r \in rec'.links
       /\ Will("worktree", r)' => slot'[r] = "worktree"
       /\ Will("link", r)' => Relinks(r)'
    BY <2>1 DEF Accounted, Universe
  <2>2. <<"worktree", r>> \in had' => admin'[r] # "none" /\ ~Asked(r)'
    BY DEF Accounted
  <2>3. <<"branch", r>> \in had' \ late' => branch'[r] # "none" /\ ~Asked(r)'
    <3>1. <<"branch", r>> \in had' \ late' => branch[r] # "none" /\ ~Asked(r)
      BY DEF Accounted
    <3> QED
      BY <3>1
  <2>4. ASSUME NEW s \in {"link", "file", "dir"}, <<s, r>> \in had' \ late'
        PROVE /\ cmd'.verb = "add"
              /\ \/ slot'[r] = s
                 \/ s = "link" /\ Will("link", r)' /\ slot'[r] \in {"none", "worktree"}
                 \/ s = "file" /\ r \in rec'.links
    <3>1. /\ cmd.verb = "add"
          /\ \/ slot[r] = s
             \/ s = "link" /\ Will("link", r) /\ slot[r] \in {"none", "worktree"}
             \/ s = "file" /\ r \in rec.links
      BY <2>4 DEF Accounted
    <3>2. CASE slot'[r] = slot[r]
      BY <3>1, <3>2
    <3>3. CASE slot[r] = "none" /\ slot'[r] = "worktree"
      BY <3>1, <3>3
    <3>4. CASE slot'[r] = "none" /\ slot[r] = "link" /\ Will("link", r)'
      BY <3>1, <3>4
    <3>5. CASE slot'[r] = "none" /\ slot[r] = "file" /\ r \in rec.links
      BY <2>4, <3>1, <3>5
    <3> QED
      BY <3>1, <3>2, <3>3, <3>4, <3>5
  <2>5. Will("link", r)' => Relinks(r)'
    BY DEF Accounted, Relinks
  <2>6. Will("worktree", r)' => slot'[r] = "worktree"
    OBVIOUS
  <2> QED
    BY <2>2, <2>3, <2>4, <2>5, <2>6
<1> QED
  BY <1>1, <1>2

-----------------------------------------------------------------------------
\* A task on record has its tree.
LEMMA RecordedHasRoot ==
  ASSUME Basic, BuiltInv, Tied, Recorded
  PROVE  root
<1>1. PICK r \in rec.repos : Built(r)
  BY DEF Recorded, BuiltInv
<1>2. r \in Repos
  BY DEF Basic, TypeOK
<1> QED
  BY <1>1, <1>2 DEF Built, Tied

\* Which undo runs, and what it does.
LEMMA UndoRuns ==
  ASSUME Basic, Ordered, Rollback
  PROVE  LET u == undos[Len(undos)] IN
         /\ pc = "undo" /\ UNCHANGED <<phase, held, rec, pc, cmd, at, base, had, late>>
         /\ u \in [do : {"tree", "pin", "branch", "worktree", "link"}, r : Repos \cup {0}]
         /\ u.do # "tree" => u.r \in cmd.sel
         /\ u.do = "tree" => cmd.verb = "new"
         /\ undos' \in UndoList /\ InOrder(undos')
         /\ \A what, r : Will(what, r) <=> Will(what, r)' \/ (u.do = what /\ u.r = r)
         /\ \A r : r = u.r => ~Will("worktree", r)'
         /\ u.do = "tree" => u.r = 0 /\ \A what, r : ~Will(what, r)'
         /\ \/ u.do = "branch" /\ UndoBranch(u.r) /\ last' = last
            \/ u.do = "worktree" /\ UndoWorktree(u.r) /\ last' = last
            \/ u.do = "link" /\ UndoLink(u.r) /\ last' = last
            \/ u.do = "pin" /\ UndoPin(u.r) /\ last' = last
            \/ u.do = "tree" /\ UndoTree /\ last' = last
            \/ last' = "hurt" /\ UNCHANGED <<branch, admin, pin, root, slot>>
<1>1. undos \in UndoList /\ undos # <<>> /\ InOrder(undos) /\ pc = "undo"
      /\ UNCHANGED <<phase, held, rec, pc, cmd, at, base, had, late>>
  BY DEF Rollback, Ordered, Basic, TypeOK, UndoList
<1>2. undos' = [i \in 1..(Len(undos) - 1) |->
                  IF i < Len(undos) THEN undos[i] ELSE undos[i + 1]]
  BY DEF Rollback, NextUndo
<1>3. Len(undos) \in 1..Len(undos)
  <2>1. Len(undos) \in Nat \ {0}
    BY <1>1, EmptySeq DEF UndoList
  <2> QED
    BY <2>1
<1> DEFINE u == undos[Len(undos)]
<1>4. (u.do # "tree" => u.r \in cmd.sel) /\ (u.do = "tree" => cmd.verb = "new")
  BY <1>3 DEF Basic, Control
<1>5. \/ u.do = "branch" /\ UndoBranch(u.r) /\ last' = last
      \/ u.do = "worktree" /\ UndoWorktree(u.r) /\ last' = last
      \/ u.do = "link" /\ UndoLink(u.r) /\ last' = last
      \/ u.do = "pin" /\ UndoPin(u.r) /\ last' = last
      \/ u.do = "tree" /\ UndoTree /\ last' = last
      \/ last' = "hurt" /\ UNCHANGED <<branch, admin, pin, root, slot>>
  BY DEF Rollback, NextUndo
<1> QED
  <2>1. /\ u \in [do : {"tree", "pin", "branch", "worktree", "link"}, r : Repos \cup {0}]
        /\ undos' \in UndoList /\ InOrder(undos')
        /\ \A what, r : Has(undos, what, r) <=> Has(undos', what, r) \/ (u.do = what /\ u.r = r)
        /\ ~Has(undos', "worktree", u.r)
        /\ u.do = "tree" => u.r = 0 /\ \A what, r : ~Has(undos', what, r)
    BY <1>1, <1>2, Popped
  <2> HIDE DEF u
  <2>2. /\ \A what, r : Will(what, r) <=> Will(what, r)' \/ (u.do = what /\ u.r = r)
        /\ \A r : r = u.r => ~Will("worktree", r)'
        /\ u.do = "tree" => u.r = 0 /\ \A what, r : ~Will(what, r)'
    <3>1. \A what, r : Will(what, r)' <=> Has(undos', what, r)
      BY DEF Will, Has
    <3>2. \A what, r : Will(what, r) <=> Has(undos, what, r)
      BY DEF Will
    <3>3. \A what, r : Will(what, r) <=> Will(what, r)' \/ (u.do = what /\ u.r = r)
      BY <2>1, <3>1, <3>2, Zenon
    <3>4. \A r : r = u.r => ~Will("worktree", r)'
      BY <2>1, <3>1
    <3>5. u.do = "tree" => u.r = 0 /\ \A what, r : ~Will(what, r)'
      BY <2>1, <3>1
    <3> QED
      BY <3>3, <3>4, <3>5
  <2> QED
    BY <1>1, <1>4, <1>5, <2>1, <2>2 DEF u

LEMMA TiedStep ==
  Basic /\ Basic' /\ BuiltInv /\ LookedUp /\ Ordered /\ Tied /\ [Next]_vars => Tied'
<1> SUFFICES ASSUME Basic, Basic', BuiltInv, LookedUp, Ordered, Tied, [Next]_vars PROVE Tied'
  OBVIOUS
<1>0. /\ pc # "idle" => at \in Repos /\ at \in cmd.sel
      /\ phase \in [Repos -> {"absent", "partial", "built"}]
      /\ branch \in [Repos -> {"none", "ours", "theirs"}]
      /\ admin \in [Repos -> {"none", "added", "locked"}]
      /\ slot \in [Repos -> {"none", "link", "worktree", "file", "dir"}]
  BY DEF Basic, TypeOK, Control
<1>1. CASE UNCHANGED <<phase, branch, admin, slot>> /\ (root => root')
  BY <1>1 DEF Tied
<1>2. CASE Ensure \/ FinishStore
  <2>1. UNCHANGED <<admin, slot, root>> /\ pc # "idle"
    BY <1>2 DEF Ensure, FinishStore, work
  <2>2. \A r \in Repos : branch'[r] = branch[r] \/ phase[r] = "absent"
    BY <1>0, <1>2, <2>1 DEF Ensure, FinishStore
  <2> QED
    BY <2>1, <2>2 DEF Tied, LookedUp
<1>3. CASE Unlink
  <2>1. UNCHANGED <<phase, branch, admin, root>> /\ (slot' = slot \/ slot' = [slot EXCEPT ![at] = "none"])
    BY <1>3 DEF Unlink, store
  <2>2. \A r \in Repos : slot'[r] = slot[r] \/ slot'[r] = "none"
    BY <1>0, <2>1
  <2> QED
    BY <2>1, <2>2 DEF Tied
<1>4. CASE AddWorktree
  <2>1. UNCHANGED phase /\ pc = "worktree" /\ phase[at] = "built"
    BY <1>4 DEF AddWorktree, BuiltInv, AtHand
  <2>2. CASE branch' = [branch EXCEPT ![at] = "ours"] /\ branch[at] = "none" /\ UNCHANGED <<admin, slot, root>>
    BY <1>0, <2>1, <2>2 DEF Tied
  <2>3. CASE UNCHANGED <<branch, admin, slot, root>>
    BY <2>1, <2>3 DEF Tied
  <2>4. CASE /\ branch' = [branch EXCEPT ![at] = "ours"]
             /\ admin' = [admin EXCEPT ![at] = "added"]
             /\ slot' = [slot EXCEPT ![at] = "worktree"]
             /\ root' = TRUE
    BY <1>0, <2>1, <2>4 DEF Tied
  <2> QED
    BY <1>4, <2>2, <2>3, <2>4 DEF AddWorktree
<1>5. CASE Lock
  <2>1. UNCHANGED <<phase, branch, slot, root>> /\ pc = "lock" /\ branch[at] = "ours"
    BY <1>5 DEF Lock, work, BuiltInv, AtHand, Loop
  <2>2. admin' = admin \/ admin' = [admin EXCEPT ![at] = "locked"]
    BY <1>5 DEF Lock
  <2>3. \A r \in Repos : admin'[r] = admin[r] \/ (r = at /\ admin'[r] = "locked")
    BY <1>0, <2>1, <2>2
  <2> QED
    BY <2>1, <2>3 DEF Tied
<1>6. CASE Build
  <2>1. UNCHANGED <<phase, branch, admin, root>> /\ pc = "build"
    BY <1>6 DEF Build, store
  <2>2. \A r \in Repos : slot'[r] = slot[r] \/ slot'[r] = "link"
    BY <1>0, <1>6 DEF Build
  <2>3. Built(at) /\ at \in Repos
    BY <1>0, <2>1 DEF BuiltInv, Done
  <2>4. root
    BY <2>3 DEF Built, Tied
  <2> QED
    BY <2>1, <2>2, <2>4 DEF Tied
<1>7. CASE Rollback
  <2> DEFINE u == undos[Len(undos)]
  <2>1. /\ UNCHANGED phase /\ u.r \in Repos \cup {0}
        /\ u.do # "tree" => u.r \in cmd.sel
        /\ \/ UndoBranch(u.r) \/ UndoWorktree(u.r) \/ (u.do = "link" /\ UndoLink(u.r))
           \/ UndoPin(u.r) \/ UndoTree \/ UNCHANGED <<branch, admin, pin, root, slot>>
    BY <1>7, UndoRuns
  <2> HIDE DEF u
  <2>2. CASE UndoBranch(u.r)
    BY <1>0, <2>1, <2>2 DEF UndoBranch, Tied
  <2>3. CASE UndoWorktree(u.r)
    BY <1>0, <2>1, <2>3 DEF UndoWorktree, Tied
  <2>4. CASE u.do = "link" /\ UndoLink(u.r)
    <3>1. \A r \in Repos : slot'[r] = slot[r] \/ (r = u.r /\ slot'[r] = "link")
      BY <1>0, <2>4 DEF UndoLink
    <3>2. u.r \in cmd.sel
      BY <2>1, <2>4
    <3>3. root' = root /\ UNCHANGED <<branch, admin>>
      BY <2>4 DEF UndoLink
    <3>4. \A r \in Repos : slot[r] = "none" /\ slot'[r] = "link" => root
      <4>1. cmd.verb = "add"
        <5>1. Will("link", u.r) /\ u.r \in Repos
          BY <1>7, <2>4, <3>2, UndoRuns DEF u, Basic, TypeOK
        <5> QED
          BY <5>1 DEF Ordered
      <4> QED
        BY <4>1, RecordedHasRoot DEF Recorded, Basic, Control
    <3> QED
      BY <2>1, <3>1, <3>3, <3>4 DEF Tied
  <2>5. CASE UndoPin(u.r) \/ UNCHANGED <<branch, admin, pin, root, slot>>
    BY <2>1, <2>5 DEF UndoPin, Tied
  <2>6. CASE UndoTree
    BY <2>1, <2>6 DEF UndoTree, Tied
  <2> QED
    BY <2>1, <2>2, <2>3, <2>4, <2>5, <2>6
<1>8. ASSUME NEW q \in Repos, AgentBranch(q) PROVE Tied'
  BY <1>0, <1>8 DEF AgentBranch, work, Tied
<1>9. ASSUME NEW q \in Repos, NEW what \in {"none", "file", "dir"}, AgentPut(q, what) PROVE Tied'
  <2>1. UNCHANGED <<phase, branch, admin, root>> /\ root
    BY <1>9, RecordedHasRoot DEF AgentPut, store
  <2>2. \A r \in Repos : slot'[r] = slot[r] \/ slot'[r] = what
    BY <1>0, <1>9 DEF AgentPut
  <2> QED
    BY <2>1, <2>2 DEF Tied
<1>10. CASE Tidy
  BY <1>10 DEF Tidy, Tied
<1>11. CASE DoctorSweep
  <2>1. UNCHANGED <<phase, branch, admin, slot>> /\ root' = (root /\ \E r \in Repos : slot[r] # "none")
    BY <1>11 DEF DoctorSweep, store
  <2> QED
    BY <2>1 DEF Tied
<1>12. CASE \/ \E r \in Repos : Add(r)
            \/ \E s \in (SUBSET Repos) \ {{}} : \E seen \in SUBSET Repos : New(s, seen)
            \/ Validate \/ MakeTree \/ Pin \/ FetchBase \/ Fetched
            \/ Save \/ RolledBack \/ Crash
  <2>1. CASE Validate \/ MakeTree \/ Pin \/ FetchBase \/ Fetched \/ Save \/ RolledBack \/ Crash
    BY <1>1, <2>1 DEF Validate, MakeTree, Pin, FetchBase, Fetched, Save, RolledBack, Crash,
                      store, work
  <2>2. ASSUME NEW verb, NEW s, NEW seen, Begin(verb, s, seen) PROVE Tied'
    BY <1>1, <2>2 DEF Begin, store, work
  <2> QED
    BY <1>12, <2>1, <2>2 DEF New, Add
<1>13. CASE \/ SomeCommit
            \/ (\E r \in Repos : MakeOwnBranch(r))
            \/ DoctorList \/ UNCHANGED vars
  <2>1. UNCHANGED <<phase, branch, admin, slot>> /\ (root => root')
    <3>1. CASE SomeCommit
      <4>1. UNCHANGED <<store, work>>
        BY <3>1 DEF SomeCommit, Commit
      <4> QED
        BY <4>1 DEF store, work
    <3>2. CASE (\E r \in Repos : MakeOwnBranch(r)) \/ DoctorList
      BY <3>2 DEF MakeOwnBranch, DoctorList, store, work
    <3>3. CASE UNCHANGED vars
      BY <3>3 DEF vars
    <3> QED
      BY <1>13, <3>1, <3>2, <3>3
  <2> QED
    BY <1>1, <2>1
<1> QED
  BY <1>2, <1>3, <1>4, <1>5, <1>6, <1>7, <1>8, <1>9, <1>10, <1>11, <1>12, <1>13 DEF Next, SomeCommit

\* One undo more for the repository in hand.
LEMMA WillPush ==
  ASSUME Basic, pc # "idle", NEW us \in UndoList,
         NEW act \in {"pin", "branch", "worktree", "link"}
  PROVE  LET vs == Append(us, Undo(act)) IN
         /\ vs \in UndoList
         /\ \A what, r : Has(vs, what, r) <=> Has(us, what, r) \/ (what = act /\ r = at)
         /\ InOrder(us) /\ ~Has(us, "worktree", at) => InOrder(vs)
<1>1. at \in Repos
  BY DEF Basic, TypeOK, Control
<1>2. Undo(act) = [do |-> act, r |-> at]
  BY DEF Undo
<1>3. Undo(act) \in [do : {"tree", "pin", "branch", "worktree", "link"}, r : Repos \cup {0}]
      /\ Undo(act).do = act /\ Undo(act).r = at /\ act # "tree"
  BY <1>1, <1>2
<1> HIDE DEF Undo
<1> QED
  BY <1>3, Pushed

\* Nothing to undo.
LEMMA NoUndos ==
  ASSUME NEW us, us = <<>>
  PROVE  InOrder(us) /\ \A what, r : ~Has(us, what, r)
<1>1. 1..Len(us) = {}
  <2>1. Len(<<>>) = 0
    BY EmptySeq
  <2> QED
    BY <2>1
<1> QED
  BY <1>1 DEF InOrder, Has

LEMMA TypedUndos == Basic => undos \in UndoList
BY DEF Basic, TypeOK, UndoList

\* What is primed of Will and of the order.
LEMMA WillPrimed ==
  /\ \A what, r : Will(what, r) <=> Has(undos, what, r)
  /\ \A what, r : Will(what, r)' <=> Has(undos', what, r)
BY DEF Will, Has

\* The undos of one step.
LEMMA Undoes ==
  ASSUME Basic, Ordered, pc # "idle", ~Will("worktree", at),
         NEW act \in {"pin", "branch", "link"}, undos' = Append(undos, Undo(act))
  PROVE  /\ InOrder(undos')
         /\ \A what, r : Will(what, r)' <=> Will(what, r) \/ (what = act /\ r = at)
<1> DEFINE vs == Append(undos, Undo(act))
<1>0. /\ \A what, r : Has(vs, what, r) <=> Has(undos, what, r) \/ (what = act /\ r = at)
      /\ InOrder(undos) /\ ~Has(undos, "worktree", at) => InOrder(vs)
  BY TypedUndos, WillPush
<1> HIDE DEF vs
<1>1. /\ \A what, r : Has(undos', what, r) <=> Has(undos, what, r) \/ (what = act /\ r = at)
      /\ InOrder(undos) /\ ~Has(undos, "worktree", at) => InOrder(undos')
  <2>1. undos' = vs
    BY DEF vs
  <2> QED
    BY <1>0, <2>1
<1>2. \A what, r : Will(what, r)' <=> Will(what, r) \/ (what = act /\ r = at)
  BY <1>1, WillPrimed, Zenon
<1> QED
  BY <1>1, <1>2, WillPrimed DEF Ordered

LEMMA UndoesWorktree ==
  ASSUME Basic, Ordered, AddWorktree
  PROVE  /\ InOrder(undos')
         /\ \A what, r : Will(what, r) => Will(what, r)'
         /\ \A r : Will("link", r)' <=> Will("link", r)
         /\ cmd.verb = "new" => \A r : r = at => Will("branch", r)'
         /\ \/ /\ \A r : Will("worktree", r)' <=> Will("worktree", r)
               /\ UNCHANGED <<slot, admin, root>>
            \/ /\ \A r : Will("worktree", r)' <=> Will("worktree", r) \/ r = at
               /\ branch' = [branch EXCEPT ![at] = "ours"]
               /\ admin' = [admin EXCEPT ![at] = "added"]
               /\ slot' = [slot EXCEPT ![at] = "worktree"] /\ slot[at] = "none"
               /\ root' = TRUE /\ pc' = "lock"
<1> DEFINE us == undos \o BranchUndo
<1>1. pc = "worktree" /\ undos \in UndoList /\ at \in Repos
  BY TypedUndos DEF AddWorktree, Basic, TypeOK, Control
<1>2. us = IF cmd.verb = "new" THEN Append(undos, Undo("branch")) ELSE undos
  BY <1>1 DEF BranchUndo, UndoList
<1>3. ~Has(undos, "worktree", at)
  BY <1>1, WillPrimed, Numbers DEF Ordered, Loop
<1> HIDE DEF us
<1>4. /\ us \in UndoList /\ InOrder(us) /\ ~Has(us, "worktree", at)
      /\ \A what, r : Has(undos, what, r) => Has(us, what, r)
      /\ \A r : Has(us, "link", r) <=> Has(undos, "link", r)
      /\ \A r : Has(us, "worktree", r) <=> Has(undos, "worktree", r)
      /\ cmd.verb = "new" => Has(us, "branch", at)
  <2>1. CASE cmd.verb # "new"
    BY <1>1, <1>2, <1>3, <2>1 DEF Ordered
  <2>2. CASE cmd.verb = "new"
    <3> DEFINE vs == Append(undos, Undo("branch"))
    <3>0. /\ vs \in UndoList
          /\ \A what, r : Has(vs, what, r) <=> Has(undos, what, r) \/ (what = "branch" /\ r = at)
          /\ InOrder(undos) /\ ~Has(undos, "worktree", at) => InOrder(vs)
      BY <1>1, WillPush
    <3> HIDE DEF vs
    <3>1. /\ us \in UndoList
          /\ \A what, r : Has(us, what, r) <=> Has(undos, what, r) \/ (what = "branch" /\ r = at)
          /\ InOrder(undos) /\ ~Has(undos, "worktree", at) => InOrder(us)
      <4>1. us = vs
        BY <1>2, <2>2 DEF vs
      <4> QED
        BY <3>0, <4>1
    <3> QED
      BY <1>3, <3>1 DEF Ordered
  <2> QED
    BY <2>1, <2>2
<1>5. CASE undos' = us /\ UNCHANGED <<slot, admin, root>>
  <2>1. InOrder(undos')
    BY <1>4, <1>5
  <2>2. \A what, r : Has(undos', what, r) <=> Has(us, what, r)
    BY <1>5
  <2> QED
    BY <1>4, <1>5, <2>1, <2>2, WillPrimed
<1>6. CASE /\ undos' = undos \o BranchUndo \o <<Undo("worktree")>>
           /\ branch' = [branch EXCEPT ![at] = "ours"]
           /\ admin' = [admin EXCEPT ![at] = "added"]
           /\ slot' = [slot EXCEPT ![at] = "worktree"] /\ slot[at] = "none"
           /\ root' = TRUE /\ pc' = "lock"
  <2> DEFINE vs == Append(us, Undo("worktree"))
  <2>1. /\ \A what, r : Has(vs, what, r) <=> Has(us, what, r) \/ (what = "worktree" /\ r = at)
        /\ InOrder(vs)
    BY <1>1, <1>4, WillPush
  <2>2. undos' = vs
    BY <1>4, <1>6 DEF us, UndoList
  <2> HIDE DEF vs
  <2>3. /\ \A what, r : Has(undos', what, r) <=> Has(us, what, r) \/ (what = "worktree" /\ r = at)
        /\ InOrder(undos')
    BY <2>1, <2>2
  <2>4. /\ \A what, r : Will(what, r) => Will(what, r)'
        /\ \A r : Will("link", r)' <=> Will("link", r)
        /\ \A r : Will("worktree", r)' <=> Will("worktree", r) \/ r = at
        /\ cmd.verb = "new" => \A r : r = at => Will("branch", r)'
    BY <1>4, <2>3, WillPrimed
  <2> QED
    BY <1>6, <2>3, <2>4
<1> QED
  BY <1>5, <1>6 DEF AddWorktree, Fail, Goto, us

LEMMA OrderedOn ==
  ASSUME Basic, Ordered, InOrder(undos'), cmd'.verb = cmd.verb, at' = at,
         \A r : Will("worktree", r)' => Will("worktree", r),
         \A r : Will("link", r)' => Will("link", r) \/ cmd.verb = "add",
         Will("tree", 0) => Will("tree", 0)',
         pc' \in Loop \cup {"build", "save"} => pc \in Loop \cup {"build", "save"},
         pc' \in Loop => pc \in Loop,
         pc' \in Loop /\ pc = "lock" => pc' = "lock",
         pc' \in {"fetched", "unlink"} => pc' = pc \/ cmd.verb = "add"
  PROVE  Ordered'
BY DEF Ordered

LEMMA OrderedNone ==
  ASSUME undos' = <<>>, pc' \notin {"fetched", "unlink"},
         pc' \in Loop \cup {"build", "save"} => cmd'.verb # "new"
  PROVE  Ordered'
<1>1. InOrder(undos') /\ \A what, r : ~Will(what, r)'
  BY NoUndos, WillPrimed
<1> QED
  BY <1>1 DEF Ordered

LEMMA OrderedStep == Basic /\ Basic' /\ Ordered /\ [Next]_vars => Ordered'
<1> SUFFICES ASSUME Basic, Basic', Ordered, [Next]_vars PROVE Ordered'
  OBVIOUS
<1>0. InOrder(undos) /\ (pc = "idle" => undos = <<>>)
  BY DEF Ordered, Basic, Control
<1>1. ASSUME NEW verb, NEW s, NEW seen, Begin(verb, s, seen) PROVE Ordered'
  <2>1. undos' = <<>> /\ pc' = "validate"
    BY <1>0, <1>1 DEF Begin
  <2> QED
    BY <2>1, OrderedNone DEF Loop
<1>2. CASE Validate
  <2>1. undos' = <<>> /\ pc = "validate"
    BY <1>2 DEF Validate, Basic, Control
  <2>2. CASE Over("failed")
    BY <2>1, <2>2, OrderedNone DEF Over, Loop
  <2>3. CASE ~Over("failed")
    <3>1. NextRepo("validate", IF cmd.verb = "new" THEN "mkdir" ELSE "pin")
      BY <1>2, <2>3 DEF Validate
    <3>2. pc' \in {"validate", IF cmd.verb = "new" THEN "mkdir" ELSE "pin"} /\ cmd' = cmd
      BY <3>1, Zenon DEF NextRepo
    <3> QED
      BY <2>1, <3>2, OrderedNone DEF Loop
  <2> QED
    BY <2>2, <2>3
<1>3. CASE MakeTree
  <2>1. CASE Over("failed")
    <3>1. undos' = <<>> /\ pc' = "idle"
      BY <1>3, <2>1 DEF MakeTree, Over, Goto, Basic, Control
    <3> QED
      BY <3>1, OrderedNone DEF Loop
  <2>2. CASE Goto("pin") /\ undos' = <<[do |-> "tree", r |-> 0]>>
    <3>1. Len(undos') = 1 /\ undos'[1] = [do |-> "tree", r |-> 0]
      BY <2>2
    <3>2. 1..Len(undos') = {1}
      BY <3>1
    <3>3. InOrder(undos')
      BY <3>1, <3>2 DEF InOrder
    <3>4. \A what, r : Has(undos', what, r) <=> what = "tree" /\ r = 0
      BY <3>1, <3>2 DEF Has
    <3>5. \A what, r : Will(what, r)' <=> what = "tree" /\ r = 0
      BY <3>4, WillPrimed, Zenon
    <3>6. pc' = "pin"
      BY <2>2 DEF Goto
    <3>7. Will("tree", 0)' /\ \A r : ~Will("worktree", r)' /\ ~Will("link", r)'
      BY <3>5
    <3> QED
      BY <3>3, <3>6, <3>7 DEF Ordered
  <2> QED
    BY <1>3, <2>1, <2>2 DEF MakeTree
<1>4. CASE Ensure \/ FinishStore \/ FetchBase \/ Build
           \/ (Save /\ Fail) \/ (Lock /\ Fail) \/ ((Fetched \/ Unlink) /\ undos' = undos)
  <2>1. undos' = undos /\ at' = at /\ cmd'.verb = cmd.verb /\ pc \in Loop \cup {"build", "save"}
    <3>1. CASE Build
      BY <3>1, BuildCommand
    <3>2. CASE Ensure \/ FinishStore \/ FetchBase
      BY <3>2 DEF Ensure, FinishStore, FetchBase, Fail, Goto, Loop
    <3>3. CASE \/ (Save /\ Fail) \/ (Lock /\ Fail)
               \/ ((Fetched \/ Unlink) /\ undos' = undos)
      <4>1. pc' = "undo" \/ UNCHANGED cmd
        BY <3>3 DEF Fail, Goto, Fetched, Unlink
      <4> QED
        BY <3>3, <4>1 DEF Save, Lock, Fetched, Unlink, Fail, Goto, Over, work, Loop
    <3> QED
      BY <1>4, <3>1, <3>2, <3>3
  <2>2. /\ pc' \in Loop => pc \in Loop /\ pc # "lock"
        /\ pc' \in {"fetched", "unlink"} => cmd.verb = "add"
    <3>1. CASE FetchBase
      <4>1. pc = "fetch" /\ cmd.verb \in {"none", "new", "add"} /\ cmd.verb # "none"
        BY <3>1 DEF FetchBase, Basic, TypeOK, Control
      <4>2. pc' \in {"worktree", "fetched", "undo"} /\ (pc' = "fetched" => cmd.verb # "new")
        BY <3>1 DEF FetchBase, Fail, Goto
      <4> QED
        BY <4>1, <4>2 DEF Loop
    <3>2. CASE Fetched \/ Unlink
      BY <3>2 DEF Fetched, Unlink, Fail, Goto, Loop, Ordered
    <3>3. CASE Ensure \/ FinishStore
      BY <3>3 DEF Ensure, FinishStore, Fail, Goto, Loop
    <3>4. CASE Build \/ (Save /\ Fail) \/ (Lock /\ Fail)
      BY <3>4 DEF Build, Save, Lock, Fail, Goto, Loop
    <3> QED
      BY <1>4, <3>1, <3>2, <3>3, <3>4
  <2>3. \A what, r : Will(what, r)' <=> Will(what, r)
    BY <2>1, WillPrimed
  <2> QED
    BY <1>0, <2>1, <2>2, <2>3, OrderedOn
<1>5. CASE Lock /\ ~Fail
  <2>1. pc = "lock" /\ undos' = undos /\ NextRepo("pin", "build")
    BY <1>5 DEF Lock, work
  <2>2. /\ pc' \in {"pin", "build"} /\ at' \in Repos /\ UNCHANGED <<cmd, last>>
        /\ pc' = "pin" => at < at'
    BY <2>1, NextRepoKeeps DEF Labels
  <2>3. \A what, r : Will(what, r)' <=> Will(what, r)
    BY <2>1, WillPrimed
  <2>4. \A r \in Repos : Will("worktree", r)' => (pc' = "pin" => r < at')
    <3>0. at \in Nat /\ Repos \subseteq Nat
      BY <2>1, Numbers DEF Basic, TypeOK, Control
    <3>1. \A r \in Repos : Will("worktree", r) => r <= at
      <4>1. \A r \in Repos : Will("worktree", r) => r < at \/ r = at
        BY <2>1 DEF Ordered, Loop
      <4> QED
        BY <3>0, <4>1
    <3> QED
      BY <2>2, <2>3, <3>1, Numbers DEF Basic, TypeOK
  <2> QED
    BY <1>0, <2>1, <2>2, <2>3, <2>4 DEF Ordered, Loop
<1>6. ASSUME NEW act \in {"pin", "branch", "link"}, undos' = Append(undos, Undo(act)),
             act = "link" => cmd.verb = "add", UNCHANGED <<at, cmd>>,
             pc \in Loop \ {"lock"}, pc' \in Loop \cup {"undo"},
             pc' \in {"fetched", "unlink"} => cmd.verb = "add"
      PROVE  Ordered'
  <2>1. pc # "idle" /\ ~Will("worktree", at)
    <3>0. pc # "idle"
      BY <1>6 DEF Loop
    <3>1. at \in Repos
      BY <3>0 DEF Basic, TypeOK, Control
    <3>2. ~(at < at)
      BY <3>1, Numbers
    <3> QED
      BY <1>6, <3>0, <3>1, <3>2 DEF Ordered
  <2>2. /\ InOrder(undos')
        /\ \A what, r : Will(what, r)' <=> Will(what, r) \/ (what = act /\ r = at)
    BY <1>6, <2>1, Undoes
  <2>3. /\ \A r : Will("worktree", r)' => Will("worktree", r)
        /\ \A r : Will("link", r)' => Will("link", r) \/ cmd.verb = "add"
        /\ Will("tree", 0) => Will("tree", 0)'
    BY <1>6, <2>2
  <2> QED
    BY <1>6, <2>2, <2>3, OrderedOn DEF Loop
<1>7. CASE Pin
  BY <1>6, <1>7 DEF Pin, Fail, Goto, Loop
<1>8. CASE Fetched /\ undos' # undos
  BY <1>6, <1>8 DEF Fetched, Fail, Goto, Loop, Ordered
<1>9. CASE Unlink /\ undos' # undos
  BY <1>6, <1>9 DEF Unlink, Fail, Goto, Loop, Ordered
<1>10. CASE AddWorktree
  <2>1. pc = "worktree" /\ UNCHANGED <<at, cmd>> /\ pc' \in {"lock", "undo"}
    BY <1>10 DEF AddWorktree, Fail, Goto
  <2>2. /\ InOrder(undos')
        /\ \A what, r : Will(what, r) => Will(what, r)'
        /\ \A r : Will("link", r)' <=> Will("link", r)
        /\ \A r : Will("worktree", r)' => Will("worktree", r) \/ r = at
    BY <1>10, UndoesWorktree
  <2> QED
    BY <2>1, <2>2 DEF Ordered, Loop
<1>11. CASE Rollback
  <2>1. /\ pc' = "undo" /\ UNCHANGED <<cmd, at>> /\ InOrder(undos')
        /\ \A what, r : Will(what, r)' => Will(what, r)
    BY <1>11, UndoRuns
  <2> QED
    BY <2>1 DEF Ordered, Loop
<1>12. CASE (Save /\ ~Fail) \/ RolledBack \/ Crash
  <2>1. undos' = <<>> /\ pc' = "idle"
    BY <1>12 DEF Save, RolledBack, Crash, Over
  <2> QED
    BY <2>1, OrderedNone DEF Loop
<1>13. CASE Meddling \/ UNCHANGED vars
  <2>1. UNCHANGED <<pc, cmd, at, undos>>
    BY <1>13 DEF Meddling, SomeCommit, Commit, MakeOwnBranch, AgentBranch, Tidy, AgentPut, DoctorList,
                 DoctorSweep, Theirs, Change, vars
  <2>2. \A what, r : Will(what, r)' <=> Will(what, r)
    BY <2>1, WillPrimed
  <2> QED
    BY <1>0, <2>1, <2>2 DEF Ordered
<1> QED
  BY <1>1, <1>2, <1>3, <1>4, <1>5, <1>7, <1>8, <1>9, <1>10, <1>11, <1>12, <1>13
     DEF Next, New, Add, Meddling, SomeCommit

\* What is on disk, piece by piece.
LEMMA PiecesOf ==
  ASSUME Basic
  PROVE  /\ Pieces \subseteq Universe
         /\ <<"tree", 0>> \in Pieces <=> root
         /\ \A r \in Repos :
              /\ <<"pin", r>> \in Pieces <=> r \in pin
              /\ <<"branch", r>> \in Pieces <=> branch[r] # "none"
              /\ <<"worktree", r>> \in Pieces <=> admin[r] # "none" \/ slot[r] = "worktree"
              /\ \A s \in {"link", "file", "dir"} : <<s, r>> \in Pieces <=> slot[r] = s
              /\ \A s \in {"partial", "built"} : <<s, r>> \in Pieces <=> phase[r] = s
<1>1. /\ slot \in [Repos -> {"none", "link", "worktree", "file", "dir"}] /\ pin \subseteq Repos
      /\ phase \in [Repos -> {"absent", "partial", "built"}]
  BY DEF Basic, TypeOK
<1>2. \A p : p \in Pieces <=>
        \/ root /\ p = <<"tree", 0>>
        \/ \E r \in pin : p = <<"pin", r>>
        \/ \E r \in Repos : branch[r] # "none" /\ p = <<"branch", r>>
        \/ \E r \in Repos : admin[r] # "none" /\ p = <<"worktree", r>>
        \/ \E r \in Repos : slot[r] # "none" /\ p = <<slot[r], r>>
        \/ \E r \in Repos : phase[r] # "absent" /\ p = <<phase[r], r>>
  BY DEF Pieces
<1>3. \A p \in Pieces : p \in Universe
  BY <1>1, <1>2 DEF Universe
<1>4. <<"tree", 0>> \in Pieces <=> root
  BY <1>1, <1>2
<1>5. ASSUME NEW r \in Repos
      PROVE  /\ <<"pin", r>> \in Pieces <=> r \in pin
             /\ <<"branch", r>> \in Pieces <=> branch[r] # "none"
             /\ <<"worktree", r>> \in Pieces <=> admin[r] # "none" \/ slot[r] = "worktree"
  BY <1>1, <1>2
<1>6. ASSUME NEW r \in Repos, NEW s \in {"link", "file", "dir"}
      PROVE  <<s, r>> \in Pieces <=> slot[r] = s
  BY <1>1, <1>2
<1>7. ASSUME NEW r \in Repos, NEW s \in {"partial", "built"}
      PROVE  <<s, r>> \in Pieces <=> phase[r] = s
  BY <1>1, <1>2
<1> QED
  BY <1>3, <1>4, <1>5, <1>6, <1>7

LEMMA PiecesStay ==
  ASSUME UNCHANGED <<pin, root, branch, admin, slot, phase>>
  PROVE  Pieces' = Pieces
BY DEF Pieces

\* A command begins: all that is there was there.
LEMMA BegunAccounted ==
  ASSUME Basic, Tied, NEW verb \in {"new", "add"}, NEW s \in SUBSET Repos, s # {}, NEW seen,
         Begin(verb, s, seen), verb = "new" => ~root
  PROVE  Explained' /\ Accounted' /\ Stores'
<1>1. /\ UNCHANGED <<pin, root, branch, admin, slot, phase>> /\ undos' = <<>>
      /\ had' = Pieces /\ late' = {} /\ cmd'.verb = verb /\ cmd'.sel = s
      /\ pc' = "validate" /\ at' = Min(s)
  BY DEF Begin, store, work, Basic, Control
<1>2. \A what, r : ~Will(what, r)'
  BY <1>1, NoUndos, WillPrimed
<1>3. \A r \in Repos : ~Asked(r)'
  <2>1. Min(s) \in s /\ \A r \in s : Min(s) <= r
    BY FirstOf
  <2>2. \A r \in s : ~(r < Min(s))
    <3>1. \A r \in s : r \in Nat
      BY Numbers
    <3> QED
      BY <2>1, <3>1
  <2> QED
    BY <1>1, <2>2 DEF Asked
<1>4. Explained'
  <2>1. slot \in [Repos -> {"none", "link", "worktree", "file", "dir"}]
    BY DEF Basic, TypeOK
  <2> QED
    BY <1>1, <2>1, PiecesOf DEF Explained
<1>5. Accounted'
  <2>1. \A r \in Repos : slot[r] = "worktree" => admin[r] # "none"
    BY DEF Tied
  <2>2. \A r \in Repos : slot[r] # "none" => root
    BY DEF Tied
  <2>3. had' \subseteq Universe /\ (<<"tree", 0>> \in had' => root' /\ cmd'.verb = "add")
    BY <1>1, PiecesOf
  <2>4. \A r \in Repos :
          /\ <<"worktree", r>> \in had' => admin'[r] # "none" /\ ~Asked(r)'
          /\ <<"branch", r>> \in had' \ late' => branch'[r] # "none" /\ ~Asked(r)'
          /\ \A t \in {"link", "file", "dir"} : <<t, r>> \in had' \ late' =>
               cmd'.verb = "add" /\ slot'[r] = t
    BY <1>1, <1>3, <2>1, <2>2, PiecesOf
  <2> QED
    BY <1>2, <2>3, <2>4 DEF Accounted, Universe
<1>6. Stores'
  BY <1>1, PiecesOf DEF Stores
<1> QED
  BY <1>4, <1>5, <1>6

\* A command that ends with nothing left to undo has left nothing.
LEMMA FailedRestored ==
  ASSUME Basic, Tied, Explained, Accounted, Stores, undos = <<>>,
         UNCHANGED <<pin, root, branch, admin, slot, phase, rec, had, late>>
  PROVE  Restored'
<1> DEFINE Left(p) ==
             \/ \E r \in Repos : p = <<"built", r>>
             \/ p = <<"partial", at>>
             \/ p = <<"link", at>> /\ at \in rec.links
<1>1. \A what, r : ~Will(what, r)
  BY NoUndos, WillPrimed
<1>2. Pieces' = Pieces
  BY PiecesStay
<1>3. ASSUME NEW p \in Pieces PROVE p \in had \cup late \/ Left(p)
  <2>1. CASE p = <<"tree", 0>>
    BY <1>1, <1>3, <2>1, PiecesOf DEF Explained
  <2>2. ASSUME NEW r \in Repos, p = <<"pin", r>> PROVE p \in had \cup late \/ Left(p)
    BY <1>1, <1>3, <2>2, PiecesOf DEF Explained
  <2>3. ASSUME NEW r \in Repos, p = <<"branch", r>> PROVE p \in had \cup late \/ Left(p)
    <3>1. branch[r] \in {"ours", "theirs"}
      BY <1>3, <2>3, PiecesOf DEF Basic, TypeOK
    <3> QED
      BY <1>1, <2>3, <3>1 DEF Explained
  <2>4. ASSUME NEW r \in Repos, p = <<"worktree", r>> PROVE p \in had \cup late \/ Left(p)
    <3>1. admin[r] # "none"
      BY <1>3, <2>4, PiecesOf DEF Tied
    <3> QED
      BY <1>1, <2>4, <3>1 DEF Explained
  <2>5. ASSUME NEW r \in Repos, NEW s \in {"link", "file", "dir"}, p = <<s, r>>
        PROVE  p \in had \cup late \/ Left(p)
    <3>1. slot[r] = s
      BY <1>3, <2>5, PiecesOf
    <3>2. Relinked(r) => s = "link" /\ r = at /\ at \in rec.links
      BY <3>1 DEF Relinked, Relinks, Basic, TypeOK, Control
    <3> QED
      BY <1>1, <2>5, <3>1, <3>2 DEF Explained
  <2>6. ASSUME NEW r \in Repos, p = <<"built", r>> PROVE p \in had \cup late \/ Left(p)
    BY <2>6
  <2>7. ASSUME NEW r \in Repos, p = <<"partial", r>> PROVE p \in had \cup late \/ Left(p)
    <3>1. phase[r] = "partial"
      BY <1>3, <2>7, PiecesOf
    <3> QED
      BY <2>7, <3>1 DEF Stores
  <2>8. p \in Universe
    BY <1>3, PiecesOf
  <2> HIDE DEF Left
  <2> QED
    BY <2>1, <2>2, <2>3, <2>4, <2>5, <2>6, <2>7, <2>8 DEF Universe
<1>4. ASSUME NEW p \in had, p \notin late, p \notin Pieces
      PROVE  p \in {<<"pin", r>> : r \in Repos} \cup {<<"file", r>> : r \in rec.links}
  <2>1. p # <<"tree", 0>>
    BY <1>4, PiecesOf DEF Accounted
  <2>2. \A r \in Repos : p # <<"branch", r>>
    BY <1>4, PiecesOf DEF Accounted
  <2>3. \A r \in Repos : p # <<"worktree", r>>
    BY <1>4, PiecesOf DEF Accounted
  <2>4. \A r \in Repos : \A s \in {"link", "file", "dir"} :
          p = <<s, r>> => s = "file" /\ r \in rec.links
    BY <1>1, <1>4, PiecesOf DEF Accounted
  <2>5. \A r \in Repos : \A s \in {"partial", "built"} : p # <<s, r>>
    BY <1>4, PiecesOf DEF Stores
  <2>6. p \in Universe
    BY DEF Accounted
  <2> QED
    BY <2>1, <2>2, <2>3, <2>4, <2>5, <2>6 DEF Universe
<1>5. ASSUME NEW x \in Pieces \ (had \cup late)
      PROVE  /\ x[1] \in {"partial", "built"} \/ (x[1] = "link" /\ x[2] \in rec.links)
             /\ x[1] = "partial" => x = <<"partial", at>>
             /\ x[1] = "link" => x = <<"link", at>>
  <2>1. Left(x)
    BY <1>3, <1>5
  <2> QED
    BY <2>1
<1> HIDE DEF Left
<1>6. rec' = rec /\ had' = had /\ late' = late
  OBVIOUS
<1> QED
  BY <1>2, <1>4, <1>5, <1>6 DEF Restored

\* A step of the command that leaves its undos alone.
LEMMA ForwardStill ==
  ASSUME Explained, Accounted, undos' = undos,
         had' = had, late \subseteq late', cmd'.verb = cmd.verb,
         cmd'.sel = cmd.sel, UNCHANGED <<pin, root, rec>>,
         \A r \in Repos :
           /\ Asked(r)' => Asked(r) \/ (branch[r] = "none" /\ admin[r] = "none")
           /\ branch'[r] = branch[r] \/ (branch'[r] = "theirs" /\ <<"branch", r>> \in late')
           /\ admin'[r] = "none" <=> admin[r] = "none"
           /\ \/ slot'[r] = slot[r]
              \/ /\ slot'[r] = "link" /\ cmd.verb = "new" /\ Will("tree", 0)
                 /\ ~Will("worktree", r)
  PROVE  Explained' /\ Accounted'
<1>1. \A what, r : Will(what, r)' <=> Will(what, r)
  BY WillPrimed
<1>2. Will("tree", 0)' <=> Will("tree", 0)
  BY WillPrimed
<1>3. \A r \in Repos : /\ Will("worktree", r)' => slot'[r] = "worktree"
                       /\ Will("link", r)' => Will("link", r)
  BY <1>1 DEF Accounted
<1> QED
  BY <1>1, <1>2, <1>3, Forward

\* An add has registered the branch's undo before the branch is made.
Registered == cmd.verb = "add" /\ pc \in {"unlink", "worktree"} => Will("branch", at)

LEMMA RegisteredStep == Basic /\ Ordered /\ Registered /\ [Next]_vars => Registered'
<1> SUFFICES ASSUME Basic, Ordered, Registered, [Next]_vars, cmd'.verb = "add",
                    pc' \in {"unlink", "worktree"}
             PROVE  \A r : r = at' => Will("branch", r)'
  BY DEF Registered
<1>1. CASE Fetched
  <2>1. /\ pc = "fetched" /\ UNCHANGED <<cmd, at>> /\ pc' \in {"unlink", "undo"}
        /\ pc' = "unlink" => undos' = Append(undos, Undo("branch"))
    BY <1>1 DEF Fetched, Fail, Goto
  <2>2. ~Will("worktree", at)
    <3>1. at \in Repos
      BY <2>1 DEF Basic, TypeOK, Control
    <3>2. ~(at < at)
      BY <3>1, Numbers
    <3> QED
      BY <2>1, <3>1, <3>2 DEF Ordered, Loop
  <2>3. \A what, r : Will(what, r)' <=> Will(what, r) \/ (what = "branch" /\ r = at)
    BY <2>1, <2>2, Undoes
  <2> QED
    BY <2>1, <2>3
<1>2. CASE Unlink
  <2>1. /\ pc = "unlink" /\ UNCHANGED <<cmd, at>>
        /\ undos' = undos \/ undos' = Append(undos, Undo("link"))
    BY <1>2 DEF Unlink, Fail, Goto
  <2>2. ~Will("worktree", at)
    <3>1. at \in Repos
      BY <2>1 DEF Basic, TypeOK, Control
    <3>2. ~(at < at)
      BY <3>1, Numbers
    <3> QED
      BY <2>1, <3>1, <3>2 DEF Ordered, Loop
  <2>3. \A what, r : Will(what, r) => Will(what, r)'
    <3>1. CASE undos' = undos
      BY <3>1, WillPrimed
    <3>2. CASE undos' = Append(undos, Undo("link"))
      BY <2>1, <2>2, <3>2, Undoes
    <3> QED
      BY <2>1, <3>1, <3>2
  <2> QED
    BY <2>1, <2>3 DEF Registered
<1>4. CASE Meddling \/ UNCHANGED vars
  <2>1. UNCHANGED <<pc, cmd, at, undos>>
    BY <1>4 DEF Meddling, SomeCommit, Commit, MakeOwnBranch, AgentBranch, Tidy, AgentPut, DoctorList,
                DoctorSweep, Theirs, Change, vars
  <2> QED
    BY <2>1, WillPrimed DEF Registered
<1>5. CASE FetchBase
  BY <1>5 DEF FetchBase, Fail, Goto
<1>6. CASE Validate \/ Lock
  <2>1. pc' \in {"idle", "validate", "mkdir", "pin", "build", "undo"}
    BY <1>6 DEF Validate, Lock, NextRepo, Over, Fail, Goto
  <2> QED
    BY <2>1
<1>7. CASE MakeTree \/ Pin \/ Ensure \/ FinishStore \/ AddWorktree \/ Build \/ Save
           \/ RolledBack \/ Crash \/ Rollback
  <2>1. pc' \notin {"unlink", "worktree"}
    BY <1>7 DEF MakeTree, Pin, Ensure, FinishStore, AddWorktree, Build, Save, RolledBack,
                Crash, Rollback, Over, Fail, Goto
  <2> QED
    BY <2>1
<1>8. ASSUME NEW verb, NEW s, NEW seen, Begin(verb, s, seen) PROVE FALSE
  BY <1>8 DEF Begin
<1> QED
  BY <1>1, <1>2, <1>4, <1>5, <1>6, <1>7, <1>8 DEF Next, Meddling, SomeCommit, New, Add

\* The steps of the command towards the record.
LEMMA OnwardsAccounted ==
  ASSUME Basic, Basic', BuiltInv, Registered, LookedUp, Tied, Ordered, Explained, Accounted, pc # "idle",
         pc' # "idle",
         \/ Validate \/ MakeTree \/ Pin \/ Ensure \/ FinishStore \/ FetchBase \/ Fetched
         \/ Unlink \/ AddWorktree \/ Lock \/ Build \/ Save
  PROVE  Explained' /\ Accounted'
<1>0. /\ at \in Repos /\ at \in cmd.sel
      /\ branch \in [Repos -> {"none", "ours", "theirs"}]
      /\ admin \in [Repos -> {"none", "added", "locked"}]
      /\ slot \in [Repos -> {"none", "link", "worktree", "file", "dir"}]
  BY DEF Basic, TypeOK, Control
<1>r. rec' = rec
  <2>1. CASE Save
    BY <2>1 DEF Save, Over, Fail
  <2> QED
    BY <2>1 DEF Validate, MakeTree, Pin, Ensure, FinishStore, FetchBase, Fetched, Unlink,
                AddWorktree, Lock, Build, work
<1>1. CASE Validate
  <2>1. /\ pc = "validate" /\ ~Taken(at)
        /\ NextRepo("validate", IF cmd.verb = "new" THEN "mkdir" ELSE "pin")
    BY <1>1 DEF Validate, Over
  <2>2. UNCHANGED <<branch, admin, slot, pin, root, undos, had, late>>
    BY <1>1 DEF Validate, store, work, ghost
  <2>3. cmd' = cmd /\ \A r \in cmd.sel : pc' = "validate" /\ r < at' => r <= at
    <3>1. CASE cmd.verb = "new"
      BY <2>1, <3>1, NextRepoKeeps DEF Labels
    <3>2. CASE cmd.verb # "new"
      BY <2>1, <3>2, NextRepoKeeps DEF Labels
    <3> QED
      BY <3>1, <3>2
  <2>4. branch[at] = "none" /\ admin[at] = "none"
    BY <1>0, <2>1 DEF Taken, LookedUp, Tied
  <2>5. ASSUME NEW r \in Repos, Asked(r)' PROVE Asked(r) \/ (branch[r] = "none" /\ admin[r] = "none")
    <3>1. CASE pc' = "validate"
      <4>1. r \in cmd.sel /\ r <= at
        BY <2>3, <2>5, <3>1 DEF Asked
      <4>2. r < at \/ r = at
        BY <1>0, <4>1, Numbers
      <4> QED
        BY <2>4, <4>1, <4>2 DEF Asked
    <3>2. CASE pc' # "validate"
      <4>1. r \in cmd.sel /\ \A q \in cmd.sel : q <= at
        <5>1. pc' # "validate" => \A q \in cmd.sel : q <= at
          <6>1. CASE cmd.verb = "new"
            BY <2>1, <6>1, NextRepoKeeps DEF Labels
          <6>2. CASE cmd.verb # "new"
            BY <2>1, <6>2, NextRepoKeeps DEF Labels
          <6> QED
            BY <6>1, <6>2
        <5> QED
          BY <2>3, <2>5, <3>2, <5>1 DEF Asked
      <4>2. r < at \/ r = at
        BY <1>0, <4>1, Numbers
      <4> QED
        BY <2>4, <4>1, <4>2 DEF Asked
    <3> QED
      BY <3>1, <3>2
  <2> QED
    BY <2>2, <2>3, <2>5, <1>r, ForwardStill
<1>2. CASE MakeTree
  <2>1. /\ root' = TRUE /\ undos' = <<[do |-> "tree", r |-> 0]>> /\ undos = <<>>
        /\ UNCHANGED <<branch, admin, slot, pin, had, late, cmd>> /\ pc = "mkdir"
    BY <1>2 DEF MakeTree, Over, Goto, store, ghost, Basic, Control
  <2>2. Len(undos') = 1 /\ undos'[1] = [do |-> "tree", r |-> 0] /\ 1..Len(undos') = {1}
    BY <2>1
  <2>3. \A what, r : Has(undos', what, r) <=> what = "tree" /\ r = 0
    BY <2>2 DEF Has
  <2>4. \A what, r : Will(what, r)' <=> what = "tree" /\ r = 0
    BY <2>3, WillPrimed, Zenon
  <2>5. \A what, r : ~Will(what, r)
    BY <2>1, NoUndos, WillPrimed
  <2>6. \A r \in Repos : Asked(r)' => Asked(r)
    BY <2>1 DEF Asked
  <2>7. Will("tree", 0)' /\ \A r : ~Will("worktree", r)' /\ ~Will("link", r)'
    BY <2>4
  <2> QED
    BY <2>1, <2>5, <2>6, <2>7, <1>r, Forward
<1>3. ASSUME pc \in Loop \ {"lock"}, NEW act \in {"pin", "branch", "link"},
             undos' = Append(undos, Undo(act)), UNCHANGED <<at, cmd>>
      PROVE  /\ \A what, r : Will(what, r)' <=> Will(what, r) \/ (what = act /\ r = at)
             /\ Will("tree", 0)' <=> Will("tree", 0)
             /\ \A r \in Repos : Will("worktree", r)' => slot[r] = "worktree"
             /\ \A r \in Repos : Asked(r)' => Asked(r)
             /\ slot[at] # "worktree" => ~Will("worktree", at)
  <2>1. ~Will("worktree", at)
    <3>1. ~(at < at)
      BY <1>0, Numbers
    <3> QED
      BY <1>0, <1>3, <3>1 DEF Ordered
  <2>2. \A what, r : Will(what, r)' <=> Will(what, r) \/ (what = act /\ r = at)
    BY <1>3, <2>1, Undoes
  <2>3. Will("tree", 0)' <=> Will("tree", 0)
    BY <1>0, <1>3, <2>2, Numbers
  <2>4. \A r \in Repos : Will("worktree", r)' => slot[r] = "worktree"
    BY <2>2, <1>3 DEF Accounted
  <2>5. \A r \in Repos : Asked(r)' => Asked(r)
    BY <1>3 DEF Asked, Loop
  <2> QED
    BY <2>1, <2>2, <2>3, <2>4, <2>5
<1>4. CASE Pin
  <2>1. /\ pc = "pin" /\ undos' = Append(undos, Undo("pin")) /\ UNCHANGED <<at, cmd>>
        /\ UNCHANGED <<branch, admin, root, slot, had, late>>
        /\ pin' = pin \cup {at} \/ pin' = pin
    BY <1>4 DEF Pin, Fail, Goto, store, ghost
  <2>2. /\ \A what, r : Will(what, r)' <=> Will(what, r) \/ (what = "pin" /\ r = at)
        /\ Will("tree", 0)' <=> Will("tree", 0)
        /\ \A r \in Repos : Will("worktree", r)' => slot[r] = "worktree"
        /\ \A r \in Repos : Asked(r)' => Asked(r)
    BY <1>3, <2>1 DEF Loop
  <2>3. \A r \in Repos : (r \in pin' => r \in pin \/ Will("pin", r)')
                         /\ (Will("link", r)' => Will("link", r))
    BY <2>1, <2>2
  <2> QED
    BY <2>1, <2>2, <2>3, <1>r, Forward
<1>5. CASE Ensure \/ FinishStore \/ FetchBase \/ Save \/ (Lock /\ Fail) \/ (Lock /\ ~Fail)
           \/ (Fetched /\ undos' = undos) \/ (Unlink /\ undos' = undos)
  <2>1. /\ UNCHANGED <<undos, had, pin, root>> /\ late \subseteq late'
        /\ UNCHANGED <<cmd, slot>>
        /\ pc \in Loop \cup {"save"}
    <3>1. CASE Ensure \/ FinishStore \/ FetchBase
      BY <3>1 DEF Ensure, FinishStore, FetchBase, Fail, Goto, store, work, ghost, Loop
    <3>2. CASE Save
      BY <3>2 DEF Save, Over, Fail, Goto, store, work, ghost, Loop
    <3>3. CASE Lock
      BY <3>3 DEF Lock, NextRepo, Fail, Goto, store, work, ghost, Loop
    <3>4. CASE Fetched /\ undos' = undos
      <4>1. pc = "fetched" /\ cmd' = cmd
        BY <3>4, Zenon DEF Fetched, Fail, Goto
      <4>2. UNCHANGED <<had, late, pin, root, slot>>
        BY <3>4, Zenon DEF Fetched, work, ghost
      <4> QED
        BY <3>4, <4>1, <4>2 DEF Loop
    <3>5. CASE Unlink /\ undos' = undos
      <4>1. UNCHANGED <<slot, late>>
        <5>1. undos' # Append(undos, Undo("link"))
          <6>1. undos \in UndoList
            BY TypedUndos
          <6>2. Len(Append(undos, Undo("link"))) = Len(undos) + 1 /\ Len(undos) \in Nat
            BY <6>1 DEF UndoList
          <6> QED
            BY <3>5, <6>2
        <5> QED
          BY <3>5, <5>1 DEF Unlink, ghost
      <4> QED
        BY <3>5, <4>1 DEF Unlink, Fail, Goto, store, work, ghost, Loop
    <3> QED
      BY <1>5, <3>1, <3>2, <3>3, <3>4, <3>5
  <2>2. \A r \in Repos : admin'[r] = "none" <=> admin[r] = "none"
    <3>1. CASE ~Lock
      BY <1>5, <3>1 DEF Ensure, FinishStore, FetchBase, Save, Fetched, Unlink, store
    <3>2. CASE Lock
      <4>1. admin[at] # "none"
        BY <1>0, <3>2 DEF Lock, BuiltInv, AtHand, Loop, Tied
      <4>2. admin' = admin \/ admin' = [admin EXCEPT ![at] = "locked"]
        BY <3>2 DEF Lock
      <4> QED
        BY <1>0, <4>1, <4>2
    <3> QED
      BY <3>1, <3>2
  <2>3. \A r \in Repos : branch'[r] = branch[r] \/ (branch'[r] = "theirs" /\ <<"branch", r>> \in late')
    <3>1. CASE ~Ensure
      BY <1>5, <3>1 DEF FinishStore, FetchBase, Save, Fetched, Unlink, Lock, store
    <3>2. CASE Ensure
      BY <1>0, <3>2 DEF Ensure
    <3> QED
      BY <3>1, <3>2
  <2>4. \A r \in Repos : Asked(r)' => Asked(r)
    BY <2>1 DEF Asked, Loop
  <2> QED
    BY <2>1, <2>2, <2>3, <2>4, <1>r, ForwardStill
<1>6. CASE Fetched /\ undos' # undos
  <2>1. /\ pc = "fetched" /\ undos' = Append(undos, Undo("branch")) /\ UNCHANGED <<at, cmd>>
        /\ UNCHANGED <<branch, admin, root, slot, pin, had, late>>
    BY <1>6 DEF Fetched, Fail, Goto, store, work, ghost
  <2>2. /\ \A what, r : Will(what, r)' <=> Will(what, r) \/ (what = "branch" /\ r = at)
        /\ Will("tree", 0)' <=> Will("tree", 0)
        /\ \A r \in Repos : Will("worktree", r)' => slot[r] = "worktree"
        /\ \A r \in Repos : Asked(r)' => Asked(r)
    BY <1>3, <2>1 DEF Loop
  <2>3. \A r \in Repos : Will("link", r)' => Will("link", r)
    BY <2>2
  <2> QED
    BY <2>1, <2>2, <2>3, <1>r, Forward
<1>7. CASE Unlink /\ undos' # undos
  <2>1. /\ pc = "unlink" /\ undos' = Append(undos, Undo("link")) /\ UNCHANGED <<at, cmd>>
        /\ UNCHANGED <<branch, admin, root, pin, had>>
        /\ slot[at] \in {"none", "link", "file"} /\ slot' = [slot EXCEPT ![at] = "none"]
        /\ late' = late /\ Relinks(at)
    <3>1. cmd.verb = "add"
      BY <1>7 DEF Unlink, Ordered
    <3> QED
      BY <1>0, <1>7, <3>1 DEF Unlink, Fail, Goto, store, ghost, Relinks
  <2>2. /\ \A what, r : Will(what, r)' <=> Will(what, r) \/ (what = "link" /\ r = at)
        /\ Will("tree", 0)' <=> Will("tree", 0)
        /\ \A r \in Repos : Will("worktree", r)' => slot[r] = "worktree"
        /\ \A r \in Repos : Asked(r)' => Asked(r)
    BY <1>3, <2>1 DEF Loop
  <2>5. ASSUME NEW r \in Repos
        PROVE  /\ \/ slot'[r] = slot[r]
                  \/ slot'[r] = "none" /\ slot[r] = "link" /\ Will("link", r)'
                  \/ slot'[r] = "none" /\ slot[r] = "file" /\ r \in rec.links
               /\ Will("worktree", r)' => slot'[r] = "worktree"
               /\ Will("link", r)' => Will("link", r) \/ Relinks(r)
    <3>1. CASE r # at
      BY <1>0, <2>1, <2>2, <3>1
    <3>2. CASE r = at
      <4>1. Will("link", r)'
        BY <2>2, <3>2
      <4>2. slot'[r] = "none" /\ slot[r] \in {"none", "link", "file"}
        BY <1>0, <2>1, <3>2
      <4>3. ~Will("worktree", r)'
        BY <2>2, <4>2
      <4>4. r \in rec.links /\ Relinks(r)
        BY <2>1, <3>2 DEF Relinks
      <4> QED
        BY <3>2, <4>1, <4>2, <4>3, <4>4
    <3> QED
      BY <3>1, <3>2
  <2>6. late \subseteq late'
    BY <2>1
  <2> QED
    BY <2>1, <2>2, <2>5, <2>6, <1>r, Forward
<1>8. CASE AddWorktree
  <2>1. /\ pc = "worktree" /\ UNCHANGED <<at, cmd, pin, had, late>>
        /\ branch' = branch \/ branch' = [branch EXCEPT ![at] = "ours"]
    BY <1>8 DEF AddWorktree, Fail, Goto, ghost
  <2>2. /\ \A what, r : Will(what, r) => Will(what, r)'
        /\ \A r : Will("link", r)' <=> Will("link", r)
        /\ cmd.verb = "new" => \A r : r = at => Will("branch", r)'
        /\ \/ /\ \A r : Will("worktree", r)' <=> Will("worktree", r)
              /\ UNCHANGED <<slot, admin, root>>
           \/ /\ \A r : Will("worktree", r)' <=> Will("worktree", r) \/ r = at
              /\ branch' = [branch EXCEPT ![at] = "ours"]
              /\ admin' = [admin EXCEPT ![at] = "added"]
              /\ slot' = [slot EXCEPT ![at] = "worktree"] /\ slot[at] = "none"
              /\ root' = TRUE
    BY <1>8, UndoesWorktree
  <2>3. \A r : r = at => Will("branch", r)'
    <3>1. cmd.verb \in {"new", "add"}
      BY <1>0, <2>1 DEF Basic, TypeOK, Control
    <3>2. cmd.verb = "add" => Will("branch", at)
      BY <2>1 DEF Registered
    <3> QED
      BY <2>2, <3>1, <3>2
  <2>4. root => root'
    BY <2>2
  <2>5. root' => root \/ Will("tree", 0)'
    <3>1. CASE cmd.verb = "new"
      <4>1. Will("tree", 0)
        BY <2>1, <3>1 DEF Ordered, Loop
      <4>2. Has(undos', "tree", 0)
        BY <2>2, <4>1, WillPrimed
      <4> QED
        BY <4>2, WillPrimed DEF Will
    <3>2. CASE cmd.verb # "new"
      <4>1. Recorded
        BY <1>0, <2>1, <3>2 DEF Basic, TypeOK, Control, Recorded
      <4> QED
        BY <4>1, RecordedHasRoot
    <3> QED
      BY <3>1, <3>2
  <2>6. ASSUME NEW r \in Repos
        PROVE  /\ Asked(r)' => Asked(r)
               /\ branch'[r] = branch[r] \/ (branch'[r] = "ours" /\ Will("branch", r)')
               /\ admin'[r] = "none" => admin[r] = "none"
               /\ admin'[r] # "none" => admin[r] # "none" \/ Will("worktree", r)'
               /\ slot'[r] = slot[r] \/ (slot[r] = "none" /\ slot'[r] = "worktree")
               /\ Will("worktree", r)' => slot'[r] = "worktree"
               /\ Will("link", r)' => Will("link", r)
    <3>1. Asked(r)' => Asked(r)
      BY <2>1 DEF Asked
    <3>2. branch'[r] = branch[r] \/ (branch'[r] = "ours" /\ Will("branch", r)')
      BY <1>0, <2>1, <2>3
    <3>3. CASE UNCHANGED <<slot, admin>> /\ \A q : Will("worktree", q)' <=> Will("worktree", q)
      BY <2>2, <3>1, <3>2, <3>3 DEF Accounted
    <3>4. CASE /\ \A q : Will("worktree", q)' <=> Will("worktree", q) \/ q = at
               /\ admin' = [admin EXCEPT ![at] = "added"]
               /\ slot' = [slot EXCEPT ![at] = "worktree"] /\ slot[at] = "none"
      <4>1. Will("worktree", r) => slot[r] = "worktree"
        BY DEF Accounted
      <4>2. Will("worktree", r)' <=> Will("worktree", r) \/ r = at
        BY <3>4
      <4> QED
        BY <1>0, <2>2, <3>1, <3>2, <3>4, <4>1, <4>2
    <3> QED
      BY <2>2, <3>3, <3>4
  <2> QED
    BY <2>1, <2>2, <2>4, <2>5, <2>6, <1>r, Forward
<1>9. CASE Build
  <2> DEFINE links == IF cmd.verb = "new" THEN cmd.seen \ cmd.sel ELSE {}
  <2>1. /\ pc = "build" /\ UNCHANGED <<branch, admin, pin, root, undos, had, late>>
        /\ pc' \in {"save", "undo"} /\ cmd'.sel = cmd.sel /\ cmd'.verb = cmd.verb
    BY <1>9, BuildCommand DEF store, ghost
  <2>2. PICK made \in SUBSET links : slot' = [r \in Repos |-> IF r \in made THEN "link" ELSE slot[r]]
    BY <1>9 DEF Build
  <2>3. \A r \in Repos : r \in made => r \notin cmd.sel /\ cmd.verb = "new"
    BY <2>2
  <2>4. \A r \in Repos : Will("worktree", r) => r \in cmd.sel
    <3>1. \A i \in 1..Len(undos) : undos[i].do = "worktree" => undos[i].r \in cmd.sel
      BY DEF Basic, Control
    <3> QED
      BY <3>1 DEF Will, Has
  <2>5. cmd.verb = "new" => Will("tree", 0)
    BY <2>1 DEF Ordered
  <2>6. \A r \in Repos : Asked(r)' => Asked(r)
    BY <2>1 DEF Asked
  <2>7. \A r \in Repos : \/ slot'[r] = slot[r]
                         \/ /\ slot'[r] = "link" /\ cmd.verb = "new" /\ Will("tree", 0)
                            /\ ~Will("worktree", r)
    BY <1>0, <2>2, <2>3, <2>4, <2>5
  <2>8. late \subseteq late'
    BY <2>1
  <2> QED
    BY <2>1, <2>6, <2>7, <2>8, <1>r, ForwardStill
<1> QED
  BY <1>1, <1>2, <1>4, <1>5, <1>6, <1>7, <1>8, <1>9

\* An undo takes away what the command has made, or puts back the link.
LEMMA RollbackAccounted ==
  ASSUME Basic, Tied, Ordered, Explained, Accounted, Rollback, last' # "hurt"
  PROVE  Explained' /\ Accounted'
<1> DEFINE u == undos[Len(undos)]
<1>0. /\ branch \in [Repos -> {"none", "ours", "theirs"}]
      /\ admin \in [Repos -> {"none", "added", "locked"}]
      /\ slot \in [Repos -> {"none", "link", "worktree", "file", "dir"}]
      /\ cmd.sel \subseteq Repos
  BY DEF Basic, TypeOK
<1>1. /\ pc = "undo" /\ UNCHANGED <<pc, cmd, had, late>>
      /\ u.do # "tree" => u.r \in cmd.sel
      /\ u.do = "tree" => cmd.verb = "new"
      /\ \A what, r : Will(what, r) <=> Will(what, r)' \/ (u.do = what /\ u.r = r)
      /\ \A r : r = u.r => ~Will("worktree", r)'
      /\ u.do = "tree" => u.r = 0 /\ \A what, r : ~Will(what, r)'
      /\ \/ u.do = "branch" /\ UndoBranch(u.r)
         \/ u.do = "worktree" /\ UndoWorktree(u.r)
         \/ u.do = "link" /\ UndoLink(u.r)
         \/ u.do = "pin" /\ UndoPin(u.r)
         \/ u.do = "tree" /\ UndoTree
  BY UndoRuns
<1> HIDE DEF u
<1>r. rec' = rec /\ \A r \in Repos : Relinks(r)' <=> Relinks(r)
  BY <1>1 DEF Rollback, Relinks
<1>2. ASSUME u.do # "tree" PROVE Will("tree", 0)' <=> Will("tree", 0)
  <2>1. \A what : what = "tree" => (Will(what, 0)' <=> Will(what, 0))
    BY <1>1, <1>2
  <2> QED
    BY <2>1
<1>3. \A r \in Repos : Asked(r) <=> r \in cmd.sel
  BY <1>1 DEF Asked
<1>4. \A r \in Repos : Asked(r)' <=> r \in cmd.sel
  BY <1>1 DEF Asked
<1>5. ASSUME NEW q \in cmd.sel
      PROVE  /\ q \in Repos /\ <<"worktree", q>> \notin had /\ <<"branch", q>> \notin had \ late
             /\ admin[q] # "none" => Will("worktree", q)
             /\ Will("worktree", q) => slot[q] = "worktree"
             /\ slot[q] = "worktree" => Will("worktree", q)
  <2>1. q \in Repos /\ Asked(q)
    BY <1>0, <1>3
  <2> QED
    BY <2>1 DEF Explained, Accounted, Tied
<1>6. CASE u.do = "branch" /\ UndoBranch(u.r)
  <2>1. u.r \in cmd.sel /\ UNCHANGED <<admin, pin, root, slot>> /\ u.r \in Repos
    BY <1>0, <1>1, <1>6 DEF UndoBranch
  <2>2. branch'[u.r] # "ours"
    <3>1. admin[u.r] = "none"
      BY <1>1, <1>5, <1>6, <2>1
    <3> QED
      BY <1>0, <1>6, <2>1, <3>1 DEF UndoBranch
  <2>3. \A r \in Repos : branch'[r] = branch[r] \/ (r = u.r /\ branch'[r] = "none")
    BY <1>0, <1>6, <2>1 DEF UndoBranch
  <2>4. Will("tree", 0)' <=> Will("tree", 0)
    BY <1>2, <1>6
  <2>5. \A r \in Repos : /\ Will("pin", r)' <=> Will("pin", r)
                         /\ Will("worktree", r)' <=> Will("worktree", r)
                         /\ Will("link", r)' <=> Will("link", r)
                         /\ r # u.r => (Will("branch", r)' <=> Will("branch", r))
    BY <1>1, <1>6
  <2>6. Explained'
    BY <1>1, <2>1, <2>2, <2>3, <2>4, <2>5, <1>r DEF Explained, Relinked
  <2>7. \A r \in Repos : <<"branch", r>> \in had \ late => r # u.r
    BY <1>5, <2>1
  <2>8. Accounted'
    BY <1>1, <1>3, <1>4, <2>1, <2>3, <2>4, <2>5, <2>7, <1>r DEF Accounted, Universe
  <2> QED
    BY <2>6, <2>8
<1>7. CASE u.do = "worktree" /\ UndoWorktree(u.r)
  <2>1. u.r \in cmd.sel /\ UNCHANGED <<branch, pin, root>> /\ u.r \in Repos
    BY <1>0, <1>1, <1>7 DEF UndoWorktree
  <2>2. \A r \in Repos : IF r = u.r THEN admin'[r] = "none" /\ slot'[r] = "none"
                                    ELSE admin'[r] = admin[r] /\ slot'[r] = slot[r]
    BY <1>0, <1>7, <2>1 DEF UndoWorktree
  <2>3. Will("tree", 0)' <=> Will("tree", 0)
    BY <1>2, <1>7
  <2>4. \A r \in Repos : /\ Will("pin", r)' <=> Will("pin", r)
                         /\ Will("branch", r)' <=> Will("branch", r)
                         /\ Will("link", r)' <=> Will("link", r)
                         /\ r # u.r => (Will("worktree", r)' <=> Will("worktree", r))
                         /\ r = u.r => ~Will("worktree", r)' /\ Will("worktree", r)
    BY <1>1, <1>7
  <2>5. slot[u.r] = "worktree"
    BY <1>5, <2>1, <2>4
  <2>6. Explained'
    BY <1>1, <2>1, <2>2, <2>3, <2>4, <1>r DEF Explained, Relinked
  <2>7. Accounted'
    <3>1. had' \subseteq Universe /\ (<<"tree", 0>> \in had' => root' /\ cmd'.verb = "add")
      BY <1>1, <2>1 DEF Accounted
    <3>2. ASSUME NEW r \in Repos
          PROVE  /\ <<"worktree", r>> \in had' => admin'[r] # "none" /\ ~Asked(r)'
                 /\ <<"branch", r>> \in had' \ late' => branch'[r] # "none" /\ ~Asked(r)'
                 /\ Will("worktree", r)' => slot'[r] = "worktree"
                 /\ Will("link", r)' => Relinks(r)'
      <4>1. r = u.r => <<"worktree", r>> \notin had
        BY <1>5, <2>1
      <4> QED
        BY <1>1, <1>3, <1>4, <2>1, <2>2, <2>4, <4>1, <1>r DEF Accounted
    <3>3. ASSUME NEW r \in Repos, NEW s \in {"link", "file", "dir"}, <<s, r>> \in had' \ late'
          PROVE  /\ cmd'.verb = "add"
                 /\ \/ slot'[r] = s
                    \/ s = "link" /\ Will("link", r)' /\ slot'[r] \in {"none", "worktree"}
                    \/ s = "file" /\ r \in rec'.links
      <4>1. /\ cmd.verb = "add"
            /\ \/ slot[r] = s
               \/ s = "link" /\ Will("link", r) /\ slot[r] \in {"none", "worktree"}
               \/ s = "file" /\ r \in rec.links
        BY <1>1, <3>3 DEF Accounted
      <4> QED
        BY <1>1, <1>r, <2>2, <2>4, <2>5, <4>1
    <3> QED
      BY <3>1, <3>2, <3>3, <1>r DEF Accounted, Universe
  <2> QED
    BY <2>6, <2>7
<1>8. CASE u.do = "link" /\ UndoLink(u.r)
  <2>1. u.r \in cmd.sel /\ UNCHANGED <<branch, admin, pin, root>> /\ u.r \in Repos
    BY <1>0, <1>1, <1>8 DEF UndoLink
  <2>2. \A r \in Repos : slot'[r] = IF r = u.r /\ slot[r] = "none" THEN "link" ELSE slot[r]
    BY <1>0, <1>8, <2>1 DEF UndoLink
  <2>3. Will("tree", 0)' <=> Will("tree", 0)
    BY <1>2, <1>8
  <2>4. \A r \in Repos : /\ Will("pin", r)' <=> Will("pin", r)
                         /\ Will("branch", r)' <=> Will("branch", r)
                         /\ Will("worktree", r)' <=> Will("worktree", r)
                         /\ r # u.r => (Will("link", r)' <=> Will("link", r))
                         /\ Will("link", r)' => Will("link", r)
                         /\ r = u.r => ~Will("worktree", r)' /\ Will("link", r)
    BY <1>1, <1>8
  <2>5. slot[u.r] # "worktree" /\ Relinks(u.r)
    <3>1. ~Will("worktree", u.r) /\ Will("link", u.r)
      BY <2>1, <2>4
    <3> QED
      BY <1>5, <2>1, <3>1 DEF Accounted
  <2>6. Explained'
    <3>1. ASSUME NEW r \in Repos, slot'[r] \in {"link", "file", "dir"}
          PROVE  <<slot'[r], r>> \in had' \cup late' \/ Will("tree", 0)' \/ Relinked(r)'
      <4>1. CASE slot'[r] = slot[r]
        BY <1>1, <1>r, <2>3, <3>1, <4>1 DEF Explained, Relinked
      <4>2. CASE slot'[r] # slot[r]
        <5>1. slot'[r] = "link" /\ r = u.r
          BY <2>2, <4>2
        <5> QED
          BY <1>r, <2>5, <5>1 DEF Relinked
      <4> QED
        BY <4>1, <4>2
    <3> QED
      BY <1>1, <2>1, <2>3, <2>4, <3>1, <1>r DEF Explained, Relinked
  <2>7. Accounted'
    <3>1. had' \subseteq Universe /\ (<<"tree", 0>> \in had' => root' /\ cmd'.verb = "add")
      BY <1>1, <2>1 DEF Accounted
    <3>2. ASSUME NEW r \in Repos
          PROVE  /\ <<"worktree", r>> \in had' => admin'[r] # "none" /\ ~Asked(r)'
                 /\ <<"branch", r>> \in had' \ late' => branch'[r] # "none" /\ ~Asked(r)'
                 /\ Will("worktree", r)' => slot'[r] = "worktree"
                 /\ Will("link", r)' => Relinks(r)'
      BY <1>1, <1>3, <1>4, <2>1, <2>2, <2>4, <1>r DEF Accounted
    <3>3. ASSUME NEW r \in Repos, NEW s \in {"link", "file", "dir"}, <<s, r>> \in had' \ late'
          PROVE  /\ cmd'.verb = "add"
                 /\ \/ slot'[r] = s
                    \/ s = "link" /\ Will("link", r)' /\ slot'[r] \in {"none", "worktree"}
                    \/ s = "file" /\ r \in rec'.links
      <4>1. /\ cmd.verb = "add"
            /\ \/ slot[r] = s
               \/ s = "link" /\ Will("link", r) /\ slot[r] \in {"none", "worktree"}
               \/ s = "file" /\ r \in rec.links
        BY <1>1, <3>3 DEF Accounted
      <4>2. CASE r = u.r
        BY <1>1, <1>r, <2>2, <2>5, <4>1, <4>2
      <4>3. CASE r # u.r
        BY <1>1, <1>r, <2>2, <2>4, <4>1, <4>3
      <4> QED
        BY <4>2, <4>3
    <3> QED
      BY <3>1, <3>2, <3>3, <1>r DEF Accounted, Universe
  <2> QED
    BY <2>6, <2>7
<1>9. CASE u.do = "pin" /\ UndoPin(u.r)
  <2>1. u.r \in cmd.sel /\ UNCHANGED <<branch, admin, root, slot>> /\ pin' = pin \ {u.r}
    BY <1>1, <1>9 DEF UndoPin
  <2>2. Will("tree", 0)' <=> Will("tree", 0)
    BY <1>2, <1>9
  <2>3. \A r \in Repos : /\ Will("branch", r)' <=> Will("branch", r)
                         /\ Will("worktree", r)' <=> Will("worktree", r)
                         /\ Will("link", r)' <=> Will("link", r)
                         /\ r # u.r => (Will("pin", r)' <=> Will("pin", r))
    BY <1>1, <1>9
  <2>4. Explained'
    BY <1>1, <2>1, <2>2, <2>3, <1>r DEF Explained, Relinked
  <2>5. Accounted'
    BY <1>1, <1>3, <1>4, <2>1, <2>2, <2>3, <1>r DEF Accounted, Universe
  <2> QED
    BY <2>4, <2>5
<1>10. CASE u.do = "tree" /\ UndoTree
  <2>1. /\ root' = FALSE /\ \A r \in Repos : slot'[r] = "none"
        /\ UNCHANGED <<branch, admin, pin>> /\ cmd.verb = "new"
    BY <1>1, <1>10 DEF UndoTree
  <2>2. \A r \in Repos : /\ ~Will("pin", r) /\ ~Will("branch", r) /\ ~Will("worktree", r)
                         /\ ~Will("worktree", r)' /\ ~Will("link", r)'
    BY <1>1, <1>10
  <2>3. Explained'
    BY <1>1, <2>1, <2>2, <1>r DEF Explained, Relinked
  <2>4. Accounted'
    BY <1>1, <1>3, <1>4, <2>1, <2>2, <1>r DEF Accounted, Universe
  <2> QED
    BY <2>3, <2>4
<1> QED
  BY <1>1, <1>6, <1>7, <1>8, <1>9, <1>10

\* What others make or take while a command runs is put to their account.
LEMMA MeddlingAccounted ==
  ASSUME Basic, Explained, Accounted, pc # "idle", Meddling
  PROVE  Explained' /\ Accounted'
<1>0. /\ UNCHANGED <<pc, cmd, at, undos, rec>>
      /\ branch \in [Repos -> {"none", "ours", "theirs"}]
      /\ slot \in [Repos -> {"none", "link", "worktree", "file", "dir"}]
      /\ at \in Repos
  <2>1. UNCHANGED <<pc, cmd, at, undos, rec>>
    BY DEF Meddling, SomeCommit, Commit, MakeOwnBranch, AgentBranch, Tidy, AgentPut, DoctorList,
           DoctorSweep, Theirs, Change, work
  <2> QED
    BY <2>1 DEF Basic, TypeOK, Control
<1>1. /\ \A r : Asked(r)' <=> Asked(r)
      /\ \A what, r : Will(what, r)' <=> Will(what, r)
      /\ Will("tree", 0)' <=> Will("tree", 0)
      /\ \A r \in Repos : Relinks(r)' <=> Relinks(r)
  BY <1>0, WillPrimed DEF Asked, Relinks
<1>2. CASE \/ SomeCommit
           \/ \E r \in Repos : MakeOwnBranch(r)
           \/ DoctorList
  <2>1. Change({}, {}, {}) /\ UNCHANGED <<pin, root, branch, admin, slot>>
    BY <1>2 DEF SomeCommit, Commit, MakeOwnBranch, DoctorList, Theirs, store, work
  <2>2. UNCHANGED <<had, late>>
    BY <2>1 DEF Change
  <2> QED
    BY <1>0, <1>1, <2>1, <2>2, ForwardStill
<1>3. ASSUME NEW q \in Repos, AgentBranch(q) PROVE Explained' /\ Accounted'
  <2>1. /\ branch' = [branch EXCEPT ![q] = "theirs"] /\ UNCHANGED <<pin, root, admin, slot>>
        /\ had' = had \cup {<<"branch", q>>}
        /\ late' = late \cup IF pc = "validate" /\ q >= at THEN {} ELSE {<<"branch", q>>}
    BY <1>3 DEF AgentBranch, Theirs, Change, work
  <2>2. \A r \in Repos : branch'[r] = IF r = q THEN "theirs" ELSE branch[r]
    BY <1>0, <2>1
  <2>3. /\ \A k, r : k # "branch" => (<<k, r>> \in had' <=> <<k, r>> \in had)
                                     /\ (<<k, r>> \in late' <=> <<k, r>> \in late)
        /\ \A r : r # q => (<<"branch", r>> \in had' <=> <<"branch", r>> \in had)
                           /\ (<<"branch", r>> \in late' <=> <<"branch", r>> \in late)
        /\ <<"branch", q>> \in had' /\ had \subseteq had' /\ late \subseteq late'
    BY <2>1
  <2>4. <<"branch", q>> \in had' \ late' => ~Asked(q)
    <3>1. CASE pc = "validate" /\ q >= at
      <4>1. ~(q < at)
        BY <1>0, <3>1, Numbers
      <4> QED
        BY <3>1, <4>1 DEF Asked
    <3>2. CASE ~(pc = "validate" /\ q >= at)
      BY <2>1, <3>2
    <3> QED
      BY <3>1, <3>2
  <2>5. Explained'
    BY <1>0, <1>1, <2>1, <2>2, <2>3 DEF Explained, Relinked
  <2>6. Accounted'
    <3>1. had' \subseteq Universe /\ (<<"tree", 0>> \in had' => root' /\ cmd'.verb = "add")
      BY <1>0, <2>1, <2>3 DEF Accounted, Universe
    <3>2. ASSUME NEW r \in Repos
          PROVE  /\ <<"worktree", r>> \in had' => admin'[r] # "none" /\ ~Asked(r)'
                 /\ <<"branch", r>> \in had' \ late' => branch'[r] # "none" /\ ~Asked(r)'
                 /\ Will("worktree", r)' => slot'[r] = "worktree"
                 /\ Will("link", r)' => Relinks(r)'
      <4>1. <<"branch", r>> \in had' \ late' => branch'[r] # "none" /\ ~Asked(r)'
        <5>1. CASE r = q
          BY <1>1, <2>2, <2>4, <5>1
        <5>2. CASE r # q
          BY <1>1, <2>2, <2>3, <5>2 DEF Accounted
        <5> QED
          BY <5>1, <5>2
      <4> QED
        BY <1>1, <2>1, <2>3, <4>1 DEF Accounted
    <3>3. ASSUME NEW r \in Repos, NEW s \in {"link", "file", "dir"}, <<s, r>> \in had' \ late'
          PROVE  /\ cmd'.verb = "add"
                 /\ \/ slot'[r] = s
                    \/ s = "link" /\ Will("link", r)' /\ slot'[r] \in {"none", "worktree"}
                    \/ s = "file" /\ r \in rec'.links
      <4>1. <<s, r>> \in had \ late
        BY <2>3, <3>3
      <4> QED
        BY <1>0, <1>1, <2>1, <4>1 DEF Accounted
    <3> QED
      BY <3>1, <3>2, <3>3 DEF Accounted, Universe
  <2> QED
    BY <2>5, <2>6
<1>4. ASSUME NEW q \in Repos, NEW what \in {"none", "file", "dir"}, AgentPut(q, what)
      PROVE  Explained' /\ Accounted'
  <2> DEFINE old == {<<slot[q], q>>} \ {<<"none", q>>}
             new == {<<what, q>>} \ {<<"none", q>>}
  <2>1. /\ slot' = [slot EXCEPT ![q] = what] /\ UNCHANGED <<pin, root, branch, admin>>
        /\ slot[q] \in {"none", "link", "file", "dir"}
        /\ had' = (had \cup new) \ old
        /\ late' = late \cup (old \cup new \cup {<<"link", q>>})
    BY <1>4 DEF AgentPut, Theirs, Change, store
  <2>2. \A r \in Repos : slot'[r] = IF r = q THEN what ELSE slot[r]
    BY <1>0, <2>1
  <2>3. /\ \A k, r : r # q \/ k \in {"tree", "pin", "branch", "worktree"} =>
             (<<k, r>> \in had' <=> <<k, r>> \in had) /\ (<<k, r>> \in late' <=> <<k, r>> \in late)
        /\ <<"link", q>> \in late' /\ late \subseteq late'
        /\ what # "none" => <<what, q>> \in late'
        /\ had' \ late' \subseteq had \ late
        /\ \A k \in {"link", "file", "dir"} : slot[q] = k => <<k, q>> \in late'
    BY <2>1
  <2> HIDE DEF old, new
  <2>4. Explained'
    <3>1. ASSUME NEW r \in Repos, slot'[r] \in {"link", "file", "dir"}
          PROVE  <<slot'[r], r>> \in had' \cup late' \/ Will("tree", 0)' \/ Relinked(r)'
      <4>1. CASE r = q
        BY <2>2, <2>3, <3>1, <4>1
      <4>2. CASE r # q
        BY <1>1, <2>2, <2>3, <3>1, <4>2 DEF Explained, Relinked
      <4> QED
        BY <4>1, <4>2
    <3>2. ASSUME NEW r \in Repos
          PROVE  /\ r \in pin' => <<"pin", r>> \in had' \/ Will("pin", r)'
                 /\ branch'[r] = "ours" => <<"branch", r>> \in had' \cup late' \/ Will("branch", r)'
                 /\ branch'[r] = "theirs" => <<"branch", r>> \in had' \cup late'
                 /\ admin'[r] # "none" => <<"worktree", r>> \in had' \/ Will("worktree", r)'
      BY <1>1, <2>1, <2>3 DEF Explained, Relinked
    <3>3. root' => <<"tree", 0>> \in had' \/ Will("tree", 0)'
      BY <1>1, <2>1, <2>3 DEF Explained, Relinked
    <3> QED
      BY <3>1, <3>2, <3>3 DEF Explained, Relinked
  <2>5. Accounted'
    <3>1. had' \subseteq Universe /\ (<<"tree", 0>> \in had' => root' /\ cmd'.verb = "add")
      <4>1. new \subseteq Universe
        BY DEF new, Universe
      <4> QED
        BY <1>0, <2>1, <2>3, <4>1 DEF Accounted, Universe
    <3>2. ASSUME NEW r \in Repos
          PROVE  /\ <<"worktree", r>> \in had' => admin'[r] # "none" /\ ~Asked(r)'
                 /\ <<"branch", r>> \in had' \ late' => branch'[r] # "none" /\ ~Asked(r)'
                 /\ Will("worktree", r)' => slot'[r] = "worktree"
                 /\ Will("link", r)' => Relinks(r)'
      <4>1. Will("worktree", r) => slot[r] = "worktree" /\ r # q
        BY <2>1 DEF Accounted
      <4>2. Will("link", r)' => Relinks(r)'
        BY <1>1, <2>3 DEF Accounted
      <4> QED
        BY <1>1, <2>1, <2>2, <2>3, <4>1, <4>2 DEF Accounted
    <3>3. ASSUME NEW r \in Repos, NEW s \in {"link", "file", "dir"}, <<s, r>> \in had' \ late'
          PROVE  /\ cmd'.verb = "add"
                 /\ \/ slot'[r] = s
                    \/ s = "link" /\ Will("link", r)' /\ slot'[r] \in {"none", "worktree"}
                    \/ s = "file" /\ r \in rec'.links
      <4>1. <<s, r>> \in had \ late
        BY <2>3, <3>3
      <4>2. /\ cmd.verb = "add"
            /\ \/ slot[r] = s
               \/ s = "link" /\ Will("link", r) /\ slot[r] \in {"none", "worktree"}
               \/ s = "file" /\ r \in rec.links
        BY <4>1 DEF Accounted
      <4>3. CASE r = q
        <5>1. s # "link" /\ slot[q] # s
          BY <2>3, <3>3, <4>3
        <5> QED
          BY <1>0, <1>1, <4>2, <4>3, <5>1
      <4>4. CASE r # q
        BY <1>0, <1>1, <2>2, <4>2, <4>4
      <4> QED
        BY <4>3, <4>4
    <3> QED
      BY <3>1, <3>2, <3>3 DEF Accounted, Universe
  <2> QED
    BY <2>4, <2>5
<1>5. CASE Tidy
  BY <1>5 DEF Tidy
<1>6. CASE DoctorSweep
  <2> DEFINE taken == {<<"pin", r>> : r \in pin} \cup IF root' THEN {} ELSE {<<"tree", 0>>}
  <2>1. /\ pin' = {} /\ UNCHANGED <<branch, admin, slot>>
        /\ root' => root
        /\ had' = had \ taken /\ late' = late
    BY <1>6 DEF DoctorSweep, Change, store
  <2>2. /\ \A k, r : k \notin {"pin", "tree"} => (<<k, r>> \in had' <=> <<k, r>> \in had)
        /\ root' => (<<"tree", 0>> \in had' <=> <<"tree", 0>> \in had)
        /\ ~root' => <<"tree", 0>> \notin had'
        /\ had' \subseteq had
    BY <2>1
  <2> HIDE DEF taken
  <2>3. Explained'
    BY <1>1, <2>1, <2>2 DEF Explained, Relinked
  <2>4. Accounted'
    BY <1>0, <1>1, <2>1, <2>2 DEF Accounted, Universe
  <2> QED
    BY <2>3, <2>4
<1> QED
  BY <1>2, <1>3, <1>4, <1>5, <1>6 DEF Meddling

LEMMA DoingStep == Basic /\ Doing /\ [Next]_vars => Doing'
<1> SUFFICES ASSUME Basic, Doing, [Next]_vars PROVE Doing'
  OBVIOUS
<1>1. ASSUME NEW verb, NEW s, NEW seen, Begin(verb, s, seen) PROVE Doing'
  BY <1>1 DEF Begin, Doing
<1>2. CASE \/ Validate \/ MakeTree \/ Pin \/ Ensure \/ FinishStore \/ FetchBase \/ Fetched
           \/ Unlink \/ AddWorktree \/ Lock \/ Build \/ Save
  <2>1. pc \notin {"idle", "undo"}
    BY <1>2 DEF Validate, MakeTree, Pin, Ensure, FinishStore, FetchBase, Fetched, Unlink,
                AddWorktree, Lock, Build, Save
  <2>2. pc' = "idle" \/ last' = last
    BY <1>2 DEF Validate, MakeTree, Pin, Ensure, FinishStore, FetchBase, Fetched, Unlink,
                AddWorktree, Lock, Build, Save, NextRepo, Fail, Goto, Over
  <2> QED
    BY <2>1, <2>2 DEF Doing
<1>3. CASE Rollback
  <2>1. pc = "undo" /\ pc' = "undo" /\ last' \in {last, "hurt"}
    BY <1>3 DEF Rollback
  <2> QED
    BY <2>1 DEF Doing
<1>4. CASE RolledBack \/ Crash
  BY <1>4 DEF RolledBack, Crash, Over, Doing
<1>5. CASE Meddling \/ UNCHANGED vars
  <2>1. pc' = pc /\ (pc # "idle" => last' = last)
    BY <1>5 DEF Meddling, SomeCommit, Commit, MakeOwnBranch, AgentBranch, Tidy, AgentPut, DoctorList,
                DoctorSweep, Theirs, Change, vars
  <2> QED
    BY <2>1 DEF Doing
<1> QED
  BY <1>1, <1>2, <1>3, <1>4, <1>5 DEF Next, Meddling, SomeCommit, New, Add

LEMMA RestoredStays ==
  ASSUME Restored, UNCHANGED <<pin, root, branch, admin, slot, phase, rec, had, late, last>>
  PROVE  Restored'
BY PiecesStay DEF Restored

\* How a command ends, and what is compared when none runs.
LEMMA EndRestored ==
  ASSUME Basic, Tied, Doing, pc = "idle" => Restored, pc # "idle" => Stores,
         Running => Explained /\ Accounted,
         [Next]_vars, pc' = "idle"
  PROVE  Restored'
<1>1. CASE Validate \/ MakeTree \/ RolledBack
  <2>1. /\ undos = <<>> /\ UNCHANGED <<pin, root, branch, admin, slot, phase, rec, had, late>>
        /\ pc # "idle" /\ (last' = "failed" => last # "hurt")
    <3>1. CASE Validate
      <4>1. undos = <<>>
        BY <3>1 DEF Validate, Basic, Control
      <4> QED
        BY <3>1, <4>1 DEF Validate, Doing, store, work, ghost
    <3>2. CASE MakeTree
      <4>1. undos = <<>> /\ Over("failed") /\ root' = root
        BY <3>2 DEF MakeTree, Goto, Basic, Control
      <4> QED
        BY <3>2, <4>1 DEF MakeTree, Doing, store, ghost
    <3>3. CASE RolledBack
      BY <3>3 DEF RolledBack, Over, store, work, ghost
    <3> QED
      BY <1>1, <3>1, <3>2, <3>3
  <2>2. CASE last' # "failed"
    BY <2>2 DEF Restored
  <2>3. CASE last' = "failed"
    <3>1. Running
      BY <2>1, <2>3 DEF Running, Doing
    <3> QED
      BY <2>1, <3>1, FailedRestored
  <2> QED
    BY <2>2, <2>3
<1>2. CASE \/ Pin \/ Ensure \/ FinishStore \/ FetchBase \/ Fetched \/ Unlink \/ AddWorktree
           \/ Lock \/ Build \/ Rollback
  BY <1>2 DEF Pin, Ensure, FinishStore, FetchBase, Fetched, Unlink, AddWorktree, Lock, Build,
              Rollback, NextRepo, Fail, Goto
<1>3. CASE Save \/ Crash
  BY <1>3 DEF Save, Crash, Over, Fail, Goto, Restored
<1>4. ASSUME NEW verb, NEW s, NEW seen, Begin(verb, s, seen) PROVE FALSE
  BY <1>4 DEF Begin
<1>5. CASE Meddling
  <2>1. last' = "none"
    BY <1>5 DEF Meddling, SomeCommit, Commit, MakeOwnBranch, AgentBranch, Tidy, AgentPut, DoctorList,
                DoctorSweep, Theirs, Change
  <2> QED
    BY <2>1 DEF Restored
<1>6. CASE UNCHANGED vars
  BY <1>6, RestoredStays DEF vars
<1> QED
  BY <1>1, <1>2, <1>3, <1>4, <1>5, <1>6 DEF Next, Meddling, SomeCommit, New, Add

\* What others do to the account has nothing to do with stores.
LEMMA StoresApart ==
  ASSUME Basic, Meddling, pc' # "idle", NEW k \in {"partial", "built"}, NEW q \in Repos
  PROVE  <<k, q>> \in had' <=> <<k, q>> \in had
<1>1. ASSUME NEW made, NEW taken, NEW unseen, Change(made, taken, unseen),
             <<k, q>> \notin made \cup taken
      PROVE  <<k, q>> \in had' <=> <<k, q>> \in had
  <2>1. had' = (had \cup made) \ taken
    BY <1>1 DEF Change
  <2> QED
    BY <1>1, <2>1
<1>2. CASE SomeCommit \/ (\E r \in Repos : MakeOwnBranch(r)) \/ Tidy \/ DoctorList
  <2>1. Change({}, {}, {})
    BY <1>2 DEF SomeCommit, Commit, MakeOwnBranch, Tidy, DoctorList, Theirs
  <2> QED
    BY <1>1, <2>1
<1>3. ASSUME NEW r \in Repos, AgentBranch(r) PROVE <<k, q>> \in had' <=> <<k, q>> \in had
  <2>1. PICK unseen : Change({<<"branch", r>>}, {}, unseen)
    BY <1>3 DEF AgentBranch, Theirs
  <2> QED
    BY <1>1, <2>1
<1>4. ASSUME NEW r \in Repos, NEW what \in {"none", "file", "dir"}, AgentPut(r, what)
      PROVE  <<k, q>> \in had' <=> <<k, q>> \in had
  <2> DEFINE old == {<<slot[r], r>>} \ {<<"none", r>>}
             new == {<<what, r>>} \ {<<"none", r>>}
  <2>1. Change(new, old, old \cup new \cup {<<"link", r>>})
    BY <1>4 DEF AgentPut, Theirs
  <2>2. slot[r] \in {"none", "link", "file", "dir"}
    BY <1>4 DEF AgentPut
  <2>3. <<k, q>> \notin new \cup old
    BY <2>2
  <2> HIDE DEF old, new
  <2> QED
    BY <1>1, <2>1, <2>3
<1>5. CASE DoctorSweep
  <2> DEFINE taken == {<<"pin", r>> : r \in pin} \cup IF root' THEN {} ELSE {<<"tree", 0>>}
  <2>1. Change({}, taken, {})
    BY <1>5 DEF DoctorSweep
  <2>2. <<k, q>> \notin taken
    OBVIOUS
  <2> HIDE DEF taken
  <2> QED
    BY <1>1, <2>1, <2>2
<1> QED
  BY <1>2, <1>3, <1>4, <1>5 DEF Meddling

LEMMA StoresStep ==
  ASSUME Basic, Basic', Tied, pc # "idle" => Stores, [Next]_vars, pc' # "idle"
  PROVE  Stores'
<1>0. phase \in [Repos -> {"absent", "partial", "built"}] /\ (pc # "idle" => at \in Repos)
  BY DEF Basic, TypeOK, Control
<1>1. ASSUME NEW verb, NEW s, NEW seen, Begin(verb, s, seen) PROVE Stores'
  <2>1. phase' = phase /\ had' = Pieces /\ pc' = "validate"
    BY <1>1 DEF Begin, store
  <2> QED
    BY <2>1, PiecesOf DEF Stores
<1>2. ASSUME UNCHANGED <<phase, had>>, pc \notin {"idle", "clone", "undo"}, pc' # "clone" PROVE Stores'
  BY <1>0, <1>2 DEF Stores
<1>3. CASE Validate \/ MakeTree \/ Pin \/ FetchBase \/ Fetched \/ Unlink \/ AddWorktree \/ Build
           \/ Save
  <2>1. UNCHANGED <<phase, had>> /\ pc \notin {"idle", "clone", "undo"}
    BY <1>3 DEF Validate, MakeTree, Pin, FetchBase, Fetched, Unlink, AddWorktree, Build, Save,
                store, ghost
  <2>2. pc' # "clone"
    BY <1>3 DEF Validate, MakeTree, Pin, FetchBase, Fetched, Unlink, AddWorktree, Build, Save,
                NextRepo, Fail, Goto, Over
  <2> QED
    BY <1>2, <2>1, <2>2
<1>4. CASE Lock
  <2>1. UNCHANGED <<phase, had>> /\ pc = "lock" /\ pc' # "clone"
    BY <1>4 DEF Lock, NextRepo, Fail, Goto, ghost
  <2> QED
    BY <1>2, <2>1
<1>5. CASE Ensure
  <2>1. pc = "ensure" /\ had' = had /\ at' = at /\ Stores
    BY <1>5 DEF Ensure, Fail, Goto
  <2>2. CASE phase[at] = "absent" /\ phase' = [phase EXCEPT ![at] = "partial"] /\ pc' = "clone"
    <3>1. \A r \in Repos : phase'[r] = IF r = at THEN "partial" ELSE phase[r]
      BY <1>0, <2>2
    <3>2. <<"partial", at>> \notin had /\ <<"built", at>> \notin had
      BY <1>0, <2>1, <2>2 DEF Stores
    <3> QED
      BY <1>0, <2>1, <2>2, <3>1, <3>2 DEF Stores
  <2>3. CASE phase' = phase /\ pc' # "clone"
    BY <1>2, <2>1, <2>3
  <2> QED
    BY <1>5, <2>2, <2>3 DEF Ensure, Fail, Goto
<1>6. CASE FinishStore
  <2>1. pc = "clone" /\ had' = had /\ at' = at /\ Stores
    BY <1>6 DEF FinishStore, Fail, Goto, ghost
  <2>2. CASE phase' = [phase EXCEPT ![at] = "built"] /\ pc' = "fetch"
    <3>1. \A r \in Repos : phase'[r] = IF r = at THEN "built" ELSE phase[r]
      BY <1>0, <2>2
    <3> QED
      BY <1>0, <2>1, <2>2, <3>1 DEF Stores
  <2>3. CASE phase' = phase /\ pc' = "undo"
    BY <2>1, <2>3 DEF Stores
  <2> QED
    BY <1>6, <2>2, <2>3 DEF FinishStore, Fail, Goto
<1>7. CASE Rollback
  <2>1. UNCHANGED <<phase, had, at, pc>> /\ pc = "undo"
    BY <1>7 DEF Rollback
  <2> QED
    BY <2>1 DEF Stores
<1>8. CASE RolledBack \/ Crash
  BY <1>8 DEF RolledBack, Crash, Over
<1>9. CASE Meddling
  <2>1. UNCHANGED <<phase, at, pc>>
    BY <1>9 DEF Meddling, SomeCommit, Commit, MakeOwnBranch, AgentBranch, Tidy, AgentPut, DoctorList,
                DoctorSweep, Theirs, Change, store
  <2>2. \A k \in {"partial", "built"} : \A r \in Repos : <<k, r>> \in had' <=> <<k, r>> \in had
    BY <1>9, StoresApart
  <2> QED
    BY <1>0, <2>1, <2>2 DEF Stores
<1>10. CASE UNCHANGED vars
  <2>1. UNCHANGED <<phase, had, at, pc>>
    BY <1>10 DEF vars
  <2> QED
    BY <2>1 DEF Stores
<1> QED
  BY <1>1, <1>3, <1>4, <1>5, <1>6, <1>7, <1>8, <1>9, <1>10
     DEF Next, Meddling, SomeCommit, New, Add

LEMMA RunningStep ==
  ASSUME Basic, Basic', BuiltInv, LookedUp, Tied, Ordered, Registered, Doing,
         Running => Explained /\ Accounted, [Next]_vars, Running'
  PROVE  Explained' /\ Accounted'
<1>0. pc' # "idle" /\ last' = "running"
  BY DEF Running
<1>1. ASSUME NEW verb \in {"new", "add"}, NEW s \in SUBSET Repos, s # {}, NEW seen,
             Begin(verb, s, seen), verb = "new" => ~root
      PROVE  Explained' /\ Accounted'
  BY <1>1, BegunAccounted
<1>2. CASE \/ Validate \/ MakeTree \/ Pin \/ Ensure \/ FinishStore \/ FetchBase \/ Fetched
           \/ Unlink \/ AddWorktree \/ Lock \/ Build \/ Save
  <2>1. pc \notin {"idle", "undo"}
    BY <1>2 DEF Validate, MakeTree, Pin, Ensure, FinishStore, FetchBase, Fetched, Unlink,
                AddWorktree, Lock, Build, Save
  <2>2. Explained /\ Accounted
    BY <2>1 DEF Doing, Running
  <2> QED
    BY <1>0, <1>2, <2>1, <2>2, OnwardsAccounted
<1>3. CASE Rollback
  <2>1. pc = "undo" /\ last' \in {last, "hurt"}
    BY <1>3 DEF Rollback
  <2>2. Explained /\ Accounted
    BY <1>0, <2>1 DEF Running
  <2> QED
    BY <1>0, <1>3, <2>2, RollbackAccounted
<1>4. CASE RolledBack \/ Crash
  BY <1>0, <1>4 DEF RolledBack, Crash, Over
<1>5. CASE Meddling
  <2>1. pc' = pc /\ (pc # "idle" => last' = last)
    BY <1>5 DEF Meddling, SomeCommit, Commit, MakeOwnBranch, AgentBranch, Tidy, AgentPut, DoctorList,
                DoctorSweep, Theirs, Change
  <2>2. pc # "idle" /\ Explained /\ Accounted
    BY <1>0, <2>1 DEF Running
  <2> QED
    BY <1>5, <2>2, MeddlingAccounted
<1>6. CASE UNCHANGED vars
  <2>1. /\ UNCHANGED <<undos, had, late, cmd, rec, pin, root, branch, admin, slot, pc, at, last>>
    BY <1>6 DEF vars
  <2>2. Explained /\ Accounted
    BY <1>0, <2>1 DEF Running
  <2>3. \A r : Asked(r)' <=> Asked(r)
    BY <2>1 DEF Asked
  <2> QED
    BY <2>1, <2>2, <2>3, ForwardStill
<1>7. CASE \E s \in (SUBSET Repos) \ {{}} : \E seen \in SUBSET Repos : New(s, seen)
  BY <1>1, <1>7 DEF New
<1>8. CASE \E r \in Repos : Add(r)
  BY <1>1, <1>8 DEF Add
<1> QED
  BY <1>2, <1>3, <1>4, <1>5, <1>6, <1>7, <1>8 DEF Next, Meddling, SomeCommit

LEMMA RestoredInit == Init => RestoredInv /\ Registered
<1> SUFFICES ASSUME Init PROVE RestoredInv /\ Registered
  OBVIOUS
<1>1. undos = <<>> /\ pc = "idle" /\ last = "none"
  BY DEF Init
<1>2. InOrder(undos) /\ \A what, r : ~Will(what, r)
  BY <1>1, NoUndos, WillPrimed
<1>3. Tied
  BY DEF Init, Tied
<1>4. Ordered
  BY <1>1, <1>2 DEF Ordered, Loop
<1> QED
  BY <1>1, <1>3, <1>4 DEF RestoredInv, Registered, Doing, Running, Restored

LEMMA RestoredStep ==
  Basic /\ Basic' /\ BuiltInv /\ LookedUp /\ Registered /\ RestoredInv /\ [Next]_vars
    => RestoredInv'
<1> SUFFICES ASSUME Basic, Basic', BuiltInv, LookedUp, Registered, RestoredInv, [Next]_vars
             PROVE  RestoredInv'
  OBVIOUS
<1>0. /\ Tied /\ Ordered /\ Doing
      /\ pc = "idle" => Restored
      /\ pc # "idle" => Stores
      /\ Running => Explained /\ Accounted
  BY DEF RestoredInv
<1>1. Tied'
  BY <1>0, TiedStep
<1>2. Ordered'
  BY <1>0, OrderedStep
<1>3. Doing'
  BY <1>0, DoingStep
<1>4. pc' = "idle" => Restored'
  BY <1>0, EndRestored
<1>5. Running' => Explained' /\ Accounted'
  BY <1>0, RunningStep
<1>6. pc' # "idle" => Stores'
  BY <1>0, StoresStep
<1> QED
  BY <1>1, <1>2, <1>3, <1>4, <1>5, <1>6 DEF RestoredInv

\* A command that failed, and was neither killed nor let down by an undo, has
\* left of its own only stores, no more than one of them half built, and the
\* link its undo has made where the record knows of one, and has taken only
\* stale pins and a file in that link's place; the rest is as it found it, or
\* others have changed it: whatever step fails, in a creation or a graft, over
\* any number of repositories.
THEOREM FailuresLeaveNothing == Spec => []Restored
<1>1. Basic /\ Ordered /\ Registered /\ [Next]_vars => Registered'
  BY RegisteredStep
<1>2. RestoredInv => Restored /\ Ordered
  <2>1. pc # "idle" /\ Doing => Restored
    BY DEF Doing, Restored
  <2> QED
    BY <2>1 DEF RestoredInv, Doing, Restored
<1> QED
  BY BasicInit, BasicStep, BuiltInit, BuiltStep, LookedUpInit, LookedUpStep, RestoredInit,
     RestoredStep, <1>1, <1>2, PTL DEF Spec

=============================================================================
