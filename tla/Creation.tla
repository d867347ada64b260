------------------------------- MODULE Creation -------------------------------
(***************************************************************************)
(* Building a task: wkt new over several repositories, and wkt add, which  *)
(* grafts one more.  Each step that makes something pushes its undo first  *)
(* or next, as the code does; a failure runs the undos from the last to    *)
(* the first, and an undo that fails is silent.  The command holds the     *)
(* container lock and the task's, so there is one command at a time; the   *)
(* developer, the agents of other tasks (who share the stores), the agent  *)
(* of this task and wkt doctor take no lock and act between any two steps. *)
(*                                                                         *)
(* History is a list of commits in the order in which the refs wkt cuts a  *)
(* task from came to show them, each with the second its committer wrote   *)
(* on it: a commit may be pulled, or merged from a side branch, long after *)
(* its date.  Clocks are honest: no commit is dated later than it arrives  *)
(* or before its parents.  What those refs show is not always on a local   *)
(* branch: git fetch moves origin/HEAD and leaves the branches behind.     *)
(***************************************************************************)
EXTENDS Integers, Sequences, FiniteSets, FiniteSetsExt

CONSTANTS
  N,           \* repositories of the workspace, in the order of a selection
  MaxEvents,   \* bound: how often others act, an undo fails or wkt is killed
  MaxClock,    \* bound: seconds that go by between commits
  Faults,      \* what may go wrong: "step", "undo", "crash"
  Moves        \* who acts besides: "developer", "agents", "tree", "doctor"

AllFaults == {"step", "undo", "crash"}
AllMoves == {"developer", "agents", "tree", "doctor"}

ASSUME NAssumption == N \in Nat \ {0}
ASSUME EventsBound == MaxEvents \in Nat
ASSUME ClockBound == MaxClock \in Nat
ASSUME FaultsAssumption == Faults \subseteq AllFaults
ASSUME MovesAssumption == Moves \subseteq AllMoves

Repos == 1..N
\* A commit that is merged comes with the merge.
Times == 0..(2 * MaxEvents)
Clock == 0..MaxClock

VARIABLES
  own,     \* repositories whose developer has a branch of the task's name
  log,     \* the commits so far, by arrival: the repository and the date
  now,     \* the clock, in seconds
  main,    \* per repository: the newest commit its local branches hold
  phase,   \* per store: "absent", "partial" or "built"
  held,    \* the newest commit the store holds
  branch,  \* the store's branch of the task's name: "none", "ours", "theirs"
  admin,   \* the worktree's registration: "none", "added", "locked"
  pin,     \* repositories holding refs/wkt/base/<task>
  root,    \* trees/<task> exists
  slot,    \* what is at the repository's place in the tree
  rec,     \* the task's record; one without repositories is no record
  pc, cmd, at, base, undos,   \* the command
  sweeping,  \* a doctor --fix that has listed the tasks: this was none
  swept,     \* pins it has deleted under a creation
  had,       \* what was there when the command began, and what others have
             \* made or taken since
  late,      \* what changed after the command had looked, or unlooked at
  events,    \* how often any of that has happened
  last       \* how the last command ended

store == <<phase, held, branch, admin>>
work  == <<pin, root, slot, rec>>
world == <<own, log, now, main>>
ghost == <<swept, had, late, events>>
vars  == <<own, log, now, main, phase, held, branch, admin, pin, root, slot,
           rec, pc, cmd, at, base, undos, sweeping, swept, had, late, events,
           last>>

NoRec == [repos |-> {}, links |-> {}, from |-> 0, upto |-> 0, epoch |-> 0]
NoCmd == [verb |-> "none", sel |-> {}, seen |-> {}, from |-> 0, upto |-> 0,
          epoch |-> 0]
Recorded == rec.repos # {}

Labels == {"idle", "validate", "mkdir", "pin", "ensure", "clone", "fetch",
           "fetched", "unlink", "worktree", "lock", "build", "save", "undo"}


\* What is on disk, piece by piece, to compare what is with what was.
Pieces ==
  (IF root THEN {<<"tree", 0>>} ELSE {})
  \cup {<<"pin", r>> : r \in pin}
  \cup {<<"branch", r>> : r \in {q \in Repos : branch[q] # "none"}}
  \cup {<<"worktree", r>> : r \in {q \in Repos : admin[q] # "none"}}
  \cup {<<slot[r], r>> : r \in {q \in Repos : slot[q] # "none"}}
  \cup {<<phase[r], r>> : r \in {q \in Repos : phase[q] # "absent"}}

Init ==
  /\ own = {} /\ log = <<>> /\ now = 0 /\ main = [r \in Repos |-> 0]
  /\ phase \in [Repos -> {"absent", "partial", "built"}]
  /\ held = [r \in Repos |-> 0]
  /\ branch = [r \in Repos |-> "none"]
  /\ admin = [r \in Repos |-> "none"]
  /\ pin = {} /\ root = FALSE /\ slot = [r \in Repos |-> "none"]
  /\ rec = NoRec
  /\ pc = "idle" /\ cmd = NoCmd /\ at = 0 /\ undos = <<>>
  /\ base = [r \in Repos |-> 0]
  /\ sweeping = FALSE /\ swept = {}
  /\ had = {} /\ late = {} /\ events = 0 /\ last = "none"

-----------------------------------------------------------------------------
(* The command: how it begins, goes on, fails and ends.                    *)

Goto(l) == pc' = l /\ UNCHANGED <<cmd, at, base, last>>

\* Over: of the bases those on record stay.
Over(result) ==
  /\ pc' = "idle" /\ cmd' = NoCmd /\ at' = 0 /\ last' = result
  /\ base' = [r \in Repos |->
       IF r \in rec.repos \/ (result = "done" /\ r \in cmd.sel)
         THEN base[r] ELSE 0]

\* A step fails: the undos run.
Fail == Goto("undo")

Event == events < MaxEvents /\ events' = events + 1

\* Something a step does may fail instead.
MayFail == "step" \in Faults

Undo(what) == [do |-> what, r |-> at]

\* (mutant) counted, whatever is selected, and one too far.
NextRepo_OneTooFar(first, l) ==
  /\ IF at <= N THEN at' = at + 1 /\ pc' = first
               ELSE at' = Min(cmd.sel) /\ pc' = l
  /\ UNCHANGED <<cmd, last>>

\* On to the first step of the next selected repository, or to l.
NextRepo(first, l) ==
  LET rest == {r \in cmd.sel : r > at}
  IN /\ IF rest # {} THEN at' = Min(rest) /\ pc' = first
                     ELSE at' = Min(cmd.sel) /\ pc' = l
     /\ UNCHANGED <<cmd, last>>

Begin(verb, s, seen) ==
  /\ pc = "idle"
  /\ cmd' = [verb |-> verb, sel |-> s, seen |-> seen, from |-> Len(log),
             upto |-> 0, epoch |-> 0]
  /\ at' = Min(s) /\ pc' = "validate" /\ last' = "running"
  /\ had' = Pieces /\ late' = {}
  /\ UNCHANGED <<store, world, work, base, undos, sweeping, swept, events>>

\* The workspace as discovered: s is selected, the rest of it is linked.
New(s, seen) == ~Recorded /\ ~root /\ s \subseteq seen /\ Begin("new", s, seen)

Add(r) == Recorded /\ r \notin rec.repos /\ Begin("add", {r}, {})

\* (mutant) the store is not asked.
Taken_OwnOnly(r) == r \in own

\* A branch of the name stands in the way, in the developer's repository or
\* in the store, if there is one.
Taken(r) == r \in own \/ (phase[r] # "absent" /\ branch[r] # "none")


\* The date of a commit; a repository's first is older than any clock here.
Dated(i) == IF i = 0 THEN 0 ELSE log[i].date

\* Of the first n commits, the repository's that are dated no later than e.
Before(r, n, e) == {i \in 1..n : log[i].repo = r /\ log[i].date <= e}

\* The one git meets first on its way back through history, which it walks by
\* date: the latest, and of those of the same second the last to arrive.
Newest(r, n, e) ==
  LET latest == Max({0} \cup {log[i].date : i \in Before(r, n, e)})
  IN Max({0} \cup {i \in Before(r, n, e) : log[i].date = latest})

\* What the repository's base ref showed when n commits had arrived.
TipAt(r, n) == Newest(r, n, MaxClock)

\* (mutant) a repository that joins is taken as it is today.
BaseOf_Today(r) == TipAt(r, Len(log))

\* resolveBase for a new task; for a repository that joins baseAtEpoch, which
\* searches what the ref shows today for a date, and a date has a second.
BaseOf(r) ==
  Newest(r, Len(log), IF cmd.verb = "new" THEN MaxClock ELSE rec.epoch)

\* Something at the repository's place in the tree that is not the link the
\* record knows of.
Occupied(r) == cmd.verb = "add" /\ r \notin rec.links /\ slot[r] # "none"

\* Validate and validateOne.  A repository that came to the workspace after
\* the task was cut may have no commit that old.
Validate ==
  /\ pc = "validate"
  /\ \/ /\ Taken(at) \/ Occupied(at)
        /\ Over("failed")
     \/ /\ cmd.verb = "add" /\ at \notin rec.links
        /\ Over("failed")
     \/ /\ ~(Taken(at) \/ Occupied(at))
        /\ base' = [base EXCEPT ![at] = BaseOf(at)]
        /\ NextRepo("validate", IF cmd.verb = "new" THEN "mkdir" ELSE "pin")
  /\ UNCHANGED <<store, world, work, undos, sweeping, ghost>>

MakeTree ==
  /\ pc = "mkdir"
  /\ \/ /\ root' = TRUE /\ undos' = <<[do |-> "tree", r |-> 0]>> /\ Goto("pin")
     \/ MayFail /\ Over("failed") /\ UNCHANGED <<root, undos>>
  /\ UNCHANGED <<store, world, pin, slot, rec, sweeping, ghost>>

\* store.Ensure begins with the pin, whose undo is registered before.
Pin ==
  /\ pc = "pin"
  /\ undos' = Append(undos, Undo("pin"))
  /\ \/ pin' = pin \cup {at} /\ Goto("ensure")
     \/ MayFail /\ Fail /\ UNCHANGED pin
  /\ UNCHANGED <<store, world, root, slot, rec, sweeping, ghost>>

\* (mutant) a directory is taken for a store.
Adoptable_AnyDirectory(r) == phase[r] # "absent"

Adoptable(r) == phase[r] = "built"

\* It refuses a store that is not finished and begins one that is not there.
\* A bare clone brings the developer's local branches, and what they hold.
Ensure ==
  /\ pc = "ensure"
  /\ \/ /\ phase[at] = "absent"
        /\ phase' = [phase EXCEPT ![at] = "partial"]
        /\ held' = [held EXCEPT ![at] = main[at]]
        /\ branch' = [branch EXCEPT ![at] = IF at \in own THEN "theirs" ELSE @]
        /\ late' = late \cup {<<"branch", r>> : r \in {at} \cap own}
        /\ Goto("clone")
     \/ /\ Adoptable(at)
        /\ Goto("fetch") /\ UNCHANGED <<phase, held, branch, late>>
     \/ /\ (phase[at] # "absent" /\ ~Adoptable(at)) \/ MayFail
        /\ Fail /\ UNCHANGED <<phase, held, branch, late>>
  /\ UNCHANGED <<admin, world, work, undos, sweeping, swept, had,
                 events>>

FinishStore ==
  /\ pc = "clone"
  /\ \/ phase' = [phase EXCEPT ![at] = "built"] /\ Goto("fetch")
     \/ MayFail /\ Fail /\ UNCHANGED phase
  /\ UNCHANGED <<held, branch, admin, world, work, undos, sweeping, ghost>>

\* (mutant) the fetch is trusted to bring it.
HasObject_Trusted(r) == TRUE

HasObject(r) == held[r] >= base[r]

\* FetchWorkspace brings the local branches, for a new task only when the
\* base is missing.  An add refuses if it is missing still; new goes on.
FetchBase ==
  /\ pc = "fetch"
  /\ \/ /\ cmd.verb = "new" /\ HasObject(at)
        /\ Goto("worktree") /\ UNCHANGED held
     \/ /\ cmd.verb = "add" \/ ~HasObject(at)
        /\ held' = [held EXCEPT ![at] = Max({@, main[at]})]
        /\ Goto(IF cmd.verb = "new" THEN "worktree" ELSE "fetched")
     \/ MayFail /\ Fail /\ UNCHANGED held
  /\ UNCHANGED <<phase, branch, admin, world, work, undos, sweeping, ghost>>

\* Add alone: the base must be there, and the link makes way.  Whatever
\* stands where the record says there is a link is removed as the link,
\* unless it is a directory that is not empty.
Fetched ==
  /\ pc = "fetched"
  /\ IF HasObject(at)
       THEN undos' = Append(undos, Undo("branch")) /\ Goto("unlink")
       ELSE Fail /\ UNCHANGED undos
  /\ UNCHANGED <<store, world, work, sweeping, ghost>>

Unlink ==
  /\ pc = "unlink"
  /\ \/ at \notin rec.links /\ Goto("worktree") /\ UNCHANGED <<slot, undos>>
     \/ /\ at \in rec.links /\ slot[at] \in {"none", "link", "file"}
        /\ slot' = [slot EXCEPT ![at] = "none"]
        /\ undos' = Append(undos, Undo("link"))
        /\ Goto("worktree")
     \/ /\ (at \in rec.links /\ slot[at] = "dir") \/ MayFail
        /\ Fail /\ UNCHANGED <<slot, undos>>
  /\ UNCHANGED <<store, world, pin, root, rec, sweeping, ghost>>

\* New registers it here, before the call; add has done so already.
BranchUndo == IF cmd.verb = "new" THEN <<Undo("branch")>> ELSE <<>>

\* worktree add -b: it may fail before or after it has made the branch.  It
\* does not take a path that is occupied or already registered.
AddWorktree ==
  /\ pc = "worktree"
  /\ \/ /\ branch[at] = "none" /\ admin[at] = "none" /\ slot[at] = "none"
        /\ HasObject(at)
        /\ branch' = [branch EXCEPT ![at] = "ours"]
        /\ admin' = [admin EXCEPT ![at] = "added"]
        /\ slot' = [slot EXCEPT ![at] = "worktree"]
        /\ root' = TRUE
        /\ undos' = undos \o BranchUndo \o <<Undo("worktree")>>
        /\ Goto("lock")
     \/ /\ \/ branch[at] # "none" \/ admin[at] # "none" \/ slot[at] # "none"
           \/ ~HasObject(at) \/ MayFail
        /\ Fail /\ undos' = undos \o BranchUndo
        /\ UNCHANGED <<branch, admin, slot, root>>
     \/ /\ MayFail /\ branch[at] = "none" /\ HasObject(at)
        /\ branch' = [branch EXCEPT ![at] = "ours"]
        /\ Fail /\ undos' = undos \o BranchUndo
        /\ UNCHANGED <<admin, slot, root>>
  /\ UNCHANGED <<phase, held, world, pin, rec, sweeping, ghost>>

\* worktree lock, and the registration's name is read back.
Lock ==
  /\ pc = "lock"
  /\ \/ /\ admin' = [admin EXCEPT ![at] = "locked"]
        /\ NextRepo("pin", "build") /\ UNCHANGED base
     \/ /\ MayFail /\ Fail
        /\ \/ UNCHANGED admin
           \/ admin' = [admin EXCEPT ![at] = "locked"]
  /\ UNCHANGED <<phase, held, branch, world, work, undos, sweeping, ghost>>

\* New alone: the links, and the clock is read; then, for both, what is
\* carried and the perimeter, of which only that they may fail counts here.
Build ==
  /\ pc = "build"
  /\ LET links == IF cmd.verb = "new" THEN cmd.seen \ cmd.sel ELSE {}
     IN \E made \in SUBSET links :
          /\ slot' = [r \in Repos |-> IF r \in made THEN "link" ELSE slot[r]]
          /\ \/ /\ made = links
                /\ cmd' = [cmd EXCEPT !.upto = Len(log), !.epoch = now]
                /\ pc' = "save" /\ UNCHANGED <<at, base, last>>
             \/ MayFail /\ Fail
  /\ UNCHANGED <<store, world, pin, root, rec, undos, sweeping, ghost>>

Save ==
  /\ pc = "save"
  /\ \/ /\ rec' = IF cmd.verb = "new"
                    THEN [repos |-> cmd.sel, links |-> cmd.seen \ cmd.sel,
                          from |-> cmd.from, upto |-> cmd.upto,
                          epoch |-> cmd.epoch]
                    ELSE [rec EXCEPT !.repos = @ \cup cmd.sel,
                                     !.links = @ \ cmd.sel]
        /\ undos' = <<>> /\ Over("done")
     \/ MayFail /\ Fail /\ UNCHANGED <<rec, undos>>
  /\ UNCHANGED <<store, world, pin, root, slot, sweeping, ghost>>

-----------------------------------------------------------------------------
(* Rollback.                                                               *)

\* (mutant) in the order in which they were registered.
NextUndo_First == 1

\* The last undo registered is the first to run.
NextUndo == Len(undos)

\* branch -D: git refuses while a worktree is registered on the branch, and
\* an agent may have it checked out.
UndoBranch(r) ==
  /\ \/ /\ admin[r] = "none"
        /\ branch' = [branch EXCEPT ![r] = "none"]
     \/ /\ admin[r] # "none" \/ branch[r] = "theirs"
        /\ UNCHANGED branch
  /\ UNCHANGED <<admin, pin, root, slot>>

UndoWorktree(r) ==
  /\ admin' = [admin EXCEPT ![r] = "none"]
  /\ slot' = [slot EXCEPT ![r] = "none"]
  /\ UNCHANGED <<branch, pin, root>>

UndoLink(r) ==
  /\ slot' = [slot EXCEPT ![r] = IF @ = "none" THEN "link" ELSE @]
  /\ UNCHANGED <<branch, admin, pin, root>>

UndoPin(r) == pin' = pin \ {r} /\ UNCHANGED <<branch, admin, root, slot>>

UndoTree ==
  /\ root' = FALSE /\ slot' = [r \in Repos |-> "none"]
  /\ UNCHANGED <<branch, admin, pin>>

\* Whether an undo worked nobody asks.
Rollback ==
  /\ pc = "undo" /\ undos # <<>>
  /\ LET u == undos[NextUndo]
     IN \/ /\ \/ u.do = "branch" /\ UndoBranch(u.r)
              \/ u.do = "worktree" /\ UndoWorktree(u.r)
              \/ u.do = "link" /\ UndoLink(u.r)
              \/ u.do = "pin" /\ UndoPin(u.r)
              \/ u.do = "tree" /\ UndoTree
           /\ UNCHANGED <<last, events>>
        \/ /\ "undo" \in Faults /\ Event
           /\ last' = "hurt"
           /\ UNCHANGED <<branch, admin, pin, root, slot>>
  /\ undos' = [i \in 1..(Len(undos) - 1) |->
                 IF i < NextUndo THEN undos[i] ELSE undos[i + 1]]
  /\ UNCHANGED <<phase, held, world, rec, pc, cmd, at, base, sweeping, swept,
                 had, late>>

RolledBack ==
  /\ pc = "undo" /\ undos = <<>>
  /\ Over(IF last = "hurt" THEN "hurt" ELSE "failed")
  /\ UNCHANGED <<store, world, work, undos, sweeping, ghost>>

Crash ==
  /\ pc # "idle" /\ "crash" \in Faults /\ Event
  /\ undos' = <<>> /\ Over("hurt")
  /\ UNCHANGED <<store, world, work, sweeping, swept, had, late>>

-----------------------------------------------------------------------------
(* The others, who take no lock.                                           *)

\* A change of theirs is none of the command's; what it can not know of, it
\* is not blamed for.  With no command running there is nothing to compare.
Change(made, taken, unseen) ==
  /\ IF pc = "idle"
       THEN had' = {} /\ late' = {} /\ last' = "none"
       ELSE /\ had' = (had \cup made) \ taken
            /\ late' = late \cup unseen
            /\ UNCHANGED last
  /\ UNCHANGED <<pc, cmd, at, base, undos>>

Theirs(made, taken, unseen) == Event /\ Change(made, taken, unseen)

\* The developer commits, or fetches commits made before: his branches follow
\* or not.  One older than what the ref shows comes with a merge.
Commit(r, pulled, tick, date) ==
  /\ "developer" \in Moves
  /\ now' = now + tick /\ now' \in Clock /\ date <= now'
  /\ log' = log \o
       IF date < Dated(TipAt(r, Len(log)))
         THEN <<[repo |-> r, date |-> date], [repo |-> r, date |-> now']>>
         ELSE <<[repo |-> r, date |-> date]>>
  /\ main' = [main EXCEPT ![r] = IF pulled THEN Len(log') ELSE @]
  /\ Theirs({}, {}, {})
  /\ UNCHANGED <<own, store, work, sweeping, swept>>

MakeOwnBranch(r) ==
  /\ "developer" \in Moves /\ r \notin own \cup rec.repos
  /\ own' = own \cup {r}
  /\ Theirs({}, {}, {})
  /\ UNCHANGED <<log, now, main, store, work, sweeping, swept>>

\* He clears away by hand what a command has left.
Tidy ==
  /\ "developer" \in Moves /\ pc = "idle" /\ ~Recorded
  /\ \/ root
     \/ \E r \in Repos : branch[r] = "ours"
  /\ root' = FALSE /\ slot' = [r \in Repos |-> "none"]
  /\ admin' = [r \in Repos |-> "none"]
  /\ branch' = [r \in Repos |-> IF branch[r] = "ours" THEN "none" ELSE branch[r]]
  /\ Theirs({}, {}, {})
  /\ UNCHANGED <<world, phase, held, pin, rec, sweeping, swept>>

\* The agent of another task makes a branch in a store they share.
AgentBranch(r) ==
  /\ "agents" \in Moves /\ phase[r] = "built" /\ branch[r] = "none"
  /\ branch' = [branch EXCEPT ![r] = "theirs"]
  /\ Theirs({<<"branch", r>>}, {},
            IF pc = "validate" /\ r >= at THEN {} ELSE {<<"branch", r>>})
  /\ UNCHANGED <<phase, held, admin, world, work, sweeping, swept>>

\* The agent of this task changes what is at a place of the tree.
AgentPut(r, what) ==
  /\ "tree" \in Moves /\ Recorded /\ slot[r] \in {"none", "link", "file", "dir"}
  /\ what \in {"none", "file", "dir"} \ {slot[r]}
  /\ slot' = [slot EXCEPT ![r] = what]
  /\ LET old == {<<slot[r], r>>} \ {<<"none", r>>}
         new == {<<what, r>>} \ {<<"none", r>>}
     IN Theirs(new, old, old \cup new \cup {<<"link", r>>})
  /\ UNCHANGED <<store, world, pin, root, rec, sweeping, swept>>

\* wkt doctor --fix lists the tasks and later deletes the pins and an empty
\* tree of those it has not seen.
DoctorList ==
  /\ "doctor" \in Moves /\ ~sweeping /\ ~Recorded
  /\ sweeping' = TRUE
  /\ Theirs({}, {}, {})
  /\ UNCHANGED <<store, world, work, swept>>

DoctorSweep ==
  /\ sweeping /\ sweeping' = FALSE
  /\ pin' = {}
  /\ swept' = swept \cup {r \in pin : r \in cmd.sel \cup rec.repos}
  /\ root' = (root /\ \E r \in Repos : slot[r] # "none")
  /\ Change({}, {<<"pin", r>> : r \in pin}
                \cup IF root' THEN {} ELSE {<<"tree", 0>>}, {})
  /\ UNCHANGED <<store, world, slot, rec, events>>

-----------------------------------------------------------------------------
(* What must hold.                                                         *)

TypeOK ==
  /\ own \subseteq Repos /\ now \in Clock
  /\ log \in Seq([repo : Repos, date : Clock]) /\ Len(log) \in Times
  /\ main \in [Repos -> Times] /\ held \in [Repos -> Times]
  /\ base \in [Repos -> Times]
  /\ phase \in [Repos -> {"absent", "partial", "built"}]
  /\ branch \in [Repos -> {"none", "ours", "theirs"}]
  /\ admin \in [Repos -> {"none", "added", "locked"}]
  /\ pin \subseteq Repos /\ root \in BOOLEAN
  /\ slot \in [Repos -> {"none", "link", "worktree", "file", "dir"}]
  /\ rec \in [repos : SUBSET Repos, links : SUBSET Repos,
              from : Times, upto : Times, epoch : Clock]
  /\ pc \in Labels /\ at \in Repos \cup {0}
  /\ cmd \in [verb : {"none", "new", "add"}, sel : SUBSET Repos,
              seen : SUBSET Repos, from : Times, upto : Times,
              epoch : Clock]
  /\ undos \in Seq([do : {"tree", "pin", "branch", "worktree", "link"},
                    r : Repos \cup {0}])
  /\ sweeping \in BOOLEAN /\ swept \subseteq Repos /\ events \in Times
  /\ last \in {"none", "running", "done", "failed", "hurt"}

\* What a command that failed, and was neither killed nor let down by an undo,
\* leaves behind of its own is only what no undo is for: the stores it has
\* built, at most one of them half (Ensure undoes nothing, and the next try
\* is refused there), and in place of a link the record knows of, but that was
\* gone, a new one.  Of what was there when it began, or came while it ran,
\* it has taken nothing but pins of an earlier crash, which it overwrites,
\* and a file that stood where the record has a link.  Left out is what
\* changed where the command had looked already.
Restored ==
  last = "failed" =>
    LET new == Pieces \ (had \cup late)
    IN /\ \A x \in new : \/ x[1] \in {"partial", "built"}
                         \/ x[1] = "link" /\ x[2] \in rec.links
       /\ \A x, y \in new :
            x[1] = y[1] /\ x[1] \in {"partial", "link"} => x = y
       /\ had \ Pieces \subseteq late \cup {<<"pin", r>> : r \in Repos}
                               \cup {<<"file", r>> : r \in rec.links}

\* A record tells the truth at every moment, also while a graft fails: each
\* of its repositories has a locked worktree on the task's own branch, with
\* its base in a finished store and pinned, unless doctor took the pin.
RecordIsBuilt ==
  \A r \in rec.repos :
    /\ branch[r] = "ours" /\ admin[r] = "locked" /\ slot[r] = "worktree"
    /\ phase[r] = "built" /\ held[r] >= base[r]
    /\ r \in pin \cup swept

\* A task is a slice of time: each base is what its repository showed at some
\* moment between the beginning of the creation and the recorded epoch, for
\* those that joined later too, whatever has been committed since.  But a
\* repository that joined may stand at a commit that came later and is dated
\* between the two, the one it showed at the epoch and the epoch itself.
SliceOfTime ==
  \A r \in rec.repos :
    /\ Dated(base[r]) <= rec.epoch
    /\ \/ base[r] \in {TipAt(r, n) : n \in rec.from..rec.upto}
       \/ base[r] > rec.upto /\ Dated(TipAt(r, rec.upto)) <= Dated(base[r])

\* (the comment on add) A grafted repository is cut where the others were,
\* not at what its history has taken in since.
CutAtEpoch ==
  \A r \in rec.repos :
    base[r] \in {TipAt(r, n) : n \in rec.from..rec.upto}

\* No branch the command could have seen is deleted by it, if another has
\* made it.
ForeseenSpared ==
  [][\A r \in Repos :
       branch[r] = "theirs" /\ branch'[r] # "theirs"
         => <<"branch", r>> \in late]_vars

Standing(r) == [absent |-> "absent", partial |-> "building",
                built |-> "standing"][phase[r]]
Users(r) == IF admin[r] = "none" THEN {} ELSE {"task"}

Promise(r) == INSTANCE StorePromise WITH
  Tasks <- {"task"}, phase <- Standing(r), users <- Users(r)

\* Seen from a store, whatever fails in the middle of a task: it is built at
\* most once, and a worktree comes only to one that is finished.
KeepsPromise ==
  [][\A r \in Repos :
       Promise(r)!Next \/ (Standing(r)' = Standing(r) /\ Users(r)' = Users(r))]_vars

\* (the comment at the check after an add's fetch) What the fetch leaves
\* missing is history that was rewritten; here it never is.
FetchBringsBase == pc \in {"fetched", "worktree"} => HasObject(at)

\* (the comment on the graft) The link is not an obstacle, anything else at
\* its place is: an add takes nothing away but the link.
OnlyLinkTaken ==
  [][\A r \in Repos : slot[r] = "file" /\ pc = "unlink" => slot'[r] = "file"]_vars

-----------------------------------------------------------------------------
Next ==
  \/ \E s \in (SUBSET Repos) \ {{}} : \E seen \in SUBSET Repos : New(s, seen)
  \/ \E r \in Repos : Add(r)
  \/ Validate \/ MakeTree \/ Pin \/ Ensure \/ FinishStore \/ FetchBase
  \/ Fetched \/ Unlink \/ AddWorktree \/ Lock \/ Build \/ Save
  \/ Rollback \/ RolledBack \/ Crash
  \/ \E r \in Repos : \E pulled \in BOOLEAN : \E tick \in {0, 1} :
       \E date \in Clock : Commit(r, pulled, tick, date)
  \/ \E r \in Repos : MakeOwnBranch(r) \/ AgentBranch(r)
  \/ Tidy
  \/ \E r \in Repos : \E what \in {"none", "file", "dir"} : AgentPut(r, what)
  \/ DoctorList \/ DoctorSweep

Spec == Init /\ [][Next]_vars
=============================================================================
