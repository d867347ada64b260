# wkt in TLA+

`wkt` gives a coding agent a tree of its own over a workspace of several git
repositories. It is a command-line program without a daemon: every command is a
process, several run at once, and what they share are files under one
*container* (locks, task records, bare stores, trees, staging) and refs in the
developer's repositories. What can go wrong is therefore the order in which
processes read and write those files, what is left when one dies, and what the
agent and the developer, who take no locks, do in between. That is what these
modules model.

All paths below are relative to `src/internal/`.

## 1. The system

| Component | State | Operations | Right when |
|---|---|---|---|
| Command line `cli/cli.go` | none of its own | init, new, add, post-create, sync, fetch, repair, hook worktree-create / worktree-remove / session-start, doctor, perimeter, path, status, rm | every verb loads, saves and locks in an order that no other verb's writes can fall into |
| Container locks `container/container.go` | `<root>/.wkt.lock`, `locks/<task>.lock` (flock, polled until a deadline of ten seconds) | Lock, LockTask; release on exit or death | never two holders, no circle of waiting processes |
| Task records `state/state.go` | `state/tasks/<task>.json`, written by rename | Save, Load, List | a record exists exactly while its task does, and matches the stores |
| Creation `task/create.go` | - | Validate, Create with LIFO undos, refreshSiblings | all or nothing; siblings learn of the new tree |
| Grafting `task/add.go` | - | Add, one repository at a time; the base by the epoch's date | the record names every worktree |
| Removal `task/remove.go` | `staging/<task>`, `refs/wkt/removed/<task>` | Preflight, Remove (fence), finishRemove, keepUnpushed, refreshAfterRemoval | refuses while work would be lost; resumable; loses no commit |
| Repair `task/repair.go` | - | Repair, relocate | links and worktrees stand again after a move |
| Stores `store/store.go` | `store/<id>.git` | Ensure, adoptable, stamp, bridgeConfig | self-contained, hardened, marked only when complete |
| Fetch `task/fetch.go` | the developer's branches | two passes over the repositories | never forces, never moves a checked-out branch, whole task or nothing |
| Sync, collisions `task/sync.go`, `task/collide.go` | - | report only | counts and conflicts are right |
| Perimeter `perimeter/` | `.claude/settings.json` in the trees | Write, Verify, Stale | each tree denies exactly the other tasks' trees |
| Post-create seam `postcreate/` | back-fill links, produced slots | withdraw, run the script, restore, record | the script never reaches the workspace through a link |
| Doctor `doctor/doctor.go` | - | checks; `--fix` sweeps stray pins | touches nothing that belongs to a task |
| Tree mirror `tree/`, `carry/`, `artifact/` | files of a tree, slots in the record | PlanFor, Materialise, carry | the tree mirrors the workspace and shares no repository with it |
| Discovery `workspace/` | - | Walk, classify, markNested | finds every repository a task can have |
| Hook payloads, paths, git runner, errors | - | pure or read-only | - |

Interactions. The verbs call each other's packages in one process and meet
other processes only in files. new, add and rm take the container lock and,
holding it, wait for the task's lock; new and add drop the container lock before
the script runs, rm keeps both; post-create takes only the task's lock. sync, fetch,
repair, perimeter, doctor and the worktree-remove and session-start hooks take
neither. Creation and grafting call `store.Ensure`, which writes the base pin
into the developer's repository before anything else and then builds or adopts
the store. Creation and removal rewrite the perimeter and the record of every
other task.

Hard behaviours: verbs that read a record and write it back after waiting;
scripts that run for minutes under one of two locks; a removal in phases that
may be cut short anywhere and is finished by the next one; a store build of ten
git commands with no undo; checks followed by actions with the agent or the
developer in between. `PROJECT.json` lists each as a hazard at its line.

## 2. The modules

| Module | What it is |
|---|---|
| `Lifecycle` | the container shared by several processes running any verb |
| `LifecycleProofs` | types and lock nesting of `Lifecycle`, proved |
| `LifecycleOwnership` | records, staging, trees, scripts and the container at rest of `Lifecycle`, proved |
| `Creation` | `wkt new` and `wkt add` step by step, with their undos |
| `CreationProofs` | all or nothing, the record, the slice of time, whose branches go, stores: `Creation`, proved |
| `Store` | one repository's store, `Ensure` command by command |
| `StorePromise` | what a store promises its tasks: the abstract specification |
| `StoreProofs` | `Store` keeps its invariants and implements `StorePromise`, proved |
| `Mirror` | what of a workspace goes where in a tree: the pure definitions |
| `Tree` | the life of one tree: mirror, agent, script, seam, move, repair |
| `TreeProofs` | no link of a tree shares a repository, links stand again, work is asked about, untouched trees can be removed, trees mirror: proved |
| `Perimeter` | the settings files in all trees and everybody who writes them |
| `PerimeterProofs` | nobody's own settings file is written over, proved |
| `Removal` | one removal check by check, with an agent at work |
| `RemovalProofs` | what a removal never loses, proved |
| `Fetch` | both passes of `wkt fetch`, with agent and developer at work |
| `FetchProofs` | what a fetch does to the developer's branches, proved |
| `MC*` | instances for TLC: symmetry sets, paths, layouts |

How they fit together. `Lifecycle` is the whole container at the grain at which
processes see each other: a creation, a Preflight, a perimeter write are one
step each. The other modules open one of those steps:
`Creation` the creation and the graft, `Store` the `Ensure` inside of them,
`Tree` the Materialise inside of the creation and what the seam and repair do
in the tree, `Perimeter` the settings files, `Removal` the Preflight and
finishRemove. Opening a step for one process only is sound where the locks are
held (`Creation`, `Store`, `Removal`); where they are not, the module has the
others in it (`Perimeter` has several processes, `Tree` seam and repair side by
side). `Store` and `Creation` meet in `StorePromise`: `Store` implements it
under `Phase`, and `Creation`, which knows of a store only absent, partial or built,
implements it for every repository under `Standing` and `Users`; both are
proved to.

### Lifecycle

State: the holders of the two kinds of flock (`cLock`, `tLock`); `rec`, the
records (repositories with a worktree, whether produced slots are recorded, the
siblings the recorded perimeter hash stands for); `tree` (`"shell"` is a
directory re-created by a settings file written into a tree that is gone);
`staged`; `git` (stores with the task's branch and worktree); `pin`; `links`
(back-fill links present); `perim` (siblings named in the settings files). Per
process: `pc`, `cmd` and `mem`, which holds what has been read and not yet
written back: the code's local `t`, `other`, `names`.

Every verb is cut at each lock, between Load and Save, around the script, and
at each step of a removal; between two cuts the code touches nothing another
process can see change. Action names follow the verbs: `NewCheck` .. `NewSave`
are `task.Create`, `RefreshLoad`/`RefreshSave` are refreshSiblings and
refreshAfterRemoval, `AddLoad` .. `AddReload` are `task.Add` and cli's add,
`PostLoad` and `Seam*` are post-create and runSeam, `Rm*` are `task.Remove`,
`Start*` session-start and perimeter, `Repair*`, `Doctor*`. `GiveUp` is a poll
that finds the flock taken after the deadline, `Crash` the death of a process
with both flocks released by the kernel. `RefreshFails` is the error refreshSiblings and
refreshAfterRemoval drop for one sibling; `missed` remembers which siblings' last
refresh failed or was cut short. `Faults` switches failing builds,
failing deletes, failing refreshes and crashes on.

### Creation

Per repository: the store (`phase`, the newest commit it holds in `held`, the
branch of the task's name and whose it is, the worktree's registration and its
lock), the pin, and what stands at its place in the tree. The command has a
label `pc`, the repository it is `at`, the bases resolved so far, and the stack
of `undos`; a step pushes its undo where the code does, `Fail` runs the stack
from the last to the first (`Rollback`), an undo may fail in silence and wkt be
killed anywhere. `log` is the list of commits in the order in which the base
refs came to show them, each with its committer date; `now` is the clock, in the whole
seconds the recorded epoch and `rev-list --before` go by. `TipAt` is what a ref showed
when so many commits had arrived, `BaseOf` what wkt cuts from: for a graft, what the
date search of baseAtEpoch (`Newest`) finds in today's ref, which may be a commit
that came after the epoch with an older date (fetched late, or merged), or one of the same
second. Clocks are honest: no commit is dated after its arrival, nor before its parents.
Developer (`Commit`, pulled or only fetched, of any date; `MakeOwnBranch`, `Tidy`), other
tasks' agents (`AgentBranch`), this task's agent (`AgentPut`) and `doctor --fix`
(`DoctorList`, `DoctorSweep`) act between any two steps.

### Store and StorePromise

`store` is `Absent` or a record of what the build has done so far: objects copied, alternates
still there, origin, its refspec, the workspace remote, the hardening written
locally, the bridged setting, the marker. Each git command of `Ensure` is an
action; `Stop` ends the call at any of them, as a failing command or a kill
would, and undoes nothing. `Problems` is `invariants()`, which reads git's
*merged* configuration, so `ambient` (the developer's own gc and hooks settings)
answers as well. `Develop` lets the developer change all four things `Ensure`
only reads, at any moment. That `invariants()` gets an answer to each of its
questions is assumed: four of them count a failure as a problem, the one about origin
passes it over (`store.go:151`), which needs a second git failure besides, the swallowed
`remote remove`, to let a wrong origin through.

`StorePromise` knows a store as absent, building or standing, and lets tasks
join only a standing one. `Phase` is the refinement mapping.

### Mirror and Tree

A workspace is a function from paths to kinds (`Kinds`), a path a sequence of
names. `Mirror` holds the definitions without state: `Repositories` (Walk,
markNested), `Hides` (findNestedRepo), `PlanFor`, `CarryPlan`, `Snapshot`. It
also says, without the plan, what a mirror is for: `Should` gives for every
path what one must find there.

`Tree` is one task. `Walk`, `Worktrees`, `Plan`, `LinkRepository`, `LinkDir`,
`Copy`, `CopyStray`, `Carry`, `Save` are `wkt new`; every link and every copy is
a step of its own, and `Develop` changes the workspace in between. `Agent` and
`Script` then write and delete in the tree. `Seam*` and `Withdraw` are runSeam:
links go away one by one, `Snapshot` is taken before and after, what is new is
recorded as produced, the links come back. `Move` moves workspace and container
together, `Fix*` are `wkt repair` step by step (relocate is `Swap`, on paths as
sequences of names, where the container's path begins with the workspace's), `Crash`
kills either in the middle; `FixWorktrees` may leave worktrees detached, as git may fail there.
`Blockers` is Preflight's verdict on the files of
the tree as a function of the state, so that what `wkt rm` would say can be asked at any time.
Of the settings files wkt writes into the worktrees only one thing matters to it: the questions
about changes and the walk know them for wkt's own (ownedByWkt), the question about ignored files
does not. `Veiled` are the repositories whose rules ignore `.claude`, `Veils` what that question
then reports. The settings files themselves are `Perimeter`'s, and no path of `Tree`'s.

### Perimeter

`file` is what stands at the settings path of each directory of each tree: a
document (known by the siblings it names, edited or not), somebody's own file, a symlink,
nothing. `record` has the directories covered and the document whose hash is
recorded, and which directories the task has. A process loads a task's record (`Load`), judges its directories
(`Check`: checkOwned, the cap of MaxPaths), writes them one by one (`Put`, which
may fail, as the saving may: `PutFails`) and saves (`Save`). `Add` is a graft: the record is loaded, a
directory joins, the tasks are listed (`List`) and one task's copies are written. new, add and rm
exclude each other by the container lock; `wkt perimeter`, the write of `wkt repair` after
a move, which is the same (`Perimeter`), and session-start run beside everything. A save that lost to
an add drops the directory that has joined from the record (`has`).

### Removal

A *work* is something somebody would miss, and `where` says where it is: a
changed file, an ignored file, a paused rebase, a commit on the branch, on a detached HEAD or
on another branch, in a submodule, in a repository created in the tree, at the
tree root, in a loose copy; pushed; parked under `refs/wkt/removed`. `Checks` is Preflight's order of
questions, `Walk` and `Slots` the two passes over the tree, `Verdict` the rules
about `--force`, `Fence` the rename, `Ends` finishRemove's order for each
repository, `Delete` and `Forget` the rest. The agent makes work, moves it
forward (towards what is looked at later: file, commit, remote), back, and
switches HEAD; the user deletes by hand and reuses the name. A directory may become
unreadable for a while (`Close`, `Open`): git status and the walk, which returns nil for every error,
pass over what is in it (`unread` remembers), and RemoveAll stumbles over it. The agent can go on in the staged tree
until his worktree is pruned: git still works there, since a worktree finds its
store by an absolute path.

### Fetch

A commit is its history, a sequence of changes, and an ancestor is a prefix.
`Check` is the first pass, `Bring` the second, which fetches what the store's
branch is *by then*. The refusals of `git fetch` itself (checked-out branch,
no fast-forward, impossible name) are `Refused`; a git command that fails otherwise, in
either pass, is `GitFails`. The calls the first pass makes for one repository are
one look: what it decides counts only in the properties of fetches nobody has disturbed, in which
nothing changes between two calls; the others rest on `Bring` alone.

## 3. The runs

Bounds are chosen so that every action fires and every hazard can happen;
`expect: violation` runs show a disagreement between the code and what its
comments say.

| Run | Instance | States | Shows |
|---|---|---|---|
| `Lifecycle_faults` | 2 processes, 1 task, 2 repositories, all faults | 28,736 | `TypeOK`, `StagedOwned`, `TreeTakenByOwner` |
| `Lifecycle_tasks` | 2 processes, 2 tasks, 2 repositories, script | 50,322 | `NoCircularWait`, `ScriptIsolated`, `ScriptKeepsTree`, `NoRevival` |
| `Lifecycle_quiet` | as above, no script, failing builds and refreshes | 126,162 | `RecordMatchesDisk`, `PerimeterCurrent`, `GraftsSurvive` |
| `Lifecycle_ends` | 2 processes, all eight verbs, all faults, fair | 89,737 | `CommandsEnd` |
| `Store_builds` | 2 tasks, 2 identities, ambient gc and hooks settings | 22,928 | `TypeOK`, `SelfContained`, `TracksOrigin`, `BridgeFollows`, `KeepsPromise` |
| `Creation_builds` | 2 repositories, 2 events, 2 seconds, all faults, everybody acting | 1,653,183 | `TypeOK`, `Restored`, `RecordIsBuilt`, `SliceOfTime`, `ForeseenSpared`, `KeepsPromise` |
| `Perimeter_heals` | 2 tasks, 2 directories, 2 processes, 3 events, fair | 625,330 | `TypeOK`, `ForeignSpared`, `Heals` |
| `Tree_lives` | 6 paths, workspaces of up to 3 entries, 2 events, 4 layouts lived in, 2 places, one repository ignoring `.claude` | 720,944 | `TypeOK`, `Mirrors`, `NothingShared`, `WorkBlocks`, `LinksStand`, `UntouchedRemovable` |
| `Removal_guarded` | 1 work, 2 repositories, every move and fault | 5,436,584 | `TypeOK`, `NothingLost`, `ForeignSpared`, `BranchKept` |
| `Fetch_meddled` | 2 fetches, 2 repositories, 1 change deep, everybody meddling, git failing | 1,842,047 | `TypeOK`, `ForeseenOrDisturbed`, `Delivered`, `NeverForced`, `HeadLeftAlone` |
| `Creation_missing_base` | violation, 1 repository, 1 event | | `FetchBringsBase`: a base that is only fetched is on no local branch, and a store gets nothing else |
| `Tree_unasked` | violation, 1 repository, 2 events | | `UnaskedIsSafe`: what git could not be asked about before the script counts as the script's after it |

Why the bounds are enough. *Lifecycle*: two processes are what a lost update, a
revival or a removal under a script takes; two tasks let one process refresh
the other's task; with two repositories a task has both a worktree and a link.
A circle of waits would take two processes as well, and for any number the
absence of one is proved. *Creation*: `N` = 2 gives a task a first repository
already built when the second fails, and a graft into a task of one;
`MaxEvents` bounds together the commits, branches, agents' moves, failing undos
and kills: two allow for a commit between resolving and the epoch and one after it, with
an older date or of the same second, or for a clashing branch after Validate and a death
of the undo; two seconds (`MaxClock` = 1) are before and after an epoch. *Store*: tasks matter by being attached or not, and
two identities are what a bridge can confuse. *Tree*: the six paths are an
ancestor, a repository below it, two files in that, a place beside and a name
that tools regenerate; `MaxEntries` = 3 has a repository, one nested or beside and a
file or symlink; every such workspace is mirrored, and `Lived` names the four of which a tree lives on
(a nested and a top-level repository; an ignored file; an ignored directory with a
file beside; nothing to link or carry), as the rest differ in nothing the
later steps look at. `MaxEvents` = 2 allows a kill and a move, or a kill and a write.
`Places` are two: in one the container's path begins with the workspace's, as
`<workspace>.worktrees` does, in the other not. *Perimeter*: two directories
let one be somebody's own file while the other is covered; `Wide` makes one task exceed
MaxPaths as soon as it has a sibling. *Removal*: the loops over the repositories need a second one to
get out of step; a work can be in every place, and the properties speak of one
work each. Two works in one repository (N = 1) were checked as well
(7,425,384 states); they add the overwritten park and nothing else. *Fetch*: half
a task needs two repositories, rewriting and diverging need one change on top
of the base.

`CHECK_DEADLOCK FALSE` is set for `Removal_guarded`, where a task that is gone for
good is the normal end; for `Tree_*`, where a refused task is; and for `Creation_*`
and `Perimeter_heals`, where everything may have been done when the bounded events are used up.

### The properties

- Ownership (`StagedOwned`, `TreeTakenByOwner`, `NoRevival`,
  `RecordMatchesDisk`): a staged tree always has a record from which a later rm finds it;
  a tree leaves only with its owner; a record comes back only through a
  creation; at rest records, trees, stores, pins and links agree.
- Locks (`NoCircularWait`, `CommandsEnd`).
- The script (`ScriptIsolated`, `ScriptKeepsTree`).
- Siblings (`PerimeterCurrent`): at rest every task denies exactly the others, but for the siblings
  whose last refresh failed, and no more of them than that. Grafts (`GraftsSurvive`).
- All or nothing (`Restored`, `RecordIsBuilt`, `SliceOfTime`,
  `ForeseenSpared`): a failed command takes nothing away and leaves nothing but the stores
  it has begun, the last of them perhaps half (the next try then ends with
  WKT_STORE_INCOMPLETE), and a link where the record has one that was gone; a
  record is true at every moment; the bases of a task lie at one epoch, also when
  a repository joins days later, by what was there then or has come since with a date
  before it; and no branch the command could have seen goes with its undo.
- Stores (`SelfContained`, `TracksOrigin`, `BridgeFollows`, `KeepsPromise`).
- The tree (`Mirrors`, `NothingShared`, `LinksStand`): what one finds at each
  path, which repositories links may lead to, and that seam and repair bring
  the links back.
- What rm says (`WorkBlocks`, `UntouchedRemovable`): two sides of one line. The
  agent's files always keep rm from the tree, and nothing but somebody's work does, apart from what
  `Foreseen` lists: wkt's own settings file under an ignored `.claude`, and three things it carries or
  copies in. `WorkBlocks` asks for a blocker besides those settings files, which would otherwise
  answer for everything.
- Settings files (`ForeignSpared` of `Perimeter`, `Heals`).
- Work (`NothingLost`, `ForeignSpared` of `Removal`, `BranchKept`): without `--force`, only
  what was made, or moved behind the checks' back, after the removal began can
  go, and what lay in a directory that could not be read when it was looked for: such a
  directory is passed over, keeps RemoveAll from finishing, and goes with the next `wkt rm`, which
  finds the tree staged and asks nothing, if it can be read again by then. The order of the checks follows the direction work normally takes, which
  is why work on its way is not missed; a `git reset` during the seconds of a
  Preflight can be.
- The developer's branches (`NeverForced`, `HeadLeftAlone`,
  `ForeseenOrDisturbed`, `Delivered`).

Several properties name an exception (`late`, `swept`, `missed`, `unread`, `excused`, `blind`,
`folded`, `Foreseen`). Each is kept by the model as history, is as narrow as TLC allows,
and is a behaviour listed in section 5.

### Fairness

`Lifecycle_ends`: weak fairness of each process's own steps. The
operating system schedules a runnable process, git and the file system answer, a
poll with a deadline never blocks, and the script ends (the hook stops it after
eight minutes; on the command line the user can). Starting a command and crashing
are not fair. `Perimeter_heals`: the same for each process that is at the
settings files, and strong fairness of a session starting in each task's tree:
`Heals` says what happens if sessions are started there again and again, not
that they are (strong, because between two starts the processes may be busy).
`MaxEvents` makes tasks and agents come to rest. All other properties are safety and use no fairness.

## 4. The proofs

Checked by TLAPS for all values of the constants, under the modules' named
assumptions (which TLC evaluates in the runs).

| Theorem | Says | Argument |
|---|---|---|
| `LifecycleProofs!TypeCorrect` | `Spec => []TypeOK` | `TypeOK` plus what each label implies about `cmd` and `mem` (a process past a Load has a record in hand), inductive over the thirty-odd actions |
| `LifecycleProofs!LocksNest` | `[]NoCircularWait`, any number of processes | whoever holds a task's lock waits for nothing, whoever holds the container does not wait for the container; hence a chain of two waits ends in a running process |
| `LifecycleOwnership!StagedHasRecord` | `[]StagedOwned` | see below |
| `LifecycleOwnership!RemovedStaysRemoved` | `NoRevival` | see below |
| `LifecycleOwnership!TreeLeavesWithOwner` | `TreeTakenByOwner` | see below |
| `LifecycleOwnership!ScriptsHaveATask` | `[]ScriptKeepsTree`, verbs new, add and rm, all faults | see below |
| `LifecycleOwnership!ScriptsMeetNoLink` | `[]ScriptIsolated`, verbs new, add and rm, no failing graft | see below |
| `LifecycleOwnership!RecordsKeepGrafts` | `GraftsSurvive`, verbs that lock, no script, all faults | see below |
| `LifecycleOwnership!RestingTasksAreWhole` | `[]RecordMatchesDisk`, verbs that lock, no script, failing builds | see below |
| `LifecycleOwnership!RestingTreesAreTold` | `[]PerimeterCurrent`, verbs that lock, no script, all faults | see below |
| `StoreProofs!StoreTyped` | `[]TypeOK` | typing |
| `StoreProofs!TasksAreSelfContained` | `[]SelfContained` | what has been done when the build stands at each label; the order of the build makes a workspace remote imply everything before it |
| `StoreProofs!OriginIsTracked` | `[]TracksOrigin` | as above: no check looks at the refspec, only the order protects it |
| `StoreProofs!BridgesFollow` | `BridgeFollows`, whatever is reconfigured meanwhile | the bridge compares anew each time it runs |
| `StoreProofs!MarkersTell` | `[]MarkerTells` for `Ambients = {}` | `Truthful`: with nothing set by the developer, what the stat at the beginning sees is in the store itself. The hypothesis is necessary, see section 5 |
| `StoreProofs!StoreImplementsPromise` | `KeepsPromise` | each step maps to a step of `StorePromise` or a stutter |
| `CreationProofs!CreationTyped` | `[]TypeOK` | typing, and what each label says of the command and its undos (`Control`) |
| `CreationProofs!RecordsTellTheTruth` | `[]RecordIsBuilt`, any number of repositories, all faults | see below |
| `CreationProofs!TasksAreSlicesOfTime` | `[]SliceOfTime`, however much is committed, in any order of dates | see below |
| `CreationProofs!ForeseenBranchesSpared` | `ForeseenSpared`, whoever makes branches | see below |
| `CreationProofs!StoresKeepTheirPromise` | `KeepsPromise` for every repository | each step does at most one thing to a store (`OneThing`), which is a step of `StorePromise` or a stutter |
| `PerimeterProofs!PerimeterTyped` | `[]TypeOK`, which says too that no task's tree is denied to itself | typing, and that a process past its load has a task in hand |
| `PerimeterProofs!ForeignFilesSpared` | `ForeignSpared`, any number of processes | see below |
| `TreeProofs!NothingIsShared` | `[]NothingShared`, any paths, target, depth | see below |
| `CreationProofs!FailuresLeaveNothing` | `[]Restored`, any number of repositories, whoever acts besides | see below |
| `TreeProofs!TreeTyped` | `[]TypeOK`, which says that every file stands in directories | `Shape`: typing, labels, and that only what is a directory has something below |
| `TreeProofs!WorkIsAsked` | `[]WorkBlocks` | see below |
| `TreeProofs!LinksAreMended` | `[]LinksStand`, any places none inside another | see below |
| `TreeProofs!UntouchedIsRemovable` | `[]UntouchedRemovable`, any layout, any ignored `.claude`, through kills, moves and repairs | see below |
| `TreeProofs!TreesMirror` | `[]Mirrors`, any paths, layout and depth of discovery | see below |
| `RemovalProofs!RemovalTyped` | `[]TypeOK` | typing |
| `RemovalProofs!CommitsAreParked` | `BranchKept`, any works and repositories, forced or not | see below |
| `RemovalProofs!WorkIsSpared` | `NothingLost`, all faults, directories that cannot be read | see below |
| `RemovalProofs!RepositoriesAreSpared` | `ForeignSpared`, the same | see below |
| `FetchProofs!FetchTyped` | `[]TypeOK` | typing; needs a history of at least the base (`HistoryAssumption`) |
| `FetchProofs!BranchesAreNotForced` | `NeverForced`, any number of fetches | `Refused`: git moves a branch forward or not at all; the developer only appends |
| `FetchProofs!CheckedOutIsLeftAlone` | `HeadLeftAlone` | `Bring` refuses a checked-out branch at the moment it moves, not at the check |
| `FetchProofs!FailuresAreForeseen` | `[]ForeseenOrDisturbed`, git failing anywhere | see below |
| `FetchProofs!EverythingArrives` | `[]Delivered` | see below |

The three ownership theorems assume `Verbs \subseteq LockedVerbs`, the verbs
that lock. None of the properties is inductive: a Save may write a record back
for a task that is gone unless the saver, or whoever could remove the task, is
locked out. The invariant adds that a process between Load and Save holds a
lock every remover needs (the container's, or the task's own), and that the
record it will save still exists; with it each action preserves the properties
one conjunct at a time. The assumption is necessary: section 5 lists what the
lock-free verbs do.

The other five of `LifecycleOwnership` assume more. The hypotheses on faults (of
`ScriptIsolated` and `RecordMatchesDisk`) and on the
script are needed: TLC shows a counterexample for each fault admitted beyond them, and
with a script for the last three (section 5 has the behaviours). So is leaving out
post-create and worktree-remove for the two about the script, repair for `ScriptIsolated`,
session-start for the last three, worktree-remove for the last two, and repair and doctor
for `RecordMatchesDisk`. With the other verbs (session-start and doctor next to a script, for
example) TLC finds no counterexample on two processes, but the theorems do not speak of them, as
the ownership invariant does not.

- `ScriptKeepsTree`: new and add take the task's lock before they let go of the container's, so
  from its commit to the end of its script nobody can remove the task (`Standing`:
  everybody on that stretch has a recorded task with a tree). post-create is no part of it: it
  reads the record before it waits, and the task may be gone by then.
- `ScriptIsolated`: the record a seam withdraws links by has to tell of every
  repository that has a link, in the tree or in the hands of another seam. `Apart` says that of all
  the records of a task, on disk and in any process's hand: nobody's link is where one
  of them has a worktree. A failing graft breaks it, its undo makes a link whoever is at work there.
- `GraftsSurvive`: without a script only holders of the container lock save records,
  and what one of them has in hand is what is on disk (`Frank`).
- `RecordMatchesDisk`: every task that no command is in the middle of is `Whole`,
  and one that is in hand is as its command's label says (`Midway`). Links count
  together with those a post-create will put back (`Back`): it runs without the container
  lock, and the property itself speaks of links only where no one holds the task's lock. A
  delete that fails, or a death, leaves a task half removed by design (`rm` is then repeated), so
  these are excluded; failing builds are not.
- `PerimeterCurrent`: each recorded task is current, still before the refresh that
  runs (`Told`), of which there is one at a time, or `missed`: its last refresh failed, or died
  before it came to it. A failing graft has rewritten
  the settings with what they said before. No fault has to be excluded, as `missed` tells
  whom each of them hits, and whoever is saved again is out of it.

A record says nothing of how its repositories came about, so `RecordIsBuilt`
needs an invariant about the command as well (`BuiltInv`): the repositories the
command has passed are built, and the one it is `at` as far as its label says.
A rollback cannot hurt a recorded repository, as undos are only of selected
ones (`Control`) and a graft selects none of those on record. `SliceInv` does
the same for the bases: one that has been found is the tip of a moment since the
beginning and, once the clock has been read, not after the epoch; commits only
append to `log`, so a moment keeps its tip (`TipStays`). For a graft `Placed` is what
the search by date finds: the tip of the epoch, unless something that arrived later is dated
after it and not after the epoch. That the clock is honest (`DatedBy`: what
had arrived at the epoch is dated by it) is what makes the two meet. `LookedUp` says that a
branch of another's in a repository past validateOne is one that came later,
or with a store cloned since; only the undo of such a repository deletes one.

`ForeignFilesSpared` is about a step, and needs to know why the step was going
to happen: `Judged` says of every process at its writes that what it still has to write is
nobody else's file, unless the file changed after the process had looked or the record
it went by has a hash for the directory. Other processes can disturb `Judged`
only by writing documents of wkt's, agents only by what counts as changed.

`NothingIsShared` rests on two facts: what stands somewhere stands in
directories all the way up (`Closed`, which `Develop` has to keep), and from
there that findNestedRepo, which follows one symlink and looks below, sees
every repository one can come to without another symlink (`SharedIsSeen`). The
invariant then carries "as far as the workspace was like this when the link
was placed" through everything that happens later.

`FailuresLeaveNothing` is the other half of a creation: what a failed command
leaves. While one runs, all that is there was there before, came from others, or has an undo
that will take it away (`Explained`), and all that was there is still there,
was taken by others, or comes back (`Accounted`). That is inductive only with
the order the undos are in (`Ordered`: the tree's is the first, and none for the same repository
lies above a worktree's, as git deletes no branch that is checked out), with
what goes with what in a store (`Tied`: no worktree without the branch), and with an undo
being on the stack before what it undoes (`Registered`). Two things no undo takes away:
a store (`Stores`: a half built one that the command has not found is the one it is `at`) and
the link of a graft, which its undo makes whether or not it was there (`Relinked`). When the
stack is empty, what is left of all that is the property.

In `RemovalProofs` each property is again about the step that deletes. `Watched`
says, check by check, that no old work is in a place already looked at, unless
it has been reported or could not be read: work only moves in the direction of the checks, or
else becomes `fresh`. `Judged` carries this from the verdict to the fence and the deletion. For
`BranchKept` no check helps, as `--force` excuses the one for commits; the argument (`Parking`)
is finishRemove's order per repository, prune before keep before drop: after the prune
the agent cannot commit any more, so what keepUnpushed has parked is all there was.
`ForeignWatched` follows the walk for repositories created in the tree, which
`--force` does not excuse.

In `FetchProofs` the invariant is about fetches that have been left alone
(`Undisturbed`) and whose git commands worked: what the first pass has found of the repositories before the one in
hand is still true of them (`Judged`), and what the second has done about them too
(`Settled`). A failure of the second pass is then a checked-out branch
(`ForeseenOrDisturbed`), and success leaves nothing over (`Delivered`).

`WorkIsAsked` says that a file goes without asking only for a reason. The
invariant (`Owed`) is that every path recorded as produced is excused, blind or
folded; so that the second snapshot cannot add another, all that this snapshot would have
(`Fresh`) must be in the first one or excused, while the script runs. The exception
`folded` came out of this proof, see section 5.

`LinksAreMended` needs to know where everybody stands (`Lead`): at each slot is
a link or room for one, unless somebody has taken it (`Sound`); while nothing is broken,
each leads where it should or the seam holds it (`Fine`); and a repair that
began after what was broken has mended every slot that is no longer on its list. That
`relocate` turns every recorded path into the right one is `SwapFollows`. It needs
that no container is at or above a workspace, and that a workspace has one
container: `PlacesAssumption`, which the code justifies, as the container is
put beside the workspace, under a longer name, or below the user's home. With the two prefix tests in the
other order, the mutant of that run, the lemma is false.

`UntouchedIsRemovable` needs a reason for everything that stands in a tree in which nobody
but wkt and its script has been (`Kept`). What wkt placed is as it was placed (`Pristine`). A
file in a worktree is git's or carried, or the script's, ignored and reported by git under its own
name (`Inside`). What is around the worktrees is a copy, on the way to a worktree or slot, the
name of a cache, produced, or made while a script is watched (`Around`); and what the seam
saw before the script is still there when it looks again (`Seen`). Preflight asks
in that order, so when seam and repair rest no reason is missing. `Owed` and `Lead` enter for what is
recorded as produced and for the links. wkt's own settings files are not among the reasons: the
question about ignored files has none for them, so the theorem is about repositories that
do not ignore `.claude` (`Veils = {}`, part of `Foreseen`).

`TreesMirror` relates a half made tree to its plan (`Mirrored`): while the workspace
rests, the links and copies that stand are the plan's without what is still to do, what git
checked out agrees with the workspace, and whatever else there is lies on the way to them. With that no
step of the placing finds its place taken (`RoomForLinks`, `PlacedStand`). The
plan itself covers everything: of the paths at or above one, the highest that is not on the way to a
selected repository is a leaf of the plan (`Highest`, an induction over the length of
paths; `WayIsAbove`, `PlanIs`), and a refusal is an unknown repository or a symlink to one
(`HidesIsHopeless`).

Each of the invariants was checked by TLC on the run's constants before it was proved.

Only model-checked is what must happen eventually, `CommandsEnd` and `Heals`: fairness needs
ENABLED, which TLAPS does not reason about. Every invariant and every action property of
a passing run is proved; the hypotheses the table names hold in the runs that check them.

## 5. What the models found

With a run that shows it:

1. `task/add.go:101`: a task's base is the commit of `origin/HEAD`, a store is
   only given local branches. After a `git fetch` without a pull the base is in
   none of them: `wkt new` fails, `wkt add` blames rewritten history.
2. `postcreate/produced.go:35`: a repository git does not answer for is passed
   over in the first snapshot too; if it answers in the second (a repair has
   reattached it meanwhile), ignored files that were already there are recorded as the
   script's, and rm deletes them without asking.

Against a property that is defined in its module and in no passing run; adding it to the cfg named makes
TLC show the trace:

- `cli/cli.go:1062`, `GraftsSurvive`: the seam saves the record under the task
  lock, add under the container lock; a graft that lands between the seam's
  Load and Save is lost (`Lifecycle_quiet.cfg` with one task, new and add,
  `HasScript = TRUE`).
- `task/remove.go:559`, `RemovalResumes`: after an interrupted delete a
  perimeter refresh re-creates the tree directory, and the resumed rm fails at
  its own fence (`Lifecycle_faults.cfg`).
- `store/store.go:157`, `MarkerTells`: the store's hardening is read from the
  merged configuration; the developer's own core.hooksPath gets an unhardened
  store marked complete for good (`Store_builds.cfg`).
- `task/fetch.go:110`, `WholeTask`: the first pass does not look whether a
  branch is checked out; the second stops at it with earlier repositories moved
  (`Fetch_meddled.cfg`).
- `task/remove.go:119`, `UnreadIsKept`: the comment has a failed check of any kind count as
  work at risk; the walk returns nil for every error (272), and git status succeeds on a directory
  it cannot read. What was in it is deleted by the second `wkt rm`, unasked
  (`Removal_guarded.cfg`; `unread` excepts it).
- `task/add.go:20`, `CutAtEpoch`: the comment has a grafted repository cut at the epoch, where the
  others were, "not where it is today". By date it may be cut at a commit the repository took in
  after the epoch: fetched or merged later with an older committer date, or made in the epoch's
  second (`Creation_builds.cfg`; `SliceOfTime` admits it).
- `task/remove.go:536`, `SubmoduleSpared`: `--force` lets a failed submodule
  check pass (`Removal_guarded.cfg`).
- `task/add.go:117`, `OnlyLinkTaken`: the comment at 60 says anything but the
  link is an obstacle; os.Remove takes a plain file or an empty directory there
  (`Creation_builds.cfg`).
- `task/create.go:305`, `StatusTells`: a refresh that fails is passed over as "stale,
  and status will say so"; over the cap Stale fails too and status
  (`cli/cli.go:832`) says nothing (`Perimeter_heals.cfg`).
- `task/remove.go:123`, `FreshRemovable`: an untouched task is refused, and `--force` becomes the
  habit the comments there want to avoid. First and most common, where a repository ignores
  `.claude`: wkt writes its settings file into every worktree (`perimeter/write.go:87`), and the
  question about ignored files, unlike the one about changes (111) and the walk (303), does not ask
  whether a file is wkt's own; the answer is WKT_PRECIOUS_IGNORED. The same code comes of a
  carried file in a directory that is ignored whole, which git reports as the directory, no
  recorded slot; and rm refuses too where a carried file lies over a tracked one, or an ancestor's
  `.git` file was copied (`Tree_lives.cfg`; `Foreseen` is their list).
- `task/remove.go:811`, `ReplacedIsAsked`: the comment on producedExempt has a
  recorded file excused by its path and a recorded directory not. But what is recorded is the
  path, and Preflight looks at what is there now: where the script made a directory and
  the agent has since put a file at its place, rm takes the file for a generated one
  (`Tree_lives.cfg` with `Lived <- OneLayout`, `MaxEntries = 1`,
  `MaxEvents = 3`; `folded` excepts it). The attempt to prove `WorkBlocks` showed it.
- `task/repair.go:42`, `RulesFollow`: a repair killed, or failing to write,
  after the relocated record is saved never writes the deny rules again: the
  next one sees no move (`Tree_lives.cfg`).

Met while choosing the bounds; TLC shows each when the verb or fault is added to a cfg:

- session-start and `wkt perimeter` save a record loaded earlier without a
  lock and can bring a removed task's record back (`cli/cli.go:640`,
  against `NoRevival`);
- repair puts links back that a running script has had withdrawn
  (`task/repair.go:118`, against the repository's `README.md:143` and `ScriptIsolated`);
- a failed graft re-creates a link whether or not it was there
  (`task/add.go:121`, against `ScriptIsolated`; `Restored` admits it where the record has a link);
- post-create withdraws links by a record it read before waiting for the lock
  (`cli/cli.go:409`);
- the worktree-remove hook removes without the locks rm takes (`cli/cli.go:598`,
  against the comment at 873);
- `doctor --fix` may delete the pins of a task being created
  (`doctor/doctor.go:192`; `swept` excepts them);
- an undo's `branch -D` (`task/create.go:211`, `task/add.go:109`) deletes by
  name, so also a branch an agent of another task has made since Validate
  (`late` excepts it).

And limits that are decisions, or fixed facts, rather than behaviours:

- keepUnpushed takes an error of git for nothing to keep (`task/remove.go:799`;
  `BranchKept` excepts it), and the second removed task of a name overwrites
  what the first one parked (`task/remove.go:802`);
- after a kill the remedy of WKT_TREE_EXISTS leads to WKT_BRANCH_EXISTS;
- a store that was begun is not undone: after a failed Ensure every command that needs it ends with
  WKT_STORE_INCOMPLETE until somebody deletes it (`store/store.go:62`; `Restored` admits it);
- doctor sweeps the pins of top-level repositories only, discovery goes four
  levels deep (`doctor/doctor.go:147`);
- `wkt perimeter --check` compares files with the record and never asks
  whether the record is stale; a directory whose file is somebody else's drops
  out of the coverage without a word; a graft whose record a lock-free save has overwritten leaves a
  directory no refresh covers, about which `Heals` says nothing;
- a symlink to a repository, or a linked worktree at the top level, makes every
  `wkt new` refuse with WKT_NESTED_REPO;
- carry asks the ignore rules of the developer's checkout, not those of the
  base commit (`carry/carry.go:112`);
- where a script makes something at the place of a withdrawn link, the link
  does not come back; the remedy WithdrawBackFill names (`wkt repair`) keeps
  its hands off real files as well (`task/repair.go:108`);
- what an agent makes while a script is watched counts as the script's
  (`excused`);
- repair does not rewrite the stores' `remote.workspace.url`.

## 6. Not modelled

Hook payloads and Slug (text into text), path spellings and symlinked roots, the
git runner, error wording, init, flag parsing, `wkt path`; rendering of
perimeter rules, egress hosts, credential and cache directories; the script's
environment and deadline (a script may end at any time) and its output; modes and contents of
files; what sync, status and doctor's checks report, apart from `status`'s verdict of drift
(`StatusDrifts`). Name collisions are one guard (`Taken`), whatever spelling
makes two names collide. A crash inside one of `Lifecycle`'s atomic
builds is a crash before or after it there; `Creation` and `Store` have the
inside. In `Perimeter` a directory that a lost save has dropped from the record may join again, which
git would refuse; that only adds behaviours. `Tree` has one task: what trees have in common are the stores and the
settings files, which other modules have.

## 7. Plan

Done, in the order of what they protect: Lifecycle, Store, Removal, Fetch,
Creation, Tree with Mirror, Perimeter; proofs about all of them.
Every safety property of a passing run has its theorem. Next:

1. `ScriptKeepsTree` with session-start and doctor next to a script: TLC finds no
   counterexample, but the ownership invariant speaks only of verbs that lock.
2. `RemovalResumes`, `WholeTask` and `SubmoduleSpared` under the hypotheses that save
   them, as `MarkersTell` does for `MarkerTells`.
3. The hazards without a property (section 5 has them among the limits).
