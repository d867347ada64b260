-------------------------------- MODULE Tree --------------------------------
(***************************************************************************)
(* The life of a task's tree.  wkt new walks the workspace, lets the       *)
(* worktrees be made, plans, places links and copies one after the other   *)
(* and carries ignored files, while the developer goes on in the           *)
(* workspace.  Then agent and post-create script fill the tree, the seam   *)
(* takes the links away for the time of the script, wkt dies, the          *)
(* workspace is moved, and wkt repair mends what the record says should be *)
(* there.  Blockers is what wkt rm would say at any time.                  *)
(***************************************************************************)
EXTENDS Mirror, FiniteSets

CONSTANTS
  Places,     \* where workspace and container may be: [ws, root], both
              \* written as the sequence of names their path is made of
  Birthplace, \* where they are at first
  Veiled,     \* repositories where wkt writes a settings file, in .claude,
              \* that their ignore rules cover
  MaxEntries, \* bound: entries of a workspace to begin with
  Lived,      \* bound: workspaces of which a task lives on after its making
  MaxEvents   \* bound: changes by developer, agent and script, deaths, moves

ASSUME BirthplaceAssumption == Birthplace \in Places
\* A container is never the workspace or around it: Locate puts it beside the
\* workspace, under a longer name, or below the user's state directory.
ASSUME PlacesAssumption ==
  /\ \A a \in Places : a.ws \in Seq(STRING) /\ a.root \in Seq(STRING)
  /\ \A a, b \in Places : ~IsPrefix(a.root, b.ws) /\ (a # b => a.ws # b.ws)
ASSUME VeiledAssumption == Veiled \subseteq Paths
ASSUME LivedAssumption == Lived \subseteq Workspaces
ASSUME EntriesBound == MaxEntries \in Nat
ASSUME EventsBound == MaxEvents \in Nat

VARIABLES
  ws, versioned,   \* the workspace; the base commit tracks files that the
                   \* checkout ignores and does not track
  stage,           \* of the task: "start" to "live", or "refused"
  repos, selected, \* what Walk has found; what becomes worktrees
  todo,            \* of the plan
  tree, base,      \* what stands in the tree; what is tracked there
  strays,          \* directories that got the .git file of another's worktree
  slots,           \* recorded: [path, type]
  home, rec,       \* where all is; recorded: where it was, and the worktrees
  target,          \* where each link leads
  attached,        \* worktrees git finds its store from, and the reverse
  rules,           \* the place the tree's deny rules speak of
  seam, script,    \* the seam's step, links held, snapshot and of which
                   \* worktrees; a script runs
  fix,             \* the repair's step, what it has loaded, slots to do
  still,           \* nothing in the workspace has changed since Walk
  late,            \* links under which a repository has appeared since
  touched,         \* paths others have taken charge of
  excused,         \* paths a script has made, or an agent while one was watched
  blind,           \* taken for the script's: git had not answered before it
  folded,          \* recorded as the script's while they were directories
  whole,           \* nothing broken that no repair has mended since
  events

making == <<ws, versioned, stage, repos, selected, todo, strays, still, late>>
life == <<home, rec, target, attached, rules, seam, script, fix, touched,
          excused, blind, folded, whole>>
vars == <<making, life, tree, base, slots, events>>

Nothing == [is |-> "none", by |-> "wkt"]
Dir == [is |-> "dir", by |-> "wkt"]
Link == [is |-> "link", by |-> "wkt"]
File(by) == [is |-> "file", by |-> by]

NoPlan == [backFill |-> {}, linkDirs |-> {}, copyFiles |-> {}, strays |-> {}]
NoSeam == [pc |-> "idle", held |-> {}, todo |-> {}, before |-> {},
           asked |-> {}]
NoFix == [pc |-> "idle", todo |-> {}, wsAt |-> <<>>, clean |-> FALSE]

TreesOf(place) == place.root \o <<"trees">>
RecordAt(place) == [place |-> place, wsAt |-> place.ws, treesAt |-> TreesOf(place)]

Init ==
  /\ ws \in {w \in Workspaces : Cardinality({p \in Paths : w[p] # "none"}) <= MaxEntries}
  /\ versioned \in {FALSE} \cup
       {\E p \in Paths : ws[p] \in {"file", "big"} /\ \E q \in Ignored : Within(p, q)}
  /\ stage = "start" /\ repos = {} /\ selected = {} /\ todo = NoPlan
  /\ tree = [p \in Paths |-> Nothing] /\ base = {} /\ strays = {} /\ slots = {}
  /\ home = Birthplace /\ rec = RecordAt(home)
  /\ target = [p \in Paths |-> <<>>] /\ attached = {} /\ rules = home
  /\ seam = NoSeam /\ script = FALSE /\ fix = NoFix
  /\ still = TRUE /\ late = {} /\ touched = {} /\ excused = {} /\ blind = {} /\ folded = {}
  /\ whole = TRUE /\ events = 0

Placed == {"symlink", "copy", "carry"}
Event == events < MaxEvents /\ events' = events + 1
Slots(types) == {s.path : s \in {s \in slots : s.type \in types}}

\* (mutant) the directories above are taken to be there.
Put_NoParents(t, p, x) == [t EXCEPT ![p] = x]

\* The tree with directories down to p and x at p.
Put(t, p, x) ==
  [q \in Paths |-> IF q = p THEN x
                   ELSE IF Below(p, q) /\ t[q].is = "none" THEN Dir ELSE t[q]]

-----------------------------------------------------------------------------
(* wkt new.                                                                *)

Walk ==
  /\ stage = "start"
  /\ repos' = Repositories(ws)
  /\ \E S \in SUBSET repos' : S # {} /\ selected' = S
  /\ stage' = "walked"
  /\ UNCHANGED <<ws, versioned, todo, strays, still, late, life, tree, base,
                 slots, events>>

\* git worktree add, for every repository: what the base commit holds.
Worktrees ==
  /\ stage = "walked"
  /\ base' = {p \in Paths : ws[p] \in {"file", "big"} /\
                \E r \in selected : Below(p, r) /\ (RuledOut(p, r) => versioned)}
  /\ tree' = [p \in Paths |->
       IF p \in base' THEN File("base")
       ELSE IF p \in selected \/ \E q \in selected \cup base' : Below(q, p)
         THEN Dir ELSE Nothing]
  /\ attached' = selected /\ stage' = "planning"
  /\ UNCHANGED <<ws, versioned, repos, selected, todo, strays, still, late,
                 home, rec, target, rules, seam, script, fix, touched, excused, blind,
                 folded, whole, slots, events>>

\* An error takes everything back.
Refuse ==
  /\ stage' = "refused" /\ todo' = NoPlan /\ strays' = {} /\ slots' = {}
  /\ tree' = [p \in Paths |-> Nothing] /\ base' = {} /\ attached' = {}
  /\ UNCHANGED <<ws, versioned, repos, selected, still, late, home, rec, target,
                 rules, seam, script, fix, touched, excused, blind, folded, whole,
                 events>>

Plan ==
  /\ stage = "planning"
  /\ IF Unreadable(ws, repos, selected) THEN Refuse
     ELSE /\ todo' = PlanFor(ws, repos, selected) /\ stage' = "placing"
          /\ UNCHANGED <<ws, versioned, repos, selected, strays, still, late,
                         life, tree, base, slots, events>>

\* A link or a copy now stands at p, and is recorded.
Place(p, x, type, left) ==
  /\ tree' = Put(tree, p, x)
  /\ slots' = slots \cup {[path |-> p, type |-> type]}
  /\ target' = IF type = "symlink" THEN [target EXCEPT ![p] = home.ws \o p]
               ELSE target
  /\ todo' = left
  /\ UNCHANGED <<ws, versioned, stage, repos, selected, strays, still, late,
                 home, rec, attached, rules, seam, script, fix, touched,
                 excused, blind, folded, whole, base, events>>

\* A known repository is linked as it is; anything else is searched for one
\* first, whatever the plan has thought.  Never over something else.
LinkRepository(p) ==
  /\ stage = "placing" /\ p \in todo.backFill
  /\ IF tree[p].is # "none" THEN Refuse
     ELSE Place(p, Link, "symlink", [todo EXCEPT !.backFill = @ \ {p}])

LinkDir(p) ==
  /\ stage = "placing" /\ todo.backFill = {} /\ p \in todo.linkDirs
  /\ IF Hides(ws, p) \/ tree[p].is # "none" THEN Refuse
     ELSE Place(p, Link, "symlink", [todo EXCEPT !.linkDirs = @ \ {p}])

Copy(p) ==
  /\ stage = "placing" /\ todo.backFill \cup todo.linkDirs = {}
  /\ p \in todo.copyFiles
  /\ IF ws[p] \notin {"file", "big"} THEN Refuse
     ELSE Place(p, File("wkt"), "copy", [todo EXCEPT !.copyFiles = @ \ {p}])

CopyStray(p) ==
  /\ stage = "placing" /\ todo.backFill \cup todo.linkDirs = {}
  /\ p \in todo.strays
  /\ IF ws[p] # "checkout" THEN Refuse
     ELSE /\ strays' = strays \cup {p}
          /\ todo' = [todo EXCEPT !.strays = @ \ {p}]
          /\ UNCHANGED <<ws, versioned, stage, repos, selected, still, late,
                         life, tree, base, slots, events>>

\* The developer's ignored files, over whatever file the worktree has there.
Carry ==
  /\ stage = "placing" /\ todo = NoPlan
  /\ LET plan == CarryPlan(ws, selected)
     IN IF \E p \in plan : \/ tree[p].is = "dir"
                           \/ \E q \in Paths : Below(p, q) /\ tree[q].is = "file"
          THEN Refuse
          ELSE /\ tree' = [p \in Paths |->
                    IF p \in plan THEN File("carry")
                    ELSE IF \E q \in plan : Below(q, p) THEN Dir ELSE tree[p]]
               /\ slots' = slots \cup {[path |-> p, type |-> "carry"] : p \in plan}
               /\ stage' = "built"
               /\ UNCHANGED <<ws, versioned, repos, selected, todo, strays, still,
                              late, life, base, events>>

\* The record is saved.
Save ==
  /\ stage = "built" /\ ws \in Lived
  /\ stage' = "live"
  /\ UNCHANGED <<ws, versioned, repos, selected, todo, strays, still, late,
                 life, tree, base, slots, events>>

\* The developer clones, deletes or makes something while wkt new is at work.
Develop ==
  /\ stage \in {"walked", "planning", "placing"} /\ Event
  /\ \E p \in Paths, kind \in {"none", "dir", "repo", "file"} :
       /\ kind # ws[p] /\ Standing(ws, p)
       /\ ws' = [q \in Paths |-> IF q = p THEN kind
                                 ELSE IF Below(q, p) /\ kind \in {"none", "file"}
                                   THEN "none" ELSE ws[q]]
       /\ late' = late \cup {q \in Slots({"symlink"}) :
                               Shares(ws', q) /\ ~Shares(ws, q)}
  /\ still' = FALSE
  /\ UNCHANGED <<versioned, stage, repos, selected, todo, strays, life, tree,
                 base, slots>>

Creation ==
  \/ Walk \/ Worktrees \/ Plan \/ Carry \/ Save \/ Develop
  \/ \E p \in Paths : LinkRepository(p) \/ LinkDir(p) \/ Copy(p) \/ CopyStray(p)

-----------------------------------------------------------------------------
(* Agent and script.                                                       *)

\* Where something can be put, or taken away, in the tree itself; directories
\* are made on the way.
Reachable(p) ==
  p \notin selected /\ \A q \in Paths : Below(p, q) => tree[q].is \in {"none", "dir"}

Changed(t, S) ==
  /\ tree' = t
  /\ touched' = touched \cup S
  /\ fix' = [fix EXCEPT !.clean = FALSE]
  /\ Event
  /\ UNCHANGED <<making, home, rec, target, attached, rules, seam, script, blind,
                 folded, whole, base, slots>>

\* A write that replaces what is there, a link included; a new directory.
Agent ==
  /\ stage = "live"
  /\ \E p \in Paths :
       /\ Reachable(p)
       /\ \/ /\ tree[p].is # "dir"
             /\ Changed(Put(tree, p, File("agent")), {p})
          \/ /\ tree[p].is = "none"
             /\ Changed(Put(tree, p, [is |-> "dir", by |-> "agent"]), {p})
          \/ /\ tree[p].is # "none" /\ \A r \in selected : ~Below(r, p)
             /\ Changed([q \in Paths |-> IF Within(q, p) THEN Nothing ELSE tree[q]],
                        {q \in Paths : Within(q, p)})
       /\ excused' = IF seam.pc = "script" THEN excused \cup {p}
                     ELSE excused

\* A script, or a child it has left running, makes files and directories.  It
\* keeps to itself if what it makes is new, while it is watched and git answers
\* for all worktrees, not where wkt has placed something, and either outside of
\* the worktrees or a file their rules ignore.
Script ==
  /\ script
  /\ \E p \in Paths, is \in {"file", "dir"} :
       /\ Reachable(p) /\ tree[p].is \notin {"dir", "link"}
       /\ is = "dir" => tree[p].is = "none"
       /\ LET kept == /\ tree[p].is = "none" /\ seam.pc = "script"
                      /\ seam.asked = selected
                      /\ ~\E q \in Slots(Placed) : Within(p, q)
                      /\ \A r \in selected : Below(p, r) =>
                           RuledOut(p, r) /\ Cut(p, r) = p /\ is = "file"
          IN Changed(Put(tree, p, [is |-> is, by |-> "script"]),
                     IF kept THEN {} ELSE {p})
       /\ excused' = excused \cup {p}

\* The last of its children is gone.
ScriptEnds ==
  /\ script /\ seam.pc # "script"
  /\ script' = FALSE
  /\ UNCHANGED <<making, home, rec, target, attached, rules, seam, fix, touched,
                 excused, blind, folded, whole, tree, base, slots, events>>

-----------------------------------------------------------------------------
(* wkt post-create: runSeam.                                               *)

Seam(new) ==
  /\ seam' = new
  /\ UNCHANGED <<making, home, rec, attached, rules, touched, excused, base>>

SeamBegin ==
  /\ stage = "live" /\ seam.pc = "idle"
  /\ Seam([NoSeam EXCEPT !.pc = "withdraw", !.todo = Slots({"symlink"})])
  /\ fix' = [fix EXCEPT !.clean = FALSE]
  /\ UNCHANGED <<blind, folded, target, script, whole, tree, slots, events>>

\* Best effort: where something stands, the link does not come back.
Restored ==
  [p \in Paths |->
     IF p \in seam.held /\ tree[p].is = "none" /\ (Len(p) = 1 \/ tree[Front(p)].is = "dir")
       THEN Link ELSE tree[p]]

\* WithdrawBackFill, one link after the other; what is not a link stops it,
\* and so does a file where a directory led to one.
Withdraw(p) ==
  /\ seam.pc = "withdraw" /\ p \in seam.todo
  /\ CASE tree[p].is = "none" /\ ~\E q \in Paths : Below(p, q) /\ tree[q].is = "file" ->
            Seam([seam EXCEPT !.todo = @ \ {p}]) /\ UNCHANGED tree
       [] tree[p].is = "link" ->
            /\ Seam([seam EXCEPT !.todo = @ \ {p}, !.held = @ \cup {p}])
            /\ tree' = [tree EXCEPT ![p] = Nothing]
       [] OTHER ->
            Seam(NoSeam) /\ tree' = Restored
  /\ UNCHANGED <<blind, folded, target, script, fix, whole, slots, events>>

SeamRun ==
  /\ seam.pc = "withdraw" /\ seam.todo = {}
  /\ Seam([seam EXCEPT !.pc = "script", !.asked = attached,
                       !.before = Snapshot(tree, base, selected, attached)])
  /\ script' = TRUE
  /\ UNCHANGED <<blind, folded, target, fix, whole, tree, slots, events>>

\* What the script brought into being.
NewSince(before, after) == after \ before

\* The script itself has ended, well or not; its children may go on.
SeamRecord ==
  /\ seam.pc = "script"
  /\ LET new == NewSince(seam.before, Snapshot(tree, base, selected, attached))
     IN /\ slots' = slots \cup {[path |-> p, type |-> "produced"] : p \in new}
        /\ blind' = blind \cup
             {p \in new : \E r \in attached \ seam.asked : Below(p, r)}
        /\ folded' = folded \cup {p \in new : tree[p].is = "dir"}
  /\ Seam([seam EXCEPT !.pc = "restore"])
  /\ UNCHANGED <<target, script, fix, whole, tree, events>>

SeamRestore ==
  /\ seam.pc = "restore"
  /\ Seam(NoSeam) /\ tree' = Restored
  /\ UNCHANGED <<blind, folded, target, script, fix, whole, slots, events>>

-----------------------------------------------------------------------------
(* wkt repair.                                                             *)

\* (mutant) the workspace's prefix is tried first: the container's begins
\* with it.
Swap_WorkspaceFirst(s, old, new) ==
  IF IsPrefix(old.ws, s) THEN new.ws \o SubSeq(s, Len(old.ws) + 1, Len(s))
  ELSE IF IsPrefix(old.root, s) THEN new.root \o SubSeq(s, Len(old.root) + 1, Len(s))
  ELSE s

\* relocate: one prefix for the other.
Swap(s, old, new) ==
  IF IsPrefix(old.root, s) THEN new.root \o SubSeq(s, Len(old.root) + 1, Len(s))
  ELSE IF IsPrefix(old.ws, s) THEN new.ws \o SubSeq(s, Len(old.ws) + 1, Len(s))
  ELSE s

Fix(new) ==
  /\ fix' = new
  /\ UNCHANGED <<making, home, seam, script, touched, excused, blind, folded, base,
                 slots, events>>

FixLoad ==
  /\ stage = "live" /\ fix.pc = "idle"
  /\ LET wsAt == Swap(rec.wsAt, rec.place, home)
     IN /\ Fix([pc |-> IF rec.place # home THEN "rules" ELSE "worktrees",
                todo |-> Slots({"symlink"}), wsAt |-> wsAt, clean |-> TRUE])
        /\ rec' = [place |-> home, wsAt |-> wsAt,
                   treesAt |-> Swap(rec.treesAt, rec.place, home)]
  /\ UNCHANGED <<target, attached, rules, whole, tree>>

\* Only after a move; an error is passed over.
FixRules ==
  /\ fix.pc = "rules"
  /\ rules' \in {rules, home}
  /\ Fix([fix EXCEPT !.pc = "worktrees"])
  /\ UNCHANGED <<rec, target, attached, whole, tree>>

\* git worktree repair finds what is at the recorded path, unless git fails:
\* "still detached after a repair attempt".
FixWorktrees ==
  /\ fix.pc = "worktrees"
  /\ attached' \in {S \in SUBSET selected : attached \subseteq S}
  /\ rec.treesAt # TreesOf(home) => attached' = attached
  /\ Fix([fix EXCEPT !.pc = "links", !.clean =
            @ /\ (rec.treesAt = TreesOf(home) => attached' = selected)])
  /\ UNCHANGED <<rec, target, rules, whole, tree>>

\* A link that leads elsewhere or is missing is made again; nothing real goes.
Mendable(p) == tree[p].is \in {"none", "link"}

FixLink(p) ==
  /\ fix.pc = "links" /\ p \in fix.todo
  /\ IF Mendable(p) /\ \A q \in Paths : Below(p, q) => tree[q].is \in {"none", "dir"}
       THEN /\ tree' = Put(tree, p, Link)
            /\ target' = [target EXCEPT ![p] = fix.wsAt \o p]
       ELSE UNCHANGED <<tree, target>>
  /\ Fix([fix EXCEPT !.todo = @ \ {p}])
  /\ UNCHANGED <<rec, attached, rules, whole>>

FixEnd ==
  /\ fix.pc = "links" /\ fix.todo = {}
  /\ whole' = (whole \/ fix.clean)
  /\ Fix(NoFix)
  /\ UNCHANGED <<rec, target, attached, rules, tree>>

-----------------------------------------------------------------------------
(* What breaks.                                                            *)

\* A wkt is killed.  Nobody holds the withdrawn links any more, nobody
\* records what the script has made, and the script, in a process group of
\* its own, goes on.
Crash ==
  /\ Event
  /\ \/ /\ seam.pc # "idle" /\ seam' = NoSeam /\ whole' = FALSE
        /\ fix' = [fix EXCEPT !.clean = FALSE]
        /\ touched' = touched \cup
             (IF seam.pc = "script"
                THEN Snapshot(tree, base, selected, attached) \ seam.before ELSE {})
     \/ /\ fix.pc # "idle" /\ fix' = NoFix
        /\ UNCHANGED <<seam, whole, touched>>
  /\ UNCHANGED <<making, home, rec, target, attached, rules, script, excused, blind,
                 folded, tree, base, slots>>

\* Workspace and container are moved together.
Move ==
  /\ stage = "live" /\ seam.pc = "idle" /\ fix.pc = "idle" /\ ~script /\ Event
  /\ home' \in Places \ {home}
  /\ attached' = {} /\ whole' = FALSE
  /\ UNCHANGED <<making, rec, target, rules, seam, script, fix, touched,
                 excused, blind, folded, tree, base, slots>>

Next ==
  \/ Creation
  \/ Agent \/ Script \/ ScriptEnds \/ Crash \/ Move
  \/ SeamBegin \/ SeamRun \/ SeamRecord \/ SeamRestore
  \/ FixLoad \/ FixRules \/ FixWorktrees \/ FixEnd
  \/ \E p \in Paths : Withdraw(p) \/ FixLink(p)

Spec == Init /\ [][Next]_vars

-----------------------------------------------------------------------------
(* Preflight: what keeps wkt rm, without --force, from the tree.           *)

\* (mutant) a directory the script made is passed over whole.
ProducedExempt_Whole(p) == p \in Slots({"produced"})

\* A file the script once made; a directory only outside of the worktrees,
\* where every file in it is asked about.
ProducedExempt(p) ==
  p \in Slots({"produced"}) /\
  (tree[p].is = "dir" => \A r \in selected : ~Below(p, r))

Dirty(r) ==
  \E p \in Paths :
    Below(p, r) /\ IF p \in base THEN tree[p] # File("base")
                   ELSE tree[p].is \in {"file", "link"} /\ ~RuledOut(p, r)

\* A carried file loses nothing when it goes, so long as it is the one.
CarriedUnchanged(p) == p \in Slots({"carry"}) /\ tree[p] = File("carry")

Precious(r) ==
  {p \in IgnoredIn(tree, base, r) :
     ~Remade(p) /\ ~CarriedUnchanged(p) /\ ~ProducedExempt(p)}

\* On the walk outside of the worktrees: neither a slot as it was placed, nor
\* on the way to one.
Untracked ==
  {p \in Paths :
     /\ tree[p].is # "none" /\ \A r \in selected : ~Within(p, r)
     /\ ~(p \in Slots({"symlink", "carry"}))
     /\ ~(p \in Slots({"copy"}) /\ tree[p] = File("wkt"))
     /\ p \in Slots({"copy"}) \/
          ~\E q \in selected \cup Slots(Placed) : Below(q, p)
     /\ ~Remade(p) /\ ~ProducedExempt(p)}

\* The settings file wkt has written into the worktree is its own to the
\* questions about changes and on the walk; among what is ignored nobody asks
\* whose it is.
Veils == {<<"settings", r>> : r \in selected \cap Veiled}

Blockers ==
  Veils
  \cup (IF rec.treesAt = TreesOf(home) THEN {} ELSE {<<"missing", r>> : r \in selected})
  \cup {<<"failed", r>> : r \in selected \ attached}
  \cup {<<"dirty", r>> : r \in {r \in selected : Dirty(r)}}
  \cup {<<"ignored", p>> : p \in UNION {Precious(r) : r \in selected}}
  \cup {<<"untracked", p>> : p \in Untracked}
  \cup {<<"foreign", d>> : d \in strays}
  \cup {<<"slot missing", p>> :
          p \in {p \in Slots(Placed) : tree[p].is = "none"}}
  \cup {<<"slot changed", p>> : p \in {p \in Slots({"symlink"}) : tree[p].is # "link"}}
  \cup {<<"copy diverged", p>> : p \in {p \in Slots({"copy"}) : tree[p] # File("wkt")}}

-----------------------------------------------------------------------------
(* What must hold.                                                         *)

Leads(p) ==
  IF \E q \in Paths : Within(p, q) /\ tree[q].is = "link"
    THEN IF ws[p] = "none" THEN "none" ELSE "workspace"
  ELSE IF \E r \in selected : Within(p, r) THEN "own"
  ELSE IF tree[p].is = "file" THEN "copy" ELSE tree[p].is

TypeOK ==
  /\ ws \in Workspaces /\ versioned \in BOOLEAN
  /\ stage \in {"start", "walked", "planning", "placing", "built", "live", "refused"}
  /\ selected \subseteq repos /\ repos \subseteq Paths
  /\ todo.backFill \cup todo.linkDirs \cup todo.copyFiles \cup todo.strays \subseteq Paths
  /\ tree \in [Paths -> Things]
  /\ \A p \in Paths : tree[p].is # "none" /\ Len(p) > 1 => tree[Front(p)].is = "dir"
  /\ base \cup strays \cup late \cup touched \cup excused \cup blind \cup folded
       \subseteq Paths
  /\ \A s \in slots : s.path \in Paths /\ s.type \in {"symlink", "copy", "carry", "produced"}
  /\ home \in Places /\ rec.place \in Places /\ rules \in Places
  /\ attached \cup seam.asked \subseteq selected
  /\ seam.pc \in {"idle", "withdraw", "script", "restore"}
  /\ seam.held \cup seam.todo \subseteq Slots({"symlink"})
  /\ fix.pc \in {"idle", "rules", "worktrees", "links"}
  /\ events \in 0..MaxEvents

\* A tree made while the workspace rests leads from every path to what the
\* workspace has there, and the making fails only over a repository that is
\* not known, or a symlink to one.
Mirrors ==
  still =>
    /\ stage = "built" => \A p \in Paths : Leads(p) = Should(ws, repos, selected, p)
    /\ stage = "refused" => Hopeless(ws, repos)

\* Whatever the developer does meanwhile: no link of the tree but those to
\* known repositories leads to a repository, one that has come under a link
\* after it was placed excepted.
NothingShared ==
  \A p \in Slots({"symlink"}) \ repos : Shares(ws, p) => p \in late

\* What the agent has put in the tree keeps wkt rm from it, and not merely what
\* keeps it from every such tree, wkt's own ignored settings; except where a
\* tool makes things again, what was made while a script was watched, what was
\* taken for the script's because git had not answered before it, and what
\* stands where a directory of the script's did.
Spared(p) == Remade(p) \/ p \in excused
WorkBlocks ==
  \A p \in Paths :
    tree[p] = File("agent") /\ ~Spared(p) /\ p \notin blind \cup folded
      => Blockers \ Veils # {}

\* (the comment on Snapshot: "A repository that cannot be asked contributes
\* nothing, which is the safe direction to be wrong in: an unrecorded path
\* makes teardown refuse and list it") That git has not answered takes no
\* work away.
UnaskedIsSafe ==
  \A p \in Paths :
    tree[p] = File("agent") /\ ~Spared(p) /\ p \notin folded => Blockers # {}

\* (the comment on producedExempt: "A file, yes: it was generated" and "A
\* directory, no") A directory of the script's, deleted and replaced by a file
\* of the agent's, takes no work away either.
ReplacedIsAsked ==
  \A p \in Paths :
    tree[p] = File("agent") /\ ~Spared(p) /\ p \notin blind => Blockers # {}

\* The places where what wkt itself does keeps wkt rm from it: a carried file
\* in an ignored directory, or over a tracked one, a copied .git file, or its
\* settings file where .claude is ignored.
Foreseen ==
  \/ strays # {} \/ Veils # {}
  \/ Slots({"carry"}) \cap base # {}
  \/ \E r \in selected, p \in Slots({"carry"}) : Below(p, r) /\ Cut(p, r) # p

Resting == stage = "live" /\ seam.pc = "idle" /\ fix.pc = "idle" /\ whole

\* A tree that only wkt and a script that keeps to itself have been at can be
\* removed without --force.
UntouchedRemovable == Resting /\ touched = {} /\ ~Foreseen => Blockers = {}

\* (the comments where files are carried: "an untouched copy - which loses
\* nothing when the tree goes"; "Blocking on it would make --force reflexive")
\* An untouched tree can be removed without --force.
FreshRemovable == Resting /\ touched = {} /\ events = 0 => Blockers = {}

\* Once the seam has ended, and after a repair whatever a crash or a move has
\* broken: every link leads to its path in the workspace, but for those
\* others have touched, and every worktree is attached.
LinksStand ==
  Resting =>
    /\ \A p \in Slots({"symlink"}) :
         \/ tree[p] = Link /\ target[p] = home.ws \o p
         \/ \E q \in touched : Within(q, p) \/ Below(p, q)
    /\ attached = selected

\* (the comment where repair writes the perimeter: "Regenerating is the only
\* thing that makes it true again") After a repair the deny rules speak of
\* where things are.
RulesFollow == Resting => rules = home
=============================================================================
