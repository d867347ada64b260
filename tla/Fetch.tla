-------------------------------- MODULE Fetch --------------------------------
(***************************************************************************)
(* wkt fetch: the task's branch of every repository is brought from its    *)
(* store into the workspace repository the developer works in.  It takes   *)
(* no lock.  A first pass over the repositories refuses whatever it sees   *)
(* would go wrong, a second one runs git fetch in each; meanwhile the      *)
(* agent commits in the task and the developer works in his repositories.  *)
(*                                                                         *)
(* A commit is its history: the sequence of the changes that led to it,    *)
(* so that one is an ancestor of another when it is a prefix of it.        *)
(***************************************************************************)
EXTENDS Integers, SequencesExt

CONSTANTS
  N,           \* repositories of the task, in the order of its record
  Fetchers,    \* wkt fetch processes, all for the same branch name
  MaxHistory,  \* bound: changes on top of the base
  Meddling,    \* what goes on meanwhile: "commit", "amend", "develop",
               \* "switch", "clash", "delete", "rm"; "git": its commands fail
  NoBranch     \* the branch does not exist

AllMeddling == {"commit", "amend", "develop", "switch", "clash", "delete",
                "rm", "git"}

ASSUME NAssumption == N \in Nat \ {0}
ASSUME HistoryAssumption == MaxHistory \in Nat \ {0}
ASSUME MeddlingAssumption == Meddling \subseteq AllMeddling

Repos == 1..N

\* The task's changes, the same after a rewrite, and the developer's own.
Changes == {"new", "amended", "own"}
Histories == UNION {[1..n -> Changes] : n \in 0..MaxHistory}

VARIABLES
  tip,     \* the task's branch in each store
  branch,  \* the developer's branch of that name in each workspace repository
  head,    \* he stands on it
  clash,   \* he has a branch that cannot coexist with it (feat, feat/42)
  pc, at,  \* per fetch: the pass, and the repository it has come to
  plan,    \* per fetch and repository: the commit to bring over, or NoBranch
  moved,   \* per fetch: the repositories whose branch it has moved
  alone    \* per fetch: nobody else has done anything since it began, and no
           \* git command of its has failed

repositories == <<tip, branch, head, clash>>
vars == <<tip, branch, head, clash, pc, at, plan, moved, alone>>

Init ==
  /\ tip \in [Repos -> {<<>>, <<"new">>}]
  /\ branch \in [Repos -> {NoBranch, <<>>}]
  /\ head = [r \in Repos |-> FALSE]
  /\ clash = [r \in Repos |-> FALSE]
  /\ pc = [f \in Fetchers |-> "idle"]
  /\ at = [f \in Fetchers |-> 1]
  /\ plan = [f \in Fetchers |-> [r \in Repos |-> NoBranch]]
  /\ moved = [f \in Fetchers |-> {}]
  /\ alone = [f \in Fetchers |-> FALSE]

Ancestor(b, c) == b # NoBranch => IsPrefix(b, c)

-----------------------------------------------------------------------------
Begin(f) ==
  /\ pc[f] \in {"idle", "done", "failed"}
  /\ pc' = [pc EXCEPT ![f] = "check"]
  /\ at' = [at EXCEPT ![f] = 1]
  /\ plan' = [plan EXCEPT ![f] = [r \in Repos |-> NoBranch]]
  /\ moved' = [moved EXCEPT ![f] = {}]
  /\ alone' = [alone EXCEPT ![f] = TRUE]
  /\ UNCHANGED repositories

\* (mutant) one repository too many.
Advance_OneTooFar(f, next) ==
  IF at[f] <= N
    THEN at' = [at EXCEPT ![f] = @ + 1] /\ UNCHANGED pc
    ELSE at' = [at EXCEPT ![f] = 1] /\ pc' = [pc EXCEPT ![f] = next]

\* The pass goes on with the next repository, or it was the last one.
Advance(f, next) ==
  IF at[f] < N
    THEN at' = [at EXCEPT ![f] = @ + 1] /\ UNCHANGED pc
    ELSE at' = [at EXCEPT ![f] = 1] /\ pc' = [pc EXCEPT ![f] = next]

Fail(f) == pc' = [pc EXCEPT ![f] = "failed"] /\ UNCHANGED at

\* (mutant) branches that cannot coexist with the target are not looked for.
Check_NoConflict(f) ==
  LET r == at[f] IN
  /\ pc[f] = "check"
  /\ \/ /\ tip[r] # NoBranch /\ ~Ancestor(branch[r], tip[r])
        /\ Fail(f)
        /\ UNCHANGED plan
     \/ /\ tip[r] = NoBranch \/ branch[r] = tip[r]
        /\ Advance(f, "bring")
        /\ UNCHANGED plan
     \/ /\ tip[r] \notin {NoBranch, branch[r]} /\ Ancestor(branch[r], tip[r])
        /\ plan' = [plan EXCEPT ![f][r] = tip[r]]
        /\ Advance(f, "bring")
  /\ UNCHANGED <<repositories, moved, alone>>

\* (mutant) a branch the developer already has is left as it is.
Check_SkipsExisting(f) ==
  LET r == at[f] IN
  /\ pc[f] = "check"
  /\ \/ /\ clash[r]
        /\ Fail(f)
        /\ UNCHANGED plan
     \/ /\ ~clash[r]
        /\ plan' = [plan EXCEPT ![f][r] =
                      IF tip[r] = NoBranch \/ branch[r] # NoBranch
                        THEN NoBranch ELSE tip[r]]
        /\ Advance(f, "bring")
  /\ UNCHANGED <<repositories, moved, alone>>

\* The first pass, one repository: a branch in the way or one that is not an
\* ancestor refuses the whole fetch; a task without a branch there, and a
\* branch that is already right, are passed over.
Check(f) ==
  LET r == at[f] IN
  /\ pc[f] = "check"
  /\ \/ /\ clash[r] \/ (tip[r] # NoBranch /\ ~Ancestor(branch[r], tip[r]))
        /\ Fail(f)
        /\ UNCHANGED plan
     \/ /\ ~clash[r]
        /\ tip[r] = NoBranch \/ branch[r] = tip[r]
        /\ Advance(f, "bring")
        /\ UNCHANGED plan
     \/ /\ ~clash[r]
        /\ tip[r] \notin {NoBranch, branch[r]} /\ Ancestor(branch[r], tip[r])
        /\ plan' = [plan EXCEPT ![f][r] = tip[r]]
        /\ Advance(f, "bring")
  /\ UNCHANGED <<repositories, moved, alone>>

\* (mutant) the refspec is a forcing one.
Refused_Forcing(r) == tip[r] = NoBranch \/ clash[r] \/ head[r]

\* (mutant) the branch is moved under the developer's feet.
Refused_UpdatesHead(r) ==
  tip[r] # NoBranch /\ ~clash[r] => ~Ancestor(branch[r], tip[r])

\* git fetch <store> <branch>:<target>, without force: git refuses a branch
\* that is checked out, one that cannot exist and one that would not be
\* fast-forwarded.
Refused(r) ==
  tip[r] # NoBranch /\ ~clash[r] /\ ~head[r] => ~Ancestor(branch[r], tip[r])

\* The second pass, one repository: what the store's branch is by now is what
\* arrives, and the first refusal ends the command.
Bring(f) ==
  LET r == at[f] IN
  /\ pc[f] = "bring"
  /\ \/ /\ plan[f][r] = NoBranch
        /\ Advance(f, "done")
        /\ UNCHANGED <<branch, moved, alone>>
     \/ /\ plan[f][r] # NoBranch /\ ~Refused(r)
        /\ branch' = [branch EXCEPT ![r] = tip[r]]
        /\ moved' = [moved EXCEPT ![f] = @ \cup {r}]
        /\ Advance(f, "done")
        /\ alone' = [g \in Fetchers |-> alone[g] /\ g = f]
     \/ /\ plan[f][r] # NoBranch /\ Refused(r)
        /\ Fail(f)
        /\ UNCHANGED <<branch, moved, alone>>
  /\ UNCHANGED <<tip, head, clash, plan>>

\* A git command fails.  In the first pass a task's branch that cannot be read
\* is passed over, branches in the way are overlooked, a developer's branch
\* that cannot be read is taken for none, and only an ancestry that cannot be
\* told refuses; in the second pass whatever fails ends the command.
GitFails(f) ==
  LET r == at[f] IN
  /\ "git" \in Meddling
  /\ \/ /\ pc[f] = "check"
        /\ tip[r] # NoBranch /\ branch[r] \notin {NoBranch, tip[r]}
        /\ Fail(f) /\ UNCHANGED plan
     \/ /\ pc[f] = "check" /\ tip[r] # NoBranch
        /\ plan' \in {plan, [plan EXCEPT ![f][r] = tip[r]]}
        /\ Advance(f, "bring")
     \/ /\ pc[f] = "bring" /\ plan[f][r] # NoBranch
        /\ Fail(f) /\ UNCHANGED plan
  /\ alone' = [alone EXCEPT ![f] = FALSE]
  /\ UNCHANGED <<repositories, moved>>

-----------------------------------------------------------------------------
(* Everybody else.                                                         *)

Agent(r) ==
  /\ tip[r] # NoBranch
  /\ \/ /\ "commit" \in Meddling /\ Len(tip[r]) < MaxHistory
        /\ tip' = [tip EXCEPT ![r] = Append(@, "new")]
     \/ /\ "amend" \in Meddling /\ tip[r] # <<>>
        /\ tip' = [tip EXCEPT ![r] = Append(Front(@), "amended")]
  /\ UNCHANGED <<branch, head, clash>>

Developer(r) ==
  /\ \/ /\ "develop" \in Meddling
        /\ branch[r] # NoBranch /\ Len(branch[r]) < MaxHistory
        /\ branch' = [branch EXCEPT ![r] = Append(@, "own")]
        /\ UNCHANGED <<head, clash>>
     \/ /\ "switch" \in Meddling
        /\ branch[r] # NoBranch
        /\ head' = [head EXCEPT ![r] = ~@]
        /\ UNCHANGED <<branch, clash>>
     \/ /\ "clash" \in Meddling
        /\ branch[r] = NoBranch
        /\ clash' = [clash EXCEPT ![r] = ~@]
        /\ UNCHANGED <<branch, head>>
     \/ /\ "delete" \in Meddling
        /\ branch[r] # NoBranch /\ ~head[r]
        /\ branch' = [branch EXCEPT ![r] = NoBranch]
        /\ UNCHANGED <<head, clash>>
  /\ UNCHANGED tip

\* wkt rm deletes the task's branches, one store after the other.
Removal(r) ==
  /\ "rm" \in Meddling
  /\ tip[r] # NoBranch
  /\ tip' = [tip EXCEPT ![r] = NoBranch]
  /\ UNCHANGED <<branch, head, clash>>

Meddle ==
  /\ \E r \in Repos : Agent(r) \/ Developer(r) \/ Removal(r)
  /\ alone' = [f \in Fetchers |-> FALSE]
  /\ UNCHANGED <<pc, at, plan, moved>>

Next ==
  \/ \E f \in Fetchers : Begin(f) \/ Check(f) \/ Bring(f) \/ GitFails(f)
  \/ Meddle

Spec == Init /\ [][Next]_vars

-----------------------------------------------------------------------------
(* Properties.                                                             *)

\* Every variable stays in its range.
TypeOK ==
  /\ tip \in [Repos -> Histories \cup {NoBranch}]
  /\ branch \in [Repos -> Histories \cup {NoBranch}]
  /\ head \in [Repos -> BOOLEAN]
  /\ clash \in [Repos -> BOOLEAN]
  /\ pc \in [Fetchers -> {"idle", "check", "bring", "done", "failed"}]
  /\ at \in [Fetchers -> Repos]
  /\ plan \in [Fetchers -> [Repos -> Histories \cup {NoBranch}]]
  /\ moved \in [Fetchers -> SUBSET Repos]
  /\ alone \in [Fetchers -> BOOLEAN]

\* "A branch they own is never forced": whatever the developer committed
\* between the two passes stays in his branch.
NeverForced ==
  [][\A r \in Repos : NoBranch \notin {branch[r], branch'[r]} =>
       IsPrefix(branch[r], branch'[r])]_vars

\* A branch the developer stands on is moved by nobody but himself, although
\* he may have switched to it after the first pass (Fetch's comment: "a fetch
\* that moves the branch under their working copy is exactly the surprise
\* this command exists to avoid").
HeadLeftAlone ==
  [][\A r \in Repos : head[r] /\ branch'[r] # branch[r] =>
       Len(branch'[r]) > 0 /\ Last(branch'[r]) = "own"]_vars

\* Half a task only because of somebody else: a fetch that fails with some
\* branches moved was interfered with, or let down by git, or met a branch
\* that is checked out; everything else the first pass foresees for the set.
ForeseenOrDisturbed ==
  \A f \in Fetchers : pc[f] = "failed" /\ moved[f] # {} =>
    ~alone[f] \/ \E r \in Repos : head[r]

\* A fetch that was left alone, and whose git commands worked, has brought
\* every branch over when it succeeds, and what it reports to have moved is
\* what is there.
Delivered ==
  \A f \in Fetchers : pc[f] = "done" /\ alone[f] =>
    \A r \in Repos :
      /\ tip[r] # NoBranch => branch[r] = tip[r]
      /\ r \in moved[f] <=> plan[f][r] # NoBranch
      /\ r \in moved[f] => plan[f][r] = branch[r]

\* "Check the whole set before moving any ref: a fetch that updates two
\* repositories and then refuses on the third leaves the developer holding
\* half of a task."
WholeTask ==
  \A f \in Fetchers : pc[f] = "failed" /\ alone[f] => moved[f] = {}
=============================================================================
