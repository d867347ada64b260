----------------------------- MODULE FetchProofs -----------------------------
(***************************************************************************)
(* Proofs about Fetch, for any number of repositories and of fetches, any  *)
(* length of history and anything that goes on meanwhile.                  *)
(***************************************************************************)
EXTENDS Fetch, SequenceTheorems, TLAPS

-----------------------------------------------------------------------------
(* Histories.                                                              *)

\* A history is a sequence of changes, and a bounded sequence is a history.
LEMMA HistoryIsSeq ==
  ASSUME NEW h
  PROVE  h \in Histories <=> h \in Seq(Changes) /\ Len(h) <= MaxHistory
<1>1. ASSUME h \in Histories PROVE h \in Seq(Changes) /\ Len(h) <= MaxHistory
  <2>1. PICK n \in 0..MaxHistory : h \in [1..n -> Changes]
    BY <1>1 DEF Histories
  <2>2. n \in Nat /\ n <= MaxHistory
    BY <2>1, HistoryAssumption
  <2>3. h \in Seq(Changes)
    BY <2>1, <2>2, SeqDef
  <2>4. Len(h) = n
    BY <2>1, <2>2, <2>3, LenProperties
  <2> QED
    BY <2>2, <2>3, <2>4
<1>2. ASSUME h \in Seq(Changes), Len(h) <= MaxHistory PROVE h \in Histories
  <2>1. Len(h) \in 0..MaxHistory /\ h \in [1..Len(h) -> Changes]
    BY <1>2, LenProperties, HistoryAssumption
  <2> QED
    BY <2>1 DEF Histories
<1> QED
  BY <1>1, <1>2

\* A commit on top of a commit is a history as long as the bound allows one,
\* and leads to all that was there.
LEMMA Commits ==
  ASSUME NEW h \in Histories, NEW c \in Changes
  PROVE  /\ Len(h) < MaxHistory => Append(h, c) \in Histories
         /\ Len(Append(h, c)) > 0 /\ Last(Append(h, c)) = c
         /\ IsPrefix(h, Append(h, c))
<1>1. h \in Seq(Changes) /\ Len(h) \in Nat
  BY HistoryIsSeq, LenProperties
<1>2. /\ Append(h, c) \in Seq(Changes) /\ Len(Append(h, c)) = Len(h) + 1
      /\ Append(h, c)[Len(h) + 1] = c
      /\ \A i \in 1..Len(h) : Append(h, c)[i] = h[i]
  BY <1>1
<1>3. ASSUME Len(h) < MaxHistory PROVE Append(h, c) \in Histories
  <2>1. \A m, n \in Nat : m < n => m + 1 <= n
    OBVIOUS
  <2>2. Len(Append(h, c)) <= MaxHistory
    BY <1>1, <1>2, <1>3, <2>1, HistoryAssumption
  <2> QED
    BY <1>2, <2>2, HistoryIsSeq
<1>4. SubSeq(h, 1, Len(h)) = SubSeq(Append(h, c), 1, Len(h))
  <2>1. \A i \in 1..Len(h) : h[i] \in Changes /\ Append(h, c)[i] \in Changes
    BY <1>1, <1>2, ElementOfSeq
  <2>2. /\ SubSeq(h, 1, Len(h)) \in Seq(Changes)
        /\ Len(SubSeq(h, 1, Len(h))) = IF 1 <= Len(h) THEN Len(h) - 1 + 1 ELSE 0
        /\ \A i \in 1..Len(h) - 1 + 1 : SubSeq(h, 1, Len(h))[i] = h[1 + i - 1]
    BY <1>1, <2>1, SubSeqProperties
  <2>3. /\ SubSeq(Append(h, c), 1, Len(h)) \in Seq(Changes)
        /\ Len(SubSeq(Append(h, c), 1, Len(h))) = IF 1 <= Len(h) THEN Len(h) - 1 + 1 ELSE 0
        /\ \A i \in 1..Len(h) - 1 + 1 :
             SubSeq(Append(h, c), 1, Len(h))[i] = Append(h, c)[1 + i - 1]
    BY <1>1, <2>1, SubSeqProperties
  <2>4. /\ Len(SubSeq(h, 1, Len(h))) = Len(h)
        /\ Len(SubSeq(Append(h, c), 1, Len(h))) = Len(h)
    BY <1>1, <2>2, <2>3
  <2>5. \A i \in 1..Len(h) :
          SubSeq(h, 1, Len(h))[i] = SubSeq(Append(h, c), 1, Len(h))[i]
    BY <1>1, <1>2, <2>2, <2>3
  <2> QED
    BY <2>2, <2>3, <2>4, <2>5, SeqEqual
<1> QED
  BY <1>1, <1>2, <1>3, <1>4 DEF IsPrefix, Last

\* A commit can be rewritten when there is one.
LEMMA Rewrites ==
  ASSUME NEW h \in Histories, h # <<>>
  PROVE  Append(Front(h), "amended") \in Histories
<1>1. h \in Seq(Changes) /\ Len(h) \in Nat /\ Len(h) <= MaxHistory
  BY HistoryIsSeq, LenProperties
<1>2. Len(h) > 0
  BY <1>1, EmptySeq
<1>3. \A i \in 1..Len(h) - 1 : h[i] \in Changes
  BY <1>1, ElementOfSeq
<1>4. Front(h) \in Seq(Changes)
      /\ Len(Front(h)) = IF 1 <= Len(h) - 1 THEN Len(h) - 1 - 1 + 1 ELSE 0
  BY <1>1, <1>3, SubSeqProperties DEF Front
<1>5. Len(Front(h)) = Len(h) - 1
  <2>1. \A n \in Nat : n > 0 => (IF 1 <= n - 1 THEN n - 1 - 1 + 1 ELSE 0) = n - 1
    OBVIOUS
  <2> QED
    BY <1>1, <1>2, <1>4, <2>1
<1>6. Append(Front(h), "amended") \in Seq(Changes)
      /\ Len(Append(Front(h), "amended")) = Len(h)
  BY <1>1, <1>4, <1>5 DEF Changes
<1> QED
  BY <1>1, <1>6, HistoryIsSeq

\* Whatever it is, it leads to itself.
LEMMA PrefixOfItself == ASSUME NEW h \in Histories PROVE IsPrefix(h, h)
<1>1. Len(h) \in Nat
  BY HistoryIsSeq, LenProperties
<1> QED
  BY <1>1 DEF IsPrefix

-----------------------------------------------------------------------------
(* Types.                                                                  *)

\* A pass goes on within the record, or it is over.
LEMMA AdvanceTyped ==
  ASSUME TypeOK, NEW f \in Fetchers, NEW next, Advance(f, next)
  PROVE  /\ at' \in [Fetchers -> Repos]
         /\ \A g \in Fetchers \ {f} : at'[g] = at[g] /\ pc'[g] = pc[g]
         /\ \/ at[f] < N /\ at'[f] = at[f] + 1 /\ pc' = pc
            \/ /\ at[f] = N /\ at'[f] = 1 /\ pc'[f] = next
               /\ pc' = [pc EXCEPT ![f] = next]
<1>1. at \in [Fetchers -> Repos] /\ pc \in [Fetchers -> {"idle", "check", "bring", "done", "failed"}]
  BY DEF TypeOK
<1>2. at[f] \in Nat /\ N \in Nat /\ 1 <= at[f] /\ at[f] <= N
  BY <1>1, NAssumption DEF Repos
<1>3. CASE at[f] < N
  <2>1. at' = [at EXCEPT ![f] = at[f] + 1] /\ pc' = pc
    BY <1>3 DEF Advance
  <2>2. at[f] + 1 \in Repos
    BY <1>2, <1>3 DEF Repos
  <2> QED
    BY <1>1, <1>3, <2>1, <2>2
<1>4. CASE ~(at[f] < N)
  <2>1. at' = [at EXCEPT ![f] = 1] /\ pc' = [pc EXCEPT ![f] = next]
    BY <1>4 DEF Advance
  <2>2. 1 \in Repos /\ at[f] = N
    BY <1>2, <1>4 DEF Repos
  <2> QED
    BY <1>1, <2>1, <2>2
<1> QED
  BY <1>3, <1>4

LEMMA FailTyped ==
  ASSUME TypeOK, NEW f \in Fetchers, Fail(f)
  PROVE  /\ at' = at /\ pc'[f] = "failed"
         /\ pc' \in [Fetchers -> {"idle", "check", "bring", "done", "failed"}]
         /\ \A g \in Fetchers \ {f} : pc'[g] = pc[g]
BY DEF Fail, TypeOK

LEMMA TypeInit == Init => TypeOK
<1> SUFFICES ASSUME Init PROVE TypeOK
  OBVIOUS
<1>1. <<>> \in Histories /\ <<"new">> \in Histories
  <2>1. <<>> \in Seq(Changes) /\ Len(<<>>) = 0
    BY EmptySeq
  <2>2. <<"new">> \in Seq(Changes) /\ Len(<<"new">>) = 1
    BY DEF Changes
  <2>3. 0 <= MaxHistory /\ 1 <= MaxHistory
    BY HistoryAssumption
  <2>4. <<>> \in Histories
    BY <2>1, <2>3, HistoryIsSeq
  <2> QED
    BY <2>2, <2>3, <2>4, HistoryIsSeq
<1>2. 1 \in Repos
  BY NAssumption DEF Repos
<1> QED
  BY <1>1, <1>2 DEF Init, TypeOK

LEMMA TypeStep == TypeOK /\ [Next]_vars => TypeOK'
<1> SUFFICES ASSUME TypeOK, [Next]_vars PROVE TypeOK'
  OBVIOUS
<1> USE DEF TypeOK
<1>1. ASSUME NEW f \in Fetchers, Begin(f) PROVE TypeOK'
  <2>1. 1 \in Repos
    BY NAssumption DEF Repos
  <2> QED
    BY <1>1, <2>1 DEF Begin, repositories
<1>2. ASSUME NEW f \in Fetchers, Check(f) PROVE TypeOK'
  <2>1. at' \in [Fetchers -> Repos]
        /\ pc' \in [Fetchers -> {"idle", "check", "bring", "done", "failed"}]
    <3>1. CASE Fail(f)
      BY <3>1, FailTyped
    <3>2. CASE Advance(f, "bring")
      BY <3>2, AdvanceTyped
    <3> QED
      BY <1>2, <3>1, <3>2 DEF Check
  <2>2. plan' \in [Fetchers -> [Repos -> Histories \cup {NoBranch}]]
    BY <1>2 DEF Check
  <2> QED
    BY <1>2, <2>1, <2>2 DEF Check, repositories
<1>3. ASSUME NEW f \in Fetchers, Bring(f) PROVE TypeOK'
  <2>1. at' \in [Fetchers -> Repos]
        /\ pc' \in [Fetchers -> {"idle", "check", "bring", "done", "failed"}]
    <3>1. CASE Fail(f)
      BY <3>1, FailTyped
    <3>2. CASE Advance(f, "done")
      BY <3>2, AdvanceTyped
    <3> QED
      BY <1>3, <3>1, <3>2 DEF Bring
  <2>2. at[f] \in Repos
    OBVIOUS
  <2>3. branch' \in [Repos -> Histories \cup {NoBranch}]
    BY <1>3, <2>2 DEF Bring
  <2>4. moved' \in [Fetchers -> SUBSET Repos]
    BY <1>3, <2>2 DEF Bring
  <2>5. alone' \in [Fetchers -> BOOLEAN]
    BY <1>3 DEF Bring
  <2> QED
    BY <1>3, <2>1, <2>3, <2>4, <2>5 DEF Bring
<1>4. CASE Meddle
  <2>1. UNCHANGED <<pc, at, plan, moved>> /\ alone' \in [Fetchers -> BOOLEAN]
    BY <1>4 DEF Meddle
  <2>2. ASSUME NEW r \in Repos, Agent(r) \/ Removal(r)
        PROVE  tip' \in [Repos -> Histories \cup {NoBranch}] /\ UNCHANGED <<branch, head, clash>>
    <3>0. tip[r] # NoBranch
      BY <2>2, Zenon DEF Agent, Removal
    <3>1. tip[r] \in Histories
      BY <3>0
    <3>2. Len(tip[r]) < MaxHistory => Append(tip[r], "new") \in Histories
      BY <3>1, Commits DEF Changes
    <3>3. tip[r] # <<>> => Append(Front(tip[r]), "amended") \in Histories
      BY <3>1, Rewrites
    <3>4. \E h \in Histories \cup {NoBranch} : tip' = [tip EXCEPT ![r] = h]
      <4>1. CASE Len(tip[r]) < MaxHistory /\ tip' = [tip EXCEPT ![r] = Append(@, "new")]
        BY <3>2, <4>1
      <4>2. CASE tip[r] # <<>> /\ tip' = [tip EXCEPT ![r] = Append(Front(@), "amended")]
        BY <3>3, <4>2
      <4>3. CASE tip' = [tip EXCEPT ![r] = NoBranch]
        BY <4>3
      <4> QED
        BY <2>2, <4>1, <4>2, <4>3, Zenon DEF Agent, Removal
    <3>5. UNCHANGED <<branch, head, clash>>
      BY <2>2, Zenon DEF Agent, Removal
    <3> QED
      BY <3>4, <3>5
  <2>3. ASSUME NEW r \in Repos, Developer(r)
        PROVE  /\ tip' = tip /\ branch' \in [Repos -> Histories \cup {NoBranch}]
               /\ head' \in [Repos -> BOOLEAN] /\ clash' \in [Repos -> BOOLEAN]
    <3>1. branch[r] # NoBranch /\ Len(branch[r]) < MaxHistory
            => Append(branch[r], "own") \in Histories
      <4>1. branch[r] # NoBranch => branch[r] \in Histories
        OBVIOUS
      <4> QED
        BY <4>1, Commits DEF Changes
    <3>2. branch' = branch \/ \E h \in Histories \cup {NoBranch} : branch' = [branch EXCEPT ![r] = h]
      <4>1. CASE /\ branch[r] # NoBranch /\ Len(branch[r]) < MaxHistory
                 /\ branch' = [branch EXCEPT ![r] = Append(@, "own")]
        BY <3>1, <4>1
      <4>2. CASE branch' = [branch EXCEPT ![r] = NoBranch]
        BY <4>2
      <4> QED
        BY <2>3, <4>1, <4>2, Zenon DEF Developer
    <3>3. branch' \in [Repos -> Histories \cup {NoBranch}]
      BY <3>2
    <3>4. /\ head' = head \/ head' = [head EXCEPT ![r] = ~@]
          /\ clash' = clash \/ clash' = [clash EXCEPT ![r] = ~@]
      BY <2>3, Zenon DEF Developer
    <3>5. head' \in [Repos -> BOOLEAN] /\ clash' \in [Repos -> BOOLEAN]
      BY <3>4
    <3> QED
      BY <2>3, <3>3, <3>5, Zenon DEF Developer
  <2> QED
    BY <1>4, <2>1, <2>2, <2>3 DEF Meddle
<1>5. ASSUME NEW f \in Fetchers, GitFails(f) PROVE TypeOK'
  <2>1. at' \in [Fetchers -> Repos]
        /\ pc' \in [Fetchers -> {"idle", "check", "bring", "done", "failed"}]
    <3>1. CASE Fail(f)
      BY <3>1, FailTyped
    <3>2. CASE Advance(f, "bring")
      BY <3>2, AdvanceTyped
    <3> QED
      BY <1>5, <3>1, <3>2, Zenon DEF GitFails
  <2>2. at[f] \in Repos /\ tip[at[f]] \in Histories \cup {NoBranch}
    <3>1. at[f] \in Repos
      OBVIOUS
    <3> QED
      BY <3>1
  <2>3. plan' \in {plan, [plan EXCEPT ![f][at[f]] = tip[at[f]]]}
    BY <1>5 DEF GitFails
  <2>4. plan' \in [Fetchers -> [Repos -> Histories \cup {NoBranch}]]
    <3>1. CASE plan' = plan
      BY <3>1
    <3>2. CASE plan' = [plan EXCEPT ![f][at[f]] = tip[at[f]]]
      BY <2>2, <3>2
    <3> QED
      BY <2>3, <3>1, <3>2
  <2>5. UNCHANGED <<repositories, moved>> /\ alone' \in [Fetchers -> BOOLEAN]
    BY <1>5 DEF GitFails
  <2> QED
    BY <2>1, <2>4, <2>5 DEF repositories
<1>6. CASE UNCHANGED vars
  BY <1>6 DEF vars
<1> QED
  BY <1>1, <1>2, <1>3, <1>4, <1>5, <1>6 DEF Next

\* Every variable of every fetch stays in its range.
THEOREM FetchTyped == Spec => []TypeOK
BY TypeInit, TypeStep, PTL DEF Spec

-----------------------------------------------------------------------------
(* The developer's branches.                                               *)

\* What may become of a branch in one step: somebody's fetch fast-forwards it
\* to the task's, unless it is checked out; its owner commits to it, or
\* deletes it while he stands elsewhere.
LEMMA BranchMoves ==
  ASSUME TypeOK, [Next]_vars, NEW r \in Repos, branch'[r] # branch[r]
  PROVE  \/ ~head[r] /\ tip[r] # NoBranch /\ branch'[r] = tip[r]
            /\ Ancestor(branch[r], tip[r])
         \/ branch[r] # NoBranch /\ branch'[r] = Append(branch[r], "own")
         \/ ~head[r] /\ branch'[r] = NoBranch
<1>1. branch \in [Repos -> Histories \cup {NoBranch}]
  BY DEF TypeOK
<1>2. CASE \E f \in Fetchers : Begin(f) \/ Check(f) \/ GitFails(f)
  BY <1>2, Zenon DEF Begin, Check, GitFails, repositories
<1>3. ASSUME NEW f \in Fetchers, Bring(f)
      PROVE  ~head[r] /\ tip[r] # NoBranch /\ branch'[r] = tip[r]
             /\ Ancestor(branch[r], tip[r])
  <2>1. ~Refused(at[f]) /\ branch' = [branch EXCEPT ![at[f]] = tip[at[f]]]
    BY <1>3, Zenon DEF Bring
  <2>2. at[f] = r /\ branch'[r] = tip[r]
    BY <1>1, <2>1
  <2> QED
    BY <2>1, <2>2 DEF Refused
<1>4. CASE Meddle
  <2>1. PICK q \in Repos : Agent(q) \/ Developer(q) \/ Removal(q)
    BY <1>4 DEF Meddle
  <2>2. Developer(q)
    BY <2>1, Zenon DEF Agent, Removal
  <2>3. CASE branch[q] # NoBranch /\ branch' = [branch EXCEPT ![q] = Append(@, "own")]
    BY <1>1, <2>3
  <2>4. CASE ~head[q] /\ branch' = [branch EXCEPT ![q] = NoBranch]
    BY <1>1, <2>4
  <2> QED
    BY <2>2, <2>3, <2>4, Zenon DEF Developer
<1> QED
  BY <1>2, <1>3, <1>4, Zenon DEF Next, vars

\* "A branch they own is never forced": a fetch only ever adds to what the
\* developer has, whatever he has committed since the first pass.
THEOREM BranchesAreNotForced == Spec => NeverForced
<1>1. TypeOK /\ [Next]_vars =>
        [\A r \in Repos : NoBranch \notin {branch[r], branch'[r]} =>
           IsPrefix(branch[r], branch'[r])]_vars
  <2> SUFFICES ASSUME TypeOK, [Next]_vars, NEW r \in Repos,
                      branch[r] # NoBranch, branch'[r] # NoBranch
               PROVE  IsPrefix(branch[r], branch'[r])
    OBVIOUS
  <2>1. branch[r] \in Histories
    BY DEF TypeOK
  <2>2. CASE branch'[r] = branch[r]
    BY <2>1, <2>2, PrefixOfItself
  <2>3. CASE branch'[r] = Append(branch[r], "own")
    BY <2>1, <2>3, Commits DEF Changes
  <2>4. CASE branch'[r] = tip[r] /\ Ancestor(branch[r], tip[r])
    BY <2>4 DEF Ancestor
  <2> QED
    BY <2>2, <2>3, <2>4, BranchMoves
<1> QED
  BY TypeInit, TypeStep, <1>1, PTL DEF Spec, NeverForced

\* The branch the developer stands on moves by his own commits alone, also
\* when he has switched to it between the two passes.
THEOREM CheckedOutIsLeftAlone == Spec => HeadLeftAlone
<1>1. TypeOK /\ [Next]_vars =>
        [\A r \in Repos : head[r] /\ branch'[r] # branch[r] =>
           Len(branch'[r]) > 0 /\ Last(branch'[r]) = "own"]_vars
  <2> SUFFICES ASSUME TypeOK, [Next]_vars, NEW r \in Repos,
                      head[r], branch'[r] # branch[r]
               PROVE  Len(branch'[r]) > 0 /\ Last(branch'[r]) = "own"
    OBVIOUS
  <2>1. branch[r] # NoBranch /\ branch'[r] = Append(branch[r], "own")
    BY BranchMoves
  <2>2. branch[r] \in Histories
    BY <2>1 DEF TypeOK
  <2> QED
    BY <2>1, <2>2, Commits DEF Changes
<1> QED
  BY TypeInit, TypeStep, <1>1, PTL DEF Spec, HeadLeftAlone

-----------------------------------------------------------------------------
(* A fetch nobody interferes with.                                         *)

\* What the first pass has made sure of.
Judged(f, r) ==
  /\ ~clash[r] /\ r \notin moved[f]
  /\ \/ plan[f][r] = NoBranch /\ (tip[r] = NoBranch \/ branch[r] = tip[r])
     \/ plan[f][r] = tip[r] /\ tip[r] # NoBranch /\ Ancestor(branch[r], tip[r])

\* What the second pass has done about it.
Settled(f, r) ==
  \/ /\ plan[f][r] = NoBranch /\ r \notin moved[f]
     /\ tip[r] = NoBranch \/ branch[r] = tip[r]
  \/ /\ plan[f][r] = tip[r] /\ tip[r] # NoBranch /\ r \in moved[f]
     /\ branch[r] = tip[r]

\* Left alone, a fetch finds the repositories before the one in hand as it
\* has left them, and in the second pass the others as the first one has.
Foreseen(f) ==
  /\ pc[f] = "check" =>
       \A r \in Repos : IF r < at[f] THEN Judged(f, r)
                        ELSE plan[f][r] = NoBranch /\ r \notin moved[f]
  /\ pc[f] = "bring" =>
       \A r \in Repos : IF r < at[f] THEN Settled(f, r) ELSE Judged(f, r)
  /\ pc[f] = "done" => \A r \in Repos : Settled(f, r)
  /\ pc[f] = "failed" => moved[f] = {} \/ \E r \in Repos : head[r]

Undisturbed == \A f \in Fetchers : alone[f] => Foreseen(f)

\* A step that touches neither the repositories nor this fetch.
LEMMA StillForeseen ==
  ASSUME NEW g \in Fetchers, Foreseen(g), UNCHANGED repositories,
         pc'[g] = pc[g], at'[g] = at[g], plan'[g] = plan[g], moved'[g] = moved[g]
  PROVE  Foreseen(g)'
BY DEF Foreseen, Judged, Settled, repositories

LEMMA BeginForeseen ==
  ASSUME TypeOK, NEW f \in Fetchers, Begin(f)
  PROVE  Foreseen(f)'
<1>1. /\ pc'[f] = "check" /\ at'[f] = 1 /\ moved'[f] = {}
      /\ plan'[f] = [r \in Repos |-> NoBranch]
  BY DEF Begin, TypeOK
<1>2. \A r \in Repos : ~(r < 1)
  BY NAssumption DEF Repos
<1> QED
  BY <1>1, <1>2 DEF Foreseen

LEMMA CheckForeseen ==
  ASSUME TypeOK, NEW f \in Fetchers, Foreseen(f), Check(f)
  PROVE  Foreseen(f)'
<1>0. PICK r \in Repos : r = at[f]
  BY DEF TypeOK
<1>1. pc[f] = "check" /\ UNCHANGED <<tip, branch, head, clash, moved, alone>>
  BY Zenon DEF Check, repositories
<1>2. \A q \in Repos : q \notin moved[f] /\ (q >= r => plan[f][q] = NoBranch)
  <2>1. \A q \in Repos : q >= r <=> ~(q < r)
    BY <1>0, <1>1, NAssumption DEF Repos
  <2> QED
    BY <1>0, <1>1, <2>1 DEF Foreseen, Judged
<1>3. CASE Fail(f)
  <2>1. moved[f] = {}
    BY <1>2 DEF TypeOK
  <2> QED
    BY <1>0, <1>1, <1>3, <2>1, FailTyped DEF Foreseen
<1>4. CASE ~Fail(f)
  <2>1. /\ ~clash[r] /\ Advance(f, "bring")
        /\ \/ /\ tip[r] = NoBranch \/ branch[r] = tip[r]
              /\ plan' = plan
           \/ /\ tip[r] # NoBranch /\ Ancestor(branch[r], tip[r])
              /\ plan' = [plan EXCEPT ![f][r] = tip[r]]
    BY <1>0, <1>4, Zenon DEF Check
  <2>2. plan[f][r] = NoBranch
    BY <1>0, <1>1, <1>2, NAssumption DEF Repos
  <2>3. /\ \A q \in Repos \ {r} : plan'[f][q] = plan[f][q]
        /\ \/ /\ plan'[f][r] = NoBranch
              /\ tip[r] = NoBranch \/ branch[r] = tip[r]
           \/ /\ plan'[f][r] = tip[r]
              /\ tip[r] # NoBranch /\ Ancestor(branch[r], tip[r])
    <3>1. CASE plan' = plan /\ (tip[r] = NoBranch \/ branch[r] = tip[r])
      BY <2>2, <3>1
    <3>2. CASE /\ tip[r] # NoBranch /\ Ancestor(branch[r], tip[r])
               /\ plan' = [plan EXCEPT ![f][r] = tip[r]]
      BY <1>0, <1>1, <3>2 DEF TypeOK
    <3> QED
      BY <2>1, <3>1, <3>2
  <2>4. Judged(f, r)'
    BY <1>1, <1>2, <2>1, <2>3 DEF Judged, Ancestor
  <2>5. \A q \in Repos : q < r => Judged(f, q)'
    <3> SUFFICES ASSUME NEW q \in Repos, q < r PROVE Judged(f, q)'
      OBVIOUS
    <3>1. q # r /\ Judged(f, q)
      BY <1>0, <1>1 DEF Foreseen, Repos
    <3> QED
      BY <1>0, <1>1, <2>3, <3>1 DEF Judged, Ancestor
  <2>6. \A q \in Repos : q <= r => Judged(f, q)'
    BY <1>0, <1>1, <2>4, <2>5 DEF Repos
  <2>7. CASE r < N /\ at'[f] = r + 1 /\ pc' = pc
    <3>1. \A q \in Repos : q < r + 1 <=> q <= r
      BY <1>0, <1>1 DEF Repos
    <3>2. \A q \in Repos : ~(q < r + 1) => q # r /\ q >= r
      BY <1>0, <1>1 DEF Repos
    <3>3. pc'[f] = "check" /\ moved' = moved
      BY <1>0, <1>1, <2>7
    <3>4. \A q \in Repos : IF q < r + 1 THEN Judged(f, q)'
                           ELSE plan'[f][q] = NoBranch /\ q \notin moved'[f]
      BY <1>2, <2>3, <2>6, <3>1, <3>2, <3>3
    <3> QED
      BY <2>7, <3>3, <3>4 DEF Foreseen
  <2>8. CASE r = N /\ at'[f] = 1 /\ pc'[f] = "bring"
    <3>1. \A q \in Repos : ~(q < 1) /\ q <= r
      BY <2>8, NAssumption DEF Repos
    <3> QED
      BY <2>6, <2>8, <3>1 DEF Foreseen
  <2> QED
    BY <1>0, <2>1, <2>7, <2>8, AdvanceTyped
<1> QED
  BY <1>0, <1>3, <1>4

LEMMA BringForeseen ==
  ASSUME TypeOK, NEW f \in Fetchers, Foreseen(f), Bring(f)
  PROVE  Foreseen(f)'
<1>0. PICK r \in Repos : r = at[f]
  BY DEF TypeOK
<1>1. pc[f] = "bring" /\ UNCHANGED <<tip, head, clash, plan>>
  BY Zenon DEF Bring
<1>2. \A q \in Repos : (q < r => Settled(f, q)) /\ (q >= r => Judged(f, q))
  <2>1. \A q \in Repos : q >= r <=> ~(q < r)
    BY <1>0, <1>1, NAssumption DEF Repos
  <2> QED
    BY <1>0, <1>1, <2>1 DEF Foreseen
<1>3. Judged(f, r)
  BY <1>0, <1>1, <1>2, NAssumption DEF Repos
<1>4. CASE plan[f][r] # NoBranch /\ Refused(r) /\ Fail(f)
  <2>1. head[r]
    BY <1>0, <1>3, <1>4 DEF Judged, Refused
  <2> QED
    BY <1>0, <1>1, <1>4, <2>1, FailTyped DEF Foreseen
<1>5. CASE ~(plan[f][r] # NoBranch /\ Refused(r) /\ Fail(f))
  <2>1. /\ Advance(f, "done")
        /\ \/ plan[f][r] = NoBranch /\ UNCHANGED <<branch, moved>>
           \/ /\ plan[f][r] # NoBranch
              /\ branch' = [branch EXCEPT ![r] = tip[r]]
              /\ moved' = [moved EXCEPT ![f] = @ \cup {r}]
    BY <1>0, <1>5, Zenon DEF Bring
  <2>2. /\ \A q \in Repos \ {r} : branch'[q] = branch[q] /\ (q \in moved'[f] <=> q \in moved[f])
        /\ \/ plan[f][r] = NoBranch /\ branch'[r] = branch[r] /\ moved'[f] = moved[f]
           \/ plan[f][r] # NoBranch /\ branch'[r] = tip[r] /\ r \in moved'[f]
    <3>1. CASE plan[f][r] = NoBranch /\ UNCHANGED <<branch, moved>>
      BY <3>1
    <3>2. CASE /\ plan[f][r] # NoBranch
               /\ branch' = [branch EXCEPT ![r] = tip[r]]
               /\ moved' = [moved EXCEPT ![f] = @ \cup {r}]
      BY <1>0, <1>1, <3>2 DEF TypeOK
    <3> QED
      BY <2>1, <3>1, <3>2
  <2>3. Settled(f, r)'
    BY <1>0, <1>1, <1>3, <2>2 DEF Judged, Settled
  <2>4. \A q \in Repos : q < r => Settled(f, q)'
    <3> SUFFICES ASSUME NEW q \in Repos, q < r PROVE Settled(f, q)'
      OBVIOUS
    <3>1. q # r /\ Settled(f, q)
      BY <1>0, <1>1, <1>2 DEF Repos
    <3> QED
      BY <1>0, <1>1, <2>2, <3>1 DEF Settled
  <2>5. \A q \in Repos : q > r => Judged(f, q)'
    <3> SUFFICES ASSUME NEW q \in Repos, q > r PROVE Judged(f, q)'
      OBVIOUS
    <3>1. q # r /\ Judged(f, q)
      BY <1>0, <1>1, <1>2 DEF Repos
    <3> QED
      BY <1>0, <1>1, <2>2, <3>1 DEF Judged, Ancestor
  <2>6. CASE r < N /\ at'[f] = r + 1 /\ pc' = pc
    <3>1. \A q \in Repos : (q < r + 1 => q < r \/ q = r) /\ (~(q < r + 1) => q > r)
      BY <1>0, <1>1 DEF Repos
    <3>2. \A q \in Repos : IF q < r + 1 THEN Settled(f, q)' ELSE Judged(f, q)'
      BY <2>3, <2>4, <2>5, <3>1
    <3>3. pc'[f] = "bring"
      BY <1>0, <1>1, <2>6
    <3> QED
      BY <2>6, <3>2, <3>3 DEF Foreseen
  <2>7. CASE r = N /\ at'[f] = 1 /\ pc'[f] = "done"
    <3>1. \A q \in Repos : q < r \/ q = r
      BY <2>7, NAssumption DEF Repos
    <3> QED
      BY <2>3, <2>4, <2>7, <3>1 DEF Foreseen
  <2> QED
    BY <1>0, <2>1, <2>6, <2>7, AdvanceTyped
<1> QED
  BY <1>0, <1>4, <1>5

LEMMA UndisturbedStep == TypeOK /\ Undisturbed /\ [Next]_vars => Undisturbed'
<1> SUFFICES ASSUME TypeOK, Undisturbed, [Next]_vars, NEW g \in Fetchers, alone'[g]
             PROVE  Foreseen(g)'
  BY DEF Undisturbed
<1>1. ASSUME NEW f \in Fetchers, Begin(f) PROVE Foreseen(g)'
  <2>1. CASE f = g
    BY <1>1, <2>1, BeginForeseen
  <2>2. CASE f # g
    <3>1. /\ alone[g] /\ pc'[g] = pc[g] /\ at'[g] = at[g]
          /\ plan'[g] = plan[g] /\ moved'[g] = moved[g] /\ UNCHANGED repositories
      BY <1>1, <2>2 DEF Begin, TypeOK
    <3> QED
      BY <3>1, StillForeseen DEF Undisturbed
  <2> QED
    BY <2>1, <2>2
<1>2. ASSUME NEW f \in Fetchers, Check(f) PROVE Foreseen(g)'
  <2>1. alone[g] /\ moved' = moved /\ UNCHANGED repositories
    BY <1>2, Zenon DEF Check
  <2>2. CASE f = g
    BY <1>2, <2>1, <2>2, CheckForeseen DEF Undisturbed
  <2>3. CASE f # g
    <3>1. pc'[g] = pc[g] /\ at'[g] = at[g]
      <4>1. CASE Fail(f)
        BY <2>3, <4>1, FailTyped
      <4>2. CASE Advance(f, "bring")
        BY <2>3, <4>2, AdvanceTyped
      <4> QED
        BY <1>2, <4>1, <4>2, Zenon DEF Check
    <3>2. plan'[g] = plan[g]
      BY <1>2, <2>3 DEF Check, TypeOK
    <3> QED
      BY <2>1, <3>1, <3>2, StillForeseen DEF Undisturbed
  <2> QED
    BY <2>2, <2>3
<1>3. ASSUME NEW f \in Fetchers, Bring(f) PROVE Foreseen(g)'
  <2>1. CASE f = g
    <3>1. alone[g]
      BY <1>3, <2>1 DEF Bring
    <3> QED
      BY <1>3, <2>1, <3>1, BringForeseen DEF Undisturbed
  <2>2. CASE f # g
    <3>1. alone[g] /\ UNCHANGED <<tip, branch, head, clash, moved, plan>>
      BY <1>3, <2>2 DEF Bring
    <3>2. pc'[g] = pc[g] /\ at'[g] = at[g]
      <4>1. CASE Fail(f)
        BY <2>2, <4>1, FailTyped
      <4>2. CASE Advance(f, "done")
        BY <2>2, <4>2, AdvanceTyped
      <4> QED
        BY <1>3, <4>1, <4>2, Zenon DEF Bring
    <3> QED
      BY <3>1, <3>2, StillForeseen DEF Undisturbed, repositories
  <2> QED
    BY <2>1, <2>2
<1>4. CASE Meddle
  BY <1>4 DEF Meddle
<1>5. ASSUME NEW f \in Fetchers, GitFails(f) PROVE Foreseen(g)'
  <2>1. alone' = [alone EXCEPT ![f] = FALSE] /\ moved' = moved /\ UNCHANGED repositories
    BY <1>5, Zenon DEF GitFails
  <2>2. f # g /\ alone[g]
    BY <2>1 DEF TypeOK
  <2>3. pc'[g] = pc[g] /\ at'[g] = at[g]
    <3>1. CASE Fail(f)
      BY <2>2, <3>1, FailTyped
    <3>2. CASE Advance(f, "bring")
      BY <2>2, <3>2, AdvanceTyped
    <3> QED
      BY <1>5, <3>1, <3>2, Zenon DEF GitFails
  <2>4. plan'[g] = plan[g]
    <3>1. plan' \in {plan, [plan EXCEPT ![f][at[f]] = tip[at[f]]]}
      BY <1>5 DEF GitFails
    <3> QED
      BY <2>2, <3>1 DEF TypeOK
  <2> QED
    BY <2>1, <2>2, <2>3, <2>4, StillForeseen DEF Undisturbed
<1>6. CASE UNCHANGED vars
  <2>1. alone[g]
    BY <1>6 DEF vars
  <2> QED
    BY <1>6, <2>1, StillForeseen DEF vars, repositories, Undisturbed
<1> QED
  BY <1>1, <1>2, <1>3, <1>4, <1>5, <1>6 DEF Next

LEMMA UndisturbedAlways == Spec => [](TypeOK /\ Undisturbed)
<1>1. Init => Undisturbed
  BY DEF Init, Undisturbed
<1> QED
  BY TypeInit, TypeStep, <1>1, UndisturbedStep, PTL DEF Spec

\* Half a task only because of somebody else: whatever goes wrong with a fetch
\* nobody interferes with, but for a branch that is checked out, goes wrong
\* before it has moved the first branch.
THEOREM FailuresAreForeseen == Spec => []ForeseenOrDisturbed
<1>1. TypeOK /\ Undisturbed => ForeseenOrDisturbed
  BY DEF Undisturbed, Foreseen, ForeseenOrDisturbed, TypeOK
<1> QED
  BY <1>1, UndisturbedAlways, PTL

\* A fetch nobody interferes with brings every branch over when it succeeds,
\* and reports those it has moved.
THEOREM EverythingArrives == Spec => []Delivered
<1>1. TypeOK /\ Undisturbed => Delivered
  BY DEF Undisturbed, Foreseen, Settled, Delivered
<1> QED
  BY <1>1, UndisturbedAlways, PTL
=============================================================================
