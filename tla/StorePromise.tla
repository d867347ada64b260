---------------------------- MODULE StorePromise ----------------------------
(***************************************************************************)
(* What a repository's object store promises the tasks that work in it,    *)
(* seen from outside: it is not there, it is being built, or it stands on  *)
(* its own.  A store that stands never stops standing and is never built   *)
(* again, and no task ever works in one that does not stand.               *)
(***************************************************************************)
CONSTANT Tasks

VARIABLES phase, users

Phases == {"absent", "building", "standing"}

Init == phase = "absent" /\ users = {}

\* A build begins, and may never be finished.
Build == phase = "absent" /\ phase' = "building" /\ UNCHANGED users

Finish == phase = "building" /\ phase' = "standing" /\ UNCHANGED users

Join(t) ==
  /\ phase = "standing"
  /\ users' = users \cup {t}
  /\ UNCHANGED phase

Leave(t) ==
  /\ t \in users
  /\ users' = users \ {t}
  /\ UNCHANGED phase

Next == Build \/ Finish \/ \E t \in Tasks : Join(t) \/ Leave(t)

Spec == Init /\ [][Next]_<<phase, users>>
=============================================================================
