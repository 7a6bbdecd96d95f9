------------------------------- MODULE Mutex -------------------------------
(***************************************************************************)
(* What a caller of src/lock.js relies on: an object enters its section    *)
(* when nobody is inside, and leaves it by releasing, by dying or by       *)
(* staying too long.  RedisLock is shown to implement this specification   *)
(* up to the first section that lasts as long as the shortest lockTimeout  *)
(* used on the key.                                                        *)
(***************************************************************************)
CONSTANT Procs      \* the lock objects that compete for the key

VARIABLE inside     \* those that are in their section

Init == inside = {}

Enter(p) == inside = {} /\ inside' = {p}

Leave(p) == inside = {p} /\ inside' = {}

Next == \E p \in Procs : Enter(p) \/ Leave(p)

Spec == Init /\ [][Next]_inside
=============================================================================
