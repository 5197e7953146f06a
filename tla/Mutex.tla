------------------------------- MODULE Mutex --------------------------------
(***************************************************************************)
(* What an exclusive lock promises: a thread acquires the lock only when   *)
(* nobody holds it, and only its holder releases it.                       *)
(***************************************************************************)
CONSTANT Threads

VARIABLE holders   \* the threads that hold the lock

Init == holders = {}

Acquire(t) == holders = {} /\ holders' = {t}
Release(t) == holders = {t} /\ holders' = {}

Next == \E t \in Threads : Acquire(t) \/ Release(t)

Spec == Init /\ [][Next]_holders
=============================================================================
