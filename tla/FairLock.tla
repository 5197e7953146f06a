------------------------------ MODULE FairLock ------------------------------
(***************************************************************************)
(* StFairLock: a lock with FIFO waiters.  The releaser hands the lock to   *)
(* the front waiter: the state is busy again before that waiter runs.      *)
(***************************************************************************)
EXTENDS Naturals, Sequences

CONSTANTS Threads, MaxCancels, NoThread

FairLockAssumption == MaxCancels \in Nat /\ NoThread \notin Threads

VARIABLES
  locked, pending, list, frontRequest, privateQueue, force, grabbed, oldLen,
  pc, request, count, unparked, unlinked, lockGranted, wakeQueue,
  state, seen, entry, taken, ret, cancels

FLOCK_BUSY == 0
FLOCK_FREE == 1
ACQUIRE    == 1

Available(s, r) == s # FLOCK_BUSY
Take(s, r)      == FLOCK_BUSY
Undo(s, r)      == FLOCK_FREE
Exhausted(s)    == s = FLOCK_BUSY

\* The release loop passes State != FLOCK_BUSY, where the semaphore and the
\* reader/writer lock force the unlock when nothing is left to hand out.
ForceUnlock(s)  == s # FLOCK_BUSY
StopAfter(r)    == TRUE

INSTANCE QueuedSynchronizer
  WITH Requests <- {ACQUIRE}, InitialState <- FLOCK_FREE

vars == syncVars

Init == SyncInit

\* StFairLock_TryEnterEx, TryEnter and Enter.
Enter(t) == Call(t, ACQUIRE)

\* StFairLock_Exit.
Exit(t) == pc[t] = "holding" /\ Give(t, FLOCK_FREE, TRUE) /\ ForgetBlock(t)

Next ==
  \E t \in Threads : Enter(t) \/ Exit(t) \/ SyncStep(t) \/ ParkCancelled(t)

Spec == Init /\ [][Next]_vars

-----------------------------------------------------------------------------
(* Properties *)

\* The fair lock implements the mutex, though it is handed over to a waiter that
\* may have given up.
Holders == {t \in Threads : pc[t] = "holding"}
HandedLock == INSTANCE Mutex WITH holders <- Holders
FairExclusive == HandedLock!Spec
=============================================================================
