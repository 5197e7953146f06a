---------------------------- MODULE ReentrantLock ----------------------------
(***************************************************************************)
(* The reentrant lock and the reentrant fair lock: an owner and a count of *)
(* recursive acquisitions over a lock that is not reentrant.  All threads  *)
(* read Owner, and only to compare it with themselves; Owner and Count are *)
(* written outside of the atomic steps of the lock below.                  *)
(*                                                                         *)
(* That lock is here what module Mutex says of it: it is acquired when it  *)
(* is free, or a wait for it is cancelled.  Count is 0 for one acquisition.*)
(***************************************************************************)
EXTENDS Naturals, FiniteSets

CONSTANTS Threads, NoThread,
          MaxDepth     \* bound: how often one thread holds the lock

ReentrantLockAssumption == NoThread \notin Threads /\ MaxDepth \in Nat \ {0}

VARIABLES
  holder,     \* the thread that holds RLock->Lock, or NoThread
  Owner,      \* RLock->Owner
  Count,      \* RLock->Count
  at,         \* where each thread is
  saved,      \* the local PreviousCount of a thread that waits on a condition
  depth       \* ghost: acquisitions that a thread has not released

vars == <<holder, Owner, Count, at, saved, depth>>

\* StReentrantLock_Init, StReentrantFairLock_Init
Init ==
  /\ holder = NoThread /\ Owner = NoThread /\ Count = 0
  /\ at = [t \in Threads |-> "out"] /\ saved = [t \in Threads |-> 0]
  /\ depth = [t \in Threads |-> 0]

Goto(t, from, to) == at[t] = from /\ at' = [at EXCEPT ![t] = to]

\* The lock below is acquired.
Acquire(t) == holder = NoThread /\ holder' = t /\ depth' = [depth EXCEPT ![t] = saved[t] + 1]

\* TryAcquireInternal: acquire the free lock, or acquire it once more.
TryAcquireInternal(t) ==
  \/ /\ Goto(t, "out", "acquired") /\ Acquire(t) /\ UNCHANGED <<Owner, Count, saved>>
  \/ /\ at[t] = "out" /\ holder # NoThread /\ Owner = t /\ depth[t] < MaxDepth
     /\ Count' = Count + 1 /\ depth' = [depth EXCEPT ![t] = @ + 1]
     /\ UNCHANGED <<holder, Owner, at, saved>>

\* TryEnterEx, Enter: it failed, so wait for the lock below.
Wait(t) ==
  /\ holder # NoThread /\ Owner # t /\ Goto(t, "out", "wait")
  /\ UNCHANGED <<holder, Owner, Count, saved, depth>>

\* The wait succeeds, or is cancelled.
WaitSucceeds(t) ==
  /\ Goto(t, "wait", "acquired") /\ Acquire(t) /\ UNCHANGED <<Owner, Count, saved>>
WaitCancelled(t) ==
  /\ Goto(t, "wait", "out") /\ UNCHANGED <<holder, Owner, Count, saved, depth>>

\* The owner is set; the count, which the last owner left at zero, is not.
SetOwner(t) ==
  /\ Goto(t, "acquired", "out") /\ Owner' = t
  /\ UNCHANGED <<holder, Count, saved, depth>>

\* Mutant: the lock below is released before the owner is cleared.
Exit_ReleaseFirst(t) ==
  \/ /\ Owner = t /\ Count = 0 /\ holder' = NoThread /\ Goto(t, "out", "clear")
     /\ depth' = [depth EXCEPT ![t] = 0] /\ UNCHANGED <<Owner, Count, saved>>
  \/ /\ Goto(t, "clear", "out") /\ Owner' = NoThread
     /\ UNCHANGED <<holder, Count, saved, depth>>
  \/ /\ Owner = t /\ Count # 0 /\ Count' = Count - 1 /\ at[t] = "out"
     /\ depth' = [depth EXCEPT ![t] = @ - 1] /\ UNCHANGED <<holder, Owner, at, saved>>

\* Exit, _Release and _UndoAcquire: clear the owner first, or lower the count.
Exit(t) ==
  /\ Owner = t
  /\ \/ /\ Count = 0 /\ Goto(t, "out", "exit") /\ Owner' = NoThread
        /\ UNCHANGED <<Count, depth>>
     \/ /\ Count # 0 /\ Count' = Count - 1 /\ at[t] = "out"
        /\ depth' = [depth EXCEPT ![t] = @ - 1] /\ UNCHANGED <<Owner, at>>
  /\ UNCHANGED <<holder, saved>>

\* Then release the lock below.
ExitLock(t) ==
  /\ \/ Goto(t, "exit", "out") \/ Goto(t, "exitAndPark", "condition")
  /\ holder' = NoThread /\ depth' = [depth EXCEPT ![t] = 0]
  /\ UNCHANGED <<Owner, Count, saved>>

-----------------------------------------------------------------------------
(* The functions that condition variables call *)

\* _ReleaseCompletely, of a lock that _IsOwned by the caller.
ReleaseCompletely(t) ==
  /\ Owner = t /\ Goto(t, "out", "exitAndPark")
  /\ saved' = [saved EXCEPT ![t] = Count] /\ Count' = 0 /\ Owner' = NoThread
  /\ UNCHANGED <<holder, depth>>

\* _Reacquire: the fair lock was handed to a notified waiter, or the lock below
\* is entered ...
Reacquire(t) ==
  /\ Goto(t, "condition", "reacquired") /\ Acquire(t)
  /\ UNCHANGED <<Owner, Count, saved>>

\* ... then the owner and the count are set.
RestoreCount(t) ==
  /\ Goto(t, "reacquired", "out") /\ Owner' = t /\ Count' = saved[t]
  /\ saved' = [saved EXCEPT ![t] = 0] /\ UNCHANGED <<holder, depth>>

Next == \E t \in Threads :
  \/ TryAcquireInternal(t) \/ Wait(t) \/ WaitSucceeds(t) \/ WaitCancelled(t)
  \/ SetOwner(t) \/ Exit(t) \/ ExitLock(t)
  \/ ReleaseCompletely(t) \/ Reacquire(t) \/ RestoreCount(t)

Spec == Init /\ [][Next]_vars

-----------------------------------------------------------------------------
(* Properties *)

\* The threads that hold the lock, however often.
holders == {t \in Threads : depth[t] > 0}

\* The reentrant lock implements the mutex.
ReentrantMutex == INSTANCE Mutex
Exclusive == ReentrantMutex!Spec

Inside == {"acquired", "exit", "exitAndPark", "reacquired"}

\* Between calls the owner and the count say who holds the lock and how often.
CountsRight ==
  \A t \in Threads :
    /\ at[t] = "out" => (Owner = t <=> depth[t] > 0) /\ (Owner = t => Count = depth[t] - 1)
    /\ at[t] \notin Inside \cup {"out"} => Owner # t /\ depth[t] = 0

\* "RLock->Owner == INVALID_THREAD_ID && RLock->Count == 0", whenever the lock
\* below has just been acquired.
NobodyOwns ==
  \A t \in Threads : at[t] \in {"acquired", "reacquired"} => Owner = NoThread /\ Count = 0
=============================================================================
