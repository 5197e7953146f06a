----------------------------- MODULE Semaphore ------------------------------
(***************************************************************************)
(* StSemaphore: a counting semaphore with FIFO waiters.  A thread of the   *)
(* model acquires some permits, holds them and releases them; it may also  *)
(* post permits that it does not hold, as a producer does.                 *)
(* The blocks of StWaitable_WaitAny and WaitAll are not modelled here.     *)
(***************************************************************************)
EXTENDS Naturals, Sequences, FiniteSetsExt

CONSTANTS
  Threads,
  Requests,     \* the counts that threads acquire or post
  InitialCount, MaximumCount,
  MaxPosts,     \* bound: permits posted by threads that do not hold them
  MaxCancels, NoThread

ASSUME SemaphoreAssumption ==
  /\ MaximumCount \in Nat \ {0} /\ InitialCount \in 0..MaximumCount
  /\ Requests \subseteq 1..MaximumCount
  /\ MaxPosts \in Nat /\ MaxCancels \in Nat /\ NoThread \notin Threads

VARIABLES
  locked, pending, list, frontRequest, privateQueue, force, grabbed, oldLen,
  pc, request, count, unparked, unlinked, lockGranted, wakeQueue,
  state, seen, entry, taken, ret, cancels,
  issued,   \* ghost: permits that exist, available or acquired
  posts     \* permits posted

\* The state word is the number of available permits.
Available(s, n) == s >= n
Take(s, n)      == s - n
Undo(s, n)      == s + n
Exhausted(s)    == s = 0
ForceUnlock(s)  == s = 0
StopAfter(n)    == FALSE

INSTANCE QueuedSynchronizer WITH InitialState <- InitialCount

vars == <<syncVars, issued, posts>>

Init == SyncInit /\ issued = InitialCount /\ posts = 0

\* StSemaphore_TryAcquireEx, Acquire and TryAcquire with a valid count.
Acquire(t) ==
  /\ \E n \in Requests : Call(t, n)
  /\ UNCHANGED <<issued, posts>>

\* ReleaseInternal: return TRUE after a look at the queue, or FALSE with
\* ERROR_TOO_MANY_POSTS.
ReleaseInternal(t, n) ==
  \/ state + n <= MaximumCount /\ Give(t, state + n, TRUE)
  \/ state + n > MaximumCount /\ Give(t, state, FALSE)

\* StSemaphore_Release of what the thread acquired.  Permits that the semaphore
\* refuses are lost.
Release(t) ==
  /\ pc[t] = "holding" /\ ReleaseInternal(t, request[t]) /\ ForgetBlock(t)
  /\ issued' = issued - (IF state' = state THEN request[t] ELSE 0)
  /\ UNCHANGED posts

\* StSemaphore_Release by a thread that did not acquire the permits.
Post(t) ==
  /\ pc[t] = "out"
  /\ \E n \in Requests :
       /\ posts + n <= MaxPosts /\ posts' = posts + n
       /\ ReleaseInternal(t, n)
       /\ issued' = issued + (IF state' = state THEN 0 ELSE n)
  /\ UNCHANGED <<request, count, unparked, unlinked>>

Sync(t) == SyncStep(t) /\ UNCHANGED <<issued, posts>>

\* A parked acquire is cancelled by a timeout or an alert.
Cancelled(t) == ParkCancelled(t) /\ UNCHANGED <<issued, posts>>

Next ==
  \E t \in Threads :
    Acquire(t) \/ Post(t) \/ Release(t) \/ Sync(t) \/ Cancelled(t)

Spec == Init /\ [][Next]_vars

-----------------------------------------------------------------------------
(* Properties *)

TypeOK ==
  /\ SyncTypeOK /\ state \in Nat /\ seen \in [Threads -> Nat]
  /\ issued \in Nat /\ posts \in 0..MaxPosts

\* Permits are neither lost nor made: what is available, what a releaser has
\* in its hands for a waiter (from TryAcquireInternalQueued to UnparkThread or
\* UndoAcquire) and what threads were given add up to what was issued.
Acquired(t) == IF pc[t] = "holding" \/ unparked[t] = 1 THEN request[t] ELSE 0

PermitsConserved ==
  state + taken + SumFunction([t \in Threads |-> Acquired(t)]) = issued

\* "Windows semaphore's semantics": the count never exceeds MaximumCount; a
\* release that would lift it further fails with ERROR_TOO_MANY_POSTS.  Does not
\* hold when a cancelled grant is undone; see the README.
WithinMaximum == state <= MaximumCount
=============================================================================
