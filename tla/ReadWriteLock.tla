--------------------------- MODULE ReadWriteLock ----------------------------
(***************************************************************************)
(* StReadWriteLock: a non-reentrant reader/writer lock with FIFO waiters.  *)
(* The state counts the readers, or is WRITING.  Only the last reader that *)
(* leaves looks at the queue.                                              *)
(***************************************************************************)
EXTENDS Naturals, Sequences, FiniteSets

CONSTANTS
  Threads,
  Readers, Writers,   \* the threads that ask for the lock in each mode
  WRITING,      \* the bit of the writer, above any number of readers
  MaxCancels, NoThread

ReadWriteLockAssumption ==
  /\ Readers \cup Writers \subseteq Threads
  /\ WRITING \in Nat \ {0, 1} /\ MaxCancels \in Nat /\ NoThread \notin Threads

VARIABLES
  locked, pending, list, frontRequest, privateQueue, force, grabbed, oldLen,
  pc, request, count, unparked, unlinked, lockGranted, wakeQueue,
  state, seen, entry, taken, ret, cancels

MAX_READERS == WRITING - 1
LOCK_READ   == 1
LOCK_WRITE  == 2

\* Mutant: readers are let in beside a writer.
Available_ReadAlways(s, r) == r = LOCK_READ \/ s = 0

\* TryAcquireReadLockInternal, TryAcquireWriteLockInternal and the tests of
\* IsReleasePending and EnqueueLockRead / EnqueueLockWrite.
Available(s, r) == IF r = LOCK_READ THEN s < MAX_READERS ELSE s = 0
Take(s, r)      == IF r = LOCK_READ THEN s + 1 ELSE WRITING

\* Mutant: the undo of a write request is forgotten.
Undo_ReadOnly(s, r) == IF r = LOCK_READ THEN s - 1 ELSE s

Undo(s, r)      == IF r = LOCK_READ THEN s - 1 ELSE 0
Exhausted(s)    == s >= MAX_READERS
ForceUnlock(s)  == s >= MAX_READERS
StopAfter(r)    == r = LOCK_WRITE

INSTANCE QueuedSynchronizer
  WITH Requests <- {LOCK_READ, LOCK_WRITE}, InitialState <- 0

vars == syncVars

Init == SyncInit

\* StReadWriteLock_TryEnterReadEx, TryEnterRead and EnterRead.
EnterRead(t) == t \in Readers /\ Call(t, LOCK_READ)

\* StReadWriteLock_TryEnterWriteEx, TryEnterWrite and EnterWrite.
EnterWrite(t) == t \in Writers /\ Call(t, LOCK_WRITE)

\* StReadWriteLock_ExitRead.
ExitRead(t) ==
  /\ pc[t] = "holding" /\ request[t] = LOCK_READ
  /\ Give(t, state - 1, state = 1) /\ ForgetBlock(t)

\* StReadWriteLock_ExitWrite.
ExitWrite(t) ==
  /\ pc[t] = "holding" /\ request[t] = LOCK_WRITE
  /\ Give(t, 0, TRUE) /\ ForgetBlock(t)

Next ==
  \E t \in Threads :
    EnterRead(t) \/ EnterWrite(t) \/ ExitRead(t) \/ ExitWrite(t)
    \/ SyncStep(t) \/ ParkCancelled(t)

Spec == Init /\ [][Next]_vars

-----------------------------------------------------------------------------
(* Properties *)

TypeOK ==
  /\ SyncTypeOK /\ state \in 0..WRITING /\ seen \in [Threads -> 0..WRITING]

Holding(r) == {t \in Threads : pc[t] = "holding" /\ request[t] = r}

\* The lock implements the shared mutex: a writer is alone, also when a grant
\* to a waiter that has given up is undone by a decrement or by storing zero.
RWMutex == INSTANCE SharedMutex
             WITH readers <- Holding(LOCK_READ), writers <- Holding(LOCK_WRITE)
ReadersOrWriter == RWMutex!Spec

\* The state word agrees with the threads: it counts the readers that were
\* granted the lock, or is WRITING while one writer has it.
Granted(r) ==
  {t \in Threads : (pc[t] = "holding" \/ unparked[t] = 1) /\ request[t] = r}

StateCounts ==
  IF state = WRITING
  THEN Granted(LOCK_READ) = {}
       /\ (taken = LOCK_WRITE \/ Granted(LOCK_WRITE) # {})
  ELSE /\ Granted(LOCK_WRITE) = {} /\ taken # LOCK_WRITE
       /\ state = Cardinality(Granted(LOCK_READ)) + taken
=============================================================================
