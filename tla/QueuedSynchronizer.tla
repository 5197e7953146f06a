------------------------- MODULE QueuedSynchronizer -------------------------
(***************************************************************************)
(* The acquire, release and cancel protocol that the semaphore, the fair   *)
(* lock and the reader/writer lock build on a locked queue.  The three     *)
(* source files repeat it with another state word; a synchronizer's module *)
(* instantiates it with what its state allows.                             *)
(*                                                                         *)
(* A thread acquires directly only while the queue looks empty; a releaser *)
(* that sees that the front waiter can be satisfied takes the queue's lock *)
(* and serves waiters in FIFO order.  A waiter may give up on a timeout or *)
(* an alert at any moment, also between the releaser's acquiring on its    *)
(* behalf and the locking of its parker.                                   *)
(*                                                                         *)
(* ParkThreadEx is the contest for the parker that module Parker checks:   *)
(* the releaser or a canceller wins it.  A retried compare-and-swap of the *)
(* state by a thread that does not compare an older read is one step.      *)
(***************************************************************************)
EXTENDS LockedQueue

CONSTANTS
  InitialState,
  Available(_, _),   \* the state allows the request
  Take(_, _),        \* the state after the request is granted
  Undo(_, _),        \* the state after a granted request is undone
  Exhausted(_),      \* the state ends the release loop
  ForceUnlock(_),    \* the ForceUnlock argument computed from the state
  StopAfter(_),      \* the release loop ends after serving the request
  MaxCancels,        \* bound: waits that time out or are alerted
  NoThread

RequestsAssumption == 0 \notin Requests /\ NoThread \notin Threads

VARIABLES
  state,     \* the synchronizer's State
  seen,      \* State (or FrontRequest) as a thread last read it
  entry,     \* the waiter the holder of the queue's lock is serving
  taken,     \* the request it granted on behalf of that waiter
  ret,       \* where ReleaseWaitersAndUnlockQueue returns to
  cancels    \* how many waits were cancelled

stateVars == <<state, seen, entry, taken, ret, cancels>>
syncVars  == <<queueVars, blockVars, lockVars, pc, stateVars>>

ReleasePcs == {"release", "lockParker", "unpark", "undo", "leave"}
HolderPcs  == QueueHolderPcs \cup ReleasePcs
Pcs == QueuePcs \cup ReleasePcs \cup
       {"try", "tryEmpty", "tryCas", "holding", "checkState"}

SyncInit ==
  /\ QueueInit /\ pc = [t \in Threads |-> "out"]
  /\ state = InitialState /\ seen = [t \in Threads |-> 0]
  /\ entry = NoThread /\ taken = 0 /\ ret = [t \in Threads |-> "out"]
  /\ cancels = 0

\* The frame of an acquire is gone: its wait block and parker with it.
ForgetBlock(t) ==
  /\ request' = [request EXCEPT ![t] = 0] /\ count' = [count EXCEPT ![t] = 0]
  /\ unparked' = [unparked EXCEPT ![t] = 0]
  /\ unlinked' = [unlinked EXCEPT ![t] = 0]

-----------------------------------------------------------------------------
(* Acquire *)

\* A thread asks for r.
Call(t, r) ==
  /\ Step(t, "out", "try") /\ request' = [request EXCEPT ![t] = r]
  /\ UNCHANGED <<queueVars, count, unparked, unlinked, lockVars, stateVars>>

\* The direct attempt reads the state ...
TryRead(t) ==
  /\ Step(t, "try", "tryEmpty") /\ Available(state, request[t])
  /\ seen' = [seen EXCEPT ![t] = state]
  /\ UNCHANGED <<queueVars, blockVars, lockVars, state, entry, taken, ret,
                 cancels>>

\* ... then looks at the queue ...
TryEmpty(t) ==
  /\ IsLockedQueueEmpty /\ Step(t, "tryEmpty", "tryCas")
  /\ UNCHANGED <<queueVars, blockVars, lockVars, stateVars>>

\* Mutant: the new state is stored although the state changed.
TryCas_Store(t) ==
  /\ Step(t, "tryCas", "holding") /\ state' = Take(seen[t], request[t])
  /\ seen' = [seen EXCEPT ![t] = 0]
  /\ UNCHANGED <<queueVars, blockVars, lockVars, entry, taken, ret, cancels>>

\* ... and swaps the state, or starts again.
TryCas(t) ==
  /\ \/ /\ state = seen[t] /\ Step(t, "tryCas", "holding")
        /\ state' = Take(state, request[t])
     \/ state # seen[t] /\ Step(t, "tryCas", "try") /\ UNCHANGED state
  /\ seen' = [seen EXCEPT ![t] = 0]
  /\ UNCHANGED <<queueVars, blockVars, lockVars, entry, taken, ret, cancels>>

\* It fails: return with a null timeout, or initialize the parker and the wait
\* block.
TryFails(t) ==
  /\ \/ pc[t] = "try" /\ ~Available(state, request[t])
     \/ pc[t] = "tryEmpty" /\ ~IsLockedQueueEmpty
  /\ seen' = [seen EXCEPT ![t] = 0]
  /\ \/ pc' = [pc EXCEPT ![t] = "out"] /\ ForgetBlock(t)
     \/ /\ pc' = [pc EXCEPT ![t] = "enqueue"]
        /\ count' = [count EXCEPT ![t] = 1]
        /\ unparked' = [unparked EXCEPT ![t] = 0]
        /\ unlinked' = [unlinked EXCEPT ![t] = 0] /\ UNCHANGED request
  /\ UNCHANGED <<queueVars, lockVars, state, entry, taken, ret, cancels>>

\* Enqueued with the queue's lock: unlock by force and wait, or first release.
Enqueued(t) ==
  /\ \/ /\ Step(t, "enqueued", "unlock")
        /\ ~Available(state, request[t]) \/ Head(list) # t
        /\ force' = 1
     \/ /\ Step(t, "enqueued", "release")
        /\ Available(state, request[t]) /\ Head(list) = t
        /\ UNCHANGED force
  /\ ret' = [ret EXCEPT ![t] = "parked"]
  /\ UNCHANGED <<locked, pending, list, frontRequest, privateQueue, oldLen,
                 grabbed, blockVars, lockVars, state, seen, entry, taken,
                 cancels>>

\* ParkThreadEx returns WAIT_SUCCESS.
ParkSuccess(t) ==
  /\ unparked[t] = 1 /\ Step(t, "parked", "holding")
  /\ UNCHANGED <<queueVars, blockVars, lockVars, stateVars>>

\* ParkThreadEx returns WAIT_TIMEOUT or WAIT_ALERTED: the canceller won the
\* parker.  CancelAcquire wants the queue's lock.
ParkCancelled(t) ==
  /\ count[t] = 1 /\ cancels < MaxCancels
  /\ Step(t, "parked", "lockTest")
  /\ count' = [count EXCEPT ![t] = 0] /\ cancels' = cancels + 1
  /\ UNCHANGED <<queueVars, request, unparked, unlinked, lockVars, state,
                 seen, entry, taken, ret>>

\* Mutant: the canceller unlocks and does not look at the new front.
CancelAcquire_NoRelease(t) ==
  /\ Step(t, "remove", "out")
  /\ list' = Without(list, t) /\ locked' = 0 /\ ForgetBlock(t)
  /\ frontRequest' = IF list' = <<>> THEN 0 ELSE request[Head(list')]
  /\ UNCHANGED <<pending, privateQueue, force, oldLen, grabbed, lockVars,
                 stateVars>>

\* CancelAcquire with the queue's lock: unlink the block if nobody has, and
\* serve whoever is now in front.
CancelAcquire(t) ==
  /\ Step(t, "remove", "release")
  /\ list' = IF unlinked[t] = 1 THEN list ELSE Without(list, t)
  /\ ret' = [ret EXCEPT ![t] = "out"]
  /\ UNCHANGED <<locked, pending, frontRequest, privateQueue, force, oldLen,
                 grabbed, blockVars, lockVars, state, seen, entry, taken,
                 cancels>>

-----------------------------------------------------------------------------
(* Release *)

\* The tail of a release operation: the state changes and, when look is true,
\* the releaser looks at the queue.
Give(t, new, look) ==
  /\ state' = new /\ pc' = [pc EXCEPT ![t] = IF look THEN "check" ELSE "out"]
  /\ ret' = [ret EXCEPT ![t] = "out"]
  /\ UNCHANGED <<queueVars, lockVars, seen, entry, taken, cancels>>

\* IsReleasePending reads FrontRequest ...
IsReleasePending(t) ==
  /\ \/ frontRequest = 0 /\ Step(t, "check", ret[t]) /\ UNCHANGED seen
     \/ /\ frontRequest # 0 /\ Step(t, "check", "checkState")
        /\ seen' = [seen EXCEPT ![t] = frontRequest]
  /\ UNCHANGED <<queueVars, blockVars, lockVars, state, entry, taken, ret,
                 cancels>>

\* ... tests the state for it, and then tries to lock the queue.
CheckState(t) ==
  /\ Step(t, "checkState",
          IF Available(state, seen[t]) THEN "tryLock" ELSE ret[t])
  /\ seen' = [seen EXCEPT ![t] = 0]
  /\ UNCHANGED <<queueVars, blockVars, lockVars, state, entry, taken, ret,
                 cancels>>

\* The front waiter can be satisfied.
FrontCanAcquire ==
  ~Exhausted(state) /\ list # <<>> /\ Available(state, request[Head(list)])

\* ReleaseWaitersAndUnlockQueue: acquire on behalf of the front waiter and
\* remove its block ...
AcquireForFront(t) ==
  /\ FrontCanAcquire /\ Step(t, "release", "lockParker")
  /\ entry' = Head(list) /\ taken' = request[Head(list)]
  /\ state' = Take(state, taken') /\ list' = Tail(list)
  /\ UNCHANGED <<locked, pending, frontRequest, privateQueue, force, oldLen,
                 grabbed, blockVars, lockVars, seen, ret, cancels>>

\* ... lock its parker, or mark the block of a cancelled wait as unlinked ...
TryLockParker(t) ==
  /\ \/ /\ Step(t, "lockParker", "unpark") /\ count[entry] = 1
        /\ count' = [count EXCEPT ![entry] = 0] /\ UNCHANGED unlinked
     \/ /\ Step(t, "lockParker", "undo") /\ count[entry] = 0
        /\ unlinked' = [unlinked EXCEPT ![entry] = 1] /\ UNCHANGED count
  /\ UNCHANGED <<queueVars, request, unparked, lockVars, stateVars>>

\* ... unpark the waiter ...
UnparkThread(t) ==
  /\ Step(t, "unpark", IF StopAfter(taken) THEN "leave" ELSE "release")
  /\ unparked' = [unparked EXCEPT ![entry] = 1]
  /\ entry' = NoThread /\ taken' = 0
  /\ UNCHANGED <<queueVars, request, count, unlinked, lockVars, state, seen,
                 ret, cancels>>

\* ... or undo the acquire for the cancelled wait.
UndoAcquire(t) ==
  /\ Step(t, "undo", "release") /\ state' = Undo(state, taken)
  /\ entry' = NoThread /\ taken' = 0
  /\ UNCHANGED <<queueVars, blockVars, lockVars, seen, ret, cancels>>

\* Nobody can be released: leave the loop, and unlock the queue.
LeaveLoop(t) ==
  /\ ~FrontCanAcquire /\ Step(t, "release", "leave")
  /\ UNCHANGED <<queueVars, blockVars, lockVars, stateVars>>

TryUnlock(t) ==
  /\ Step(t, "leave", "unlock") /\ force' = IF ForceUnlock(state) THEN 1 ELSE 0
  /\ UNCHANGED <<locked, pending, list, frontRequest, privateQueue, oldLen,
                 grabbed, blockVars, lockVars, stateVars>>

-----------------------------------------------------------------------------

\* A step of the locked queue.
Queue(t) ==
  /\ \/ QueueStep(t) \/ ProcessDone(t, "release")
     \/ TryLockLockedQueue(t, "release", ret[t])
  /\ UNCHANGED stateVars

TryAcquire(t) == TryRead(t) \/ TryEmpty(t) \/ TryCas(t)

AcquireTail(t) == TryFails(t) \/ Enqueued(t) \/ ParkSuccess(t) \/ CancelAcquire(t)

ReleaseWaiters(t) ==
  \/ IsReleasePending(t) \/ CheckState(t) \/ AcquireForFront(t)
  \/ TryLockParker(t) \/ UnparkThread(t) \/ UndoAcquire(t) \/ LeaveLoop(t)
  \/ TryUnlock(t)

\* The steps a thread takes inside the operations of the synchronizer.
SyncStep(t) == Queue(t) \/ TryAcquire(t) \/ AcquireTail(t) \/ ReleaseWaiters(t)

-----------------------------------------------------------------------------
(* What holds for every synchronizer of this kind. *)

SyncTypeOK ==
  /\ QueueTypeOK /\ pc \in [Threads -> Pcs]
  /\ entry \in Threads \cup {NoThread} /\ taken \in Requests \cup {0}
  /\ ret \in [Threads -> {"out", "parked"}] /\ cancels \in 0..MaxCancels

\* The lock of the queue is held by the one thread that is inside it.
QueueLockExclusive ==
  \A t \in Threads : pc[t] \in HolderPcs =>
    locked = 1 /\ \A s \in Threads : pc[s] \in HolderPcs => s = t

\* No wakeup is lost: when the lock of the queue is free and no thread is in
\* the middle of a release or on its way to look at the queue again, the state
\* does not allow the request at the front of the queue.
Looking(t) == pc[t] \in {"wakeLockers", "check", "checkState", "tryLock"}

NoStarvedFront ==
  locked = 0 /\ list # <<>> /\ (\A t \in Threads : ~Looking(t))
    => ~Available(state, request[Head(list)])

\* The steps of an acquire that has not made its wait block yet, or has left it behind.
FramelessPcs == {"out", "try", "tryEmpty", "tryCas", "enqueue", "holding"}

\* The wait block of an acquire and the parker in its frame are reachable from
\* the queue, its lock's stack or a releaser only while that frame exists, and
\* likewise the blocks of LockLockedQueue.
WaitFrame(t) ==
  \/ pc[t] \in {"enqueued", "parked", "lockTest", "lockTry", "lockParked",
               "remove"}
  \/ ret[t] = "parked" /\ pc[t] \notin FramelessPcs

BlockLifetime ==
  /\ \A t \in Queued : WaitFrame(t)
  /\ \A h \in Threads :
       pc[h] \in {"lockParker", "unpark"} => WaitFrame(entry)
  /\ \A t \in Lockers : pc[t] = "lockParked"

\* A thread whose cancelled wait takes the queue's lock finds its block either
\* unlinked or in the queue, never on the lock's stack: RemoveEntryList works
\* on a doubly linked entry.
RemoveListed ==
  \A t \in Threads :
    pc[t] = "remove" /\ unlinked[t] = 0 => In(t, list)

=============================================================================
