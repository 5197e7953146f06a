---------------------------- MODULE LockedQueue -----------------------------
(***************************************************************************)
(* The locked queue (LOCKED_QUEUE) under the semaphore, the fair lock and  *)
(* other synchronizers: a FIFO queue of wait blocks and its lock.  While   *)
(* the lock is busy, LockState is a stack of wait blocks: of threads that  *)
(* want to wait in the queue, and of threads that only want the lock       *)
(* (LOCK_ONLY_REQUEST).  The holder moves them when it unlocks.            *)
(*                                                                         *)
(* The module gives the queue's steps; a synchronizer EXTENDS it, adds its *)
(* own state, and says what the holder does between locking and unlocking. *)
(* A read and a compare-and-swap that is retried until it succeeds are one *)
(* step.  The fields that only the holder writes change with the step that *)
(* takes the lock.                                                         *)
(***************************************************************************)
EXTENDS Naturals, Sequences, WaitLists

CONSTANTS
  Threads,
  Requests     \* the requests a wait block may carry

VARIABLES
  locked,        \* LockState # LOCK_FREE
  pending,       \* the stack in LockState, last pushed first
  list,          \* Queue->Head, front first
  frontRequest,  \* Queue->FrontRequest
  privateQueue,  \* Queue->LockPrivateQueue
  force,         \* the holder's local ForceUnlock
  grabbed,       \* what the holder has still to process in ProcessLockQueue
  oldLen,        \* where it inserts: the length of the queue before them
  pc,            \* control state of each thread
  request,       \* WaitBlock.Request of each thread
  count,         \* the lock count of each thread's parker
  unparked,      \* 1 when that parker was unparked
  unlinked,      \* 1 when WaitListEntry.Flink = WaitListEntry
  lockGranted,   \* 1 when the parker of LockLockedQueue was unparked
  wakeQueue      \* lockers that a thread has still to unpark after unlocking

queueVars == <<locked, pending, list, frontRequest, privateQueue, force,
               oldLen, grabbed>>
blockVars == <<request, count, unparked, unlinked>>
lockVars  == <<lockGranted, wakeQueue>>

\* A wait block on the lock's stack: of a waiter or of a locker.
WaitBlock(t) == <<t, "wait">>
LockBlock(t) == <<t, "lock">>
Blocks       == Threads \X {"wait", "lock"}

\* Control states of the queue's own operations: the ones of the lock's holder,
\* and the others.
QueueHolderPcs == {"enqueued", "unlock", "unlockCas", "process", "remove"}
QueuePcs == QueueHolderPcs \cup
            {"enqueue", "parked", "wakeLockers", "check", "tryLock",
             "lockTest", "lockTry", "lockParked", "out"}

QueueInit ==
  /\ locked = 0 /\ pending = <<>> /\ list = <<>> /\ frontRequest = 0
  /\ privateQueue = <<>> /\ force = 0 /\ oldLen = 0 /\ grabbed = <<>>
  /\ request = [t \in Threads |-> 0] /\ count = [t \in Threads |-> 0]
  /\ unparked = [t \in Threads |-> 0] /\ unlinked = [t \in Threads |-> 0]
  /\ lockGranted = [t \in Threads |-> 0]
  /\ wakeQueue = [t \in Threads |-> <<>>]

Step(t, from, to) == pc[t] = from /\ pc' = [pc EXCEPT ![t] = to]

\* Insertion of t behind the first n entries.
InsertBehind(q, n, t) == SubSeq(q, 1, n) \o <<t>> \o SubSeq(q, n + 1, Len(q))

FrontRequest == IF list = <<>> THEN 0 ELSE request[Head(list)]

IsLockedQueueEmpty == pending = <<>> /\ list = <<>>

\* Taking the free lock resets what its holder keeps in the queue.
TakeLock ==
  /\ locked = 0 /\ locked' = 1
  /\ frontRequest' = 0 /\ privateQueue' = <<>>

\* Mutant: the wait block is pushed on the stack of a lock that is free.
EnqueueInLockedQueue_NoRecheck(t) ==
  /\ \/ /\ Step(t, "enqueue", "enqueued") /\ TakeLock
        /\ list' = Append(list, t) /\ UNCHANGED pending
     \/ /\ Step(t, "enqueue", "parked")
        /\ pending' = <<WaitBlock(t)>> \o pending
        /\ UNCHANGED <<locked, list, frontRequest, privateQueue>>
  /\ UNCHANGED <<force, oldLen, grabbed, blockVars, lockVars>>

\* EnqueueInLockedQueue, with its slow path: insert at the end of the queue
\* and keep the lock, or leave the wait block to the holder.
EnqueueInLockedQueue(t) ==
  /\ \/ /\ Step(t, "enqueue", "enqueued") /\ TakeLock
        /\ list' = Append(list, t) /\ UNCHANGED pending
     \/ /\ locked = 1 /\ Step(t, "enqueue", "parked")
        /\ pending' = <<WaitBlock(t)>> \o pending
        /\ UNCHANGED <<locked, list, frontRequest, privateQueue>>
  /\ UNCHANGED <<force, oldLen, grabbed, blockVars, lockVars>>

\* TryUnlockLockedQueue: nobody is on the stack, so publish the front request.
UnlockPublish(t) ==
  /\ pending = <<>> /\ Step(t, "unlock", "unlockCas")
  /\ frontRequest' = FrontRequest
  /\ UNCHANGED <<locked, pending, list, privateQueue, force, oldLen, grabbed,
                 blockVars, lockVars>>

\* The lock is free: go on with unparking the private queue, if any.  What only
\* the holder uses is dead until the lock is taken again.
Freed(t) ==
  /\ Step(t, "unlockCas", IF privateQueue = <<>> THEN "check" ELSE "wakeLockers")
  /\ locked' = 0 /\ wakeQueue' = [wakeQueue EXCEPT ![t] = privateQueue]
  /\ privateQueue' = <<>> /\ force' = 0 /\ UNCHANGED frontRequest

\* Mutant: the lock is freed without looking at the stack again.
UnlockCas_Blind(t) ==
  /\ Freed(t)
  /\ UNCHANGED <<pending, list, oldLen, grabbed, blockVars, lockGranted>>

\* Swap LOCK_BUSY for LOCK_FREE, unless somebody came.
UnlockCas(t) ==
  /\ \/ pending = <<>> /\ Freed(t)
     \/ /\ pending # <<>> /\ Step(t, "unlockCas", "unlock")
        /\ frontRequest' = 0
        /\ UNCHANGED <<locked, wakeQueue, privateQueue, force>>
  /\ UNCHANGED <<pending, list, oldLen, grabbed, blockVars, lockGranted>>

\* SlowTryUnlockLockedQueue empties the stack; a queue that is not empty needs
\* no second look at its front.
UnlockGrab(t) ==
  /\ pending # <<>> /\ Step(t, "unlock", "process")
  /\ grabbed' = pending /\ pending' = <<>> /\ oldLen' = Len(list)
  /\ force' = IF list # <<>> THEN 1 ELSE force
  /\ UNCHANGED <<locked, list, frontRequest, privateQueue, blockVars, lockVars>>

\* ProcessLockQueue takes the next block of the stack, the newest first: a
\* locker goes to the private queue; a waiter is inserted after the old end of
\* the queue, before the ones that came later; a cancelled one is unlinked.
ProcessLockQueue(t) ==
  /\ pc[t] = "process" /\ grabbed # <<>>
  /\ grabbed' = Tail(grabbed)
  /\ LET b == Head(grabbed) IN
       \/ /\ b[2] = "lock"
          /\ privateQueue' = <<b[1]>> \o privateQueue
          /\ UNCHANGED <<list, unlinked>>
       \/ /\ b[2] = "wait" /\ count[b[1]] = 1
          /\ list' = InsertBehind(list, oldLen, b[1])
          /\ UNCHANGED <<privateQueue, unlinked>>
       \/ /\ b[2] = "wait" /\ count[b[1]] = 0
          /\ unlinked' = [unlinked EXCEPT ![b[1]] = 1]
          /\ UNCHANGED <<list, privateQueue>>
  /\ UNCHANGED <<locked, pending, frontRequest, force, oldLen, pc, request,
                 count, unparked, lockVars>>

\* All blocks are processed: the unlock fails when a waiter was inserted and
\* the caller did not force it, and goes on otherwise.
ProcessDone(t, retry) ==
  /\ grabbed = <<>> /\ oldLen' = 0
  /\ Step(t, "process", IF force = 0 /\ Len(list) > oldLen THEN retry
                                                          ELSE "unlock")
  /\ UNCHANGED <<locked, pending, list, frontRequest, privateQueue, force,
                 grabbed, blockVars, lockVars>>

\* The lock is free: unpark the threads of the private queue, one by one.
WakeLocker(t) ==
  /\ Step(t, "wakeLockers", IF Len(wakeQueue[t]) = 1 THEN "check"
                                                     ELSE "wakeLockers")
  /\ lockGranted' = [lockGranted EXCEPT ![Head(wakeQueue[t])] = 1]
  /\ wakeQueue' = [wakeQueue EXCEPT ![t] = Tail(@)]
  /\ UNCHANGED <<queueVars, blockVars>>

\* TryLockLockedQueue.
TryLockLockedQueue(t, yes, no) ==
  /\ \/ TakeLock /\ Step(t, "tryLock", yes)
     \/ /\ locked = 1 /\ Step(t, "tryLock", no)
        /\ UNCHANGED <<locked, frontRequest, privateQueue>>
  /\ UNCHANGED <<pending, list, force, oldLen, grabbed, blockVars, lockVars>>

\* LockLockedQueue, on behalf of a cancelled wait block: nothing to do when the
\* block is already unlinked ...
LockTest(t) ==
  /\ Step(t, "lockTest", IF unlinked[t] = 1 THEN "out" ELSE "lockTry")
  /\ UNCHANGED <<queueVars, blockVars, lockVars>>

\* ... else take the lock, or park on its stack with a locked parker.
LockTry(t) ==
  /\ \/ /\ TakeLock /\ Step(t, "lockTry", "remove")
        /\ UNCHANGED <<pending, lockGranted>>
     \/ /\ locked = 1 /\ Step(t, "lockTry", "lockParked")
        /\ pending' = <<LockBlock(t)>> \o pending
        /\ lockGranted' = [lockGranted EXCEPT ![t] = 0]
        /\ UNCHANGED <<locked, frontRequest, privateQueue>>
  /\ UNCHANGED <<list, force, oldLen, grabbed, blockVars, wakeQueue>>

\* ParkThread returns: try again.
LockUnparked(t) ==
  /\ lockGranted[t] = 1 /\ Step(t, "lockParked", "lockTest")
  /\ lockGranted' = [lockGranted EXCEPT ![t] = 0]
  /\ UNCHANGED <<queueVars, blockVars, wakeQueue>>

\* The steps of the queue that do not depend on the synchronizer.
QueueStep(t) ==
  \/ EnqueueInLockedQueue(t) \/ UnlockPublish(t) \/ UnlockCas(t) \/ UnlockGrab(t)
  \/ ProcessLockQueue(t) \/ WakeLocker(t)
  \/ LockTest(t) \/ LockTry(t) \/ LockUnparked(t)

-----------------------------------------------------------------------------
(* What a synchronizer can rely on. *)

QueueTypeOK ==
  /\ locked \in {0, 1} /\ pending \in Seq(Blocks) /\ list \in Seq(Threads)
  /\ frontRequest \in Requests \cup {0} /\ privateQueue \in Seq(Threads)
  /\ force \in {0, 1} /\ oldLen \in Nat /\ grabbed \in Seq(Blocks)
  /\ request \in [Threads -> Requests \cup {0}]
  /\ count \in [Threads -> {0, 1}] /\ unparked \in [Threads -> {0, 1}]
  /\ unlinked \in [Threads -> {0, 1}] /\ lockGranted \in [Threads -> {0, 1}]
  /\ wakeQueue \in [Threads -> Seq(Threads)]

\* The threads whose wait block is in the queue or on the lock's stack.
Queued ==
  {t \in Threads : In(t, list) \/ In(WaitBlock(t), pending) \/ In(WaitBlock(t), grabbed)}

\* The threads whose lock-only block is somewhere.
Lockers ==
  {t \in Threads : \/ In(LockBlock(t), pending) \/ In(LockBlock(t), grabbed)
                   \/ locked = 1 /\ In(t, privateQueue)
                   \/ \E s \in Threads : In(t, wakeQueue[s])}
=============================================================================
