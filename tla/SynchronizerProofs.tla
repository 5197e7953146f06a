------------------------- MODULE SynchronizerProofs --------------------------
(***************************************************************************)
(* What holds for the semaphore, the reader/writer lock and the            *)
(* synchronization event of MCSynchronizers with any threads, counts and   *)
(* bounds.                                                                 *)
(***************************************************************************)
EXTENDS MCSynchronizers, WaitListLemmas, FiniteSetTheorems, TLAPS

Sem == INSTANCE QueuedSynchronizerProofs WITH InitialState <- InitialCount
Rwl == INSTANCE QueuedSynchronizerProofs
       WITH Requests <- {1, 2}, InitialState <- 0, MaxCancels <- MaxLockCancels,
            Available <- RWLock!Available, Take <- RWLock!Take, Undo <- RWLock!Undo,
            Exhausted <- RWLock!Exhausted, ForceUnlock <- RWLock!ForceUnlock,
            StopAfter <- RWLock!StopAfter
Evt == INSTANCE QueuedSynchronizerProofs
       WITH Requests <- {1}, InitialState <- 0, MaxCancels <- MaxEventCancels,
            Available <- Event!Available, Take <- Event!Take, Undo <- Event!Undo,
            Exhausted <- Event!Exhausted, ForceUnlock <- Event!ForceUnlock,
            StopAfter <- Event!StopAfter

-----------------------------------------------------------------------------
(* The synchronizers take their steps from the protocol. *)

\* The semaphore's steps are the protocol's.
LEMMA SemaphoreSteps ==
  ASSUME NEW t \in Threads
  PROVE  /\ SyncStep(t) <=> Sem!SyncStep(t)
         /\ ParkCancelled(t) <=> Sem!ParkCancelled(t)
         /\ ForgetBlock(t) <=> Sem!ForgetBlock(t)
         /\ \A r : Call(t, r) <=> Sem!Call(t, r)
         /\ \A new, look : Give(t, new, look) <=> Sem!Give(t, new, look)
BY DEF SyncStep, Sem!SyncStep, Queue, Sem!Queue, QueueStep, Sem!QueueStep, EnqueueInLockedQueue,
       Sem!EnqueueInLockedQueue, TakeLock, Sem!TakeLock, UnlockPublish, Sem!UnlockPublish, UnlockCas,
       Sem!UnlockCas, Freed, Sem!Freed, UnlockGrab, Sem!UnlockGrab, ProcessLockQueue, Sem!ProcessLockQueue,
       InsertBehind, Sem!InsertBehind, ProcessDone, Sem!ProcessDone, WakeLocker, Sem!WakeLocker,
       TryLockLockedQueue, Sem!TryLockLockedQueue, LockTest, Sem!LockTest, LockTry, Sem!LockTry,
       LockUnparked, Sem!LockUnparked, TryAcquire, Sem!TryAcquire, TryRead, Sem!TryRead, TryEmpty,
       Sem!TryEmpty, TryCas, Sem!TryCas, AcquireTail, Sem!AcquireTail, TryFails, Sem!TryFails, Enqueued,
       Sem!Enqueued, ParkSuccess, Sem!ParkSuccess, CancelAcquire, Sem!CancelAcquire, ParkCancelled,
       Sem!ParkCancelled, Call, Sem!Call, ForgetBlock, Sem!ForgetBlock, Without, Sem!Without,
       ReleaseWaiters, Sem!ReleaseWaiters, IsReleasePending, Sem!IsReleasePending, CheckState,
       Sem!CheckState, AcquireForFront, Sem!AcquireForFront, TryLockParker, Sem!TryLockParker, UnparkThread,
       Sem!UnparkThread, UndoAcquire, Sem!UndoAcquire, LeaveLoop, Sem!LeaveLoop, TryUnlock, Sem!TryUnlock,
       FrontCanAcquire, Sem!FrontCanAcquire, Give, Sem!Give, Step, Sem!Step, FrontRequest, Sem!FrontRequest,
       IsLockedQueueEmpty, Sem!IsLockedQueueEmpty, WaitBlock, Sem!WaitBlock, LockBlock, Sem!LockBlock,
       queueVars, Sem!queueVars, blockVars, Sem!blockVars, lockVars, Sem!lockVars, stateVars, Sem!stateVars,
       In, Sem!In

\* So are its initial state and its properties.
LEMMA SemaphoreFacts ==
  /\ SyncInit <=> Sem!SyncInit
  /\ QueueLockExclusive <=> Sem!QueueLockExclusive
  /\ BlockLifetime <=> Sem!BlockLifetime
  /\ RemoveListed <=> Sem!RemoveListed
  /\ NoStarvedFront <=> Sem!NoStarvedFront
BY DEF SyncInit, Sem!SyncInit, QueueInit, Sem!QueueInit, NoStarvedFront, Sem!NoStarvedFront, Looking, Sem!Looking,
       QueueLockExclusive, Sem!QueueLockExclusive, HolderPcs, Sem!HolderPcs, QueueHolderPcs,
       Sem!QueueHolderPcs, ReleasePcs, Sem!ReleasePcs, BlockLifetime, Sem!BlockLifetime, Queued, Sem!Queued,
       Lockers, Sem!Lockers, WaitFrame, Sem!WaitFrame, FramelessPcs, Sem!FramelessPcs, Blocks, Sem!Blocks,
       RemoveListed, Sem!RemoveListed, WaitBlock, Sem!WaitBlock, LockBlock, Sem!LockBlock, In, Sem!In

\* The same for the reader/writer lock.
LEMMA RWLockSteps ==
  ASSUME NEW t \in Threads
  PROVE  /\ RWLock!SyncStep(t) <=> Rwl!SyncStep(t)
         /\ RWLock!ParkCancelled(t) <=> Rwl!ParkCancelled(t)
         /\ RWLock!ForgetBlock(t) <=> Rwl!ForgetBlock(t)
         /\ \A r : RWLock!Call(t, r) <=> Rwl!Call(t, r)
         /\ \A new, look : RWLock!Give(t, new, look) <=> Rwl!Give(t, new, look)
BY DEF RWLock!SyncStep, Rwl!SyncStep, RWLock!Queue, Rwl!Queue, RWLock!QueueStep, Rwl!QueueStep,
       RWLock!EnqueueInLockedQueue, Rwl!EnqueueInLockedQueue, RWLock!TakeLock, Rwl!TakeLock,
       RWLock!UnlockPublish, Rwl!UnlockPublish, RWLock!UnlockCas, Rwl!UnlockCas, RWLock!Freed, Rwl!Freed,
       RWLock!UnlockGrab, Rwl!UnlockGrab, RWLock!ProcessLockQueue, Rwl!ProcessLockQueue,
       RWLock!InsertBehind, Rwl!InsertBehind, RWLock!ProcessDone, Rwl!ProcessDone, RWLock!WakeLocker,
       Rwl!WakeLocker, RWLock!TryLockLockedQueue, Rwl!TryLockLockedQueue, RWLock!LockTest, Rwl!LockTest,
       RWLock!LockTry, Rwl!LockTry, RWLock!LockUnparked, Rwl!LockUnparked, RWLock!TryAcquire,
       Rwl!TryAcquire, RWLock!TryRead, Rwl!TryRead, RWLock!TryEmpty, Rwl!TryEmpty, RWLock!TryCas,
       Rwl!TryCas, RWLock!AcquireTail, Rwl!AcquireTail, RWLock!TryFails, Rwl!TryFails, RWLock!Enqueued,
       Rwl!Enqueued, RWLock!ParkSuccess, Rwl!ParkSuccess, RWLock!CancelAcquire, Rwl!CancelAcquire,
       RWLock!ParkCancelled, Rwl!ParkCancelled, RWLock!Call, Rwl!Call, RWLock!ForgetBlock, Rwl!ForgetBlock,
       RWLock!Without, Rwl!Without, RWLock!ReleaseWaiters, Rwl!ReleaseWaiters, RWLock!IsReleasePending,
       Rwl!IsReleasePending, RWLock!CheckState, Rwl!CheckState, RWLock!AcquireForFront, Rwl!AcquireForFront,
       RWLock!TryLockParker, Rwl!TryLockParker, RWLock!UnparkThread, Rwl!UnparkThread, RWLock!UndoAcquire,
       Rwl!UndoAcquire, RWLock!LeaveLoop, Rwl!LeaveLoop, RWLock!TryUnlock, Rwl!TryUnlock,
       RWLock!FrontCanAcquire, Rwl!FrontCanAcquire, RWLock!Give, Rwl!Give, RWLock!Step, Rwl!Step,
       RWLock!FrontRequest, Rwl!FrontRequest, RWLock!IsLockedQueueEmpty, Rwl!IsLockedQueueEmpty,
       RWLock!WaitBlock, Rwl!WaitBlock, RWLock!LockBlock, Rwl!LockBlock, RWLock!queueVars, Rwl!queueVars,
       RWLock!blockVars, Rwl!blockVars, RWLock!lockVars, Rwl!lockVars, RWLock!stateVars, Rwl!stateVars,
       RWLock!In, Rwl!In

\* Its initial state and its properties.
LEMMA RWLockFacts ==
  /\ RWLock!SyncInit <=> Rwl!SyncInit
  /\ RWLock!NoStarvedFront <=> Rwl!NoStarvedFront
  /\ QueueLockExclusive <=> Rwl!QueueLockExclusive
  /\ BlockLifetime <=> Rwl!BlockLifetime
  /\ RemoveListed <=> Rwl!RemoveListed
BY DEF RWLock!SyncInit, Rwl!SyncInit, RWLock!QueueInit, Rwl!QueueInit, RWLock!NoStarvedFront, Rwl!NoStarvedFront,
       RWLock!Looking, Rwl!Looking, QueueLockExclusive, Rwl!QueueLockExclusive, HolderPcs, Rwl!HolderPcs,
       QueueHolderPcs, Rwl!QueueHolderPcs, ReleasePcs, Rwl!ReleasePcs, BlockLifetime, Rwl!BlockLifetime,
       Queued, Rwl!Queued, Lockers, Rwl!Lockers, WaitFrame, Rwl!WaitFrame, FramelessPcs, Rwl!FramelessPcs,
       Blocks, Rwl!Blocks, RemoveListed, Rwl!RemoveListed, WaitBlock, Rwl!WaitBlock, LockBlock,
       Rwl!LockBlock, In, Rwl!In

\* The steps that the event takes over.
LEMMA EventSteps ==
  ASSUME NEW t \in Threads
  PROVE  /\ Event!QueueStep(t) <=> Evt!QueueStep(t)
         /\ Event!ProcessDone(t, "release") <=> Evt!ProcessDone(t, "release")
         /\ Event!TryLockLockedQueue(t, "release", "out") <=> Evt!TryLockLockedQueue(t, "release", "out")
         /\ Event!TryAcquire(t) <=> Evt!TryAcquire(t)
         /\ Event!AcquireTail(t) <=> Evt!AcquireTail(t)
         /\ Event!ParkCancelled(t) <=> Evt!ParkCancelled(t)
         /\ Event!TryLockParker(t) <=> Evt!TryLockParker(t)
         /\ Event!UnparkThread(t) <=> Evt!UnparkThread(t)
         /\ Event!Call(t, 1) <=> Evt!Call(t, 1)
         /\ Event!ForgetBlock(t) <=> Evt!ForgetBlock(t)
         /\ \A new, look : Event!Give(t, new, look) <=> Evt!Give(t, new, look)
BY DEF Event!QueueStep, Evt!QueueStep, Event!ProcessDone, Evt!ProcessDone, Event!Queue, Evt!Queue,
       Event!EnqueueInLockedQueue, Evt!EnqueueInLockedQueue, Event!TakeLock, Evt!TakeLock,
       Event!UnlockPublish, Evt!UnlockPublish, Event!UnlockCas, Evt!UnlockCas, Event!Freed, Evt!Freed,
       Event!UnlockGrab, Evt!UnlockGrab, Event!ProcessLockQueue, Evt!ProcessLockQueue, Event!InsertBehind,
       Evt!InsertBehind, Event!WakeLocker, Evt!WakeLocker, Event!TryLockLockedQueue, Evt!TryLockLockedQueue,
       Event!LockTest, Evt!LockTest, Event!LockTry, Evt!LockTry, Event!LockUnparked, Evt!LockUnparked,
       Event!TryAcquire, Evt!TryAcquire, Event!TryRead, Evt!TryRead, Event!TryEmpty, Evt!TryEmpty,
       Event!TryCas, Evt!TryCas, Event!AcquireTail, Evt!AcquireTail, Event!TryFails, Evt!TryFails,
       Event!Enqueued, Evt!Enqueued, Event!ParkSuccess, Evt!ParkSuccess, Event!CancelAcquire,
       Evt!CancelAcquire, Event!ParkCancelled, Evt!ParkCancelled, Event!Call, Evt!Call, Event!ForgetBlock,
       Evt!ForgetBlock, Event!Without, Evt!Without, Event!TryLockParker, Evt!TryLockParker,
       Event!UnparkThread, Evt!UnparkThread, Event!Give, Evt!Give, Event!Step, Evt!Step, Event!FrontRequest,
       Evt!FrontRequest, Event!IsLockedQueueEmpty, Evt!IsLockedQueueEmpty, Event!WaitBlock, Evt!WaitBlock,
       Event!LockBlock, Evt!LockBlock, Event!queueVars, Evt!queueVars, Event!blockVars, Evt!blockVars,
       Event!lockVars, Evt!lockVars, Event!stateVars, Evt!stateVars, Event!In, Evt!In

\* Its initial state and its properties.
LEMMA EventFacts ==
  /\ Event!SyncInit <=> Evt!SyncInit
  /\ QueueLockExclusive <=> Evt!QueueLockExclusive
  /\ BlockLifetime <=> Evt!BlockLifetime
BY DEF Event!SyncInit, Evt!SyncInit, Event!QueueInit, Evt!QueueInit, Event!NoStarvedFront, Evt!NoStarvedFront,
       Event!Looking, Evt!Looking, QueueLockExclusive, Evt!QueueLockExclusive, HolderPcs, Evt!HolderPcs,
       QueueHolderPcs, Evt!QueueHolderPcs, ReleasePcs, Evt!ReleasePcs, BlockLifetime, Evt!BlockLifetime,
       Queued, Evt!Queued, Lockers, Evt!Lockers, WaitFrame, Evt!WaitFrame, FramelessPcs, Evt!FramelessPcs,
       Blocks, Evt!Blocks, RemoveListed, Evt!RemoveListed, WaitBlock, Evt!WaitBlock, LockBlock,
       Evt!LockBlock, In, Evt!In

-----------------------------------------------------------------------------
(* The semaphore. *)

\* The permits in the hands of threads.
held == [t \in Threads |-> Acquired(t)]

SemaphoreInv ==
  /\ Sem!QInv /\ Sem!AskedInv /\ Sem!TakenInv /\ Sem!StarveInv
  /\ state \in Nat /\ issued \in Int /\ state + taken + SumFunction(held) = issued

\* A request is for one permit or more.
LEMMA RequestsAreNumbers == \A n \in Requests : n \in Nat /\ n > 0
BY SemaphoreAssumption

\* Initially the permits are all in the state.
LEMMA SemaphoreInitially == ASSUME Init PROVE SemaphoreInv
<1>1. Sem!SyncInit /\ Sem!RequestsAssumption
  BY SemaphoreFacts, SemaphoreAssumption DEF Init, Sem!RequestsAssumption
<1>2. Sem!QInv /\ Sem!TakenInv
  BY <1>1, Sem!QInvInitially, Sem!TakenInvInitially
<1>3. Sem!AskedInv /\ Sem!StarveInv
  BY <1>1 DEF Sem!SyncInit, Sem!QueueInit, Sem!AskedInv, Sem!Cancelling, Sem!StarveInv
<1>4. held \in [Threads -> Int] /\ \A t \in Threads : held[t] = 0
  BY <1>1 DEF held, Acquired, Sem!SyncInit, Sem!QueueInit
<1>5. SumFunction(held) = 0
  BY <1>4, SumZero, ReadersFit
<1>6. QED
  BY <1>1, <1>2, <1>3, <1>5, SemaphoreAssumption DEF SemaphoreInv, Init, Sem!SyncInit

\* Who has permits has what it asked for.
LEMMA HeldLemma ==
  ASSUME Sem!QInv
  PROVE  /\ held \in [Threads -> Int]
         /\ \A t \in Threads : held[t] = IF Sem!Has(t) THEN request[t] ELSE 0
<1>1. \A t \in Threads : request[t] \in Int
  BY RequestsAreNumbers, SMTT(30) DEF Sem!QInv, Sem!QType, Sem!QueueTypeOK
<1>2. QED
  BY <1>1 DEF held, Acquired, Sem!Has

\* Nobody gets or gives up anything.
LEMMA HeldKept ==
  ASSUME Sem!QInv, Sem!QInv', Sem!Keeps({})
  PROVE  held' = held
<1>1. \A t \in Threads : Acquired(t)' = Acquired(t)
  BY DEF Sem!Keeps, Acquired, Sem!Has
<1>2. QED
  BY <1>1 DEF held

\* One thread gets permits, or gives them up.
LEMMA HeldChange ==
  ASSUME Sem!QInv, Sem!QInv', NEW t \in Threads, Sem!Keeps({t})
  PROVE  /\ SumFunction(held) \in Int
         /\ SumFunction(held)' = SumFunction(held) + (IF Sem!Has(t)' THEN request'[t] ELSE 0)
                                                   - (IF Sem!Has(t) THEN request[t] ELSE 0)
<1>1. held \in [Threads -> Int] /\ held' \in [Threads -> Int]
  <2>1. \A s \in Threads : request[s] \in Int /\ request'[s] \in Int
    BY RequestsAreNumbers, SMTT(30) DEF Sem!QInv, Sem!QType, Sem!QueueTypeOK
  <2>2. QED
    BY <2>1 DEF held, Acquired
<1>2. \A s \in Threads \ {t} : held'[s] = held[s]
  BY DEF Sem!Keeps, held, Acquired, Sem!Has
<1>3. /\ SumFunction(held) \in Int
      /\ SumFunction(held') = SumFunction(held) + (held'[t] - held[t])
  BY <1>1, <1>2, SumChange, ReadersFit
<1>4. /\ held[t] = IF Sem!Has(t) THEN request[t] ELSE 0
      /\ held'[t] = IF Sem!Has(t)' THEN request'[t] ELSE 0
  BY DEF held, Acquired, Sem!Has
<1>5. held[t] \in Int /\ held'[t] \in Int
  BY <1>1
<1>6. QED
  BY <1>3, <1>4, <1>5

\* A step inside an operation conserves the permits.
LEMMA PermitsKept ==
  ASSUME SemaphoreInv, Sem!QInv', NEW t \in Threads, UNCHANGED issued,
         Sem!Quiet \/ Sem!Takes(t) \/ Sem!Grants(t) \/ Sem!TakesForFront \/ Sem!GivesBack
  PROVE  state' \in Nat /\ state' + taken' + SumFunction(held)' = issued'
<1> USE DEF SemaphoreInv
<1>1. SumFunction(held) \in Int /\ taken \in Int
  <2>1. taken \in Int
    BY RequestsAreNumbers DEF Sem!TakenInv
  <2>2. Threads # {} => SumFunction(held) \in Int
    BY HeldLemma, SumChange, ReadersFit
  <2>3. QED
    BY <2>1, <2>2
<1>2. CASE Sem!Keeps({}) /\ (Sem!Quiet \/ Sem!TakesForFront \/ Sem!GivesBack)
  <2>1. held' = held
    BY <1>2, HeldKept
  <2>2. CASE Sem!Quiet
    BY <2>1, <2>2 DEF Sem!Quiet
  <2>3. CASE Sem!TakesForFront
    BY <1>1, <2>1, <2>3, RequestsAreNumbers DEF Sem!TakesForFront, Available, Take
  <2>4. CASE Sem!GivesBack
    BY <1>1, <2>1, <2>4, RequestsAreNumbers DEF Sem!GivesBack, Undo
  <2>5. QED
    BY <1>2, <2>2, <2>3, <2>4
<1>3. CASE Sem!Takes(t)
  <2>1. SumFunction(held)' = SumFunction(held) + request[t] /\ request[t] \in Requests
    BY <1>1, <1>3, HeldChange, RequestsAreNumbers DEF Sem!Takes
  <2>2. QED
    BY <1>1, <1>3, <2>1, RequestsAreNumbers DEF Sem!Takes, Available, Take
<1>4. CASE Sem!Grants(t)
  <2>1. PICK e \in Threads : ~Sem!Has(e) /\ Sem!Has(e)' /\ request'[e] = taken /\ Sem!Keeps({e})
    BY <1>4 DEF Sem!Grants
  <2>2. SumFunction(held)' = SumFunction(held) + taken
    BY <1>1, <2>1, HeldChange
  <2>3. QED
    BY <1>1, <1>4, <2>2 DEF Sem!Grants
<1>5. QED
  BY <1>2, <1>3, <1>4 DEF Sem!Quiet, Sem!TakesForFront, Sem!GivesBack

\* So does a release, which the state may refuse.
LEMMA PermitsReturned ==
  ASSUME SemaphoreInv, NEW t \in Threads, NEW n \in Requests, ReleaseInternal(t, n),
         \/ pc[t] = "holding" /\ n = request[t] /\ ForgetBlock(t)
         \/ pc[t] = "out" /\ UNCHANGED blockVars,
         issued' = issued + (IF state' = state THEN 0 ELSE n)
                          - (IF pc[t] = "holding" THEN n ELSE 0)
  PROVE  SemaphoreInv'
<1> USE DEF SemaphoreInv
<1>1. PICK new, look : /\ Give(t, new, look)
                       /\ \/ look /\ new = state + n
                          \/ ~look /\ new = state
  BY DEF ReleaseInternal
<1>2. /\ Sem!Give(t, new, look) /\ pc[t] \in {"holding", "out"} /\ Sem!RequestsAssumption
      /\ \/ pc[t] = "holding" /\ Sem!ForgetBlock(t)
         \/ pc[t] = "out" /\ UNCHANGED blockVars
      /\ UNCHANGED blockVars => UNCHANGED Sem!blockVars
  BY <1>1, SemaphoreSteps, SemaphoreAssumption DEF blockVars, Sem!blockVars, Sem!RequestsAssumption
<1>3. Sem!Leaves(t) /\ UNCHANGED <<taken, seen>> /\ state' = new
  <2>1. /\ state' = new /\ UNCHANGED <<queueVars, lockVars, seen, entry, taken>>
        /\ pc' = [pc EXCEPT ![t] = IF look THEN "check" ELSE "out"] /\ ret' = [ret EXCEPT ![t] = "out"]
    BY <1>1 DEF Give
  <2>2. UNCHANGED <<Sem!queueVars, Sem!lockVars>>
    BY <2>1 DEF queueVars, lockVars, Sem!queueVars, Sem!lockVars
  <2>3. pc'[t] \in {"check", "out"} /\ pc' = [pc EXCEPT ![t] = pc'[t]]
    BY <2>1 DEF Sem!QInv, Sem!QType
  <2>4. QED
    BY <1>2, <2>1, <2>2, <2>3 DEF Sem!Leaves, Sem!QInv, Sem!QType
<1>4. Sem!QInv'
  BY <1>3, Sem!LeavesLemma
<1>5. Sem!AskedInv'
  BY <1>2, Sem!AskedLemma
<1>6. Sem!StarveInv'
  BY <1>1, <1>2, Sem!StarveGiveLemma DEF Sem!TakenInv
<1>7. Sem!TakenInv' /\ Sem!Keeps({t}) /\ ~Sem!Has(t)' /\ (Sem!Has(t) <=> pc[t] = "holding")
  BY <1>3, Sem!LeavesTakenLemma
<1>8. /\ SumFunction(held) \in Int
      /\ SumFunction(held)' = SumFunction(held) - (IF pc[t] = "holding" THEN n ELSE 0)
  BY <1>4, <1>7, HeldChange, RequestsAreNumbers
<1>9. taken \in Int
  BY RequestsAreNumbers DEF Sem!TakenInv
<1>10. QED
  BY <1>1, <1>3, <1>4, <1>5, <1>6, <1>7, <1>8, <1>9, RequestsAreNumbers

\* Every operation of the semaphore keeps its invariant.
LEMMA SemaphoreStep == ASSUME SemaphoreInv, Next PROVE SemaphoreInv'
<1> USE DEF SemaphoreInv
<1>1. Sem!RequestsAssumption
  BY SemaphoreAssumption DEF Sem!RequestsAssumption
<1>2. PICK t \in Threads : Acquire(t) \/ Post(t) \/ Release(t) \/ Sync(t) \/ Cancelled(t)
  BY DEF Next
<1>3. CASE Acquire(t) \/ Sync(t) \/ Cancelled(t)
  <2>1. /\ UNCHANGED issued
        /\ Sem!SyncStep(t) \/ Sem!ParkCancelled(t) \/ \E r \in Requests : Sem!Call(t, r)
    BY <1>3, SemaphoreSteps DEF Acquire, Sync, Cancelled
  <2>2. Sem!QInv' /\ Sem!AskedInv'
    BY <1>1, <2>1, Sem!SyncLemma, Sem!AcquireLemma, Sem!CallLemma, Sem!AskedLemma
  <2>3. DOMAIN seen = Threads /\ \A r, q \in Requests : Available(Take(state, r), q) => Available(state, q)
    BY RequestsAreNumbers DEF Available, Take, Sem!TakenInv
  <2>4. Sem!StarveInv'
    BY <1>1, <2>1, <2>3, Sem!StarveStepLemma, Sem!StarveCallLemma
  <2>5. QED
    BY <2>1, <2>2, <2>4, PermitsKept, Sem!EffectLemma
<1>4. CASE Post(t)
  <2>1. PICK n \in Requests : ReleaseInternal(t, n) /\ issued' = issued + (IF state' = state THEN 0 ELSE n)
    BY <1>4 DEF Post
  <2>2. pc[t] = "out" /\ UNCHANGED blockVars
    BY <1>4 DEF Post, blockVars
  <2>3. QED
    BY <2>1, <2>2, PermitsReturned, RequestsAreNumbers
<1>5. CASE Release(t)
  <2>1. request[t] \in Requests
    BY <1>5 DEF Release, Sem!QInv, Sem!GrantInv, Sem!QType, Sem!QueueTypeOK
  <2>2. /\ pc[t] = "holding" /\ ReleaseInternal(t, request[t]) /\ ForgetBlock(t)
        /\ issued' = issued + (IF state' = state THEN 0 ELSE request[t]) - request[t]
    BY <1>5, <2>1, RequestsAreNumbers DEF Release
  <2>3. QED
    BY <2>1, <2>2, PermitsReturned, RequestsAreNumbers
<1>6. QED
  BY <1>2, <1>3, <1>4, <1>5

-----------------------------------------------------------------------------
(* The reader/writer lock. *)

Readers == RWLock!Granted(1)
Writers == RWLock!Granted(2)

\* The readers that were granted the lock, whether awake or not, are those that the state
\* counts; a writer is alone.
RWLockInv ==
  /\ Rwl!QInv /\ Rwl!AskedInv /\ Rwl!TakenInv /\ Rwl!StarveInv
  /\ state \in 0..WRITING
  /\ IF state = WRITING
     THEN /\ Readers = {} /\ taken # 1
          /\ IF taken = 2 THEN Writers = {} ELSE \E w \in Threads : Writers = {w}
     ELSE Writers = {} /\ taken # 2 /\ state = Cardinality(Readers) + taken

\* Initially nobody has the lock.
LEMMA RWLockInitially == ASSUME RWLock!Init PROVE RWLockInv
<1>1. Rwl!SyncInit /\ Rwl!RequestsAssumption
  BY RWLockFacts, SemaphoreAssumption DEF RWLock!Init, Rwl!RequestsAssumption
<1>2. Rwl!QInv /\ Rwl!TakenInv
  BY <1>1, Rwl!QInvInitially, Rwl!TakenInvInitially
<1>3. Rwl!AskedInv /\ Rwl!StarveInv
  BY <1>1 DEF Rwl!SyncInit, Rwl!QueueInit, Rwl!AskedInv, Rwl!Cancelling, Rwl!StarveInv
<1>4. Readers = {} /\ Writers = {} /\ state = 0 /\ taken = 0
  BY <1>1 DEF Readers, Writers, RWLock!Granted, Rwl!SyncInit, Rwl!QueueInit
<1>5. WRITING \in Nat \ {0, 1}
  BY InstancesAssumption DEF RWLock!ReadWriteLockAssumption
<1>6. QED
  BY <1>2, <1>3, <1>4, <1>5, FS_EmptySet DEF RWLockInv

\* The readers are finitely many, and fewer than the lock can count.
LEMMA WritingLemma ==
  /\ WRITING \in Nat /\ WRITING > 1 /\ Cardinality(Threads) + 1 < WRITING - 1
  /\ IsFiniteSet(Readers) /\ Cardinality(Readers) \in Nat /\ Cardinality(Readers) <= Cardinality(Threads)
  /\ Cardinality(Threads) \in Nat
  /\ Cardinality(Readers) = 0 <=> Readers = {}
<1>1. WRITING \in Nat /\ WRITING > 1
  BY InstancesAssumption DEF RWLock!ReadWriteLockAssumption
<1>2. Cardinality(Threads) + 1 < WRITING - 1
  BY ReadersFit DEF RWLock!MAX_READERS
<1>3. Readers \subseteq Threads
  BY DEF Readers, RWLock!Granted
<1>4. QED
  BY <1>1, <1>2, <1>3, ReadersFit, FS_Subset, FS_CardinalityType, FS_EmptySet

\* Nobody gets or gives up anything.
LEMMA GrantedKept ==
  ASSUME Rwl!Keeps({})
  PROVE  Readers' = Readers /\ Writers' = Writers
BY DEF Rwl!Keeps, Rwl!Has, Readers, Writers, RWLock!Granted

\* t gets what it asked for ...
LEMMA GrantedMore ==
  ASSUME NEW t \in Threads, Rwl!Keeps({t}), ~Rwl!Has(t), Rwl!Has(t)'
  PROVE  /\ request'[t] = 1 =>
              Readers' = Readers \cup {t} /\ Writers' = Writers /\ Cardinality(Readers') = Cardinality(Readers) + 1
         /\ request'[t] = 2 => Readers' = Readers /\ Writers' = Writers \cup {t}
<1>1. t \notin Readers /\ t \notin Writers
  BY DEF Rwl!Has, Readers, Writers, RWLock!Granted
<1>2. request'[t] = 1 => Readers' = Readers \cup {t} /\ Writers' = Writers
  BY <1>1 DEF Rwl!Keeps, Rwl!Has, Readers, Writers, RWLock!Granted
<1>3. request'[t] = 2 => Readers' = Readers /\ Writers' = Writers \cup {t}
  BY <1>1 DEF Rwl!Keeps, Rwl!Has, Readers, Writers, RWLock!Granted
<1>4. QED
  BY <1>1, <1>2, <1>3, WritingLemma, FS_AddElement

\* ... or gives it up.
LEMMA GrantedLess ==
  ASSUME NEW t \in Threads, Rwl!Keeps({t}), Rwl!Has(t), ~Rwl!Has(t)'
  PROVE  /\ request[t] = 1 =>
              Readers' = Readers \ {t} /\ Writers' = Writers /\ t \in Readers
              /\ Cardinality(Readers') = Cardinality(Readers) - 1
         /\ request[t] = 2 => Readers' = Readers /\ Writers' = Writers \ {t} /\ t \in Writers
<1>1. t \notin Readers' /\ t \notin Writers'
  BY DEF Rwl!Has, Readers, Writers, RWLock!Granted
<1>2. request[t] = 1 => Readers' = Readers \ {t} /\ Writers' = Writers /\ t \in Readers
  BY <1>1 DEF Rwl!Keeps, Rwl!Has, Readers, Writers, RWLock!Granted
<1>3. request[t] = 2 => Readers' = Readers /\ Writers' = Writers \ {t} /\ t \in Writers
  BY <1>1 DEF Rwl!Keeps, Rwl!Has, Readers, Writers, RWLock!Granted
<1>4. QED
  BY <1>1, <1>2, <1>3, WritingLemma, FS_RemoveElement

\* A step inside an operation keeps the count.
LEMMA CountKept ==
  ASSUME RWLockInv, Rwl!QInv', Rwl!TakenInv', NEW t \in Threads,
         Rwl!Quiet \/ Rwl!Takes(t) \/ Rwl!Grants(t) \/ Rwl!TakesForFront \/ Rwl!GivesBack,
         Rwl!StarveInv', Rwl!AskedInv'
  PROVE  RWLockInv'
<1> USE DEF RWLockInv
<1>1. CASE Rwl!Keeps({}) /\ (Rwl!Quiet \/ Rwl!TakesForFront \/ Rwl!GivesBack)
  <2>1. Readers' = Readers /\ Writers' = Writers
    BY <1>1, GrantedKept
  <2>2. CASE Rwl!Quiet
    BY <2>1, <2>2 DEF Rwl!Quiet
  <2>3. CASE Rwl!TakesForFront
    BY <2>1, <2>3, WritingLemma DEF Rwl!TakesForFront, RWLock!Available, RWLock!Take, RWLock!LOCK_READ, RWLock!MAX_READERS
  <2>4. CASE Rwl!GivesBack
    BY <2>1, <2>4, WritingLemma DEF Rwl!GivesBack, RWLock!Undo, RWLock!LOCK_READ, RWLock!MAX_READERS
  <2>5. QED
    BY <1>1, <2>2, <2>3, <2>4
<1>2. CASE Rwl!Takes(t)
  <2>1. /\ taken' = taken /\ request'[t] = request[t] /\ Rwl!Keeps({t}) /\ ~Rwl!Has(t) /\ Rwl!Has(t)'
        /\ request[t] \in {1, 2}
    BY <1>2 DEF Rwl!Takes
  <2>2. CASE request[t] = 1
    <3>1. state < WRITING - 1 /\ state' = state + 1
      BY <1>2, <2>2 DEF Rwl!Takes, RWLock!Available, RWLock!Take, RWLock!LOCK_READ, RWLock!MAX_READERS
    <3>2. Writers' = Writers /\ Cardinality(Readers') = Cardinality(Readers) + 1
      BY <2>1, <2>2, GrantedMore
    <3>3. state # WRITING /\ state + 1 # WRITING /\ state + 1 \in 0..WRITING /\ taken \in {0, 1, 2}
      BY <3>1, WritingLemma DEF Rwl!TakenInv
    <3>4. QED
      BY <2>1, <3>1, <3>2, <3>3, WritingLemma
  <2>3. CASE request[t] = 2
    <3>1. state = 0 /\ state' = WRITING
      BY <1>2, <2>3 DEF Rwl!Takes, RWLock!Available, RWLock!Take, RWLock!LOCK_READ
    <3>2. Readers' = Readers /\ Writers' = Writers \cup {t}
      BY <2>1, <2>3, GrantedMore
    <3>3. Writers = {} /\ taken = 0 /\ Readers = {}
      BY <3>1, WritingLemma DEF Rwl!TakenInv
    <3>4. QED
      BY <2>1, <3>1, <3>2, <3>3, WritingLemma
  <2>4. QED
    BY <2>1, <2>2, <2>3
<1>3. CASE Rwl!Grants(t)
  <2>1. PICK e \in Threads : ~Rwl!Has(e) /\ Rwl!Has(e)' /\ request'[e] = taken /\ Rwl!Keeps({e})
    BY <1>3 DEF Rwl!Grants
  <2>2. taken \in {1, 2} /\ taken' = 0 /\ state' = state
    BY <1>3 DEF Rwl!Grants
  <2>3. CASE taken = 1
    BY <2>1, <2>2, <2>3, GrantedMore, WritingLemma
  <2>4. CASE taken = 2
    BY <2>1, <2>2, <2>4, GrantedMore, WritingLemma
  <2>5. QED
    BY <2>2, <2>3, <2>4
<1>4. QED
  BY <1>1, <1>2, <1>3 DEF Rwl!Quiet, Rwl!TakesForFront, Rwl!GivesBack

\* Every operation of the reader/writer lock keeps its invariant.
LEMMA RWLockStep == ASSUME RWLockInv, RWLock!Next PROVE RWLockInv'
<1> USE DEF RWLockInv
<1>1. Rwl!RequestsAssumption
  BY SemaphoreAssumption DEF Rwl!RequestsAssumption
<1>2. PICK t \in Threads :
        \/ RWLock!EnterRead(t) \/ RWLock!EnterWrite(t) \/ RWLock!ExitRead(t) \/ RWLock!ExitWrite(t)
        \/ RWLock!SyncStep(t) \/ RWLock!ParkCancelled(t)
  BY DEF RWLock!Next
<1>3. CASE RWLock!EnterRead(t) \/ RWLock!EnterWrite(t) \/ RWLock!SyncStep(t) \/ RWLock!ParkCancelled(t)
  <2>1. Rwl!SyncStep(t) \/ Rwl!ParkCancelled(t) \/ \E r \in {1, 2} : Rwl!Call(t, r)
    BY <1>3, RWLockSteps DEF RWLock!EnterRead, RWLock!EnterWrite, RWLock!LOCK_READ, RWLock!LOCK_WRITE
  <2>2. Rwl!QInv' /\ Rwl!AskedInv'
    BY <1>1, <2>1, Rwl!SyncLemma, Rwl!AcquireLemma, Rwl!CallLemma, Rwl!AskedLemma
  <2>3. /\ DOMAIN seen = Threads
        /\ \A r, q \in {1, 2} : RWLock!Available(RWLock!Take(state, r), q) => RWLock!Available(state, q)
    BY WritingLemma DEF RWLock!Available, RWLock!Take, RWLock!LOCK_READ, RWLock!MAX_READERS, Rwl!TakenInv
  <2>4. Rwl!StarveInv'
    BY <1>1, <2>1, <2>3, Rwl!StarveStepLemma, Rwl!StarveCallLemma
  <2>5. QED
    BY <2>1, <2>2, <2>4, CountKept, Rwl!EffectLemma
<1>4. CASE RWLock!ExitRead(t) \/ RWLock!ExitWrite(t)
  <2>1. /\ pc[t] = "holding" /\ Rwl!ForgetBlock(t) /\ request[t] \in {1, 2}
        /\ \/ request[t] = 1 /\ Rwl!Give(t, state - 1, state = 1)
           \/ request[t] = 2 /\ Rwl!Give(t, 0, TRUE)
    BY <1>4, RWLockSteps DEF RWLock!ExitRead, RWLock!ExitWrite, RWLock!LOCK_READ, RWLock!LOCK_WRITE
  <2>2. Rwl!QInv' /\ Rwl!AskedInv'
    BY <1>1, <2>1, Rwl!GiveLemma, Rwl!AskedLemma
  <2>3. Rwl!Leaves(t) /\ UNCHANGED <<taken, seen>>
    BY <2>1 DEF Rwl!Leaves, Rwl!Give, Rwl!QInv, Rwl!QType
  <2>4. Rwl!TakenInv' /\ Rwl!Keeps({t}) /\ ~Rwl!Has(t)' /\ Rwl!Has(t)
    BY <2>1, <2>3, Rwl!LeavesTakenLemma
  <2>5. CASE request[t] = 1
    <3>1. Rwl!Give(t, state - 1, state = 1) /\ state' = state - 1 /\ taken' = taken
      BY <2>1, <2>3, <2>5 DEF Rwl!Give
    <3>2. Writers' = Writers /\ Readers # {} /\ Cardinality(Readers') = Cardinality(Readers) - 1
      BY <2>4, <2>5, GrantedLess
    <3>3. /\ state = Cardinality(Readers) + taken /\ taken \in {0, 1} /\ Writers = {}
          /\ Cardinality(Readers) > 0
      BY <3>2, WritingLemma DEF Rwl!TakenInv
    <3>4. RWLock!Available(state - 1, Rwl!FrontRequest) => state = 1 \/ RWLock!Available(state, Rwl!FrontRequest)
      BY <3>3, WritingLemma DEF RWLock!Available, RWLock!LOCK_READ, RWLock!MAX_READERS
    <3>5. Rwl!StarveInv'
      BY <1>1, <2>1, <3>1, <3>4, Rwl!StarveGiveLemma DEF Rwl!TakenInv
    <3>6. QED
      BY <2>2, <2>4, <3>1, <3>2, <3>3, <3>5, WritingLemma
  <2>6. CASE request[t] = 2
    <3>1. Rwl!Give(t, 0, TRUE) /\ state' = 0 /\ taken' = taken
      BY <2>1, <2>3, <2>6 DEF Rwl!Give
    <3>2. Readers' = Readers /\ Writers' = Writers \ {t} /\ t \in Writers
      BY <2>4, <2>6, GrantedLess
    <3>3. state = WRITING /\ Readers = {} /\ taken = 0 /\ Writers' = {}
      BY <3>2, WritingLemma DEF Rwl!TakenInv
    <3>4. Rwl!StarveInv'
      BY <1>1, <2>1, <3>1, Rwl!StarveGiveLemma DEF Rwl!TakenInv
    <3>5. QED
      BY <2>2, <2>4, <3>1, <3>2, <3>3, <3>4, WritingLemma
  <2>7. QED
    BY <2>1, <2>5, <2>6
<1>5. QED
  BY <1>2, <1>3, <1>4

\* Every operation is a step of the shared mutex, or none.
LEMMA SharedMutexStep ==
  ASSUME RWLockInv, RWLockInv', which = "rwlock", which' = which, RWLock!Next
  PROVE  [RWMutex!Next]_<<Holding(1), Holding(2)>>
<1>0. /\ \A s \in RWLock!Holding(1)' : s \in Readers'
      /\ \A s \in RWLock!Holding(2)' : s \in Writers'
      /\ \A s, u \in Threads : s \in Writers' /\ u \in Readers' => FALSE
      /\ \A s, u \in Threads : s \in Writers' /\ u \in Writers' => s = u
  BY DEF RWLockInv, RWLock!Holding, Readers, Writers, RWLock!Granted
<1>1. /\ Holding(1) = RWLock!Holding(1) /\ Holding(2) = RWLock!Holding(2)
      /\ Holding(1)' = RWLock!Holding(1)' /\ Holding(2)' = RWLock!Holding(2)'
  BY DEF Holding
<1>2. PICK t \in Threads :
        \/ RWLock!EnterRead(t) \/ RWLock!EnterWrite(t) \/ RWLock!ExitRead(t) \/ RWLock!ExitWrite(t)
        \/ RWLock!SyncStep(t) \/ RWLock!ParkCancelled(t)
  BY DEF RWLock!Next
<1>3. CASE RWLock!EnterRead(t) \/ RWLock!EnterWrite(t) \/ RWLock!SyncStep(t) \/ RWLock!ParkCancelled(t)
  <2>1. Rwl!SyncStep(t) \/ Rwl!ParkCancelled(t) \/ \E r \in {1, 2} : Rwl!Call(t, r)
    BY <1>3, RWLockSteps DEF RWLock!EnterRead, RWLock!EnterWrite, RWLock!LOCK_READ, RWLock!LOCK_WRITE
  <2>2. /\ \A s \in Threads \ {t} : pc'[s] = pc[s] /\ request'[s] = request[s]
        /\ pc[t] # "holding"
        /\ pc'[t] = "holding" => request'[t] = request[t]
    BY <2>1, Rwl!HoldersLemma DEF RWLockInv
  <2>3. /\ request'[t] = 1 /\ pc'[t] = "holding" =>
             RWLock!Holding(1)' = RWLock!Holding(1) \cup {t} /\ RWLock!Holding(2)' = RWLock!Holding(2)
        /\ request'[t] = 2 /\ pc'[t] = "holding" =>
             RWLock!Holding(2)' = RWLock!Holding(2) \cup {t} /\ RWLock!Holding(1)' = RWLock!Holding(1)
        /\ request'[t] \notin {1, 2} \/ pc'[t] # "holding" =>
             RWLock!Holding(2)' = RWLock!Holding(2) /\ RWLock!Holding(1)' = RWLock!Holding(1)
        /\ t \notin RWLock!Holding(1) \cup RWLock!Holding(2)
    BY <2>2 DEF RWLock!Holding
  <2>4. CASE request'[t] = 1 /\ pc'[t] = "holding"
    <3>1. RWLock!Holding(2) = {}
      BY <1>0, <2>3, <2>4 DEF RWLock!Holding
    <3>2. RWMutex!EnterRead(t)
      BY <1>1, <2>3, <2>4, <3>1 DEF RWMutex!EnterRead
    <3>3. QED
      BY <3>2 DEF RWMutex!Next
  <2>5. CASE request'[t] = 2 /\ pc'[t] = "holding"
    <3>1. RWLock!Holding(1) = {} /\ RWLock!Holding(2) = {}
      BY <1>0, <2>3, <2>5 DEF RWLock!Holding
    <3>2. RWMutex!EnterWrite(t)
      BY <1>1, <2>3, <2>5, <3>1 DEF RWMutex!EnterWrite
    <3>3. QED
      BY <3>2 DEF RWMutex!Next
  <2>6. CASE request'[t] \notin {1, 2} \/ pc'[t] # "holding"
    BY <1>1, <2>3, <2>6
  <2>7. QED
    BY <2>4, <2>5, <2>6
<1>4. CASE RWLock!ExitRead(t) \/ RWLock!ExitWrite(t)
  <2>1. /\ pc[t] = "holding" /\ pc'[t] # "holding"
        /\ \A s \in Threads \ {t} : pc'[s] = pc[s] /\ request'[s] = request[s]
    BY <1>4, SMTT(30) DEF RWLock!ExitRead, RWLock!ExitWrite, RWLock!Give, RWLock!ForgetBlock, RWLockInv, Rwl!QInv, Rwl!QType,
                Rwl!QueueTypeOK
  <2>2. CASE RWLock!ExitRead(t)
    <3>1. t \in RWLock!Holding(1) /\ RWLock!Holding(1)' = RWLock!Holding(1) \ {t} /\ RWLock!Holding(2)' = RWLock!Holding(2)
      BY <2>1, <2>2 DEF RWLock!ExitRead, RWLock!Holding, RWLock!LOCK_READ
    <3>2. RWMutex!ExitRead(t)
      BY <1>1, <3>1 DEF RWMutex!ExitRead
    <3>3. QED
      BY <3>2 DEF RWMutex!Next
  <2>3. CASE RWLock!ExitWrite(t)
    <3>1. t \in RWLock!Holding(2) /\ RWLock!Holding(2)' = RWLock!Holding(2) \ {t} /\ RWLock!Holding(1)' = RWLock!Holding(1)
      BY <2>1, <2>3 DEF RWLock!ExitWrite, RWLock!Holding, RWLock!LOCK_WRITE
    <3>2. RWMutex!ExitWrite(t)
      BY <1>1, <3>1 DEF RWMutex!ExitWrite
    <3>3. QED
      BY <3>2 DEF RWMutex!Next
  <2>4. QED
    BY <1>4, <2>2, <2>3
<1>5. QED
  BY <1>2, <1>3, <1>4

-----------------------------------------------------------------------------
(* The synchronization event. *)

\* The signals in the hands of threads.
signals == [t \in Threads |-> trySet[t] + Event!Granted(t)]

Carrying ==
  Evt!Cancelling \cup
  {"release", "unlock", "unlockCas", "process", "wakeLockers", "check", "lateCheck", "checkState", "tryLock"}

\* A TrySet belongs to a thread inside ReleaseWaitersAndUnlockQueue, or on its way there
\* without a wait block.
CarryInv ==
  /\ trySet \in [Threads -> {0, 1}]
  /\ \A t \in Threads : trySet[t] = 1 => pc[t] \in Carrying
  /\ \A t \in Threads : trySet[t] = 1 /\ pc[t] \in Evt!Cancelling => request[t] = 0 /\ unlinked[t] = 0

EventInv ==
  /\ Evt!QInv /\ Evt!TakenInv /\ CarryInv /\ Event!NoMissedSignal
  /\ state \in {0, 1} /\ issued \in Int /\ state + taken + SumFunction(signals) = issued

\* Initially there is no signal.
LEMMA EventInitially == ASSUME Event!Init PROVE EventInv
<1>1. Evt!SyncInit /\ Evt!RequestsAssumption
  BY EventFacts, SemaphoreAssumption DEF Event!Init, Evt!RequestsAssumption
<1>2. Evt!QInv /\ Evt!TakenInv
  BY <1>1, Evt!QInvInitially, Evt!TakenInvInitially
<1>3. CarryInv /\ Event!NoMissedSignal
  BY <1>1 DEF Event!Init, Evt!SyncInit, Evt!QueueInit, CarryInv, Event!NoMissedSignal
<1>4. signals \in [Threads -> Int] /\ \A t \in Threads : signals[t] = 0
  BY <1>1 DEF signals, Event!Granted, Event!Init, Evt!SyncInit, Evt!QueueInit
<1>5. SumFunction(signals) = 0
  BY <1>4, SumZero, ReadersFit
<1>6. QED
  BY <1>1, <1>2, <1>3, <1>5 DEF EventInv, Event!Init, Evt!SyncInit

\* One thread gets a signal, or gives it up.
LEMMA SignalsChange ==
  ASSUME CarryInv, CarryInv', NEW t \in Threads, Evt!Keeps({t}),
         \A s \in Threads \ {t} : trySet'[s] = trySet[s]
  PROVE  /\ SumFunction(signals) \in Int
         /\ SumFunction(signals)' =
              SumFunction(signals) + (trySet'[t] - trySet[t])
              + (IF Evt!Has(t)' THEN 1 ELSE 0) - (IF Evt!Has(t) THEN 1 ELSE 0)
<1>1. signals \in [Threads -> Int] /\ signals' \in [Threads -> Int]
  BY DEF CarryInv, signals, Event!Granted
<1>2. \A s \in Threads \ {t} : signals'[s] = signals[s]
  BY DEF Evt!Keeps, signals, Event!Granted, Evt!Has
<1>3. /\ SumFunction(signals) \in Int
      /\ SumFunction(signals') = SumFunction(signals) + (signals'[t] - signals[t])
  BY <1>1, <1>2, SumChange, ReadersFit
<1>4. /\ signals[t] = trySet[t] + IF Evt!Has(t) THEN 1 ELSE 0
      /\ signals'[t] = trySet'[t] + IF Evt!Has(t)' THEN 1 ELSE 0
  BY DEF signals, Event!Granted, Evt!Has
<1>5. trySet[t] \in Int /\ trySet'[t] \in Int
  BY DEF CarryInv
<1>6. QED
  BY <1>3, <1>4, <1>5

\* What a step of t does to the signals when it grants nothing.
LEMMA SignalsMove ==
  ASSUME EventInv, CarryInv', NEW t \in Threads, Evt!Keeps({}),
         \A s \in Threads \ {t} : trySet'[s] = trySet[s],
         state' \in {0, 1}, taken' \in {0, 1}, issued' \in Int,
         state' + taken' + trySet'[t] - issued' = state + taken + trySet[t] - issued
  PROVE  state' + taken' + SumFunction(signals)' = issued'
<1>1. Evt!Keeps({t}) /\ (Evt!Has(t)' <=> Evt!Has(t))
  BY DEF Evt!Keeps
<1>2. /\ SumFunction(signals) \in Int
      /\ SumFunction(signals)' = SumFunction(signals) + (trySet'[t] - trySet[t])
  <2>1. trySet[t] \in Int /\ trySet'[t] \in Int
    BY DEF EventInv, CarryInv
  <2>2. /\ SumFunction(signals) \in Int
        /\ SumFunction(signals)' =
             SumFunction(signals) + (trySet'[t] - trySet[t])
             + (IF Evt!Has(t)' THEN 1 ELSE 0) - (IF Evt!Has(t) THEN 1 ELSE 0)
    BY <1>1, SignalsChange DEF EventInv
  <2>3. QED
    BY <1>1, <2>1, <2>2
<1>3. trySet[t] \in Int /\ trySet'[t] \in Int /\ taken \in Int
  BY DEF EventInv, CarryInv, Evt!TakenInv
<1>4. QED
  BY <1>2, <1>3 DEF EventInv

\* The steps that the event takes over from the protocol, one by one.
EventStepsOfProtocol(t) ==
  \/ Evt!TryAcquire(t) \/ Evt!AcquireTail(t) \/ Evt!ParkCancelled(t)
  \/ Evt!TryLockParker(t) \/ Evt!UnparkThread(t) \/ Evt!Call(t, 1)
  \/ UNCHANGED Evt!stateVars /\
       \/ Evt!QueueStep(t) \/ Evt!ProcessDone(t, "release")
       \/ locked = 0 /\ Evt!TryLockLockedQueue(t, "release", "out")

\* They keep what the threads carry ...
LEMMA ProtocolCarry ==
  ASSUME EventInv, NEW t \in Threads, EventStepsOfProtocol(t), UNCHANGED trySet
  PROVE  CarryInv'
<1> USE DEF EventInv, Evt!QInv, Evt!QType, Evt!QueueTypeOK, Evt!Step
<1>1. /\ \A s \in Threads \ {t} : pc'[s] = pc[s]
      /\ pc[t] \in Carrying => pc'[t] \in Carrying \/ (pc[t] = "lockTest" /\ unlinked[t] = 1)
      /\ pc'[t] \in Evt!Cancelling => pc[t] \in Evt!Cancelling \/ pc[t] = "parked"
  <2> USE DEF Carrying, Evt!Cancelling
  <2>1. CASE Evt!TryAcquire(t) \/ Evt!Call(t, 1)
    BY <2>1 DEF Evt!TryAcquire, Evt!TryRead, Evt!TryEmpty, Evt!TryCas, Evt!Call
  <2>2. CASE Evt!AcquireTail(t) \/ Evt!ParkCancelled(t)
    BY <2>2, SMTT(30) DEF Evt!AcquireTail, Evt!TryFails, Evt!Enqueued, Evt!ParkSuccess, Evt!CancelAcquire, Evt!ParkCancelled
  <2>3. CASE Evt!TryLockParker(t) \/ Evt!UnparkThread(t)
    BY <2>3 DEF Evt!TryLockParker, Evt!UnparkThread
  <2>4. CASE \/ Evt!EnqueueInLockedQueue(t) \/ Evt!UnlockPublish(t) \/ Evt!UnlockCas(t) \/ Evt!UnlockGrab(t)
             \/ Evt!ProcessLockQueue(t) \/ Evt!ProcessDone(t, "release")
    BY <2>4, ZenonT(30) DEF Evt!EnqueueInLockedQueue, Evt!UnlockPublish, Evt!UnlockCas, Evt!Freed, Evt!UnlockGrab,
       Evt!ProcessLockQueue, Evt!ProcessDone
  <2>5. CASE \/ Evt!WakeLocker(t) \/ Evt!LockTest(t) \/ Evt!LockTry(t) \/ Evt!LockUnparked(t)
    BY <2>5 DEF Evt!WakeLocker, Evt!LockTest, Evt!LockTry, Evt!LockUnparked
  <2>6. CASE locked = 0 /\ Evt!TryLockLockedQueue(t, "release", "out")
    BY <2>6 DEF Evt!TryLockLockedQueue, Evt!TakeLock
  <2>7. QED
    BY <2>1, <2>2, <2>3, <2>4, <2>5, <2>6 DEF EventStepsOfProtocol, Evt!QueueStep
<1>2. \A s \in Threads : pc[s] \in Evt!Cancelling => request'[s] = request[s]
  BY DEF EventStepsOfProtocol, Evt!TryAcquire, Evt!TryRead, Evt!TryEmpty, Evt!TryCas, Evt!AcquireTail, Evt!TryFails, Evt!Enqueued,
         Evt!ParkSuccess, Evt!CancelAcquire, Evt!ParkCancelled, Evt!TryLockParker, Evt!UnparkThread, Evt!Call,
         Evt!QueueStep, Evt!EnqueueInLockedQueue, Evt!UnlockPublish, Evt!UnlockCas, Evt!Freed, Evt!UnlockGrab,
         Evt!ProcessLockQueue, Evt!ProcessDone, Evt!WakeLocker, Evt!TryLockLockedQueue, Evt!LockTest,
         Evt!LockTry, Evt!LockUnparked, Evt!Cancelling, Evt!ForgetBlock, Evt!blockVars
<1>3. \A s \in Threads : request[s] = 0 /\ pc[s] \in Evt!Cancelling => unlinked'[s] = unlinked[s]
  <2>1. CASE Evt!TryLockParker(t) \/ Evt!ProcessLockQueue(t)
    BY <2>1, Evt!UnlinksLemma
  <2>2. QED
    BY <2>1, SMTT(30) DEF EventStepsOfProtocol, Evt!TryAcquire, Evt!TryRead, Evt!TryEmpty, Evt!TryCas, Evt!AcquireTail, Evt!TryFails,
         Evt!Enqueued, Evt!ParkSuccess, Evt!CancelAcquire, Evt!ParkCancelled, Evt!UnparkThread, Evt!Call,
         Evt!QueueStep, Evt!EnqueueInLockedQueue, Evt!UnlockPublish, Evt!UnlockCas, Evt!Freed, Evt!UnlockGrab,
         Evt!ProcessDone, Evt!WakeLocker, Evt!TryLockLockedQueue, Evt!LockTest,
         Evt!LockTry, Evt!LockUnparked, Evt!Cancelling, Evt!ForgetBlock, Evt!blockVars
<1>4. \A s \in Threads : trySet[s] = 1 => pc'[s] \in Carrying
  <2> SUFFICES ASSUME NEW s \in Threads, trySet[s] = 1 PROVE pc'[s] \in Carrying
    OBVIOUS
  <2>1. pc[s] \in Carrying /\ (pc[s] = "lockTest" => unlinked[s] = 0)
    BY DEF CarryInv, Evt!Cancelling
  <2>2. CASE s = t
    BY <1>1, <2>1, <2>2
  <2>3. CASE s # t
    BY <1>1, <2>1, <2>3
  <2>4. QED
    BY <2>2, <2>3
<1>5. ASSUME NEW s \in Threads, trySet[s] = 1, pc'[s] \in Evt!Cancelling
      PROVE  request'[s] = 0 /\ unlinked'[s] = 0
  <2>1. pc[s] \in Evt!Cancelling
    BY <1>1, <1>5 DEF CarryInv, Carrying, Evt!Cancelling
  <2>2. QED
    BY <1>2, <1>3, <1>5, <2>1 DEF CarryInv
<1>6. QED
  BY <1>4, <1>5 DEF CarryInv

\* ... and what is granted.
LEMMA ProtocolSignals ==
  ASSUME EventInv, CarryInv', NEW t \in Threads, EventStepsOfProtocol(t), UNCHANGED <<trySet, issued>>
  PROVE  /\ Evt!QInv' /\ Evt!TakenInv'
         /\ state' \in {0, 1} /\ state' + taken' + SumFunction(signals)' = issued'
<1> USE DEF EventInv
<1>1. Evt!RequestsAssumption
  BY SemaphoreAssumption DEF Evt!RequestsAssumption
<1>2. Evt!QInv'
  <2>1. CASE locked = 0 /\ Evt!TryLockLockedQueue(t, "release", "out") /\ UNCHANGED Evt!stateVars
    BY <2>1, Evt!TryLockLemma DEF Evt!TryLockLockedQueue, Evt!stateVars
  <2>2. QED
    BY <1>1, <2>1, Evt!AcquireLemma, Evt!CallLemma, Evt!QueueLemma DEF EventStepsOfProtocol, Evt!stateVars
<1>3. Evt!TakenInv' /\ (Evt!Quiet \/ Evt!Takes(t) \/ Evt!Grants(t))
  BY Evt!QuietQueueLemma, Evt!QuietAcquireLemma, Evt!TakesLemma, Evt!QuietLockParkerLemma, Evt!GrantsLemma
     DEF EventStepsOfProtocol, Evt!TryAcquire
<1>4. taken \in {0, 1} /\ taken' \in {0, 1}
  BY <1>3 DEF Evt!TakenInv
<1>5. CASE Evt!Quiet
  <2>1. /\ UNCHANGED <<state, taken>> /\ state' \in {0, 1} /\ taken' \in {0, 1} /\ issued' \in Int
        /\ state' + taken' + trySet'[t] - issued' = state + taken + trySet[t] - issued
    BY <1>4, <1>5 DEF Evt!Quiet
  <2>2. QED
    BY <1>2, <1>3, <1>5, <2>1, SignalsMove DEF Evt!Quiet
<1>6. CASE Evt!Takes(t)
  <2>1. state = 1 /\ state' = 0 /\ taken' = taken
    BY <1>6 DEF Evt!Takes, Event!Available, Event!Take
  <2>2. /\ SumFunction(signals) \in Int
        /\ SumFunction(signals)' = SumFunction(signals) + (trySet'[t] - trySet[t]) + 1 - 0
    BY <1>6, SignalsChange DEF Evt!Takes
  <2>3. trySet'[t] = trySet[t] /\ trySet[t] \in Int
    BY DEF CarryInv
  <2>4. QED
    BY <1>2, <1>3, <1>4, <2>1, <2>2, <2>3
<1>7. CASE Evt!Grants(t)
  <2>1. PICK e \in Threads : ~Evt!Has(e) /\ Evt!Has(e)' /\ Evt!Keeps({e})
    BY <1>7 DEF Evt!Grants
  <2>2. /\ SumFunction(signals) \in Int
        /\ SumFunction(signals)' = SumFunction(signals) + (trySet'[e] - trySet[e]) + 1 - 0
    BY <2>1, SignalsChange
  <2>3. taken = 1 /\ taken' = 0 /\ state' = state
    BY <1>7 DEF Evt!Grants
  <2>4. trySet'[e] = trySet[e] /\ trySet[e] \in Int
    BY DEF CarryInv
  <2>5. QED
    BY <1>2, <1>3, <2>2, <2>3, <2>4
<1>8. QED
  BY <1>3, <1>5, <1>6, <1>7, <1>2

\* A signal is not missed while somebody looks: the one who looks finds the front request, and
\* the state.
LEMMA ProtocolLooks ==
  ASSUME EventInv, NEW t \in Threads, EventStepsOfProtocol(t)
  PROVE  Event!NoMissedSignal'
<1> USE DEF EventInv, Evt!QInv, Evt!QType, Evt!QueueTypeOK, Evt!Step
<1> DEFINE looks(u) == pc[u] \in {"wakeLockers", "check", "checkState", "tryLock", "lateCheck"}
<1> SUFFICES ASSUME locked' = 0, list' # <<>>, state' = 1 PROVE \E u \in Threads : looks(u)'
  <2>1. state' \in {0, 1}
    BY DEF EventStepsOfProtocol, Evt!TryAcquire, Evt!TryRead, Evt!TryEmpty, Evt!TryCas, Evt!AcquireTail, Evt!TryFails,
           Evt!Enqueued, Evt!ParkSuccess, Evt!CancelAcquire, Evt!ParkCancelled, Evt!TryLockParker, Evt!UnparkThread,
           Evt!Call, Evt!stateVars, Event!Take
  <2>2. QED
    BY <2>1 DEF Event!NoMissedSignal, Event!Looks, Event!Looking
<1>0. ASSUME locked = 0, list' = list, state' = state, \A u \in Threads : looks(u) => looks(u)'
      PROVE  \E u \in Threads : looks(u)'
  BY <1>0 DEF Event!NoMissedSignal, Event!Looks, Event!Looking
<1>1. CASE UNCHANGED Evt!stateVars /\ (Evt!QueueStep(t) \/ Evt!ProcessDone(t, "release"))
  <2>1. CASE Evt!UnlockCas(t)
    <3>1. pc'[t] \in {"check", "wakeLockers"}
      BY <2>1 DEF Evt!UnlockCas, Evt!Freed, Evt!LockInv, Evt!QueueLockExclusive, Evt!HolderPcs, Evt!QueueHolderPcs
    <3>2. QED
      BY <3>1
  <2>2. CASE ~Evt!UnlockCas(t)
    <3>1. CASE Evt!EnqueueInLockedQueue(t)
      BY <3>1 DEF Evt!EnqueueInLockedQueue, Evt!TakeLock
    <3>2. CASE \/ Evt!UnlockPublish(t) \/ Evt!UnlockGrab(t) \/ Evt!ProcessLockQueue(t) \/ Evt!ProcessDone(t, "release")
      BY <3>2 DEF Evt!UnlockPublish, Evt!UnlockGrab, Evt!ProcessLockQueue, Evt!ProcessDone, Evt!LockInv,
         Evt!QueueLockExclusive, Evt!HolderPcs, Evt!QueueHolderPcs
    <3>3. CASE \/ Evt!WakeLocker(t) \/ Evt!LockTest(t) \/ Evt!LockTry(t) \/ Evt!LockUnparked(t)
      <4>1. /\ locked = 0 /\ list' = list
            /\ \A u \in Threads : looks(u) => looks(u)'
        BY <3>3 DEF Evt!WakeLocker, Evt!LockTest, Evt!LockTry, Evt!LockUnparked, Evt!TakeLock, Evt!queueVars
      <4>2. QED
        BY <1>0, <1>1, <4>1 DEF Evt!stateVars
    <3>4. QED
      BY <1>1, <2>2, <3>1, <3>2, <3>3 DEF Evt!QueueStep
  <2>3. QED
    BY <2>1, <2>2
<1>2. CASE Evt!TryLockLockedQueue(t, "release", "out") /\ locked = 0
  BY <1>2 DEF Evt!TryLockLockedQueue, Evt!TakeLock
<1>3. CASE \/ Evt!TryAcquire(t) \/ Evt!AcquireTail(t) \/ Evt!ParkCancelled(t)
           \/ Evt!TryLockParker(t) \/ Evt!UnparkThread(t) \/ Evt!Call(t, 1)
  <2>1. /\ locked' = locked /\ (list' = list \/ pc[t] = "remove")
        /\ state' = state \/ state' = 0
        /\ \A u \in Threads : looks(u) => looks(u)'
    BY <1>3 DEF Evt!TryAcquire, Evt!TryRead, Evt!TryEmpty, Evt!TryCas, Evt!AcquireTail, Evt!TryFails,
           Evt!Enqueued, Evt!ParkSuccess, Evt!CancelAcquire, Evt!ParkCancelled, Evt!TryLockParker, Evt!UnparkThread,
           Evt!Call, Evt!stateVars, Evt!queueVars, Event!Take
  <2>2. locked = 0 => pc[t] # "remove"
    BY DEF Evt!LockInv, Evt!QueueLockExclusive, Evt!HolderPcs, Evt!QueueHolderPcs
  <2>3. QED
    BY <1>0, <2>1, <2>2, SMTT(30)
<1>4. QED
  BY <1>1, <1>2, <1>3 DEF EventStepsOfProtocol

\* The steps of the event's own release.
EventStepsOfRelease(t) ==
  \/ Event!SignalFront(t) \/ Event!UndoSignal(t) \/ Event!Unlock(t) \/ Event!LateSet(t)
  \/ Event!NothingPending(t) \/ Event!ReleasePending(t)

\* What the release does after its loop moves its thread only.
LEMMA ReleaseMoves ==
  ASSUME EventInv, NEW t \in Threads,
         Event!Unlock(t) \/ Event!LateSet(t) \/ Event!NothingPending(t) \/ Event!ReleasePending(t)
  PROVE  Evt!Moves(t) /\ UNCHANGED <<taken, seen>>
<1> USE DEF EventInv, Evt!QInv, Evt!QType, Evt!Moves, Evt!Busy, Evt!Serving, Evt!Cancelling, Evt!HolderPcs,
            Evt!QueueHolderPcs, Evt!ReleasePcs, Evt!Waits, Evt!FramelessPcs, Event!Step, Evt!blockVars, Evt!lockVars
<1>1. CASE Event!Unlock(t)
  BY <1>1 DEF Event!Unlock, Event!blockVars, Event!theBlocks, Event!theLockers, Event!lockVars, Event!theState
<1>2. CASE Event!LateSet(t)
  BY <1>2 DEF Event!LateSet, Event!theQueue, Event!theBlocks, Event!theLockers, Evt!QueueTypeOK
<1>3. CASE Event!NothingPending(t)
  BY <1>3 DEF Event!NothingPending, Event!AtLook, Event!theQueue, Event!theBlocks, Event!theLockers, Event!theState, Evt!QueueTypeOK
<1>4. CASE Event!ReleasePending(t)
  BY <1>4 DEF Event!ReleasePending, Event!AtLook, Event!theQueue, Event!theBlocks, Event!theLockers, Event!theState, Evt!QueueTypeOK
<1>5. QED
  BY <1>1, <1>2, <1>3, <1>4

\* The release keeps what other threads carry.
LEMMA ReleaseCarry ==
  ASSUME EventInv, NEW t \in Threads, EventStepsOfRelease(t)
  PROVE  /\ CarryInv' /\ state' \in {0, 1} /\ issued' \in Int /\ \A s \in Threads \ {t} : trySet'[s] = trySet[s]
<1> USE DEF EventInv, CarryInv, Carrying, Evt!Cancelling, Evt!QInv, Evt!QType, Event!Step, Event!theBlocks
<1>1. CASE Event!SignalFront(t)
  BY <1>1 DEF Event!SignalFront
<1>2. CASE Event!UndoSignal(t)
  BY <1>2 DEF Event!UndoSignal
<1>3. CASE Event!Unlock(t)
  BY <1>3 DEF Event!Unlock, Event!blockVars, Event!theState, Event!eventVars
<1>4. CASE Event!LateSet(t)
  BY <1>4 DEF Event!LateSet
<1>5. CASE Event!NothingPending(t)
  BY <1>5 DEF Event!NothingPending, Event!AtLook, Event!theState
<1>6. CASE Event!ReleasePending(t)
  BY <1>6 DEF Event!ReleasePending, Event!AtLook, Event!theState, Event!eventVars
<1>7. QED
  BY <1>1, <1>2, <1>3, <1>4, <1>5, <1>6 DEF EventStepsOfRelease

\* The release passes a signal on, takes it back or drops it; it conserves the rest.
LEMMA ReleaseSignals ==
  ASSUME EventInv, NEW t \in Threads, EventStepsOfRelease(t)
  PROVE  Evt!QInv' /\ Evt!TakenInv' /\ state' + taken' + SumFunction(signals)' = issued'
<1> USE DEF EventInv
<1>1. CarryInv' /\ state' \in {0, 1} /\ issued' \in Int /\ \A s \in Threads \ {t} : trySet'[s] = trySet[s]
  BY ReleaseCarry
<1>2. trySet[t] \in {0, 1} /\ DOMAIN trySet = Threads /\ taken \in {0, 1}
  BY DEF CarryInv, Evt!TakenInv
<1>3. CASE Event!SignalFront(t)
  <2>1. Evt!TakesFront(t) /\ taken' = 1 /\ UNCHANGED <<seen, request, issued>>
    BY <1>3 DEF Event!SignalFront, Event!CanRelease, Event!ACQUIRE, Event!Step, Event!theBlocks, Event!theLockers,
                Evt!TakesFront, Evt!Step, Evt!blockVars, Evt!lockVars
  <2>2. request[Head(list)] = 1
    <3>1. Evt!Reachable(Head(list)) /\ Head(list) \in Threads
      BY <2>1, Evt!PopLemma DEF Evt!TakesFront, Evt!Reachable, Evt!Queued, Evt!QInv, Evt!QType, Evt!QueueTypeOK
    <3>2. QED
      BY <3>1 DEF Evt!QInv, Evt!OwnerInv, Evt!QType, Evt!QueueTypeOK
  <2>3. Evt!QInv' /\ Evt!TakenInv' /\ Evt!Keeps({}) /\ taken = 0
    BY <2>1, <2>2, Evt!TakesFrontLemma, Evt!TakesFrontTakenLemma
  <2>4. state' + taken' + trySet'[t] - issued' = state + taken + trySet[t] - issued
    <3>1. \/ trySet[t] = 1 /\ trySet'[t] = 0 /\ state' = state
          \/ trySet[t] = 0 /\ trySet'[t] = 0 /\ state = 1 /\ state' = 0
      BY <1>2, <1>3 DEF Event!SignalFront, Event!CanRelease
    <3>2. QED
      BY <1>1, <2>1, <2>3, <3>1
  <2>5. QED
    BY <1>1, <2>1, <2>3, <2>4, SignalsMove
<1>4. CASE Event!UndoSignal(t)
  <2>1. Evt!Undoes(t) /\ taken' = 0 /\ UNCHANGED <<seen, issued>>
    BY <1>4 DEF Event!UndoSignal, Event!Step, Event!theQueue, Event!theBlocks, Event!theLockers,
                Evt!Undoes, Evt!Step, Evt!queueVars, Evt!blockVars, Evt!lockVars
  <2>2. Evt!QInv' /\ Evt!TakenInv' /\ Evt!Keeps({}) /\ taken = 1
    BY <2>1, Evt!UndoesLemma, Evt!UndoesTakenLemma
  <2>3. trySet[t] = 0
    BY <1>2, <2>1 DEF CarryInv, Carrying, Evt!Cancelling, Evt!Undoes, Evt!Step
  <2>4. state' + taken' + trySet'[t] - issued' = state + taken + trySet[t] - issued
    <3>1. \/ trySet'[t] = 1 /\ state' = state
          \/ trySet'[t] = 0 /\ state = 0 /\ state' = 1
      BY <1>2, <1>4, <2>3 DEF Event!UndoSignal
    <3>2. QED
      BY <1>1, <2>1, <2>2, <2>3, <3>1
  <2>5. QED
    BY <1>1, <2>1, <2>2, <2>4, SignalsMove
<1>5. CASE Event!Unlock(t) \/ Event!LateSet(t) \/ Event!NothingPending(t) \/ Event!ReleasePending(t)
  <2>1. Evt!Moves(t) /\ UNCHANGED <<taken, seen>> /\ pc[t] \notin {"try", "tryEmpty", "tryCas"}
    BY <1>5, ReleaseMoves DEF Event!Unlock, Event!LateSet, Event!NothingPending, Event!ReleasePending, Event!AtLook,
                              Event!Step
  <2>2. Evt!QInv' /\ Evt!TakenInv' /\ Evt!Keeps({})
    BY <2>1, Evt!MovesLemma, Evt!MovesTakenLemma
  <2>3. \/ UNCHANGED <<state, trySet, issued>>
        \/ trySet[t] = 1 /\ trySet'[t] = 0 /\ state = 0 /\ state' = 1 /\ issued' = issued
        \/ trySet'[t] = 0 /\ state' = state /\ issued' = issued - trySet[t]
    BY <1>2, <1>5 DEF Event!Unlock, Event!LateSet, Event!NothingPending, Event!ReleasePending, Event!theState,
                      Event!eventVars
  <2>4. state' + taken' + trySet'[t] - issued' = state + taken + trySet[t] - issued
    BY <1>2, <2>1, <2>3
  <2>5. QED
    BY <1>1, <1>2, <2>1, <2>2, <2>4, SignalsMove
<1>6. QED
  BY <1>3, <1>4, <1>5 DEF EventStepsOfRelease

\* The release does not leave a signal beside a waiter.
LEMMA ReleaseLooks ==
  ASSUME EventInv, NEW t \in Threads, EventStepsOfRelease(t)
  PROVE  Event!NoMissedSignal'
<1> USE DEF EventInv, Evt!QInv, Evt!QType, Event!Step
<1> DEFINE looks(u) == pc[u] \in {"wakeLockers", "check", "checkState", "tryLock", "lateCheck"}
<1>1. state' \in {0, 1}
  BY ReleaseCarry
<1> SUFFICES ASSUME locked' = 0, list' # <<>>, state' = 1 PROVE \E u \in Threads : looks(u)'
  BY <1>1 DEF Event!NoMissedSignal, Event!Looks, Event!Looking
<1>2. locked = 0
  BY DEF EventStepsOfRelease, Event!SignalFront, Event!UndoSignal, Event!Unlock, Event!LateSet, Event!NothingPending,
         Event!ReleasePending, Event!theQueue
<1>3. pc[t] \notin {"release", "undo"}
  BY <1>2 DEF Evt!LockInv, Evt!QueueLockExclusive, Evt!HolderPcs, Evt!ReleasePcs
<1>4. CASE Event!LateSet(t)
  <2>1. pc'[t] = "lateCheck"
    BY <1>4 DEF Event!LateSet
  <2>2. QED
    BY <2>1
<1>5. CASE Event!ReleasePending(t)
  <2>1. pc'[t] \in {"checkState", "tryLock"}
    BY <1>5 DEF Event!ReleasePending
  <2>2. QED
    BY <2>1
<1>6. CASE Event!NothingPending(t)
  <2>1. list' = list /\ state' = state /\ \A u \in Threads \ {t} : pc'[u] = pc[u]
    BY <1>6 DEF Event!NothingPending, Event!theQueue, Event!theState
  <2>2. frontRequest = request[Head(list)] /\ Head(list) \in Threads /\ Evt!Reachable(Head(list))
    BY <1>2, <2>1, Evt!PopLemma DEF Evt!FrontInv, Evt!FrontRequest, Evt!Reachable, Evt!Queued, Evt!QueueTypeOK
  <2>3. frontRequest # 0
    BY <2>2 DEF Evt!OwnerInv
  <2>4. FALSE
    BY <1>2, <1>6, <2>1, <2>3 DEF Event!NothingPending
  <2>5. QED
    BY <2>4
<1>7. QED
  BY <1>3, <1>4, <1>5, <1>6 DEF EventStepsOfRelease, Event!SignalFront, Event!UndoSignal, Event!Unlock

\* A wait that is done, and a set, are steps of a thread outside the queue.
LEMMA LeavesKeeps ==
  ASSUME EventInv, NEW t \in Threads,
         Event!WaitDone(t) \/ Event!SetInternal(t) \/ Event!SetSignalled(t)
  PROVE  Evt!Leaves(t) /\ UNCHANGED <<taken, seen>>
<1> USE DEF EventInv, Evt!QInv, Evt!QType, Evt!Leaves
<1>1. CASE Event!WaitDone(t)
  BY <1>1, EventSteps DEF Event!WaitDone, Event!Step, Event!theQueue, Event!theLockers, Event!theState,
                          Evt!queueVars, Evt!lockVars
<1>2. CASE Event!SetInternal(t)
  <2>1. Evt!Give(t, 1, TRUE) /\ Evt!ForgetBlock(t) /\ pc[t] = "out"
    BY <1>2, EventSteps DEF Event!SetInternal
  <2>2. /\ pc' = [pc EXCEPT ![t] = "check"] /\ ret' = [ret EXCEPT ![t] = "out"]
        /\ UNCHANGED <<Evt!queueVars, Evt!lockVars, seen, entry, taken>>
    BY <2>1 DEF Evt!Give
  <2>3. QED
    BY <2>1, <2>2
<1>3. CASE Event!SetSignalled(t)
  BY <1>3, EventSteps DEF Event!SetSignalled, Event!Step, Event!theQueue, Event!theLockers, Event!theState,
                          Evt!queueVars, Evt!lockVars
<1>4. QED
  BY <1>1, <1>2, <1>3

\* They keep the event's invariant.
LEMMA LeavesSignals ==
  ASSUME EventInv, NEW t \in Threads,
         Event!WaitDone(t) \/ Event!SetInternal(t) \/ Event!SetSignalled(t)
  PROVE  EventInv'
<1> USE DEF EventInv
<1>1. Evt!Leaves(t) /\ UNCHANGED <<taken, seen>>
  BY LeavesKeeps
<1>2. Evt!QInv'
  BY <1>1, Evt!LeavesLemma
<1>3. Evt!TakenInv' /\ Evt!Keeps({t}) /\ ~Evt!Has(t)' /\ (Evt!Has(t) <=> pc[t] = "holding")
  BY <1>1, Evt!LeavesTakenLemma
<1>4. /\ pc[t] \in {"holding", "out"} /\ pc'[t] \in {"out", "check", "lockTest"}
      /\ \A s \in Threads \ {t} : pc'[s] = pc[s] /\ request'[s] = request[s] /\ unlinked'[s] = unlinked[s]
      /\ UNCHANGED <<locked, list>>
  BY <1>1 DEF Evt!Leaves, Evt!ForgetBlock, Evt!blockVars, Evt!queueVars, Evt!QInv, Evt!QType, Evt!QueueTypeOK
<1>5. /\ trySet[t] = 0 /\ trySet' \in [Threads -> {0, 1}] /\ \A s \in Threads \ {t} : trySet'[s] = trySet[s]
      /\ trySet'[t] = 1 => pc'[t] = "lockTest" /\ request'[t] = 0 /\ unlinked'[t] = 0
  <2>1. trySet[t] = 0
    BY <1>4 DEF CarryInv, Carrying, Evt!Cancelling
  <2>2. CASE UNCHANGED trySet
    BY <2>1, <2>2 DEF CarryInv
  <2>3. CASE Event!SetSignalled(t)
    BY <2>1, <2>3 DEF Event!SetSignalled, Event!Step, Event!ForgetBlock, CarryInv, Evt!QInv, Evt!QType, Evt!QueueTypeOK
  <2>4. QED
    BY <2>2, <2>3 DEF Event!WaitDone, Event!SetInternal
<1>6. CarryInv'
  BY <1>4, <1>5 DEF CarryInv, Carrying, Evt!Cancelling
<1>7. /\ state' \in {0, 1} /\ issued' \in Int
      /\ \/ Event!WaitDone(t) /\ pc[t] = "holding" /\ state' = state /\ trySet'[t] = 0 /\ issued' = issued - 1
         \/ Event!SetInternal(t) /\ pc[t] = "out" /\ state = 0 /\ state' = 1 /\ trySet'[t] = 0 /\ issued' = issued + 1
         \/ Event!SetSignalled(t) /\ pc[t] = "out" /\ state' = state /\ trySet'[t] = 1 /\ issued' = issued + 1
  BY <1>5 DEF Event!WaitDone, Event!SetInternal, Event!SetSignalled, Event!Step, Event!Give, Event!theState, CarryInv
<1>8. state' + taken' + SumFunction(signals)' = issued'
  <2>1. /\ SumFunction(signals) \in Int
        /\ SumFunction(signals)' = SumFunction(signals) + (trySet'[t] - trySet[t]) + 0
                                                        - (IF Evt!Has(t) THEN 1 ELSE 0)
    BY <1>3, <1>5, <1>6, SignalsChange
  <2>2. taken \in Int /\ taken' = taken
    BY <1>1 DEF Evt!TakenInv
  <2>3. QED
    BY <1>3, <1>5, <1>7, <2>1, <2>2
<1>9. Event!NoMissedSignal'
  <2>1. CASE Event!SetInternal(t)
    <3>1. pc'[t] = "check"
      BY <2>1 DEF Event!SetInternal, Event!Give, Evt!QInv, Evt!QType
    <3>2. QED
      BY <3>1 DEF Event!NoMissedSignal, Event!Looks, Event!Looking
  <2>2. CASE state' = state
    BY <1>4, <2>2 DEF Event!NoMissedSignal, Event!Looks, Event!Looking
  <2>3. QED
    BY <1>7, <2>1, <2>2
<1>10. QED
  BY <1>2, <1>3, <1>6, <1>7, <1>8, <1>9

\* Every operation of the event keeps its invariant.
LEMMA EventStep == ASSUME EventInv, Event!Next PROVE EventInv'
<1> USE DEF EventInv
<1>1. PICK t \in Threads :
        \/ Event!WaitEx(t) \/ Event!WaitDone(t) \/ Event!SetInternal(t) \/ Event!SetSignalled(t) \/ Event!Reset(t)
        \/ EventStepsOfRelease(t) \/ Event!Shared(t)
  BY DEF Event!Next, EventStepsOfRelease
<1>2. CASE Event!WaitEx(t) \/ Event!Shared(t)
  <2>1. EventStepsOfProtocol(t) /\ UNCHANGED <<trySet, issued>>
    BY <1>2, EventSteps DEF Event!WaitEx, Event!Shared, Event!ACQUIRE, Event!eventVars, Event!theState, Evt!stateVars,
                            EventStepsOfProtocol
  <2>2. CarryInv'
    BY <2>1, ProtocolCarry
  <2>3. QED
    BY <2>1, <2>2, ProtocolSignals, ProtocolLooks
<1>3. CASE EventStepsOfRelease(t)
  BY <1>3, ReleaseCarry, ReleaseSignals, ReleaseLooks
<1>4. CASE Event!WaitDone(t) \/ Event!SetInternal(t) \/ Event!SetSignalled(t)
  BY <1>4, LeavesSignals
<1>5. CASE Event!Reset(t)
  <2>1. /\ UNCHANGED <<Evt!queueVars, Evt!blockVars, Evt!lockVars, pc, seen, entry, taken, ret, trySet>>
        /\ state = 1 /\ state' = 0 /\ issued' = issued - 1
    BY <1>5 DEF Event!Reset, Event!theQueue, Event!theBlocks, Event!theLockers, Evt!queueVars, Evt!blockVars,
                Evt!lockVars
  <2>2. Evt!QInv'
    BY <2>1, Evt!StutterLemma
  <2>3. Evt!TakenInv' /\ Evt!Keeps({}) /\ CarryInv'
    BY <2>1 DEF Evt!TakenInv, Evt!Serves, Evt!Keeps, Evt!Has, CarryInv, Event!Available, Evt!blockVars
  <2>4. Event!NoMissedSignal'
    BY <2>1 DEF Event!NoMissedSignal
  <2>5. /\ state' \in {0, 1} /\ taken' \in {0, 1} /\ issued' \in Int
        /\ state' + taken' + trySet'[t] - issued' = state + taken + trySet[t] - issued
    BY <2>1 DEF CarryInv, Evt!TakenInv
  <2>6. QED
    BY <2>1, <2>2, <2>3, <2>4, <2>5, SignalsMove
<1>6. QED
  BY <1>1, <1>2, <1>3, <1>4, <1>5

-----------------------------------------------------------------------------
(* All of them. *)

MCInv ==
  /\ which \in {"semaphore", "rwlock", "event", "timers"}
  /\ which = "semaphore" => SemaphoreInv
  /\ which = "rwlock"    => RWLockInv
  /\ which = "event"     => EventInv

\* The initial states satisfy the invariant of the one that is chosen.
LEMMA MCInitially == ASSUME MCInit PROVE MCInv
BY SemaphoreInitially, RWLockInitially, EventInitially DEF MCInit, MCInv

\* Nothing happens.
LEMMA MCStutters ==
  ASSUME MCInv, UNCHANGED <<vars, which, eventLocals, timersOnly>>
  PROVE  MCInv'
<1> USE DEF MCInv
<1>1. /\ UNCHANGED <<queueVars, blockVars, lockVars, pc, stateVars>>
      /\ UNCHANGED <<issued, trySet, which>>
  BY DEF vars, syncVars, eventLocals
<1>2. UNCHANGED <<locked, pending, list, frontRequest, privateQueue, force, oldLen, grabbed, request, count, unparked,
                  unlinked, lockGranted, wakeQueue, pc, state, seen, entry, taken, ret, issued, trySet>>
  BY <1>1 DEF queueVars, blockVars, lockVars, stateVars
<1>3. CASE which = "semaphore"
  <2> USE <1>3 DEF SemaphoreInv
  <2>1. Sem!QInv'
    BY <1>2, Sem!StutterLemma DEF Sem!queueVars, Sem!blockVars, Sem!lockVars
  <2>2. Sem!AskedInv' /\ Sem!TakenInv' /\ Sem!StarveInv'
    BY <1>2 DEF Sem!AskedInv, Sem!TakenInv, Sem!Serves, Sem!StarveInv, Sem!Fresh, Sem!FrontRequest, Available
  <2>3. held' = held
    BY <1>2 DEF held, Acquired
  <2>4. QED
    BY <1>2, <2>1, <2>2, <2>3
<1>4. CASE which = "rwlock"
  <2> USE <1>4 DEF RWLockInv
  <2>1. Rwl!QInv'
    BY <1>2, Rwl!StutterLemma DEF Rwl!queueVars, Rwl!blockVars, Rwl!lockVars
  <2>2. Rwl!AskedInv' /\ Rwl!TakenInv' /\ Rwl!StarveInv'
    BY <1>2 DEF Rwl!AskedInv, Rwl!TakenInv, Rwl!Serves, Rwl!StarveInv, Rwl!Fresh, Rwl!FrontRequest, RWLock!Available
  <2>3. Readers' = Readers /\ Writers' = Writers
    BY <1>2 DEF Readers, Writers, RWLock!Granted
  <2>4. QED
    BY <1>2, <2>1, <2>2, <2>3
<1>5. CASE which = "event"
  <2> USE <1>5 DEF EventInv
  <2>1. Evt!QInv'
    BY <1>2, Evt!StutterLemma DEF Evt!queueVars, Evt!blockVars, Evt!lockVars
  <2>2. Evt!TakenInv' /\ CarryInv' /\ Event!NoMissedSignal'
    BY <1>2 DEF Evt!TakenInv, Evt!Serves, CarryInv, Event!NoMissedSignal, Event!Looks, Event!Looking, Event!Available
  <2>3. signals' = signals
    BY <1>2 DEF signals, Event!Granted
  <2>4. QED
    BY <1>2, <2>1, <2>2, <2>3
<1>6. QED
  BY <1>1, <1>3, <1>4, <1>5

\* Every step keeps it.
LEMMA MCKept ==
  ASSUME MCInv, [MCNext]_<<vars, which, eventLocals, timersOnly>>
  PROVE  MCInv'
<1>1. CASE MCNext
  BY <1>1, SemaphoreStep, RWLockStep, EventStep DEF MCNext, MCInv
<1>2. CASE UNCHANGED <<vars, which, eventLocals, timersOnly>>
  BY <1>2, MCStutters
<1>3. QED
  BY <1>1, <1>2

\* In every state of the semaphore, the reader/writer lock and the event, the one's invariant holds.
THEOREM SynchronizersKeepInvariant == MCSpec => []MCInv
<1>1. MCInit => MCInv
  BY MCInitially
<1>2. MCInv /\ [MCNext]_<<vars, which, eventLocals, timersOnly>> => MCInv'
  BY MCKept
<1>3. QED
  BY <1>1, <1>2, PTL DEF MCSpec

\* The lock of a queue is exclusive, the wait blocks that the queue, the lock's stack and a releaser
\* reach are alive (QueuedSynchronizer.BlockLifetime), and a canceller unlinks an entry of the list.
THEOREM QueuesAreSound == MCSpec => []QueueSound
<1>1. MCInv => QueueSound
  <2> SUFFICES ASSUME MCInv PROVE QueueSound
    OBVIOUS
  <2>1. which = "semaphore" => QueueLockExclusive /\ BlockLifetime /\ RemoveListed
    BY Sem!SoundLemma, SemaphoreFacts DEF MCInv, SemaphoreInv
  <2>2. which = "rwlock" => QueueLockExclusive /\ BlockLifetime /\ RemoveListed
    BY Rwl!SoundLemma, RWLockFacts DEF MCInv, RWLockInv
  <2>3. which = "event" => QueueLockExclusive /\ BlockLifetime
    BY Evt!SoundLemma, EventFacts DEF MCInv, EventInv
  <2>4. QED
    BY <2>1, <2>2, <2>3 DEF QueueSound, MCInv
<1>2. QED
  BY <1>1, SynchronizersKeepInvariant, PTL

\* No waiter is left at the front of a queue beside permits, a free lock or a signal that it
\* waits for: whenever the queue's lock is free, somebody is going to look.
THEOREM FrontsAreServed == MCSpec => []FrontServed
<1>1. MCInv => FrontServed
  <2> SUFFICES ASSUME MCInv PROVE FrontServed
    OBVIOUS
  <2>1. which = "semaphore" => NoStarvedFront
    BY Sem!ServedLemma, SemaphoreFacts DEF MCInv, SemaphoreInv
  <2>2. which = "rwlock" => RWLock!NoStarvedFront
    BY Rwl!ServedLemma, RWLockFacts DEF MCInv, RWLockInv
  <2>3. which = "event" => Event!NoMissedSignal
    BY DEF MCInv, EventInv
  <2>4. QED
    BY <2>1, <2>2, <2>3 DEF FrontServed, MCInv
<1>2. QED
  BY <1>1, SynchronizersKeepInvariant, PTL

\* Permits and signals are neither lost nor made, whoever gives up when.
THEOREM PermitsAndSignalsAreKept == MCSpec => []NothingLost
<1>1. MCInv => NothingLost
  <2>1. PermitsConserved <=> state + taken + SumFunction(held) = issued
    BY DEF PermitsConserved, held
  <2>2. Event!SignalsConserved <=> state + taken + SumFunction(signals) = issued
    <3>1. Event!SumFunction(signals) = SumFunction(signals)
      BY DEF Event!SumFunction, Event!SumFunctionOnSet, Event!FoldFunctionOnSet, Event!MapThenFoldSet,
             SumFunction, SumFunctionOnSet, FoldFunctionOnSet, MapThenFoldSet
    <3>2. QED
      BY <3>1 DEF Event!SignalsConserved, signals
  <2>3. QED
    BY <2>1, <2>2 DEF MCInv, SemaphoreInv, EventInv, NothingLost
<1>2. QED
  BY <1>1, SynchronizersKeepInvariant, PTL

\* The state word of the reader/writer lock counts its readers, or says that one writer has it.
THEOREM StateCountsOwners == MCSpec => []StateCounts
<1>1. MCInv => StateCounts
  <2>1. RWLock!Granted(RWLock!LOCK_READ) = Readers /\ RWLock!Granted(RWLock!LOCK_WRITE) = Writers
    BY DEF Readers, Writers, RWLock!LOCK_READ, RWLock!LOCK_WRITE
  <2>2. RWLock!Cardinality(Readers) = Cardinality(Readers)
    BY DEF RWLock!Cardinality, Cardinality
  <2>3. RWLockInv => RWLock!StateCounts
    BY <2>1, <2>2 DEF RWLockInv, RWLock!StateCounts, RWLock!LOCK_WRITE
  <2>4. QED
    BY <2>3 DEF MCInv, StateCounts
<1>2. QED
  BY <1>1, SynchronizersKeepInvariant, PTL

\* The reader/writer lock implements the shared mutex: readers share it, a writer is alone.
THEOREM LockSharesOrExcludes == MCSpec => ReadersOrWriter
<1>1. MCInit => RWMutex!Init
  <2> SUFFICES ASSUME MCInit PROVE Holding(1) = {} /\ Holding(2) = {}
    BY DEF RWMutex!Init
  <2>1. CASE which = "rwlock"
    BY <2>1, RWLockFacts DEF MCInit, RWLock!Init, Rwl!SyncInit, Holding, RWLock!Holding
  <2>2. QED
    BY <2>1 DEF Holding
<1>2. MCInv /\ MCInv' /\ [MCNext]_<<vars, which, eventLocals, timersOnly>>
        => [RWMutex!Next]_<<Holding(1), Holding(2)>>
  <2> SUFFICES ASSUME MCInv, MCInv', [MCNext]_<<vars, which, eventLocals, timersOnly>>
               PROVE  [RWMutex!Next]_<<Holding(1), Holding(2)>>
    OBVIOUS
  <2>1. which' = which
    BY DEF MCNext
  <2>2. CASE which # "rwlock"
    BY <2>1, <2>2 DEF Holding
  <2>3. CASE which = "rwlock" /\ RWLock!Next
    BY <2>1, <2>3, SharedMutexStep DEF MCInv
  <2>4. CASE UNCHANGED <<vars, which, eventLocals, timersOnly>>
    BY <2>4 DEF Holding, RWLock!Holding, vars, syncVars, blockVars
  <2>5. QED
    BY <2>2, <2>3, <2>4 DEF MCNext
<1>3. QED
  BY <1>1, <1>2, SynchronizersKeepInvariant, PTL DEF MCSpec, ReadersOrWriter, RWMutex!Spec
=============================================================================
