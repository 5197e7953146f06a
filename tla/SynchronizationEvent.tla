------------------------ MODULE SynchronizationEvent -------------------------
(***************************************************************************)
(* The synchronization (auto-reset) event: a binary signal that one waiter *)
(* consumes.  It waits and cancels as QueuedSynchronizer says; its release *)
(* loop differs.  A Set that finds the event signalled takes the queue's   *)
(* lock and carries its signal in the local TrySet: it goes to the front   *)
(* waiter, or into the state, or is dropped because the event is           *)
(* signalled anyway.                                                       *)
(***************************************************************************)
EXTENDS Naturals, Sequences, FiniteSetsExt

CONSTANTS Threads, MaxCancels, MaxSets, NoThread

VARIABLES
  locked, pending, list, frontRequest, privateQueue, force, grabbed, oldLen,
  pc, request, count, unparked, unlinked, lockGranted, wakeQueue,
  state, seen, entry, taken, ret, cancels,
  trySet, trySetUsed,   \* locals of ReleaseWaitersAndUnlockQueue
  issued,               \* ghost: signals that were set and neither consumed,
                        \* reset nor dropped
  sets                  \* how many times the event was set

ACQUIRE == 1

\* The state word is 1 while the event is signalled.
Available(s, r) == s = 1
Take(s, r)      == 0
Undo(s, r)      == 1
Exhausted(s)    == s = 0
ForceUnlock(s)  == s = 0
StopAfter(r)    == FALSE

INSTANCE QueuedSynchronizer WITH Requests <- {ACQUIRE}, InitialState <- 0

theQueue   == <<locked, pending, list, frontRequest, privateQueue, force,
                oldLen, grabbed>>
theBlocks  == <<request, count, unparked, unlinked>>
theLockers == <<lockGranted, wakeQueue>>
theState   == <<state, seen, entry, taken, ret, cancels>>
eventVars == <<trySet, trySetUsed, issued, sets>>
vars == <<syncVars, eventVars>>

\* StSynchronizationEvent_Init, without an initial signal.
Init ==
  /\ SyncInit /\ issued = 0 /\ sets = 0
  /\ trySet = [t \in Threads |-> 0] /\ trySetUsed = [t \in Threads |-> 0]

\* StSynchronizationEvent_WaitEx and Wait.
WaitEx(t) == Call(t, ACQUIRE) /\ UNCHANGED eventVars

\* The wait has succeeded: its signal is consumed.
WaitDone(t) ==
  /\ Step(t, "holding", "out") /\ ForgetBlock(t) /\ issued' = issued - 1
  /\ UNCHANGED <<theQueue, theLockers, theState, trySet, trySetUsed, sets>>

\* SetInternal succeeds: look at the queue.
SetInternal(t) ==
  /\ pc[t] = "out" /\ state = 0 /\ Give(t, 1, TRUE) /\ ForgetBlock(t)
  /\ sets < MaxSets /\ sets' = sets + 1 /\ issued' = issued + 1
  /\ UNCHANGED <<trySet, trySetUsed>>

\* It fails: StSynchronizationEvent_Set locks the queue, whatever it takes, and
\* releases with TrySet.
SetSignalled(t) ==
  /\ state = 1 /\ Step(t, "out", "lockTest") /\ ForgetBlock(t)
  /\ sets < MaxSets /\ sets' = sets + 1 /\ issued' = issued + 1
  /\ trySet' = [trySet EXCEPT ![t] = 1]
  /\ trySetUsed' = [trySetUsed EXCEPT ![t] = 0]
  /\ UNCHANGED <<theQueue, theLockers, theState>>

\* StSynchronizationEvent_Reset: a plain store.
Reset(t) ==
  /\ pc[t] = "out" /\ state = 1 /\ state' = 0 /\ issued' = issued - 1
  /\ UNCHANGED <<theQueue, theBlocks, theLockers, pc, seen, entry, taken, ret,
                 cancels, trySet, trySetUsed, sets>>

-----------------------------------------------------------------------------
(* ReleaseWaitersAndUnlockQueue *)

CanRelease(t) == list # <<>> /\ (trySet[t] = 1 \/ state = 1)

\* The front waiter gets the signal of TrySet, or the one of the state ...
SignalFront(t) ==
  /\ CanRelease(t) /\ Step(t, "release", "lockParker")
  /\ entry' = Head(list) /\ taken' = ACQUIRE /\ list' = Tail(list)
  /\ \/ /\ trySet[t] = 1 /\ UNCHANGED state
        /\ trySet' = [trySet EXCEPT ![t] = 0]
        /\ trySetUsed' = [trySetUsed EXCEPT ![t] = 1]
     \/ trySet[t] = 0 /\ state' = 0 /\ UNCHANGED <<trySet, trySetUsed>>
  /\ UNCHANGED <<locked, pending, frontRequest, privateQueue, force, oldLen,
                 grabbed, theBlocks, theLockers, seen, ret, cancels, issued, sets>>

\* Mutant: the signal that a cancelled waiter gives back goes into the state.
UndoSignal_Store(t) ==
  /\ Step(t, "undo", "release") /\ entry' = NoThread /\ taken' = 0
  /\ state' = 1 /\ trySetUsed' = [trySetUsed EXCEPT ![t] = 0]
  /\ UNCHANGED <<theQueue, theBlocks, theLockers, seen, ret, cancels, trySet,
                 issued, sets>>

\* ... and when that waiter has given up the signal goes back: into TrySet when
\* it came from there or the event is signalled again, else into the state.
UndoSignal(t) ==
  /\ Step(t, "undo", "release") /\ entry' = NoThread /\ taken' = 0
  /\ \/ /\ trySetUsed[t] = 1 \/ state = 1
        /\ trySet' = [trySet EXCEPT ![t] = 1]
        /\ trySetUsed' = [trySetUsed EXCEPT ![t] = 0] /\ UNCHANGED state
     \/ /\ trySetUsed[t] = 0 /\ state = 0 /\ state' = 1
        /\ UNCHANGED <<trySet, trySetUsed>>
  /\ UNCHANGED <<theQueue, theBlocks, theLockers, seen, ret, cancels, issued, sets>>

\* Nobody can be released: unlock the queue.
Unlock(t) ==
  /\ ~CanRelease(t) /\ Step(t, "release", "unlock")
  /\ force' = IF state = 0 /\ trySet[t] = 0 THEN 1 ELSE 0
  /\ UNCHANGED <<locked, pending, list, frontRequest, privateQueue, oldLen,
                 grabbed, theBlocks, theLockers, theState, eventVars>>

\* After the unlock a TrySet that nobody took sets the event; it stays with the
\* thread when the event is signalled already.
LateSet(t) ==
  /\ trySet[t] = 1 /\ Step(t, "check", "lateCheck")
  /\ \/ /\ state = 0 /\ state' = 1
        /\ trySet' = [trySet EXCEPT ![t] = 0]
        /\ trySetUsed' = [trySetUsed EXCEPT ![t] = 1]
     \/ state = 1 /\ UNCHANGED <<state, trySet, trySetUsed>>
  /\ UNCHANGED <<theQueue, theBlocks, theLockers, seen, entry, taken, ret, cancels,
                 issued, sets>>

\* IsReleasePending is about to read the front request.
AtLook(t) == IF trySet[t] = 1 THEN pc[t] = "lateCheck" ELSE pc[t] \in {"check", "lateCheck"}

\* It reads the front request, and then the state.
ReleasePending(t) ==
  /\ \/ AtLook(t) /\ frontRequest # 0 /\ Step(t, pc[t], "checkState")
     \/ state # 0 /\ Step(t, "checkState", "tryLock")
  /\ UNCHANGED <<theQueue, theBlocks, theLockers, theState, eventVars>>

\* Nobody waits, nothing to give, or the queue is locked.  A TrySet that is left
\* is ignored, because the event was signalled.
NothingPending(t) ==
  /\ \/ AtLook(t) /\ frontRequest = 0
     \/ pc[t] = "checkState" /\ state = 0
     \/ pc[t] = "tryLock" /\ locked = 1
  /\ pc' = [pc EXCEPT ![t] = ret[t]]
  /\ trySet' = [trySet EXCEPT ![t] = 0] /\ issued' = issued - trySet[t]
  /\ UNCHANGED <<theQueue, theBlocks, theLockers, theState, trySetUsed, sets>>

-----------------------------------------------------------------------------

\* A step that the event shares with the other synchronizers.
Shared(t) ==
  /\ \/ TryAcquire(t) \/ AcquireTail(t) \/ ParkCancelled(t)
     \/ TryLockParker(t) \/ UnparkThread(t)
     \/ QueueStep(t) /\ UNCHANGED theState
     \/ ProcessDone(t, "release") /\ UNCHANGED theState
     \/ /\ locked = 0 /\ TryLockLockedQueue(t, "release", "out") /\ UNCHANGED theState
  /\ UNCHANGED eventVars

Next == \E t \in Threads :
  \/ WaitEx(t) \/ WaitDone(t) \/ SetInternal(t) \/ SetSignalled(t) \/ Reset(t)
  \/ SignalFront(t) \/ UndoSignal(t) \/ Unlock(t) \/ LateSet(t)
  \/ NothingPending(t) \/ ReleasePending(t) \/ Shared(t)

Spec == Init /\ [][Next]_vars

-----------------------------------------------------------------------------
(* Properties *)

\* Signals are neither lost nor made: the one in the state, the one in a
\* releaser's hands for a waiter, those that setters carry, and those granted
\* to threads are all that was issued.
Granted(t) == IF pc[t] = "holding" \/ unparked[t] = 1 THEN 1 ELSE 0

SignalsConserved ==
  state + taken + SumFunction([t \in Threads |-> trySet[t] + Granted(t)]) = issued

\* A signal is not left beside a waiter: when the lock of the queue is free, and
\* nobody is going to look, the event of a waiter is not signalled.
Looks(t) == Looking(t) \/ pc[t] = "lateCheck"
NoMissedSignal ==
  locked = 0 /\ list # <<>> /\ (\A t \in Threads : ~Looks(t)) => state = 0
=============================================================================
