-------------------------- MODULE ConditionVariable --------------------------
(***************************************************************************)
(* The condition variable (ConditionVariable.c) of a monitor that a lock   *)
(* protects (StConditionVariable_InitForLock), over module Lock, all of    *)
(* whose steps are here.  A notified waiter is not unparked: its parker is *)
(* locked, and its wait block is pushed on the stack of the lock, where    *)
(* the walk over the stack must not take it for a cancelled one.           *)
(*                                                                         *)
(* A waiting thread has one wait block on the condition and, afterwards,   *)
(* another one on the lock.  count and unparked are those of the block it  *)
(* is parked with.                                                            *)
(***************************************************************************)
EXTENDS Lock

VARIABLES
  waitList,   \* Condition->WaitList
  phase,      \* "none", or where the thread is in WaitEx
  notified,   \* the threads whose wait block has Request LOCKED_ACQUIRE
  marked      \* those whose wait block on the condition has Flink = itself

conditionVars == <<waitList, phase, notified, marked>>
monitorVars   == <<vars, conditionVars>>

InitForLock ==
  /\ Init /\ waitList = <<>> /\ phase = [t \in Threads |-> "none"]
  /\ notified = {} /\ marked = {}

SetPhase(t, from, to) == phase[t] = from /\ phase' = [phase EXCEPT ![t] = to]

\* The thread is inside the monitor, between two calls.
Owner(t) == pc[t] = "held" /\ phase[t] = "none"

\* StConditionVariable_WaitEx: insert the wait block, and swap the state of the
\* lock for LOCK_FREE; the thread then unparks the list.
WaitEx(t) ==
  /\ Step(t, "held", "exit") /\ SetPhase(t, "none", "park")
  /\ waitList' = Append(waitList, t) /\ marked' = marked \ {t}
  /\ count' = [count EXCEPT ![t] = 1] /\ unparked' = [unparked EXCEPT ![t] = 0]
  /\ busy' = 0 /\ list' = <<>> /\ grabbed' = [grabbed EXCEPT ![t] = list]
  /\ UNCHANGED <<timeout, unlinked, wakeStack, notified>>

\* ParkThreadEx returns: the thread was unparked, or cancels its parker.
WaitUnparked(t) ==
  /\ pc[t] = "out" /\ unparked[t] = 1 /\ SetPhase(t, "park", "reacquire")
  /\ notified' = notified \ {t} /\ UNCHANGED <<vars, waitList, marked>>

WaitCancelled(t) ==
  /\ pc[t] = "out" /\ SetPhase(t, "park", "reacquireCancelled")
  /\ count[t] = 1 /\ count' = [count EXCEPT ![t] = 0]
  /\ UNCHANGED <<busy, list, pc, timeout, unparked, unlinked, grabbed, wakeStack,
                 waitList, notified, marked>>

\* Reacquire: StLock_Enter, again when it fails for want of a park spot; or, by a
\* thread that is not in WaitEx, a call of its own.
Enter(t) ==
  /\ phase[t] # "park" /\ TryEnterEx(t)
  /\ phase[t] # "none" /\ pc'[t] = "spin" => timeout'[t] = "INFINITE"
  /\ UNCHANGED conditionVars

\* Mutant: a cancelled waiter leaves its wait block where it is.
WaitReturns_NoRemove(t) ==
  /\ pc[t] = "held" /\ phase[t] \in {"reacquire", "reacquireCancelled"}
  /\ phase' = [phase EXCEPT ![t] = "none"]
  /\ UNCHANGED <<vars, waitList, notified, marked>>

\* With the lock again: a cancelled waiter removes its wait block if it is
\* still inserted.
WaitReturns(t) ==
  /\ pc[t] = "held" /\ phase[t] \in {"reacquire", "reacquireCancelled"}
  /\ waitList' = IF phase[t] = "reacquireCancelled" /\ t \notin marked
                   THEN Without(waitList, t) ELSE waitList
  /\ phase' = [phase EXCEPT ![t] = "none"] /\ UNCHANGED <<vars, notified, marked>>

\* Mutant: the wait block is not marked as locked.
EnqueueLockWaiter_NotMarked(e) == list' = <<e>> \o list /\ UNCHANGED notified

\* EnqueueWaiter of a lock: mark the request as locked and push the wait block.
EnqueueLockWaiter(e) == list' = <<e>> \o list /\ notified' = notified \cup {e}

\* StConditionVariable_Notify: remove wait blocks up to the first one whose
\* parker can be locked; mark those before it as unlinked.
Notify(t) ==
  /\ Owner(t) /\ waitList # <<>>
  /\ LET Waiting(i) == phase[waitList[i]] = "park" /\ count[waitList[i]] = 1
         gone(n)    == {waitList[i] : i \in 1..n} IN
     \/ \E n \in 1..Len(waitList) :
          /\ Waiting(n) /\ \A i \in 1..(n - 1) : ~Waiting(i)
          /\ count' = [count EXCEPT ![waitList[n]] = 0]
          /\ EnqueueLockWaiter(waitList[n])
          /\ marked' = marked \cup gone(n - 1)
          /\ waitList' = SubSeq(waitList, n + 1, Len(waitList))
     \/ /\ \A i \in 1..Len(waitList) : ~Waiting(i)
        /\ waitList' = <<>> /\ marked' = marked \cup gone(Len(waitList))
        /\ UNCHANGED <<count, list, notified>>
  /\ UNCHANGED <<busy, pc, timeout, unparked, unlinked, grabbed, wakeStack, phase>>

\* StConditionVariable_NotifyAll tests the list head against itself, and so
\* finds every list empty.
NotifyAll(t) ==
  Step(t, "held", "notifiedAll") /\ phase[t] = "none"
    /\ UNCHANGED <<busy, list, timeout, count, unparked, unlinked, grabbed, wakeStack,
                   conditionVars>>
NotifyAllReturns(t) ==
  /\ Step(t, "notifiedAll", "held")
  /\ UNCHANGED <<busy, list, timeout, count, unparked, unlinked, grabbed, wakeStack,
                 conditionVars>>

\* UnparkWaitList: a locked request goes to the wake-up stack as it is.
VisitNotified(t) ==
  /\ pc[t] \in {"exit", "unparkAll"} /\ grabbed[t] # <<>> /\ Head(grabbed[t]) \in notified
  /\ grabbed' = [grabbed EXCEPT ![t] = Tail(@)]
  /\ wakeStack' = [wakeStack EXCEPT ![t] = <<Head(grabbed[t])>> \o @]
  /\ UNCHANGED <<busy, list, pc, timeout, count, unparked, unlinked, conditionVars>>

\* The other steps of the lock.
LockStep(t) ==
  /\ \/ Owner(t) /\ Exit(t)
     \/ Spin(t) \/ Enqueue(t) \/ Unparked(t) \/ Cancelled(t) \/ Retry(t) \/ UnlinkTest(t)
     \/ UnlinkGrab(t) \/ SpinUntilUnlinked(t) \/ UnparkEntry(t) \/ UnparkDone(t)
     \/ (grabbed[t] # <<>> => Head(grabbed[t]) \notin notified) /\ VisitEntry(t)
  /\ UNCHANGED conditionVars

MonitorNext ==
  \E t \in Threads :
    \/ Enter(t) \/ LockStep(t) \/ VisitNotified(t) \/ WaitEx(t) \/ WaitUnparked(t)
    \/ WaitCancelled(t) \/ WaitReturns(t) \/ Notify(t) \/ NotifyAll(t) \/ NotifyAllReturns(t)

MonitorSpec == InitForLock /\ [][MonitorNext]_monitorVars

-----------------------------------------------------------------------------
(* Properties *)

\* No notification is lost: a thread in WaitEx that has not been unparked is on
\* the condition with a parker that can be locked, or it was notified and its
\* wait block is in the stack of the busy lock or in the hands of a thread that
\* unparks it.
NobodyForgotten ==
  \A t \in Threads : phase[t] = "park" /\ unparked[t] = 0 =>
    \/ count[t] = 1 /\ In(t, waitList)
    \/ count[t] = 0 /\ t \in notified /\ ((busy = 1 /\ In(t, list)) \/ HeldBySomeone(t))

\* When WaitEx has returned its wait block is on no list.
BlocksRemoved ==
  \A t \in Threads : phase[t] = "none" =>
    /\ ~In(t, waitList)
    /\ pc[t] \in {"out", "held"} => ~In(t, list) /\ ~HeldBySomeone(t)

\* When NotifyAll returns, no thread waits on the condition.
NobodyLeftWaiting ==
  \A t \in Threads : pc[t] = "notifiedAll" =>
    \A s \in Threads : In(s, waitList) => phase[s] # "park" \/ count[s] = 0
=============================================================================
