-------------------------------- MODULE Lock --------------------------------
(***************************************************************************)
(* The non-reentrant lock (ST_LOCK): StLock_TryEnterEx, StLock_Enter and   *)
(* Lock_TryEnterTail, StLock_Exit, and the private UnparkWaitList and      *)
(* UnlinkListEntry.                                                        *)
(*                                                                         *)
(* Lock->State is LOCK_FREE, or the head of a stack of wait blocks that    *)
(* ends in LOCK_BUSY: busy tells them apart, list is the stack.  A read    *)
(* followed by a compare-and-swap that is retried until it succeeds is one *)
(* step.  The stack belongs to whoever swaps it out, who then visits its   *)
(* entries one step at a time.                                             *)
(*                                                                         *)
(* A wait block and its parker live in the frame of the waiting call.  The *)
(* parker follows the contract of Parker: its count is taken to zero by    *)
(* the thread that will unpark it, or by the waiter that gives up.         *)
(***************************************************************************)
EXTENDS WaitLists

CONSTANT Threads

VARIABLES
  busy,       \* Lock->State # LOCK_FREE
  list,       \* the stack of wait blocks, one for each thread that waits
  pc,         \* control state of each thread
  timeout,    \* the Timeout argument of the call in progress
  count,      \* the lock count of each thread's parker
  unparked,   \* 1 when the parker was unparked
  unlinked,   \* 1 when Entry->Flink = Entry
  grabbed,    \* what is left of the list the thread walks in UnparkWaitList
  wakeStack   \* its local WakeStack

vars == <<busy, list, pc, timeout, count, unparked, unlinked, grabbed, wakeStack>>

Pcs == {"out", "spin", "enqueue", "parked", "retry", "unlink", "grab",
        "unparkAll", "spinUnlinked", "held", "exit"}

Init ==
  /\ busy = 0 /\ list = <<>>
  /\ pc = [t \in Threads |-> "out"]
  /\ timeout = [t \in Threads |-> "INFINITE"]
  /\ count = [t \in Threads |-> 0]
  /\ unparked = [t \in Threads |-> 0]
  /\ unlinked = [t \in Threads |-> 0]
  /\ grabbed = [t \in Threads |-> <<>>]
  /\ wakeStack = [t \in Threads |-> <<>>]

Step(t, from, to) == pc[t] = from /\ pc' = [pc EXCEPT ![t] = to]

\* The state is LOCK_FREE and is swapped for LOCK_BUSY.
TryAcquire(t, from) == busy = 0 /\ busy' = 1 /\ Step(t, from, "held")

\* The state is not LOCK_FREE, or no longer when it is swapped.
Occupied(t, from, to) == busy = 1 /\ UNCHANGED busy /\ Step(t, from, to)

\* StLock_TryEnterEx, StLock_Enter: the fast path.  (With a null timeout a call
\* that finds the lock busy fails and changes nothing.)
TryEnterEx(t) ==
  /\ \/ TryAcquire(t, "out") /\ UNCHANGED timeout
     \/ /\ Occupied(t, "out", "spin")
        /\ \E x \in {"FINITE", "INFINITE"} : timeout' = [timeout EXCEPT ![t] = x]
  /\ UNCHANGED <<list, count, unparked, unlinked, grabbed, wakeStack>>

\* The spin loop of Lock_TryEnterTail.
Spin(t) ==
  /\ TryAcquire(t, "spin") \/ Occupied(t, "spin", "enqueue")
  /\ UNCHANGED <<list, timeout, count, unparked, unlinked, grabbed, wakeStack>>

\* Initialise the parker; acquire the lock, or push the wait block.
Enqueue(t) ==
  /\ \/ TryAcquire(t, "enqueue") /\ UNCHANGED <<list, unlinked>>
     \/ /\ Occupied(t, "enqueue", "parked")
        /\ list' = <<t>> \o list
        /\ unlinked' = [unlinked EXCEPT ![t] = 0]
  /\ count' = [count EXCEPT ![t] = 1]
  /\ unparked' = [unparked EXCEPT ![t] = 0]
  /\ UNCHANGED <<timeout, grabbed, wakeStack>>

\* ParkThreadEx returns because the thread was unparked.
Unparked(t) ==
  /\ unparked[t] = 1 /\ Step(t, "parked", "retry")
  /\ UNCHANGED <<busy, list, timeout, count, unparked, unlinked, grabbed, wakeStack>>

\* Mutant: a cancelled wait returns without unlinking its wait block.
Cancelled_NoUnlink(t) ==
  /\ count[t] = 1 /\ count' = [count EXCEPT ![t] = 0]
  /\ Step(t, "parked", "out")
  /\ UNCHANGED <<busy, list, timeout, unparked, unlinked, grabbed, wakeStack>>

\* ParkThreadEx cancels the parker: the timeout expired, or, whatever the
\* timeout, there is no park spot to block on.
Cancelled(t) ==
  /\ count[t] = 1 /\ count' = [count EXCEPT ![t] = 0]
  /\ Step(t, "parked", "unlink")
  /\ UNCHANGED <<busy, list, timeout, unparked, unlinked, grabbed, wakeStack>>

\* After a wake-up: acquire, wait again, or, when the time is over, fail.
Retry(t) ==
  /\ \/ TryAcquire(t, "retry")
     \/ Occupied(t, "retry", "spin")
     \/ timeout[t] = "FINITE" /\ Occupied(t, "retry", "out")
  /\ UNCHANGED <<list, timeout, count, unparked, unlinked, grabbed, wakeStack>>

\* UnlinkListEntry: is the entry already unlinked?
UnlinkTest(t) ==
  /\ Step(t, "unlink", IF unlinked[t] = 1 THEN "out" ELSE "grab")
  /\ UNCHANGED <<busy, list, timeout, count, unparked, unlinked, grabbed, wakeStack>>

\* Mutant: the other entries of the grabbed list are forgotten.
UnlinkGrab_Drop(t) ==
  /\ \/ list = <<>> /\ Step(t, "grab", "spinUnlinked") /\ UNCHANGED list
     \/ list # <<>> /\ list' = <<>> /\ Step(t, "grab", "out")
  /\ UNCHANGED <<busy, timeout, count, unparked, unlinked, grabbed, wakeStack>>

\* Mutant: the list is swapped for LOCK_FREE, as in StLock_Exit.
UnlinkGrab_Free(t) ==
  /\ \/ list = <<>> /\ Step(t, "grab", "spinUnlinked") /\ UNCHANGED <<busy, list, grabbed>>
     \/ /\ list # <<>> /\ busy' = 0 /\ list' = <<>> /\ Step(t, "grab", "unparkAll")
        /\ grabbed' = [grabbed EXCEPT ![t] = list]
  /\ UNCHANGED <<timeout, count, unparked, unlinked, wakeStack>>

\* The list is empty, or it is swapped for LOCK_BUSY: the entry was alone in
\* it, or all its waiters are going to be unparked.
UnlinkGrab(t) ==
  /\ \/ /\ list = <<>> /\ Step(t, "grab", "spinUnlinked")
        /\ UNCHANGED <<list, grabbed>>
     \/ /\ list = <<t>> /\ list' = <<>> /\ Step(t, "grab", "out")
        /\ UNCHANGED grabbed
     \/ /\ list \notin {<<>>, <<t>>} /\ list' = <<>>
        /\ Step(t, "grab", "unparkAll")
        /\ grabbed' = [grabbed EXCEPT ![t] = list]
  /\ UNCHANGED <<busy, timeout, count, unparked, unlinked, wakeStack>>

SpinUntilUnlinked(t) ==
  /\ unlinked[t] = 1 /\ Step(t, "spinUnlinked", "out")
  /\ UNCHANGED <<busy, list, timeout, count, unparked, unlinked, grabbed, wakeStack>>

\* StLock_Exit: swap the whole state for LOCK_FREE.
Exit(t) ==
  /\ Step(t, "held", "exit")
  /\ busy' = 0 /\ list' = <<>>
  /\ grabbed' = [grabbed EXCEPT ![t] = list]
  /\ UNCHANGED <<timeout, count, unparked, unlinked, wakeStack>>

\* UnparkWaitList, first loop: lock the parker of the next entry, or mark the
\* entry as unlinked.
VisitEntry(t) ==
  /\ pc[t] \in {"exit", "unparkAll"} /\ grabbed[t] # <<>>
  /\ LET e == Head(grabbed[t]) IN
       /\ grabbed' = [grabbed EXCEPT ![t] = Tail(@)]
       /\ \/ /\ count[e] = 1 /\ count' = [count EXCEPT ![e] = 0]
             /\ wakeStack' = [wakeStack EXCEPT ![t] = <<e>> \o @]
             /\ UNCHANGED unlinked
          \/ /\ count[e] = 0 /\ unlinked' = [unlinked EXCEPT ![e] = 1]
             /\ UNCHANGED <<count, wakeStack>>
  /\ UNCHANGED <<busy, list, pc, timeout, unparked>>

\* Second loop: unpark the locked waiters, the oldest first.
UnparkEntry(t) ==
  /\ grabbed[t] = <<>> /\ wakeStack[t] # <<>>
  /\ unparked' = [unparked EXCEPT ![Head(wakeStack[t])] = 1]
  /\ wakeStack' = [wakeStack EXCEPT ![t] = Tail(@)]
  /\ UNCHANGED <<busy, list, pc, timeout, count, unlinked, grabbed>>

UnparkDone(t) ==
  /\ grabbed[t] = <<>> /\ wakeStack[t] = <<>>
  /\ Step(t, "exit", "out") \/ Step(t, "unparkAll", "spinUnlinked")
  /\ UNCHANGED <<busy, list, timeout, count, unparked, unlinked, grabbed, wakeStack>>

\* The steps a thread takes inside the lock's operations.
ThreadStep(t) ==
  \/ Spin(t) \/ Enqueue(t) \/ Unparked(t) \/ Retry(t) \/ UnlinkTest(t)
  \/ UnlinkGrab(t) \/ SpinUntilUnlinked(t)
  \/ VisitEntry(t) \/ UnparkEntry(t) \/ UnparkDone(t)

Next == \E t \in Threads :
          TryEnterEx(t) \/ Cancelled(t) \/ Exit(t) \/ ThreadStep(t)

Spec == Init /\ [][Next]_vars

\* The time of a timed wait is over.
Expires(t) == timeout[t] = "FINITE" /\ Cancelled(t)

-----------------------------------------------------------------------------
(* Properties. *)

TypeOK ==
  /\ busy \in {0, 1} /\ list \in Seq(Threads) /\ pc \in [Threads -> Pcs]
  /\ timeout \in [Threads -> {"FINITE", "INFINITE"}]
  /\ count \in [Threads -> {0, 1}] /\ unparked \in [Threads -> {0, 1}]
  /\ unlinked \in [Threads -> {0, 1}]
  /\ grabbed \in [Threads -> Seq(Threads)]
  /\ wakeStack \in [Threads -> Seq(Threads)]

holders == {t \in Threads : pc[t] = "held"}

\* The lock implements a mutex: nobody enters while it is held, even when a
\* waiter that timed out takes the wait list away from under the holder.
LockedMutex == INSTANCE Mutex
Exclusive == LockedMutex!Spec

\* Some thread is walking a list with t's wait block in it.
HeldBySomeone(t) ==
  \E s \in Threads : In(t, grabbed[s]) \/ In(t, wakeStack[s])

\* No wake-up is lost: a parked thread is in the list of a busy lock, or some
\* thread holds its wait block and will unpark it, or it was unparked.
NoLostWakeup ==
  \A t \in Threads : pc[t] = "parked" =>
    unparked[t] = 1 \/ (busy = 1 /\ In(t, list)) \/ HeldBySomeone(t)

\* When a call has returned, its wait block is in nobody's hands.
NoDanglingBlock ==
  \A t \in Threads : pc[t] \in {"out", "held", "exit"} =>
    ~In(t, list) /\ ~HeldBySomeone(t)

\* The thread waits with a finite timeout, or has given up.
TimedWait(t) == (pc[t] = "parked" /\ timeout[t] = "FINITE") \/ pc[t] = "unlink"

\* A lock on which threads park does not stay free: one of them enters, or
\* they all leave.
FreeLockIsTaken ==
  busy = 0 /\ (\E t \in Threads : pc[t] = "parked")
    ~> busy = 1 \/ \A t \in Threads : pc[t] # "parked"
=============================================================================
