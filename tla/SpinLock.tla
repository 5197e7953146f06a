------------------------------ MODULE SpinLock ------------------------------
(***************************************************************************)
(* The spin lock that protects the data of the other synchronizers.  A     *)
(* thread that has spun enough pushes a locked parker on the state word    *)
(* and parks; the release swaps the whole word for SL_FREE and unparks the *)
(* threads of the stack in the order in which they came.                   *)
(***************************************************************************)
EXTENDS WaitLists, SequencesExt

CONSTANT Threads

VARIABLES
  busy,       \* Lock->State # SL_FREE
  list,       \* the stack of parkers, the last pushed first
  pc,         \* control state of each thread
  unparked,   \* 1 when the thread's parker was unparked
  wakeStack   \* the local WakeStackTop of ReleaseSpinLockWaiters

vars == <<busy, list, pc, unparked, wakeStack>>

Init ==
  /\ busy = 0 /\ list = <<>>
  /\ pc = [t \in Threads |-> "out"]
  /\ unparked = [t \in Threads |-> 0]
  /\ wakeStack = [t \in Threads |-> <<>>]

Step(t, from, to) == pc[t] = from /\ pc' = [pc EXCEPT ![t] = to]

\* The state is SL_FREE and is swapped for SL_BUSY.
TryAcquireSpinLock(t, from) == busy = 0 /\ busy' = 1 /\ Step(t, from, "held")

Occupied(t, from, to) == busy = 1 /\ UNCHANGED busy /\ Step(t, from, to)

\* The fast path, and the spin loop, which ends when somebody is queued.
AcquireSpinLock(t) ==
  /\ \/ \E from \in {"out", "spin"} : TryAcquireSpinLock(t, from)
     \/ Occupied(t, "out", "spin")
     \/ Occupied(t, "spin", "enqueue")
  /\ UNCHANGED <<list, unparked, wakeStack>>

\* Acquire, or push the parker, provided that the lock is still busy.
Enqueue(t) ==
  /\ \/ TryAcquireSpinLock(t, "enqueue") /\ UNCHANGED <<list, unparked>>
     \/ /\ Occupied(t, "enqueue", "parked") /\ list' = <<t>> \o list
        /\ unparked' = [unparked EXCEPT ![t] = 0]
  /\ UNCHANGED wakeStack

\* ParkThread returns: try again.
Unparked(t) ==
  /\ unparked[t] = 1 /\ Step(t, "parked", "spin")
  /\ UNCHANGED <<busy, list, unparked, wakeStack>>

\* ReleaseSpinLock: free the lock and take the stack, reversed by the first
\* loop of ReleaseSpinLockWaiters.
ReleaseSpinLock(t) ==
  /\ Step(t, "held", "release") /\ busy' = 0 /\ list' = <<>>
  /\ wakeStack' = [wakeStack EXCEPT ![t] = Reverse(list)]
  /\ UNCHANGED unparked

\* The second loop reads the next parker before it unparks one.
UnparkThread(t) ==
  /\ wakeStack[t] # <<>>
  /\ unparked' = [unparked EXCEPT ![Head(wakeStack[t])] = 1]
  /\ wakeStack' = [wakeStack EXCEPT ![t] = Tail(@)]
  /\ UNCHANGED <<busy, list, pc>>

UnparkDone(t) ==
  /\ wakeStack[t] = <<>> /\ Step(t, "release", "out")
  /\ UNCHANGED <<busy, list, unparked, wakeStack>>

\* The steps of a thread that wants the lock, or is leaving it.
ThreadStep(t) ==
  \/ pc[t] # "out" /\ AcquireSpinLock(t)
  \/ Enqueue(t) \/ Unparked(t) \/ UnparkThread(t) \/ UnparkDone(t)

Next == \E t \in Threads : AcquireSpinLock(t) \/ ReleaseSpinLock(t) \/ ThreadStep(t)

Spec == Init /\ [][Next]_vars

-----------------------------------------------------------------------------
(* Properties *)

TypeOK ==
  /\ busy \in {0, 1} /\ list \in Seq(Threads)
  /\ pc \in [Threads -> {"out", "spin", "enqueue", "parked", "held", "release"}]
  /\ unparked \in [Threads -> {0, 1}] /\ wakeStack \in [Threads -> Seq(Threads)]

holders == {t \in Threads : pc[t] = "held"}

\* The spin lock implements the mutex.
SpinMutex == INSTANCE Mutex
Exclusive == SpinMutex!Spec

\* Nobody is forgotten: a parked thread is queued on a busy lock, or a thread
\* that released the lock is going to unpark it, or it was unparked.
NoLostWakeup ==
  \A t \in Threads : pc[t] = "parked" =>
    \/ unparked[t] = 1
    \/ busy = 1 /\ In(t, list)
    \/ \E s \in Threads : In(t, wakeStack[s])

\* The parker in the frame of a thread that is not parked is in no stack, where
\* ReleaseSpinLockWaiters would touch it.
ParkersLeave ==
  \A t \in Threads : pc[t] # "parked" =>
    ~In(t, list) /\ \A s \in Threads : ~In(t, wakeStack[s])
=============================================================================
