----------------------------- MODULE Waitables ------------------------------
(***************************************************************************)
(* Waits on several waitables (Waitaible.c): WaitAny, WaitAll, Signal and  *)
(* SignalAndWait over semaphores.  A waiting call has one parker, and for  *)
(* each object of its array a wait block in the queue of that semaphore.   *)
(* The releaser of a wait-any block takes a permit for the waiter; those   *)
(* of wait-all blocks lower the count of the parker, and the waiter that   *)
(* the last one unparks tries to acquire everything itself.                *)
(*                                                                         *)
(* Modules Semaphore and LockedQueue check the queue of one semaphore.     *)
(* Here three things are one step each: the test of the state together with*)
(* the insertion in the queue, an addition to the state together with the  *)
(* look for a waiter that it releases, and the end of a release, which     *)
(* unlocks the queue when there is nothing to hand out.  The wait blocks   *)
(* live in the frame of the call.                                          *)
(***************************************************************************)
EXTENDS WaitLists, FiniteSets

CONSTANTS
  Threads,
  Waitables,
  AnyArrays,   \* the arrays that WaitAny is called with
  AllArrays,   \* the sorted arrays of WaitAll
  MaxCount,    \* MaximumCount of each semaphore
  NoThread

WaitablesAssumption ==
  /\ MaxCount \in Nat \ {0} /\ NoThread \notin Threads /\ IsFiniteSet(Threads)
  /\ AnyArrays \cup AllArrays \subseteq Seq(Waitables) /\ <<>> \notin AnyArrays \cup AllArrays
  /\ \A a \in AllArrays : Distinct(a)

VARIABLES
  permits,   \* State of each semaphore
  queue,     \* its wait blocks: a thread and an index of its array
  holder,    \* the thread that holds the lock of its queue
  pc,
  op,        \* "any", "all", "signal" or "signalAndWait"
  array,     \* the Objects of the call
  index,     \* local Index
  visited,   \* local LastVisited
  count,     \* the lock count of the thread's parker
  key,       \* its WaitStatus, once it is unparked
  linked,    \* the indices whose wait block has Flink # itself
  got,       \* the indices that were acquired
  serving,   \* the semaphore that the thread is releasing, and where to return
  front,     \* the wait block it has in hand
  total      \* ghost: permits released and not yet used by a returned call

semaphores == <<permits, queue, holder>>
callVars   == <<op, array, index, visited, got>>
waitVars   == <<count, key, linked>>
vars == <<semaphores, pc, callVars, waitVars, serving, front, total>>

NoBlock == <<NoThread, 0>>

Init ==
  /\ permits = [w \in Waitables |-> 0] /\ queue = [w \in Waitables |-> <<>>]
  /\ holder = [w \in Waitables |-> NoThread]
  /\ pc = [t \in Threads |-> "out"] /\ op = [t \in Threads |-> "none"]
  /\ array = [t \in Threads |-> <<>>] /\ index = [t \in Threads |-> 0]
  /\ visited = [t \in Threads |-> 0] /\ count = [t \in Threads |-> 0]
  /\ key = [t \in Threads |-> "none"] /\ linked = [t \in Threads |-> {}]
  /\ got = [t \in Threads |-> {}] /\ serving = [t \in Threads |-> <<>>]
  /\ front = [t \in Threads |-> NoBlock] /\ total = [w \in Waitables |-> 0]

Goto(t, to)       == pc' = [pc EXCEPT ![t] = to]
Step(t, from, to) == pc[t] = from /\ Goto(t, to)
SetIndex(t, i)    == index' = [index EXCEPT ![t] = i]

Object(t) == array[t][index[t]]
AtEnd(t)  == index[t] > Len(array[t])

\* _AllowsAcquire: a permit, and nobody in the queue.
AllowsAcquire(w) == permits[w] > 0 /\ queue[w] = <<>>

\* The call returns; its frame is gone, and what it acquired is used.
Return(t) ==
  /\ Goto(t, "out") /\ op' = [op EXCEPT ![t] = "none"]
  /\ array' = [array EXCEPT ![t] = <<>>] /\ SetIndex(t, 0)
  /\ visited' = [visited EXCEPT ![t] = 0] /\ got' = [got EXCEPT ![t] = {}]
  /\ count' = [count EXCEPT ![t] = 0] /\ key' = [key EXCEPT ![t] = "none"]
  /\ linked' = [linked EXCEPT ![t] = {}]
  /\ total' = [w \in Waitables |->
                 total[w] - Cardinality({i \in got[t] : array[t][i] = w})]

-----------------------------------------------------------------------------
(* The release of a semaphore *)

\* The queue is to be looked at, and its lock is free.
ReleasePending(w, p) == p > 0 /\ queue[w] # <<>> /\ holder[w] = NoThread

\* IsReleasePending, and the call of ReleaseWaitersAndUnlockQueue: the state
\* becomes p, and when the first waiter can be released its queue is locked.
Look(t, w, p, to) ==
  /\ permits' = [permits EXCEPT ![w] = p]
  /\ IF ReleasePending(w, p)
       THEN /\ holder' = [holder EXCEPT ![w] = t] /\ Goto(t, "release")
            /\ serving' = [serving EXCEPT ![t] = <<w, to>>]
       ELSE Goto(t, to) /\ UNCHANGED <<holder, serving>>

\* The release loop: unlink the first wait block, and take a permit if it is a
\* wait-any block; or unlock the queue.
ReleaseWaiters(t) ==
  /\ pc[t] = "release"
  /\ LET w == serving[t][1] IN
     IF permits[w] > 0 /\ queue[w] # <<>>
       THEN LET b == Head(queue[w])
                isAny == op[b[1]] # "all" IN
            /\ front' = [front EXCEPT ![t] = b]
            /\ queue' = [queue EXCEPT ![w] = Tail(@)]
            /\ permits' = [permits EXCEPT ![w] = IF isAny THEN @ - 1 ELSE @]
            /\ Goto(t, IF isAny THEN "lockAny" ELSE "lockAll")
            /\ UNCHANGED <<holder, serving>>
       ELSE /\ holder' = [holder EXCEPT ![w] = NoThread]
            /\ Goto(t, serving[t][2]) /\ serving' = [serving EXCEPT ![t] = <<>>]
            /\ UNCHANGED <<front, queue, permits>>
  /\ UNCHANGED <<callVars, waitVars, total>>

\* TryLockParker of a wait-any; if it was cancelled, mark its block and undo.
LockAny(t) ==
  LET b == front[t]  w == serving[t][1] IN
  /\ pc[t] = "lockAny"
  /\ \/ /\ count[b[1]] = 1 /\ count' = [count EXCEPT ![b[1]] = 0] /\ Goto(t, "unparkAny")
        /\ UNCHANGED <<linked, front, permits>>
     \/ /\ count[b[1]] = 0 /\ Goto(t, "release")
        /\ linked' = [linked EXCEPT ![b[1]] = @ \ {b[2]}]
        /\ permits' = [permits EXCEPT ![w] = @ + 1]
        /\ front' = [front EXCEPT ![t] = NoBlock] /\ UNCHANGED count
  /\ UNCHANGED <<queue, holder, callVars, key, serving, total>>

\* UnparkThread with the key of the wait block; its mark stays as it is.
UnparkAny(t) ==
  LET b == front[t] IN
  /\ Step(t, "unparkAny", "release") /\ key' = [key EXCEPT ![b[1]] = "acquired"]
  /\ got' = [got EXCEPT ![b[1]] = @ \cup {b[2]}]
  /\ front' = [front EXCEPT ![t] = NoBlock]
  /\ UNCHANGED <<semaphores, op, array, index, visited, count, linked, serving, total>>

\* TryLockParker of a wait-all: the last one of its releasers unparks it.
LockAll(t) ==
  LET b == front[t] IN
  /\ Step(t, "lockAll", IF count[b[1]] = 1 THEN "unparkAll" ELSE "markAll")
  /\ count' = [count EXCEPT ![b[1]] = IF @ = 0 THEN 0 ELSE @ - 1]
  /\ UNCHANGED <<semaphores, callVars, key, linked, serving, front, total>>

UnparkAll(t) ==
  LET b == front[t] IN
  /\ Step(t, "unparkAll", "markAll") /\ key' = [key EXCEPT ![b[1]] = "changed"]
  /\ UNCHANGED <<semaphores, callVars, count, linked, serving, front, total>>

\* Anyway, mark the wait block as unlinked.
MarkAll(t) ==
  LET b == front[t] IN
  /\ Step(t, "markAll", "release") /\ linked' = [linked EXCEPT ![b[1]] = @ \ {b[2]}]
  /\ front' = [front EXCEPT ![t] = NoBlock]
  /\ UNCHANGED <<semaphores, callVars, count, key, serving, total>>

\* StWaitable_Signal, on a semaphore that is not full.
Release(t, w, to) ==
  /\ permits[w] < MaxCount /\ Look(t, w, permits[w] + 1, to)
  /\ total' = [total EXCEPT ![w] = @ + 1]

Signal(t) ==
  /\ pc[t] = "out" /\ \E w \in Waitables : Release(t, w, "out")
  /\ UNCHANGED <<queue, callVars, waitVars, front>>

-----------------------------------------------------------------------------
(* The calls *)

\* The call begins; n is the count that its parker is initialised with.
Call(t, o, a, to, n) ==
  /\ Step(t, "out", to) /\ op' = [op EXCEPT ![t] = o]
  /\ array' = [array EXCEPT ![t] = a] /\ SetIndex(t, 1)
  /\ count' = [count EXCEPT ![t] = n]
  /\ UNCHANGED <<semaphores, visited, got, key, linked, serving, front, total>>

WaitAny(t) == \E a \in AnyArrays : Call(t, "any", a, "tryAny", 1)

\* SortAndCheckForAllowAcquire, of an array that is sorted and has no duplicates.
\* (Its tests are one step: what they find is only a hint.)
CanAcquireAll(a) == \A i \in 1..Len(a) : AllowsAcquire(a[i])

\* WaitAll tries at once when all objects allow it.
WaitAll(t) ==
  \E a \in AllArrays :
    Call(t, "all", a, IF CanAcquireAll(a) THEN "tryAll" ELSE "prologueAll", Len(a))

\* Only the object to wait on is in the array; SignalFirst picks the other one.
SignalAndWait(t) == \E w \in Waitables : Call(t, "signalAndWait", <<w>>, "prologueAny", 1)

\* TRY_ACQUIRE on one object after the other; then the prologues begin, or,
\* with a null timeout, the call returns.
TryAny(t) ==
  /\ pc[t] = "tryAny"
  /\ \/ /\ AllowsAcquire(Object(t)) /\ permits' = [permits EXCEPT ![Object(t)] = @ - 1]
        /\ got' = [got EXCEPT ![t] = {index[t]}] /\ Goto(t, "return") /\ UNCHANGED index
     \/ /\ ~AllowsAcquire(Object(t)) /\ UNCHANGED <<permits, got>>
        /\ IF index[t] < Len(array[t])
             THEN SetIndex(t, index[t] + 1) /\ UNCHANGED pc
             ELSE SetIndex(t, 1) /\ (Goto(t, "prologueAny") \/ Goto(t, "return"))
  /\ UNCHANGED <<queue, holder, op, array, visited, waitVars, serving, front, total>>

\* What follows the prologues: the wait, or first the signal.
AfterPrologues(t) == IF op[t] = "signalAndWait" THEN "signal" ELSE "park"

\* The loop over the prologues sees that the parker was locked.
ProloguesStop(t) ==
  /\ op[t] = "any" /\ count[t] = 0 /\ Step(t, "prologueAny", "park")
  /\ UNCHANGED <<semaphores, callVars, waitVars, serving, front, total>>

\* WAIT_ANY_PROLOGUE that acquires: lock the own parker and unpark itself, or
\* undo the acquire when another semaphore was faster.
PrologueAcquires(t) ==
  /\ pc[t] = "prologueAny" /\ AllowsAcquire(Object(t))
  /\ permits' = [permits EXCEPT ![Object(t)] = @ - 1] /\ Goto(t, "lockSelf")
  /\ UNCHANGED <<queue, holder, callVars, waitVars, serving, front, total>>

\* Mutant: the acquire is not undone.
LockSelf_NoUndo(t) ==
  /\ pc[t] = "lockSelf" /\ Goto(t, AfterPrologues(t))
  /\ \/ /\ count[t] = 1 /\ count' = [count EXCEPT ![t] = 0]
        /\ key' = [key EXCEPT ![t] = "acquired"] /\ got' = [got EXCEPT ![t] = {index[t]}]
     \/ count[t] = 0 /\ UNCHANGED <<count, key, got>>
  /\ UNCHANGED <<semaphores, op, array, index, visited, linked, serving, front, total>>

LockSelf(t) ==
  /\ pc[t] = "lockSelf"
  /\ \/ /\ count[t] = 1 /\ count' = [count EXCEPT ![t] = 0]
        /\ key' = [key EXCEPT ![t] = "acquired"]
        /\ got' = [got EXCEPT ![t] = {index[t]}] /\ Goto(t, AfterPrologues(t))
        /\ UNCHANGED <<permits, holder, serving>>
     \/ /\ count[t] = 0 /\ Look(t, Object(t), permits[Object(t)] + 1, AfterPrologues(t))
        /\ UNCHANGED <<count, key, got>>
  /\ UNCHANGED <<queue, op, array, index, visited, linked, front, total>>

Enqueue(t) ==
  /\ queue' = [queue EXCEPT ![Object(t)] = Append(@, <<t, index[t]>>)]
  /\ linked' = [linked EXCEPT ![t] = @ \cup {index[t]}]

\* The next prologue, or, when there are no more, what follows.
NextPrologue(t, more, after) ==
  IF more /\ index[t] < Len(array[t])
    THEN SetIndex(t, index[t] + 1) /\ UNCHANGED pc
    ELSE SetIndex(t, 1) /\ Goto(t, after)

\* WAIT_ANY_PROLOGUE that inserts the wait block, even of a parker that was
\* locked since the loop looked at it.
PrologueEnqueues(t) ==
  /\ pc[t] = "prologueAny" /\ ~AllowsAcquire(Object(t)) /\ Enqueue(t)
  /\ visited' = [visited EXCEPT ![t] = index[t]]
  /\ NextPrologue(t, count[t] = 1, AfterPrologues(t))
  /\ UNCHANGED <<permits, holder, op, array, got, count, key, serving, front, total>>

\* SignalAndWait signals, and undoes its wait when the semaphore is full.
SignalFirst(t) ==
  /\ pc[t] = "signal"
  /\ \E w \in Waitables :
       \/ Release(t, w, "park") /\ UNCHANGED <<queue, callVars, waitVars, front>>
       \/ /\ permits[w] = MaxCount
          /\ IF count[t] = 0
               THEN Goto(t, "parkUndo") /\ UNCHANGED <<count, key>>
               ELSE /\ count' = [count EXCEPT ![t] = 0] /\ Goto(t, "cancel")
                    /\ key' = [key EXCEPT ![t] = "failed"]
          /\ UNCHANGED <<semaphores, callVars, linked, serving, front, total>>

\* ParkThread, and UNDO_ACQUIRE on what was acquired meanwhile.
SignalFailed(t) ==
  /\ pc[t] = "parkUndo" /\ key[t] # "none"
  /\ Look(t, array[t][1], permits[array[t][1]] + 1, "return")
  /\ got' = [got EXCEPT ![t] = {}]
  /\ UNCHANGED <<queue, op, array, index, visited, waitVars, front, total>>

\* ParkThreadEx returns with the key, or with a timeout or an alert.
ParkThreadEx(t) ==
  /\ pc[t] = "park"
  /\ \/ key[t] # "none" /\ UNCHANGED <<count, key>>
     \/ /\ count[t] > 0 /\ count' = [count EXCEPT ![t] = 0]
        /\ key' = [key EXCEPT ![t] = "timeout"]
  /\ Goto(t, IF key'[t] = "changed" THEN "spinUnlinked" ELSE "cancel")
  /\ UNCHANGED <<semaphores, callVars, linked, serving, front, total>>

\* The object that was acquired: none after a failure.
Acquired(t) == {array[t][i] : i \in got[t]}

\* The wait blocks to cancel: those that are linked and whose object is not the
\* one that was acquired.
ToCancel(t) ==
  {i \in 1..(IF op[t] = "all" THEN Len(array[t]) ELSE visited[t]) :
     i \in linked[t] /\ array[t][i] \notin Acquired(t)}

\* CANCEL_ACQUIRE on the first of them: lock the queue, unlink the block and
\* release other waiters.  When the lock is busy, either it becomes free or its
\* holder marks the block.
Cancel(t) ==
  /\ pc[t] = "cancel"
  /\ \E i \in ToCancel(t) : LET w == array[t][i] IN
       /\ \A j \in ToCancel(t) : i <= j
       /\ holder[w] = NoThread /\ holder' = [holder EXCEPT ![w] = t]
       /\ queue' = [queue EXCEPT ![w] = Without(@, <<t, i>>)]
       /\ linked' = [linked EXCEPT ![t] = @ \ {i}]
       /\ serving' = [serving EXCEPT ![t] = <<w, "cancel">>] /\ Goto(t, "release")
  /\ UNCHANGED <<permits, callVars, count, key, front, total>>

Returns(t) ==
  /\ \/ pc[t] = "return" \/ (pc[t] = "tryAll" /\ AtEnd(t))
     \/ pc[t] = "cancel" /\ ToCancel(t) = {}
  /\ Return(t)
  /\ UNCHANGED <<semaphores, serving, front>>

-----------------------------------------------------------------------------
(* WaitAll *)

\* Mutant: the own parker is not locked for an object that allows an acquire.
PrologueAll_NoSelfLock(t) ==
  /\ pc[t] = "prologueAll" /\ NextPrologue(t, TRUE, "park")
  /\ IF AllowsAcquire(Object(t)) THEN UNCHANGED <<queue, linked>> ELSE Enqueue(t)
  /\ UNCHANGED <<permits, holder, op, array, visited, got, count, key, serving, front, total>>

\* WAIT_ALL_PROLOGUE: lower the own count when the object allows an acquire, or
\* insert the wait block.
PrologueAll(t) ==
  /\ pc[t] = "prologueAll" /\ NextPrologue(t, TRUE, "park")
  /\ IF AllowsAcquire(Object(t))
       THEN /\ count' = [count EXCEPT ![t] = @ - 1]
            /\ key' = [key EXCEPT ![t] = IF count[t] = 1 THEN "changed" ELSE @]
            /\ UNCHANGED <<queue, linked>>
       ELSE Enqueue(t) /\ UNCHANGED <<count, key>>
  /\ UNCHANGED <<permits, holder, op, array, visited, got, serving, front, total>>

\* Mutant: the wait blocks are reused at once.
SpinUntilUnlinked_Skip(t) ==
  /\ Step(t, "spinUnlinked", "tryAll") /\ SetIndex(t, 1)
  /\ UNCHANGED <<semaphores, op, array, visited, got, waitVars, serving, front, total>>

\* Spin until all wait blocks are marked as unlinked.
SpinUntilUnlinked(t) ==
  /\ linked[t] = {} /\ Step(t, "spinUnlinked", "tryAll") /\ SetIndex(t, 1)
  /\ UNCHANGED <<semaphores, op, array, visited, got, waitVars, serving, front, total>>

\* TRY_ACQUIRE on every object; when one fails, undo.
TryAll(t) ==
  /\ pc[t] = "tryAll" /\ ~AtEnd(t)
  /\ IF AllowsAcquire(Object(t))
       THEN /\ permits' = [permits EXCEPT ![Object(t)] = @ - 1] /\ SetIndex(t, index[t] + 1)
            /\ got' = [got EXCEPT ![t] = @ \cup {index[t]}] /\ UNCHANGED pc
       ELSE SetIndex(t, index[t] - 1) /\ Goto(t, "undo") /\ UNCHANGED <<permits, got>>
  /\ UNCHANGED <<queue, holder, op, array, visited, waitVars, serving, front, total>>

\* Mutant: the permit is given back and nobody looks for waiters.
Undo_NoLook(t) ==
  /\ pc[t] = "undo" /\ index[t] > 0 /\ SetIndex(t, index[t] - 1)
  /\ got' = [got EXCEPT ![t] = @ \ {index[t]}]
  /\ permits' = [permits EXCEPT ![Object(t)] = @ + 1] /\ UNCHANGED <<holder, serving, pc>>
  /\ UNCHANGED <<queue, op, array, visited, waitVars, front, total>>

\* UNDO_ACQUIRE, the last one first.
Undo(t) ==
  /\ pc[t] = "undo" /\ index[t] > 0 /\ SetIndex(t, index[t] - 1)
  /\ got' = [got EXCEPT ![t] = @ \ {index[t]}]
  /\ Look(t, Object(t), permits[Object(t)] + 1, "undo")
  /\ UNCHANGED <<queue, op, array, visited, waitVars, front, total>>

\* Wait again with a parker as new, unless the timeout is used up.
Again(t) ==
  /\ pc[t] = "undo" /\ index[t] = 0
  /\ \/ /\ Goto(t, "prologueAll") /\ SetIndex(t, 1)
        /\ count' = [count EXCEPT ![t] = Len(array[t])]
        /\ key' = [key EXCEPT ![t] = "none"]
     \/ Goto(t, "return") /\ UNCHANGED <<index, count, key>>
  /\ UNCHANGED <<semaphores, op, array, visited, got, linked, serving, front, total>>

-----------------------------------------------------------------------------

Run(t) ==
  \/ ReleaseWaiters(t) \/ LockAny(t) \/ UnparkAny(t) \/ LockAll(t) \/ UnparkAll(t) \/ MarkAll(t)
  \/ TryAny(t) \/ ProloguesStop(t) \/ PrologueAcquires(t) \/ LockSelf(t) \/ PrologueEnqueues(t)
  \/ SignalFirst(t) \/ SignalFailed(t) \/ ParkThreadEx(t) \/ Cancel(t) \/ Returns(t)
  \/ PrologueAll(t) \/ SpinUntilUnlinked(t) \/ TryAll(t) \/ Undo(t) \/ Again(t)

Next ==
  \E t \in Threads : WaitAny(t) \/ WaitAll(t) \/ Signal(t) \/ SignalAndWait(t) \/ Run(t)

Spec == Init /\ [][Next]_vars

-----------------------------------------------------------------------------
(* Properties *)

\* The permits of w that were taken for a call that has not returned.
InFlight(w) ==
  Cardinality(UNION {{<<t, i>> : i \in {j \in got[t] : array[t][j] = w}} : t \in Threads})
    + Cardinality({t \in Threads :
        \/ pc[t] \in {"lockAny", "unparkAny"} /\ serving[t][1] = w
        \/ pc[t] = "lockSelf" /\ Object(t) = w})

\* Permits are neither lost nor made, through cancelled waits, acquires that are undone, and
\* signals that fail: each one is in its semaphore or in the hands of a call.
PermitsKept == \A w \in Waitables : total[w] = permits[w] + InFlight(w)

\* When a call has returned, none of its wait blocks is in a queue or in the
\* hands of a releaser; and a block that its owner is going to unlink, once it
\* has the lock of the queue, is in the queue.
WaitBlocksLeave ==
  \A t \in Threads :
    /\ pc[t] = "cancel" => \A i \in ToCancel(t) :
         \/ holder[array[t][i]] # NoThread
         \/ \E k \in 1..Len(queue[array[t][i]]) : queue[array[t][i]][k] = <<t, i>>
    /\ pc[t] = "out" =>
         /\ \A w \in Waitables : \A k \in 1..Len(queue[w]) : queue[w][k][1] # t
         /\ \A s \in Threads : front[s][1] # t

\* The count of a parked wait-all is what its releasers have still to do: the
\* wait blocks in the queues and those whose releaser has not locked it yet.
CountsAgree ==
  \A t \in Threads : op[t] = "all" /\ pc[t] = "park" /\ count[t] > 0 =>
    count[t] =
      Cardinality({w \in Waitables : \E k \in 1..Len(queue[w]) : queue[w][k][1] = t})
        + Cardinality({s \in Threads : pc[s] = "lockAll" /\ front[s][1] = t})

\* At rest nobody waits for what is there: a parked wait-any for one of its
\* semaphores, a parked wait-all for all of them.
NobodyStuck ==
  (\A t \in Threads : pc[t] \in {"out", "park"} /\ key[t] = "none") =>
    \A t \in Threads : pc[t] = "park" =>
      IF op[t] = "all" THEN \E i \in 1..Len(array[t]) : permits[array[t][i]] = 0
                       ELSE \A i \in 1..Len(array[t]) : permits[array[t][i]] = 0
=============================================================================
