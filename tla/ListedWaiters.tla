--------------------------- MODULE ListedWaiters ----------------------------
(***************************************************************************)
(* Threads that wait in lists which a spin lock protects: the blocking     *)
(* queues, the rendezvous channel and the condition variable.  A critical  *)
(* section is one step.  What happens outside of it is not: a waiter that  *)
(* was locked is unparked after the spin lock is released, and a waiter    *)
(* that gives up takes its parker first and unlinks its entry later.       *)
(***************************************************************************)
EXTENDS WaitLists, FiniteSetsExt

CONSTANT Threads

VARIABLES
  pc,         \* control state of each thread
  count,      \* lock count of its parker
  status,     \* the wait status its unparker has in hand for it
  unparked,   \* 1 when it was unparked
  unlinked,   \* 1 when its entry points to itself
  wake        \* the locked waiters that it has still to unpark

waiterVars == <<pc, count, status, unparked, unlinked, wake>>

ListInit ==
  /\ pc = [t \in Threads |-> "out"]
  /\ count = [t \in Threads |-> 0] /\ status = [t \in Threads |-> "none"]
  /\ unparked = [t \in Threads |-> 0] /\ unlinked = [t \in Threads |-> 0]
  /\ wake = [t \in Threads |-> <<>>]

Step(t, from, to) == pc[t] = from /\ pc' = [pc EXCEPT ![t] = to]

\* The parker and the wait block of t are initialised; t goes to park.
Wait(t) ==
  /\ Step(t, "out", "parked")
  /\ count' = [count EXCEPT ![t] = 1] /\ status' = [status EXCEPT ![t] = "none"]
  /\ unparked' = [unparked EXCEPT ![t] = 0]
  /\ unlinked' = [unlinked EXCEPT ![t] = 0] /\ UNCHANGED wake

\* Where the waiters that can be locked are in the list l.
Lockable(l) == {i \in 1..Len(l) : count[l[i]] = 1}
HasLive(l)  == Lockable(l) # {}
FirstLive(l) == IF HasLive(l) THEN Min(Lockable(l)) ELSE Len(l) + 1
Live(l) == l[FirstLive(l)]
Rest(l) == SubSeq(l, FirstLive(l) + 1, Len(l))

\* Entries of waiters that gave up are removed and marked as unlinked.
Skip(l) ==
  unlinked' = [t \in Threads |->
    IF \E i \in 1..FirstLive(l) - 1 : l[i] = t THEN 1 ELSE unlinked[t]]

\* The loop that takes entries from the front of l until a parker is locked.
LockFirst(t, l, s) ==
  /\ HasLive(l) /\ Step(t, "out", "wake") /\ Skip(l)
  /\ count' = [count EXCEPT ![Live(l)] = 0]
  /\ status' = [status EXCEPT ![Live(l)] = s]
  /\ wake' = [wake EXCEPT ![t] = <<Live(l)>>] /\ UNCHANGED unparked

\* The loop finds nobody.
NobodyLive(l) == ~HasLive(l) /\ Skip(l) /\ UNCHANGED <<pc, count, status, unparked, wake>>

\* The loop that locks every waiter of l.
LockAll(t, l, s) ==
  LET live == {l[i] : i \in Lockable(l)} IN
  /\ Step(t, "out", "wake")
  /\ count' = [u \in Threads |-> IF u \in live THEN 0 ELSE count[u]]
  /\ status' = [u \in Threads |-> IF u \in live THEN s ELSE status[u]]
  /\ unlinked' = [u \in Threads |->
       IF u \notin live /\ (\E i \in 1..Len(l) : l[i] = u) THEN 1 ELSE unlinked[u]]
  /\ wake' = [wake EXCEPT ![t] = Picked(l, Lockable(l))]
  /\ UNCHANGED unparked

\* UnparkThread, and UnparkWakeList one entry at a time.
UnparkThread(t) ==
  /\ wake[t] # <<>>
  /\ unparked' = [unparked EXCEPT ![Head(wake[t])] = 1]
  /\ wake' = [wake EXCEPT ![t] = Tail(@)]
  /\ UNCHANGED <<pc, count, status, unlinked>>

WakeDone(t) ==
  /\ wake[t] = <<>> /\ Step(t, "wake", "out")
  /\ UNCHANGED <<count, status, unparked, unlinked, wake>>

\* ParkThreadEx, when t has no one left to unpark, returns with the status of
\* the unparker ...
Unparked(t, s) ==
  /\ wake[t] = <<>> /\ unparked[t] = 1 /\ status[t] = s /\ Step(t, "parked", "out")
  /\ UNCHANGED <<count, status, unparked, unlinked, wake>>

\* ... or because the timeout expired or the alerter was set.
Cancelled(t) ==
  /\ wake[t] = <<>> /\ count[t] = 1 /\ count' = [count EXCEPT ![t] = 0] /\ Step(t, "parked", "unlink")
  /\ UNCHANGED <<status, unparked, unlinked, wake>>

\* UnlinkEntryList, which tests the entry again under the spin lock.
UnlinkEntryList(t, l) ==
  /\ Step(t, "unlink", "out")
  /\ l' = IF unlinked[t] = 1 THEN l ELSE Without(l, t)
  /\ UNCHANGED <<count, status, unparked, unlinked, wake>>

\* No list or unparker holds the entry of a thread that is not waiting.
EntriesLeave(l) ==
  \A t \in Threads : pc[t] \notin {"parked", "unlink"} =>
    /\ \A i \in 1..Len(l) : l[i] # t
    /\ \A u \in Threads : \A i \in 1..Len(wake[u]) : wake[u][i] # t

\* A parked thread is listed, or in the hands of an unparker, or unparked.
NobodyLost(l) ==
  \A t \in Threads : pc[t] = "parked" =>
    \/ unparked[t] = 1 \/ (count[t] = 1 /\ \E i \in 1..Len(l) : l[i] = t)
    \/ \E u \in Threads : \E i \in 1..Len(wake[u]) : wake[u][i] = t
=============================================================================
