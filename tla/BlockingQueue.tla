---------------------------- MODULE BlockingQueue ---------------------------
(***************************************************************************)
(* StBlockingQueue_TakeAnyEx over linked blocking queues: a thread puts a  *)
(* wait block in the list of each queue, all with the same parker, so that *)
(* the first adder that locks the parker serves it; then it cancels the    *)
(* wait blocks in the other queues.  A critical section under the spin     *)
(* lock of a queue is one step.  A take from one queue is TakeAnyEx with   *)
(* that queue alone.                                                       *)
(***************************************************************************)
EXTENDS WaitLists, SequencesExt

CONSTANTS
  Threads,
  Length,     \* how many queues there are, numbered from 0
  Ranges,     \* the pairs of Offset and Count that callers pass
  Disposable, \* bound: the queues that may be disposed
  MaxItems    \* bound: how many items are added

VARIABLES
  first,      \* the items of each queue, oldest first
  disposed,   \* Queue->Last = DISPOSED_LAST
  list,       \* the wait list of each queue
  lifo,       \* the LIFO_WAIT_LIST flag of the queues
  pc,         \* control state of each thread
  range,      \* its arguments Offset and Count
  iter,       \* its loop variable Iter
  last,       \* LastVisited, as the number of loops; 0 for none
  count,      \* the lock count of its parker
  status,     \* the wait status: what happened, and in which queue
  unparked,   \* 1 when the parker was unparked
  entry,      \* its wait block in each queue: "none", "linked", "removed" by
              \* a thread that locked the parker, or "unlinked"
  channel,    \* the item in that wait block; 0 for none
  wake,       \* the locked waiters that the thread has to unpark
  added,      \* ghost: how many items were added
  gone,       \* ghost: the items that were returned or destroyed
  corrupt     \* ghost: an entry that was in no list has been removed

queueVars == <<first, disposed, list>>
takeVars == <<range, iter, last>>
parkVars == <<count, status, unparked>>
blockVars == <<entry, channel>>
ghostVars == <<added, gone, corrupt>>
vars == <<queueVars, lifo, pc, takeVars, parkVars, blockVars, wake, ghostVars>>

Queues == 0..Length - 1

Init ==
  /\ first = [q \in Queues |-> <<>>] /\ disposed = [q \in Queues |-> FALSE]
  /\ list = [q \in Queues |-> <<>>] /\ lifo \in BOOLEAN
  /\ pc = [t \in Threads |-> "out"] /\ range = [t \in Threads |-> <<0, 0>>]
  /\ iter = [t \in Threads |-> 0] /\ last = [t \in Threads |-> 0]
  /\ count = [t \in Threads |-> 0] /\ unparked = [t \in Threads |-> 0]
  /\ status = [t \in Threads |-> <<"none", 0>>]
  /\ entry = [t \in Threads |-> [q \in Queues |-> "none"]]
  /\ channel = [t \in Threads |-> [q \in Queues |-> 0]]
  /\ wake = [t \in Threads |-> <<>>]
  /\ added = 0 /\ gone = {} /\ corrupt = FALSE

Step(t, from, to) == pc[t] = from /\ pc' = [pc EXCEPT ![t] = to]

-----------------------------------------------------------------------------
(* Add, AddList and Dispose *)

\* Where the waiters that can be locked are in the list of q.
LiveIn(q) == {i \in 1..Len(list[q]) : count[list[q][i]] = 1}

\* The loop goes through the list until it has locked n of them, or to the end.
Passed(q, n) == {i \in 1..Len(list[q]) : Rank(LiveIn(q), i - 1) < n}
Served(q, n) == LiveIn(q) \cap Passed(q, n)

\* The loop in the critical section of t: it locks as many waiters of q as there
\* are offers, gives each its offer, and marks the entries of those it cannot
\* lock.  They are unparked when the spin lock is released.
Serve(t, q, what, offers) ==
  LET l == list[q]
      passed == Passed(q, Len(offers))
      served == Served(q, Len(offers))
      Where(u) == CHOOSE i \in 1..Len(l) : l[i] = u
      GetsItem(u) == \E i \in served : l[i] = u IN
  /\ list' = [list EXCEPT ![q] = SubSeq(l, Cardinality(passed) + 1, Len(l))]
  /\ count' = [u \in Threads |-> IF GetsItem(u) THEN 0 ELSE count[u]]
  /\ status' = [u \in Threads |-> IF GetsItem(u) THEN <<what, q>> ELSE status[u]]
  /\ channel' = [u \in Threads |-> IF GetsItem(u)
       THEN [channel[u] EXCEPT ![q] = offers[Rank(served, Where(u))]] ELSE channel[u]]
  /\ entry' = [u \in Threads |-> [entry[u] EXCEPT ![q] =
       IF GetsItem(u) THEN "removed"
       ELSE IF \E i \in passed : l[i] = u THEN "unlinked" ELSE @]]
  /\ wake' = [wake EXCEPT ![t] = Picked(l, served)] /\ Step(t, "out", "wake")
  /\ UNCHANGED <<lifo, takeVars, unparked>>

\* StLinkedBlockingQueue_Add and AddList, for n items: those that no waiter gets
\* are queued.
AddList(t, q, n) ==
  /\ ~disposed[q] /\ added + n <= MaxItems /\ added' = added + n
  /\ Serve(t, q, "object", [k \in 1..n |-> added + k])
  /\ first' = [first EXCEPT ![q] =
       @ \o [k \in 1..n - Cardinality(Served(q, n)) |->
              added + Cardinality(Served(q, n)) + k]]
  /\ UNCHANGED <<disposed, gone, corrupt>>

\* StLinkedBlockingQueue_Dispose: everybody is released.
Dispose(t, q) ==
  /\ q \in Disposable /\ ~disposed[q] /\ disposed' = [disposed EXCEPT ![q] = TRUE]
  /\ Serve(t, q, "disposed", [k \in 1..Cardinality(Threads) |-> 0])
  /\ gone' = gone \cup ToSet(first[q]) /\ first' = [first EXCEPT ![q] = <<>>]
  /\ UNCHANGED <<added, corrupt>>

UnparkThread(t) ==
  /\ pc[t] = "wake"
  /\ \/ /\ wake[t] # <<>> /\ wake' = [wake EXCEPT ![t] = Tail(@)]
        /\ unparked' = [unparked EXCEPT ![Head(wake[t])] = 1] /\ UNCHANGED pc
     \/ wake[t] = <<>> /\ pc' = [pc EXCEPT ![t] = "out"] /\ UNCHANGED <<wake, unparked>>
  /\ UNCHANGED <<queueVars, lifo, takeVars, count, status, blockVars, ghostVars>>

-----------------------------------------------------------------------------
(* TakeEx, TakeAll and TakeAnyEx *)

\* The index of the queue of the i-th loop.
At(t, i) == (range[t][1] + i - 1) % Length

\* The call returns: its frame is gone.
Return(t) ==
  /\ pc' = [pc EXCEPT ![t] = "out"]
  /\ range' = [range EXCEPT ![t] = <<0, 0>>]
  /\ iter' = [iter EXCEPT ![t] = 0] /\ last' = [last EXCEPT ![t] = 0]
  /\ count' = [count EXCEPT ![t] = 0] /\ unparked' = [unparked EXCEPT ![t] = 0]
  /\ status' = [status EXCEPT ![t] = <<"none", 0>>]
  /\ channel' = [channel EXCEPT ![t] = [q \in Queues |-> 0]]
  /\ entry' = [entry EXCEPT ![t] = [q \in Queues |-> "none"]]

\* TRY_TAKE of any of the queues, one after the other.
TakeAnyEx(t) ==
  /\ Step(t, "out", "try") /\ iter' = [iter EXCEPT ![t] = 1]
  /\ \E r \in Ranges : range' = [range EXCEPT ![t] = r]
  /\ last' = [last EXCEPT ![t] = 0]
  /\ UNCHANGED <<queueVars, lifo, parkVars, blockVars, wake, ghostVars>>

TryTake(t) ==
  LET q == At(t, iter[t]) IN
  /\ pc[t] = "try" /\ iter[t] <= range[t][2]
  /\ \/ /\ first[q] # <<>> /\ Return(t)
        /\ gone' = gone \cup {Head(first[q])}
        /\ first' = [first EXCEPT ![q] = Tail(@)]
     \/ /\ first[q] = <<>> /\ iter' = [iter EXCEPT ![t] = @ + 1]
        /\ UNCHANGED <<pc, first, gone, range, last, parkVars, blockVars>>
  /\ UNCHANGED <<disposed, list, lifo, wake, added, corrupt>>

\* TakeAll with an item there; else it waits as TakeEx does.
TakeAll(t, q) ==
  /\ pc[t] = "out" /\ first[q] # <<>> /\ first' = [first EXCEPT ![q] = <<>>]
  /\ gone' = gone \cup ToSet(first[q])
  /\ UNCHANGED <<pc, disposed, list, lifo, takeVars, parkVars, blockVars, wake, added, corrupt>>

\* Nothing there: initialise the parker.
InitializeParker(t) ==
  /\ iter[t] > range[t][2] /\ Step(t, "try", "test")
  /\ iter' = [iter EXCEPT ![t] = 1] /\ count' = [count EXCEPT ![t] = 1]
  /\ UNCHANGED <<queueVars, lifo, range, last, status, unparked, blockVars, wake, ghostVars>>

\* The loop goes on while the parker is not locked.
LoopTest(t) ==
  /\ Step(t, "test", IF count[t] = 1 /\ iter[t] <= range[t][2] THEN "prologue" ELSE "parked")
  /\ UNCHANGED <<queueVars, lifo, takeVars, parkVars, blockVars, wake, ghostVars>>

\* TAKE_PROLOGUE finds an item, or the queue disposed: unless another thread has
\* locked the parker, the thread serves itself.
PrologueServes(t) ==
  LET q == At(t, iter[t]) IN
  /\ Step(t, "prologue", "parked") /\ (first[q] # <<>> \/ disposed[q])
  /\ \/ count[t] = 0 /\ UNCHANGED <<first, channel, parkVars>>
     \/ /\ count[t] = 1 /\ count' = [count EXCEPT ![t] = 0]
        /\ unparked' = [unparked EXCEPT ![t] = 1]
        /\ \/ /\ first[q] # <<>> /\ first' = [first EXCEPT ![q] = Tail(@)]
              /\ channel' = [channel EXCEPT ![t][q] = Head(first[q])]
              /\ status' = [status EXCEPT ![t] = <<"object", q>>]
           \/ /\ first[q] = <<>> /\ UNCHANGED first
              /\ channel' = [channel EXCEPT ![t][q] = 0]
              /\ status' = [status EXCEPT ![t] = <<"disposed", q>>]
  /\ UNCHANGED <<disposed, list, lifo, takeVars, entry, wake, ghostVars>>

\* TAKE_PROLOGUE inserts the wait block.
PrologueInserts(t) ==
  LET q == At(t, iter[t]) IN
  /\ Step(t, "prologue", "test") /\ first[q] = <<>> /\ ~disposed[q]
  /\ list' = [list EXCEPT ![q] = IF lifo THEN <<t>> \o @ ELSE Append(@, t)]
  /\ entry' = [entry EXCEPT ![t][q] = "linked"]
  /\ last' = [last EXCEPT ![t] = iter[t]] /\ iter' = [iter EXCEPT ![t] = @ + 1]
  /\ UNCHANGED <<first, disposed, lifo, range, parkVars, channel, wake, ghostVars>>

\* ParkThreadEx: the wait is cancelled, or the thread was unparked.
Cancelled(t) ==
  /\ count[t] = 1 /\ count' = [count EXCEPT ![t] = 0] /\ Step(t, "parked", "result")
  /\ UNCHANGED <<queueVars, lifo, takeVars, status, unparked, blockVars, wake, ghostVars>>

Unparked(t) ==
  /\ unparked[t] = 1 /\ Step(t, "parked", "result")
  /\ UNCHANGED <<queueVars, lifo, takeVars, parkVars, blockVars, wake, ghostVars>>

\* TakenQueue: the code compares the index of the queue with Count.
Taken(t) == status[t][1] # "none" /\ status[t][2] < range[t][2]

\* Retrieve the item.
Result(t) ==
  /\ Step(t, "result", "cancel") /\ iter' = [iter EXCEPT ![t] = 1]
  /\ gone' = IF Taken(t) /\ status[t][1] = "object"
             THEN gone \cup {channel[t][status[t][2]]} ELSE gone
  /\ UNCHANGED <<queueVars, lifo, range, last, parkVars, blockVars, wake, added, corrupt>>

\* Mutant: the queue visited last is not cancelled.
CancelTake_NotLast(t) ==
  LET q == At(t, iter[t]) IN
  \/ /\ iter[t] >= last[t] /\ pc[t] = "cancel" /\ Return(t)
     /\ UNCHANGED <<queueVars, lifo, wake, ghostVars>>
  \/ /\ iter[t] < last[t] /\ pc[t] = "cancel" /\ iter' = [iter EXCEPT ![t] = @ + 1]
     /\ list' = [list EXCEPT ![q] = Without(@, t)]
     /\ UNCHANGED <<pc, first, disposed, lifo, range, last, parkVars, blockVars, wake, ghostVars>>

\* CANCEL_TAKE on the queues visited, TakenQueue excepted: an entry that does not
\* point to itself is removed, wherever it is.
CancelTake(t) ==
  LET q == At(t, iter[t]) IN
  \/ /\ iter[t] > last[t] /\ pc[t] = "cancel" /\ Return(t)
     /\ UNCHANGED <<queueVars, lifo, wake, ghostVars>>
  \/ /\ iter[t] <= last[t] /\ pc[t] = "cancel" /\ iter' = [iter EXCEPT ![t] = @ + 1]
     /\ IF Taken(t) /\ status[t][2] = q THEN UNCHANGED <<list, entry, corrupt>>
        ELSE /\ list' = [list EXCEPT ![q] = Without(@, t)]
             /\ entry' = [entry EXCEPT ![t][q] = "unlinked"]
             /\ corrupt' = (corrupt \/ entry[t][q] = "removed")
     /\ UNCHANGED <<pc, first, disposed, lifo, range, last, parkVars, channel, wake, added, gone>>

-----------------------------------------------------------------------------

Next == \E t \in Threads :
  \/ \E q \in Queues : \/ \E n \in 1..2 : AddList(t, q, n)
                      \/ Dispose(t, q) \/ TakeAll(t, q)
  \/ UnparkThread(t) \/ TakeAnyEx(t) \/ TryTake(t) \/ InitializeParker(t)
  \/ LoopTest(t) \/ PrologueServes(t) \/ PrologueInserts(t)
  \/ Cancelled(t) \/ Unparked(t) \/ Result(t) \/ CancelTake(t)

Spec == Init /\ [][Next]_vars

-----------------------------------------------------------------------------
(* Properties *)

\* The item i is in the hands of a thread that takes it.
InChannel(i) == {t \in Threads : /\ pc[t] \in {"prologue", "test", "parked", "result"}
                                 /\ status[t][1] = "object" /\ channel[t][status[t][2]] = i}

\* An item is in one queue, in the hands of one thread, or was returned.
Places(i) ==
  Cardinality({q \in Queues : i \in ToSet(first[q])}) + Cardinality(InChannel(i))
  + (IF i \in gone THEN 1 ELSE 0)
ItemsInOnePlace == \A i \in 1..added : Places(i) = 1

\* An entry is removed from a list that it is in; when its call has returned, none
\* is in a list, and no adder is about to unpark the thread.
BlocksLeave ==
  /\ ~corrupt
  /\ \A t \in Threads : pc[t] \in {"out", "try", "wake"} =>
       /\ \A q \in Queues : t \notin ToSet(list[q])
       /\ \A u \in Threads : t \notin ToSet(wake[u])

\* No thread waits for a queue that has an item or is disposed.
NobodyStuck ==
  \A q \in Queues : LiveIn(q) # {} => first[q] = <<>> /\ ~disposed[q]

QueueKept == ItemsInOnePlace /\ BlocksLeave /\ NobodyStuck

-----------------------------------------------------------------------------
(* An instance: TakeAnyEx over the last of two queues alone. *)

LastAlone == {<<1, 1>>}
=============================================================================
