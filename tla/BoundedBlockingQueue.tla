------------------------ MODULE BoundedBlockingQueue ------------------------
(***************************************************************************)
(* The bounded blocking queue: adders wait while the buffer is full,       *)
(* takers while it is empty, in one list.  An add hands its item to a      *)
(* waiting taker, and a take hands the slot it frees to a waiting adder.   *)
(* The circular buffer is a sequence; items are numbered in the order in   *)
(* which their adders come.                                                *)
(***************************************************************************)
EXTENDS ListedWaiters

CONSTANTS Capacity,
          MaxItems    \* bound: how many items are added

VARIABLES
  buffer,     \* Queue->Items, from Head to Tail
  disposed,   \* Queue->Items is null
  list,       \* Queue->WaitList
  lifo,       \* the LIFO_WAIT_LIST flag
  channel,    \* the Channel of each thread's wait block; 0 for none
  added,      \* ghost: how many items have been offered
  taken,      \* ghost: the items that takers got, in the order of the takes
  ended       \* ghost: items given back to their adders or to the destructor

queueVars == <<buffer, disposed, list, channel, added, taken, ended>>
vars == <<waiterVars, queueVars, lifo>>

Init ==
  /\ ListInit /\ buffer = <<>> /\ disposed = FALSE /\ list = <<>>
  /\ lifo \in BOOLEAN /\ channel = [t \in Threads |-> 0]
  /\ added = 0 /\ taken = <<>> /\ ended = {}

Offer == ~disposed /\ added < MaxItems /\ added' = added + 1

\* AddEx when the buffer has room: hand the item to a waiting taker ...
AddToTaker(t) ==
  /\ Offer /\ Len(buffer) < Capacity /\ LockFirst(t, list, "success")
  /\ list' = Rest(list) /\ channel' = [channel EXCEPT ![Live(list)] = added']
  /\ taken' = Append(taken, added')
  /\ UNCHANGED <<buffer, disposed, ended>>

\* ... or store it.
AddToBuffer(t) ==
  /\ Offer /\ Len(buffer) < Capacity /\ pc[t] = "out"
  /\ NobodyLive(list) /\ list' = <<>>
  /\ buffer' = Append(buffer, added')
  /\ UNCHANGED <<disposed, channel, taken, ended>>

\* The buffer is full: wait.
AddWaits(t) ==
  /\ Offer /\ Len(buffer) = Capacity /\ Wait(t)
  /\ list' = Append(list, t) /\ channel' = [channel EXCEPT ![t] = added']
  /\ UNCHANGED <<buffer, disposed, taken, ended>>

AddEx(t) == AddToTaker(t) \/ AddToBuffer(t) \/ AddWaits(t)

\* TakeEx, _TryTake and _TakePrologue: take the oldest item, and give the free
\* slot to a waiting adder ...
TakeForAdder(t) ==
  /\ buffer # <<>> /\ LockFirst(t, list, "success") /\ list' = Rest(list)
  /\ buffer' = Append(Tail(buffer), channel[Live(list)])
  /\ channel' = [channel EXCEPT ![Live(list)] = 0]
  /\ taken' = Append(taken, Head(buffer))
  /\ UNCHANGED <<disposed, added, ended>>

\* Mutant: the free slot is not offered to the waiting adders.
Take_NoAdder(t) ==
  /\ buffer # <<>> /\ pc[t] = "out" /\ buffer' = Tail(buffer)
  /\ taken' = Append(taken, Head(buffer))
  /\ UNCHANGED <<waiterVars, disposed, list, channel, added, ended>>

\* ... or leave it free.
Take(t) ==
  /\ buffer # <<>> /\ pc[t] = "out" /\ NobodyLive(list) /\ list' = <<>>
  /\ buffer' = Tail(buffer) /\ taken' = Append(taken, Head(buffer))
  /\ UNCHANGED <<disposed, channel, added, ended>>

\* The buffer is empty: wait, at the front of the list when it is LIFO.
TakeWaits(t) ==
  /\ buffer = <<>> /\ ~disposed /\ Wait(t)
  /\ list' = IF lifo THEN <<t>> \o list ELSE Append(list, t)
  /\ channel' = [channel EXCEPT ![t] = 0]
  /\ UNCHANGED <<buffer, disposed, added, taken, ended>>

TakeEx(t) == TakeForAdder(t) \/ Take(t) \/ TakeWaits(t)

\* The wait has ended, or its cancelled entry is unlinked.  A waiter that does
\* not get what it waited for keeps its item.
Succeeded(t) == Unparked(t, "success") /\ UNCHANGED queueVars
KeepsItem(t) ==
  /\ ended' = ended \cup ({channel[t]} \ {0})
  /\ channel' = [channel EXCEPT ![t] = 0]
  /\ UNCHANGED <<buffer, disposed, added, taken>>
WasDisposed(t) == Unparked(t, "disposed") /\ UNCHANGED list /\ KeepsItem(t)
GivesUp(t) == UnlinkEntryList(t, list) /\ KeepsItem(t)

\* StBoundedBlockingQueue_Dispose: release everybody; the destructor gets what is
\* in the buffer.
Dispose(t) ==
  /\ ~disposed /\ disposed' = TRUE /\ LockAll(t, list, "disposed") /\ list' = <<>>
  /\ buffer' = <<>> /\ ended' = ended \cup {buffer[i] : i \in 1..Len(buffer)}
  /\ UNCHANGED <<channel, added, taken>>

Unparking(t) == (UnparkThread(t) \/ WakeDone(t)) /\ UNCHANGED queueVars

Next ==
  /\ UNCHANGED lifo
  /\ \E t \in Threads :
       \/ AddEx(t) \/ TakeEx(t) \/ Dispose(t) \/ Unparking(t)
       \/ Succeeded(t) \/ WasDisposed(t) \/ GivesUp(t)
       \/ Cancelled(t) /\ UNCHANGED queueVars

Spec == Init /\ [][Next]_vars

-----------------------------------------------------------------------------
(* Properties *)

Waiting(i) == \E t \in Threads : /\ pc[t] \in {"parked", "unlink"} /\ channel[t] = i
                                 /\ status[t] # "success"

\* An item is in one place: with its waiting adder, in the buffer, taken once, or
\* given back.
Places(i) ==
  Cardinality({k \in 1..Len(buffer) : buffer[k] = i})
  + Cardinality({k \in 1..Len(taken) : taken[k] = i})
  + (IF Waiting(i) THEN 1 ELSE 0) + (IF i \in ended THEN 1 ELSE 0)
ItemsInOnePlace == \A i \in 1..added : Places(i) = 1

\* Items come out in the order in which their adders came.
FirstInFirstOut ==
  \A i, j \in 1..Len(taken \o buffer) :
    i < j => (taken \o buffer)[i] < (taken \o buffer)[j]

\* Nobody waits for what is there: a live waiter is an adder beside a full buffer
\* or a taker beside an empty one.
NobodyStuck ==
  \A i \in Lockable(list) :
    IF channel[list[i]] = 0 THEN buffer = <<>> ELSE Len(buffer) = Capacity

QueueKept ==
  ItemsInOnePlace /\ FirstInFirstOut /\ NobodyStuck
  /\ EntriesLeave(list) /\ NobodyLost(list)
=============================================================================
