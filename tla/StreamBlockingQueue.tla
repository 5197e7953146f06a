------------------------ MODULE StreamBlockingQueue -------------------------
(***************************************************************************)
(* The stream blocking queue: a circular buffer of bytes.  Readers wait    *)
(* while it is empty and writers while it is full, in one list.  A write   *)
(* copies to waiting readers first and then to the buffer; a read takes    *)
(* from the buffer, then from waiting writers, and then lets waiting       *)
(* writers fill the buffer.  A transfer may be partial.                    *)
(*                                                                         *)
(* The spin lock is held over several steps here, because a waiter can     *)
(* give up between the test of its parker, the copy, and the lock of its   *)
(* parker.  Bytes are numbered in the order in which they leave writers.   *)
(***************************************************************************)
EXTENDS ListedWaiters, SequencesExt

CONSTANTS Capacity,
          NoThread,
          Sizes,      \* how many bytes a call may ask to transfer
          MaxBytes    \* bound: the bytes that writers offer

VARIABLES
  owner,      \* the thread inside the spin lock
  served,     \* the waiter whose request it has just completed
  disposed,   \* Queue->Items is null
  items, head, tail, size,   \* the buffer; size is Queue->Count
  list,       \* Queue->WaitList
  op,         \* "read" or "write"
  asked,      \* the argument Count of the call
  remaining,  \* Transfer.Remaining
  offered,    \* ghost: the bytes that writers offered
  written,    \* ghost: the bytes that left writers
  delivered,  \* ghost: the bytes that readers got
  ordered,    \* ghost: so far readers got the bytes in order
  reported    \* ghost: what Transferred said to writers and to readers

bufferVars == <<disposed, items, head, tail, size>>
callVars == <<op, asked, remaining, offered>>
ghostVars == <<written, delivered, ordered, reported>>
vars == <<waiterVars, owner, served, bufferVars, list, callVars, ghostVars>>

Init ==
  /\ ListInit /\ owner = NoThread /\ served = NoThread /\ disposed = FALSE
  /\ items = [i \in 0..Capacity - 1 |-> 0] /\ head = 0 /\ tail = 0 /\ size = 0
  /\ list = <<>> /\ op = [t \in Threads |-> "read"]
  /\ asked = [t \in Threads |-> 0] /\ remaining = [t \in Threads |-> 0]
  /\ offered = 0 /\ written = 0 /\ delivered = 0 /\ ordered = TRUE
  /\ reported = [write |-> 0, read |-> 0]

Lesser(a, b) == IF a < b THEN a ELSE b

\* Mutant: the copy does not go on at the beginning of the buffer.
Around_NoWrap(i) == IF i >= Capacity THEN Capacity - 1 ELSE i

\* A copy that reaches the end of the buffer goes on at its beginning.
Around(i) == i % Capacity

\* Store the next n bytes of a writer at the tail.
Store(n) ==
  /\ items' = [i \in 0..Capacity - 1 |->
       IF \E k \in 1..n : Around(tail + k - 1) = i
       THEN written + CHOOSE k \in 1..n : Around(tail + k - 1) = i ELSE items[i]]
  /\ tail' = Around(tail + n) /\ size' = size + n /\ written' = written + n

\* Pass n bytes of a writer directly to a reader.
Pass(n) ==
  /\ written' = written + n /\ delivered' = delivered + n
  /\ ordered' = (ordered /\ (n > 0 => delivered = written))

\* WriteEx and ReadEx, up to the first test in the critical section; a read
\* from a buffer that is not empty copies from its head.
Enter(t, kind, n) ==
  /\ owner = NoThread /\ ~disposed /\ owner' = t
  /\ op' = [op EXCEPT ![t] = kind] /\ asked' = [asked EXCEPT ![t] = n]
  /\ UNCHANGED <<served, disposed, list, count, status, unparked, unlinked, wake>>

WriteEx(t) == \E n \in Sizes :
  /\ Enter(t, "write", n) /\ offered + n <= MaxBytes /\ offered' = offered + n
  /\ Step(t, "out", IF size = Capacity THEN "finish" ELSE "serve")
  /\ remaining' = [remaining EXCEPT ![t] = n]
  /\ UNCHANGED <<items, head, tail, size, ghostVars>>

ReadEx(t) == \E n \in Sizes :
  LET k == Lesser(n, size) IN
  /\ Enter(t, "read", n) /\ UNCHANGED offered
  /\ Step(t, "out", IF size = 0 THEN "finish" ELSE "serve")
  /\ remaining' = [remaining EXCEPT ![t] = n - k]
  /\ delivered' = delivered + k /\ head' = Around(head + k) /\ size' = size - k
  /\ ordered' = (ordered /\ \A j \in 1..k : items[Around(head + j - 1)] = delivered + j)
  /\ UNCHANGED <<items, tail, written, reported>>

\* Which loop over the list the thread is in: "serve" copies between its caller's
\* buffer and waiters; "fill", of a read, from waiting writers to the buffer.  The
\* loop ends when there is no room for more or nobody is left.
Room(t) == IF pc[t] = "fill" THEN Capacity - size ELSE remaining[t]
InLoop(t) == pc[t] \in {"serve", "fill"} /\ served = NoThread
Goes(t) == InLoop(t) /\ Room(t) > 0 /\ list # <<>>

\* The waiter at the front has given up: remove its entry.
SkipLocked(t) ==
  /\ Goes(t) /\ count[Head(list)] = 0
  /\ list' = Tail(list) /\ unlinked' = [unlinked EXCEPT ![Head(list)] = 1]
  /\ UNCHANGED <<pc, count, status, unparked, wake, owner, served, bufferVars,
                 callVars, ghostVars>>

\* Copy to or from the waiter at the front; remove its entry when its request is
\* complete.
CopyMemory(t) ==
  LET u == Head(list)
      n == Lesser(Room(t), remaining[u]) IN
  /\ Goes(t) /\ count[u] = 1
  /\ IF n = remaining[u] THEN list' = Tail(list) /\ served' = u
                         ELSE UNCHANGED <<list, served>>
  /\ IF pc[t] = "fill"
     THEN /\ Store(n) /\ remaining' = [remaining EXCEPT ![u] = @ - n]
          /\ UNCHANGED <<head, delivered, ordered>>
     ELSE /\ Pass(n) /\ remaining' = [remaining EXCEPT ![u] = @ - n, ![t] = @ - n]
          /\ UNCHANGED <<items, head, tail, size>>
  /\ UNCHANGED <<waiterVars, owner, disposed, op, asked, offered, reported>>

\* Lock the parker of that waiter, who may have given up meanwhile.  When it is
\* not blocked yet it is unparked at once, else after the lock is released.
TryLockParker(t) ==
  /\ owner = t /\ served # NoThread /\ served' = NoThread
  /\ \/ /\ count[served] = 0 /\ unlinked' = [unlinked EXCEPT ![served] = 1]
        /\ UNCHANGED <<count, status, unparked, wake>>
     \/ /\ count[served] = 1 /\ count' = [count EXCEPT ![served] = 0]
        /\ status' = [status EXCEPT ![served] = "success"] /\ UNCHANGED unlinked
        /\ \/ unparked' = [unparked EXCEPT ![served] = 1] /\ UNCHANGED wake
           \/ wake' = [wake EXCEPT ![t] = Append(@, served)] /\ UNCHANGED unparked
  /\ UNCHANGED <<pc, owner, list, bufferVars, callVars, ghostVars>>

\* After the loop a write stores what is left, as far as there is room; a read
\* goes on with the next loop.
LoopEnds(t) ==
  /\ InLoop(t) /\ ~Goes(t)
  /\ \/ /\ op[t] = "write" /\ Step(t, "serve", "finish")
        /\ LET n == Lesser(remaining[t], Capacity - size) IN
             Store(n) /\ remaining' = [remaining EXCEPT ![t] = @ - n]
     \/ /\ op[t] = "read" /\ Step(t, pc[t], IF pc[t] = "serve" THEN "fill" ELSE "finish")
        /\ UNCHANGED <<items, tail, size, written, remaining>>
  /\ UNCHANGED <<count, status, unparked, unlinked, wake, owner, served, list, disposed,
                 head, op, asked, offered, delivered, ordered, reported>>

\* *Transferred = Count - Transfer.Remaining.
Report(t) ==
  /\ reported' = [reported EXCEPT ![op[t]] = @ + asked[t] - remaining[t]]
  /\ asked' = [asked EXCEPT ![t] = 0] /\ remaining' = [remaining EXCEPT ![t] = 0]
  /\ UNCHANGED <<op, offered, written, delivered, ordered>>

\* Release the lock, and return or, when something remains, wait.
Finish(t) ==
  /\ pc[t] = "finish" /\ owner' = NoThread
  /\ \/ /\ pc' = [pc EXCEPT ![t] = "wake"] /\ Report(t)   \* done, or no timeout
        /\ UNCHANGED <<count, status, unparked, unlinked, list>>
     \/ /\ remaining[t] > 0 /\ list' = Append(list, t)
        /\ pc' = [pc EXCEPT ![t] = "parked"]
        /\ count' = [count EXCEPT ![t] = 1] /\ status' = [status EXCEPT ![t] = "none"]
        /\ unparked' = [unparked EXCEPT ![t] = 0] /\ unlinked' = [unlinked EXCEPT ![t] = 0]
        /\ UNCHANGED <<callVars, ghostVars>>
  /\ UNCHANGED <<wake, served, bufferVars>>

\* The wait has ended.  A cancelled call takes the lock, and returns what has been
\* transferred until then.
Returns(t) ==
  /\ \/ (\E s \in {"success", "disposed"} : Unparked(t, s)) /\ UNCHANGED list
     \/ owner = NoThread /\ UnlinkEntryList(t, list)
  /\ Report(t) /\ UNCHANGED <<owner, served, bufferVars>>

\* StStreamBlockingQueue_Dispose; the destructor gets the bytes in the buffer.
Dispose(t) ==
  /\ owner = NoThread /\ ~disposed /\ disposed' = TRUE
  /\ LockAll(t, list, "disposed") /\ list' = <<>> /\ size' = 0
  /\ UNCHANGED <<owner, served, items, head, tail, callVars, ghostVars>>

Waiters(t) ==
  /\ UnparkThread(t) \/ WakeDone(t) \/ Cancelled(t)
  /\ UNCHANGED <<owner, served, bufferVars, list, callVars, ghostVars>>

Next == \E t \in Threads :
  \/ WriteEx(t) \/ ReadEx(t) \/ SkipLocked(t) \/ CopyMemory(t) \/ TryLockParker(t)
  \/ LoopEnds(t) \/ Finish(t) \/ Returns(t) \/ Dispose(t) \/ Waiters(t)

Spec == Init /\ [][Next]_vars

-----------------------------------------------------------------------------
(* Properties *)

\* Readers get the bytes in the order in which they left the writers, and the
\* buffer holds those in between, in order.
BytesInOrder ==
  /\ ordered
  /\ ~disposed => /\ delivered + size = written
                  /\ \A k \in 0..size - 1 : items[(head + k) % Capacity] = delivered + k + 1

\* What the calls have reported and what those in progress have moved is what was
\* written and delivered: no byte is reported twice or forgotten.
Moved(t, kind) == IF op[t] = kind THEN asked[t] - remaining[t] ELSE 0
TransfersAddUp ==
  \A kind \in {"write", "read"} :
    reported[kind] + SumFunction([t \in Threads |-> Moved(t, kind)])
    = IF kind = "write" THEN written ELSE delivered

\* A live waiter is a writer beside a full buffer or a reader beside an empty one.
NobodyStuck ==
  owner = NoThread => \A i \in Lockable(list) :
    size = IF op[list[i]] = "write" THEN Capacity ELSE 0

QueueKept == /\ BytesInOrder /\ TransfersAddUp /\ NobodyStuck
             /\ EntriesLeave(list)
=============================================================================
