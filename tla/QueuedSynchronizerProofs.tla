---------------------- MODULE QueuedSynchronizerProofs -----------------------
(***************************************************************************)
(* Lemmas about the acquire, release and cancel protocol of                *)
(* QueuedSynchronizer and the locked queue under it, for any threads,      *)
(* requests and state: one invariant, and that every step keeps it.        *)
(* SynchronizerProofs instantiates them for each synchronizer.             *)
(***************************************************************************)
EXTENDS QueuedSynchronizer, WaitListLemmas, SequenceTheorems, TLAPS


-----------------------------------------------------------------------------
(* The inductive invariant. *)

QType ==
  /\ QueueTypeOK /\ DOMAIN pc = Threads
  /\ entry \in Threads \cup {NoThread} /\ ret \in [Threads -> {"out", "parked"}]

Serving == {"lockParker", "unpark", "undo"}

\* The lock has one holder; what only the holder uses is empty while nobody uses it.
LockInv ==
  /\ QueueLockExclusive
  /\ locked = 0 => pending = <<>> /\ privateQueue = <<>>
  /\ (\A t \in Threads : pc[t] # "process") => grabbed = <<>> /\ oldLen = 0
  /\ oldLen <= Len(list)
  /\ \A t \in Threads : pc[t] \in Serving => entry \in Threads
  /\ \A t \in Threads : wakeQueue[t] = <<>> <=> pc[t] # "wakeLockers"

\* The releaser h has the wait block of t in its hands.
Serves(h, t) == pc[h] \in {"lockParker", "unpark"} /\ entry = t

\* A block is in one place, once.
PlaceInv ==
  /\ Distinct(list) /\ Distinct(pending) /\ Distinct(grabbed) /\ Distinct(privateQueue)
  /\ \A b \in Blocks : In(b, pending) => ~In(b, grabbed)
  /\ \A t \in Threads : In(t, list) => ~In(WaitBlock(t), pending) /\ ~In(WaitBlock(t), grabbed)
  /\ \A h, t \in Threads : Serves(h, t) =>
       ~In(t, list) /\ ~In(WaitBlock(t), pending) /\ ~In(WaitBlock(t), grabbed)

\* The same for the blocks of lockers, once the lock is free.
LockerInv ==
  /\ \A s \in Threads : Distinct(wakeQueue[s])
  /\ \A t \in Threads : In(t, privateQueue) =>
       ~In(LockBlock(t), pending) /\ ~In(LockBlock(t), grabbed)
  /\ \A s, t \in Threads : In(t, wakeQueue[s]) =>
       ~In(LockBlock(t), pending) /\ ~In(LockBlock(t), grabbed) /\ ~In(t, privateQueue)
  /\ \A r, s, t \in Threads : In(t, wakeQueue[r]) /\ In(t, wakeQueue[s]) => r = s
  /\ \A t \in Lockers : pc[t] = "lockParked" /\ lockGranted[t] = 0
  /\ \A t \in Threads : In(t, privateQueue) => t \in Lockers

Cancelling == {"lockTest", "lockTry", "lockParked", "remove"}

\* The thread waits for its grant: it is parked, or runs with the lock of the queue, or
\* after it, before it parks.
Waits(t) ==
  pc[t] \in {"enqueued", "parked"} \/ (ret[t] = "parked" /\ pc[t] \notin FramelessPcs \cup Cancelling)

\* Somebody will find the wait block of t.
Reachable(t) ==
  \/ t \in Queued
  \/ \E h \in Threads : pc[h] = "lockParker" /\ entry = t

\* The owner of a wait block that can be reached waits with its parker free, or has
\* cancelled its wait.
OwnerInv ==
  /\ \A t \in Threads : Reachable(t) =>
       /\ unparked[t] = 0 /\ unlinked[t] = 0 /\ request[t] # 0
       /\ (Waits(t) /\ count[t] = 1) \/ (pc[t] \in Cancelling /\ count[t] = 0)
  /\ \A t \in Threads : In(WaitBlock(t), pending) \/ In(WaitBlock(t), grabbed) =>
       pc[t] \in {"parked", "lockTest", "lockTry", "lockParked"}
  /\ \A h, t \in Threads : pc[h] = "unpark" /\ entry = t =>
       Waits(t) /\ count[t] = 0 /\ unparked[t] = 0 /\ unlinked[t] = 0 /\ request[t] # 0

\* A wait whose parker is free, or was cancelled and not unlinked, can be reached; one
\* that was unparked has its grant.
GrantInv ==
  /\ \A t \in Threads : Waits(t) => request[t] # 0
  /\ \A t \in Threads : Waits(t) /\ count[t] = 1 => Reachable(t)
  /\ \A t \in Threads :
       pc[t] \in Cancelling /\ request[t] # 0 /\ unlinked[t] = 0 => Reachable(t)
  /\ \A t \in Threads : unparked[t] = 1 =>
       count[t] = 0 /\ request[t] # 0 /\ (pc[t] = "holding" \/ Waits(t))
  /\ \A t \in Threads : pc[t] = "enqueued" => In(t, list) /\ count[t] = 1
  /\ \A t \in Threads : pc[t] = "enqueue" =>
       count[t] = 1 /\ unparked[t] = 0 /\ unlinked[t] = 0
  /\ \A t \in Threads : pc[t] \in {"try", "tryEmpty", "tryCas", "enqueue", "holding"} => request[t] # 0

\* The front request is right whenever the lock is free.
FrontInv ==
  /\ \A h \in Threads : pc[h] = "unlockCas" => frontRequest = FrontRequest
  /\ locked = 0 => frontRequest = FrontRequest

QInv ==
  QType /\ LockInv /\ PlaceInv /\ LockerInv /\ OwnerInv /\ GrantInv /\ FrontInv

-----------------------------------------------------------------------------
(* Lists. *)

\* Inserting t behind the first n entries adds t and nothing else.
LEMMA InsertLemma ==
  ASSUME NEW T, NEW t \in T, NEW s \in Seq(T), NEW n \in Nat, n <= Len(s)
  PROVE  /\ InsertBehind(s, n, t) \in Seq(T)
         /\ Len(InsertBehind(s, n, t)) = Len(s) + 1
         /\ \A x : In(x, InsertBehind(s, n, t)) <=> x = t \/ In(x, s)
         /\ Distinct(s) /\ ~In(t, s) => Distinct(InsertBehind(s, n, t))
<1> DEFINE q == InsertBehind(s, n, t)
           a == SubSeq(s, 1, n)
           b == SubSeq(s, n + 1, Len(s))
<1>1. /\ a \in Seq(T) /\ Len(a) = n /\ \A i \in 1..n : a[i] = s[i]
      /\ b \in Seq(T) /\ Len(b) = Len(s) - n /\ \A i \in 1..(Len(s) - n) : b[i] = s[n + i]
  OBVIOUS
<1>2. q = (a \o <<t>>) \o b
  BY DEF InsertBehind
<1> HIDE DEF q, a, b
<1>3. /\ a \o <<t>> \in Seq(T) /\ Len(a \o <<t>>) = n + 1 /\ (a \o <<t>>)[n + 1] = t
      /\ \A i \in 1..n : (a \o <<t>>)[i] = s[i]
  BY <1>1
<1> DEFINE c == a \o <<t>>
<1> HIDE DEF c
<1>4. /\ q \in Seq(T) /\ Len(q) = Len(s) + 1 /\ Len(s) \in Nat
      /\ \A i \in 1..(n + 1) : q[i] = c[i]
      /\ \A i \in (n + 2)..Len(q) : q[i] = b[i - (n + 1)]
  <2>1. q = c \o b /\ c \in Seq(T) /\ Len(c) = n + 1
    BY <1>2, <1>3 DEF c
  <2>2. /\ q \in Seq(T) /\ Len(q) = Len(c) + Len(b)
        /\ \A i \in 1..(Len(c) + Len(b)) : q[i] = IF i <= Len(c) THEN c[i] ELSE b[i - Len(c)]
    <3>1. b \in Seq(T) /\ c \in Seq(T)
      BY <1>1, <2>1
    <3>2. QED
      BY <2>1, <3>1, ConcatProperties
  <2> HIDE DEF c
  <2>3. QED
    BY <1>1, <2>1, <2>2, SMTT(30)
<1>5. /\ q[n + 1] = t /\ \A i \in 1..n : q[i] = s[i]
      /\ \A i \in (n + 2)..Len(q) : q[i] = s[i - 1]
  <2>1. q[n + 1] = t /\ \A i \in 1..n : q[i] = s[i]
    BY <1>3, <1>4 DEF c
  <2>2. ASSUME NEW i \in (n + 2)..Len(q) PROVE q[i] = s[i - 1]
    <3>1. i - (n + 1) \in 1..(Len(s) - n) /\ n + (i - (n + 1)) = i - 1
      BY <1>4
    <3>2. QED
      BY <1>1, <1>4, <3>1
  <2>3. QED
    BY <2>1, <2>2
<1>6. \A x : In(x, q) <=> x = t \/ In(x, s)
  <2>1. ASSUME NEW i \in 1..Len(s) PROVE s[i] = q[i] \/ s[i] = q[i + 1]
    <3>1. CASE i <= n
      BY <1>4, <1>5, <3>1
    <3>2. CASE i > n
      <4>1. i + 1 \in (n + 2)..Len(q) /\ (i + 1) - 1 = i
        BY <1>4, <3>2
      <4>2. QED
        BY <1>5, <4>1
    <3>3. QED
      BY <3>1, <3>2, <1>4
  <2>2. ASSUME NEW i \in 1..Len(q) 
                 PROVE  \/ q[i] = t
                        \/ q[i] = s[i] /\ i \in 1..Len(s)
                        \/ q[i] = s[i - 1] /\ i - 1 \in 1..Len(s)
    BY <1>4, <1>5
  <2>3. ASSUME NEW x, In(x, q) PROVE x = t \/ In(x, s)
    BY <2>2, <2>3 DEF In
  <2>4. ASSUME NEW x, In(x, s) PROVE In(x, q)
    <3>1. PICK i \in 1..Len(s) : s[i] = x
      BY <2>4 DEF In
    <3>2. i \in 1..Len(q) /\ i + 1 \in 1..Len(q)
      BY <1>4
    <3>3. QED
      BY <2>1, <3>1, <3>2 DEF In
  <2>5. In(t, q)
    BY <1>4, <1>5, n + 1 \in 1..Len(q) DEF In
  <2>6. QED
    BY <2>3, <2>4, <2>5
<1>7. Distinct(s) /\ ~In(t, s) => Distinct(q)
  <2> SUFFICES ASSUME Distinct(s), ~In(t, s), NEW i \in 1..Len(q), NEW j \in 1..Len(q),
                      q[i] = q[j]
               PROVE  i = j
    BY DEF Distinct
  <2> DEFINE old(k) == IF k <= n THEN k ELSE k - 1
  <2>1. ASSUME NEW k \in 1..Len(q), k # n + 1 PROVE old(k) \in 1..Len(s) /\ q[k] = s[old(k)] /\ q[k] # t
    <3>1. CASE k <= n
      <4>1. k \in 1..n /\ old(k) = k /\ k \in 1..Len(s)
        BY <1>4, <3>1
      <4>2. QED
        BY <1>5, <4>1 DEF In
    <3>2. CASE k > n
      <4>1. k \in (n + 2)..Len(q) /\ old(k) = k - 1 /\ k - 1 \in 1..Len(s)
        BY <1>4, <2>1, <3>2
      <4>2. QED
        BY <1>5, <4>1 DEF In
    <3>3. QED
      BY <3>1, <3>2, <1>4
  <2>2. CASE i = n + 1 \/ j = n + 1
    <3>1. q[i] = t /\ q[j] = t
      BY <1>5, <2>2
    <3>2. QED
      BY <2>1, <3>1
  <2>3. CASE i # n + 1 /\ j # n + 1
    <3>1. old(i) = old(j)
      <4> HIDE DEF old
      <4> QED BY <2>1, <2>3 DEF Distinct
    <3>2. QED
      BY <3>1, <2>3, <1>4
  <2>4. QED
    BY <2>2, <2>3
<1>8. QED
  BY <1>4, <1>6, <1>7 DEF q

\* A block is a waiter's or a locker's, and tells whose.
LEMMA BlockLemma ==
  /\ \A b \in Blocks : \/ b = WaitBlock(b[1]) /\ b[2] = "wait" /\ b[1] \in Threads
                       \/ b = LockBlock(b[1]) /\ b[2] = "lock" /\ b[1] \in Threads
  /\ \A s, t : WaitBlock(s) = WaitBlock(t) => s = t
  /\ \A s, t : LockBlock(s) = LockBlock(t) => s = t
  /\ \A s, t : WaitBlock(s) # LockBlock(t)
  /\ \A t \in Threads : WaitBlock(t) \in Blocks /\ LockBlock(t) \in Blocks
BY DEF Blocks, WaitBlock, LockBlock

-----------------------------------------------------------------------------
(* Steps that only move the control of a thread. *)

\* Control points where a step has more to do than to move on.
Busy == Serving \cup Cancelling \cup
        {"process", "unlockCas", "wakeLockers", "enqueue", "parked", "holding"}

\* t goes on to a control point of the same kind, and nothing else changes.
Moves(t) ==
  /\ pc[t] \notin Busy /\ pc' = [pc EXCEPT ![t] = pc'[t]]
  /\ pc'[t] \notin Busy \ {"parked", "holding"} /\ pc'[t] # "enqueued"
  /\ pc[t] \in HolderPcs <=> pc'[t] \in HolderPcs
  /\ Waits(t) <=> Waits(t)'
  /\ pc'[t] \in {"try", "tryEmpty", "tryCas", "holding"}
       => pc[t] \in {"try", "tryEmpty", "tryCas"}
  /\ ret' \in [Threads -> {"out", "parked"}] /\ \A s \in Threads \ {t} : ret'[s] = ret[s]
  /\ force' \in {0, 1}
  /\ UNCHANGED <<locked, pending, list, frontRequest, privateQueue, oldLen, grabbed,
                 blockVars, lockVars, entry>>

\* Such a step keeps the invariant.
LEMMA MovesLemma == ASSUME QInv, NEW t \in Threads, Moves(t) PROVE QInv'
<1> USE DEF QInv, Moves, blockVars, lockVars
<1>1. QType'
  BY DEF QType, QueueTypeOK
<1>2. LockInv'
  BY DEF QType, LockInv, QueueLockExclusive, Busy, Serving
<1>3. PlaceInv'
  BY DEF QType, PlaceInv, Serves, Busy, Serving
<1>4. LockerInv'
  BY DEF QType, LockerInv, Lockers, Busy, Cancelling
<1>5. OwnerInv'
  BY DEF QType, OwnerInv, Reachable, Queued, Busy, Serving, Cancelling, Waits
<1>6. GrantInv'
  BY DEF QType, GrantInv, Reachable, Queued, Busy, Serving, Cancelling, Waits
<1>7. FrontInv'
  BY DEF QType, FrontInv, FrontRequest, Busy
<1>8. QED
  BY <1>1, <1>2, <1>3, <1>4, <1>5, <1>6, <1>7

\* Nobody holds on to the wait block of a thread that has no acquire under way.
LEMMA FramelessLemma ==
  ASSUME QInv, NEW t \in Threads, pc[t] \in FramelessPcs
  PROVE  /\ ~Waits(t) /\ ~Reachable(t) /\ (list # <<>> => Head(list) # t)
         /\ \A h \in Threads : ~Serves(h, t)
<1>1. ~Waits(t) /\ pc[t] \notin Cancelling
  BY DEF Waits, FramelessPcs, Cancelling
<1>2. ~Reachable(t) /\ \A h \in Threads : ~Serves(h, t)
  BY <1>1 DEF QInv, OwnerInv, Serves, Reachable
<1>3. list # <<>> => In(Head(list), list)
  BY PopLemma DEF QInv, QType, QueueTypeOK
<1>4. QED
  BY <1>1, <1>2, <1>3 DEF Reachable, Queued

-----------------------------------------------------------------------------
(* Acquire. *)

\* A call keeps the invariant.
LEMMA CallLemma ==
  ASSUME RequestsAssumption, QInv, NEW t \in Threads, NEW r \in Requests, Call(t, r)
  PROVE  QInv'
<1> USE DEF QInv, Call, Step, queueVars, lockVars, stateVars
<1>1. QType'
  BY DEF QType, QueueTypeOK
<1>2. LockInv'
  BY DEF QType, LockInv, QueueLockExclusive, HolderPcs, QueueHolderPcs, ReleasePcs, Serving
<1>3. PlaceInv'
  BY DEF QType, PlaceInv, Serves
<1>4. LockerInv'
  BY DEF QType, LockerInv, Lockers
<1>5. OwnerInv'
  BY DEF QType, QueueTypeOK, OwnerInv, Reachable, Queued, Cancelling, Waits, FramelessPcs
<1>6. GrantInv'
  BY DEF QType, QueueTypeOK, GrantInv, OwnerInv, Reachable, Queued, Cancelling, Waits, FramelessPcs, RequestsAssumption
<1>7. FrontInv'
  BY FramelessLemma DEF QType, QueueTypeOK, FrontInv, FrontRequest, FramelessPcs
<1>8. QED
  BY <1>1, <1>2, <1>3, <1>4, <1>5, <1>6, <1>7

\* The direct attempt keeps the invariant.
LEMMA TryLemma == ASSUME QInv, NEW t \in Threads, TryAcquire(t) PROVE QInv'
<1>1. Moves(t)
  BY DEF QInv, QType, TryAcquire, TryRead, TryEmpty, TryCas, Moves, Step, queueVars, blockVars, lockVars,
         stateVars, Busy, Serving, Cancelling, HolderPcs, QueueHolderPcs, ReleasePcs, Waits, FramelessPcs, QueueTypeOK
<1>2. QED
  BY <1>1, MovesLemma

\* So does its failure, which makes the wait block or returns ...
LEMMA TryFailsLemma == ASSUME QInv, NEW t \in Threads, TryFails(t) PROVE QInv'
<1> USE DEF QInv
<1>1. /\ pc[t] \in {"try", "tryEmpty"} /\ pc'[t] \in {"out", "enqueue"}
      /\ \A s \in Threads \ {t} :
           /\ pc'[s] = pc[s] /\ request'[s] = request[s] /\ count'[s] = count[s]
           /\ unparked'[s] = unparked[s] /\ unlinked'[s] = unlinked[s]
      /\ unparked'[t] = 0 /\ unlinked'[t] = 0
      /\ pc'[t] = "enqueue" => count'[t] = 1 /\ request'[t] = request[t]
      /\ request' \in [Threads -> Requests \cup {0}] /\ count' \in [Threads -> {0, 1}]
      /\ unparked' \in [Threads -> {0, 1}] /\ unlinked' \in [Threads -> {0, 1}]
      /\ DOMAIN pc' = Threads
      /\ UNCHANGED <<queueVars, lockVars, entry, ret>>
  BY DEF TryFails, ForgetBlock, QType, QueueTypeOK
<1>2. ~Reachable(t) /\ ~Waits(t) /\ (list # <<>> => Head(list) # t)
  BY <1>1, FramelessLemma DEF FramelessPcs
<1>3. \A h \in Threads : ~Serves(h, t)
  BY <1>1, FramelessLemma DEF FramelessPcs
<1>4. \A s \in Threads : Reachable(s)' <=> Reachable(s)
  BY <1>1 DEF Reachable, Queued, queueVars
<1>5. ~Waits(t)' /\ \A s \in Threads \ {t} : Waits(s)' <=> Waits(s)
  BY <1>1 DEF Waits, FramelessPcs
<1> USE DEF queueVars, lockVars
<1>6. QType'
  BY <1>1 DEF QType, QueueTypeOK
<1>7. LockInv'
  BY <1>1 DEF QType, LockInv, QueueLockExclusive, HolderPcs, QueueHolderPcs, ReleasePcs, Serving
<1>8. PlaceInv'
  BY <1>1 DEF QType, PlaceInv, Serves
<1>9. LockerInv'
  BY <1>1 DEF QType, LockerInv, Lockers
<1>10. OwnerInv'
  <2>1. ASSUME NEW s \in Threads, Reachable(s)'
        PROVE  /\ s # t /\ Reachable(s)
    BY <1>2, <1>4, <2>1
  <2>2. ASSUME NEW s \in Threads, In(WaitBlock(s), pending)' \/ In(WaitBlock(s), grabbed)'
        PROVE  s # t /\ (In(WaitBlock(s), pending) \/ In(WaitBlock(s), grabbed))
    BY <1>1, <1>2, <2>2 DEF Reachable, Queued
  <2>3. ASSUME NEW h \in Threads, NEW s \in Threads, pc'[h] = "unpark" /\ entry' = s
        PROVE  s # t /\ pc[h] = "unpark" /\ entry = s
    BY <1>1, <1>3, <2>3 DEF Serves
  <2>4. QED
    BY <1>1, <1>5, <2>1, <2>2, <2>3 DEF OwnerInv, Cancelling
<1>11. GrantInv'
  BY <1>1, <1>2, <1>4, <1>5 DEF GrantInv, Cancelling
<1>12. FrontInv'
  BY <1>1, <1>2 DEF QType, QueueTypeOK, FrontInv, FrontRequest
<1>13. QED
  BY <1>6, <1>7, <1>8, <1>9, <1>10, <1>11, <1>12

\* ... what the thread does with the lock after it was enqueued ...
LEMMA EnqueuedLemma == ASSUME QInv, NEW t \in Threads, Enqueued(t) PROVE QInv'
<1>1. Moves(t)
  BY DEF QInv, QType, Enqueued, Moves, Step, queueVars, blockVars, lockVars,
         stateVars, Busy, Serving, Cancelling, HolderPcs, QueueHolderPcs, ReleasePcs, Waits, FramelessPcs, QueueTypeOK
<1>2. QED
  BY <1>1, MovesLemma

\* ... its return from the parker ...
LEMMA ParkSuccessLemma == ASSUME QInv, NEW t \in Threads, ParkSuccess(t) PROVE QInv'
<1> USE DEF QInv, ParkSuccess, Step, queueVars, blockVars, lockVars, stateVars
<1>1. QType'
  BY DEF QType, QueueTypeOK
<1>2. LockInv'
  BY DEF QType, LockInv, QueueLockExclusive, HolderPcs, QueueHolderPcs, ReleasePcs, Serving
<1>3. PlaceInv'
  BY DEF QType, PlaceInv, Serves
<1>4. LockerInv'
  BY DEF QType, LockerInv, Lockers
<1>5. OwnerInv'
  BY DEF QType, QueueTypeOK, OwnerInv, Reachable, Queued, Cancelling, Waits, FramelessPcs, GrantInv
<1>6. GrantInv'
  BY DEF QType, QueueTypeOK, GrantInv, OwnerInv, Reachable, Queued, Cancelling, Waits, FramelessPcs
<1>7. FrontInv'
  BY DEF QType, FrontInv, FrontRequest
<1>8. QED
  BY <1>1, <1>2, <1>3, <1>4, <1>5, <1>6, <1>7

\* ... and its giving up.
LEMMA ParkCancelledLemma == ASSUME QInv, NEW t \in Threads, ParkCancelled(t) PROVE QInv'
<1> USE DEF QInv, ParkCancelled, Step, queueVars, lockVars
<1>1. QType'
  BY DEF QType, QueueTypeOK
<1>2. LockInv'
  BY DEF QType, LockInv, QueueLockExclusive, HolderPcs, QueueHolderPcs, ReleasePcs, Serving
<1>3. PlaceInv'
  BY DEF QType, PlaceInv, Serves
<1>4. LockerInv'
  BY DEF QType, LockerInv, Lockers
<1>5. OwnerInv'
  BY DEF QType, QueueTypeOK, OwnerInv, Reachable, Queued, Cancelling, Waits, FramelessPcs
<1>6. GrantInv'
  BY DEF QType, QueueTypeOK, GrantInv, OwnerInv, Reachable, Queued, Cancelling, Waits, FramelessPcs
<1>7. FrontInv'
  BY DEF QType, FrontInv, FrontRequest
<1>8. QED
  BY <1>1, <1>2, <1>3, <1>4, <1>5, <1>6, <1>7

-----------------------------------------------------------------------------
(* The lock of the queue. *)

\* A free lock has no holder, and nothing in the places that its holder uses.
LEMMA FreeLemma ==
  ASSUME QInv, locked = 0
  PROVE  /\ pending = <<>> /\ grabbed = <<>> /\ privateQueue = <<>> /\ oldLen = 0
         /\ \A s \in Threads : pc[s] \notin HolderPcs
<1>1. \A s \in Threads : pc[s] \notin HolderPcs
  BY DEF QInv, LockInv, QueueLockExclusive
<1>2. QED
  BY <1>1 DEF QInv, LockInv, HolderPcs, QueueHolderPcs

\* A thread with the lock is the only one that has it.
LEMMA HolderLemma ==
  ASSUME QInv, NEW t \in Threads, pc[t] \in HolderPcs
  PROVE  /\ locked = 1 /\ \A s \in Threads : pc[s] \in HolderPcs => s = t
         /\ pc[t] # "process" => grabbed = <<>> /\ oldLen = 0
BY DEF QInv, LockInv, QueueLockExclusive, HolderPcs, QueueHolderPcs

\* A new wait block goes to the end of the queue, or on the stack.
LEMMA EnqueueLemma ==
  ASSUME QInv, NEW t \in Threads, EnqueueInLockedQueue(t), UNCHANGED <<entry, ret>>
  PROVE  QInv'
<1> USE DEF QInv
<1>1. /\ pc[t] = "enqueue" /\ ~Reachable(t) /\ ~Waits(t) /\ request[t] # 0
      /\ count[t] = 1 /\ unparked[t] = 0 /\ unlinked[t] = 0
      /\ \A h \in Threads : ~Serves(h, t)
  BY FramelessLemma DEF FramelessPcs, EnqueueInLockedQueue, Step, GrantInv
<1>2. CASE /\ Step(t, "enqueue", "enqueued") /\ TakeLock /\ list' = Append(list, t)
           /\ UNCHANGED <<pending, force, oldLen, grabbed, blockVars, lockVars, entry, ret>>
  <2>1. /\ pc'[t] = "enqueued" /\ \A s \in Threads \ {t} : pc'[s] = pc[s]
        /\ DOMAIN pc' = Threads /\ locked' = 1 /\ locked = 0
        /\ frontRequest' = 0 /\ privateQueue' = <<>> /\ privateQueue = <<>>
        /\ \A s \in Threads : pc[s] \notin HolderPcs
        /\ pending = <<>> /\ grabbed = <<>> /\ oldLen = 0
    BY <1>2, FreeLemma DEF QType, TakeLock, Step
  <2>2. /\ list' \in Seq(Threads) /\ Distinct(list')
        /\ \A x : In(x, list') <=> x = t \/ In(x, list)
    BY <1>1, <1>2, AppendLemma DEF QType, QueueTypeOK, PlaceInv, Reachable, Queued
  <2>3. \A s \in Threads : Reachable(s)' <=> s = t \/ Reachable(s)
    BY <1>1, <1>2, <2>1, <2>2 DEF Reachable, Queued
  <2>4. \A s \in Threads : Waits(s)' <=> s = t \/ Waits(s)
    BY <1>2, <2>1 DEF Waits
  <2> USE <1>2 DEF blockVars, lockVars
  <2>5. QType'
    BY <2>1, <2>2 DEF QType, QueueTypeOK
  <2>6. LockInv'
    <3>1. Len(list') \in Nat /\ oldLen' = 0
      BY <1>2, <2>1, <2>2
    <3>2. QED
      BY <1>1, <2>1, <3>1 DEF LockInv, QueueLockExclusive, HolderPcs, QueueHolderPcs, ReleasePcs, Serving
  <2>7. PlaceInv'
    BY <1>1, <2>1, <2>2 DEF QType, PlaceInv, Serves, Reachable, Queued
  <2>8. LockerInv'
    BY <1>1, <2>1 DEF QType, LockerInv, Lockers
  <2>9. OwnerInv'
    BY <1>1, <2>1, <2>3, <2>4 DEF OwnerInv, Cancelling, Reachable, Queued
  <2>10. GrantInv'
    BY <1>1, <2>1, <2>2, <2>3, <2>4 DEF GrantInv, Cancelling
  <2>11. FrontInv'
    BY <2>1 DEF FrontInv, HolderPcs, QueueHolderPcs
  <2>12. QED
    BY <2>5, <2>6, <2>7, <2>8, <2>9, <2>10, <2>11
<1>3. CASE /\ locked = 1 /\ Step(t, "enqueue", "parked")
           /\ pending' = <<WaitBlock(t)>> \o pending
           /\ UNCHANGED <<locked, list, frontRequest, privateQueue, force, oldLen, grabbed, blockVars,
                          lockVars, entry, ret>>
  <2>1. /\ pc'[t] = "parked" /\ \A s \in Threads \ {t} : pc'[s] = pc[s]
        /\ DOMAIN pc' = Threads
    BY <1>3 DEF QType, Step
  <2>2. /\ pending' \in Seq(Blocks) /\ Distinct(pending')
        /\ \A x : In(x, pending') <=> x = WaitBlock(t) \/ In(x, pending)
    BY <1>1, <1>3, PushLemma, BlockLemma DEF QType, QueueTypeOK, PlaceInv, Reachable, Queued
  <2>3. \A s \in Threads : Reachable(s)' <=> s = t \/ Reachable(s)
    BY <1>1, <1>3, <2>1, <2>2, BlockLemma DEF Reachable, Queued
  <2>4. \A s \in Threads : Waits(s)' <=> s = t \/ Waits(s)
    BY <1>3, <2>1 DEF Waits
  <2>5. Lockers' = Lockers /\ Lockers \subseteq Threads /\ \A s \in Threads : In(LockBlock(s), pending') <=> In(LockBlock(s), pending)
    BY <1>3, <2>2, BlockLemma DEF Lockers, lockVars
  <2> USE <1>3 DEF blockVars, lockVars
  <2>6. QType'
    BY <2>1, <2>2 DEF QType, QueueTypeOK
  <2>7. LockInv'
    BY <1>1, <2>1, SMTT(30) DEF LockInv, QueueLockExclusive, HolderPcs, QueueHolderPcs, ReleasePcs, Serving
  <2>8. PlaceInv'
    BY <1>1, <2>1, <2>2, BlockLemma, SMTT(30) DEF PlaceInv, Serves, Reachable, Queued
  <2>9. LockerInv'
    BY <1>1, <2>1, <2>5 DEF LockerInv
  <2>10. OwnerInv'
    BY <1>1, <2>1, <2>2, <2>3, <2>4, BlockLemma, SMTT(30) DEF OwnerInv, Cancelling
  <2>11. GrantInv'
    BY <1>1, <2>1, <2>3, <2>4 DEF GrantInv, Cancelling
  <2>12. FrontInv'
    BY <1>1, <2>1 DEF FrontInv, FrontRequest
  <2>13. QED
    BY <2>6, <2>7, <2>8, <2>9, <2>10, <2>11, <2>12
<1>4. QED
  BY <1>2, <1>3 DEF EnqueueInLockedQueue

\* The front request is published before the lock is freed ...
LEMMA UnlockPublishLemma ==
  ASSUME QInv, NEW t \in Threads, UnlockPublish(t), UNCHANGED <<entry, ret>>
  PROVE  QInv'
<1> USE DEF QInv, UnlockPublish, Step, blockVars, lockVars
<1>1. /\ pc[t] = "unlock" /\ locked = 1 /\ grabbed = <<>> /\ oldLen = 0
      /\ \A s \in Threads : pc[s] \in HolderPcs => s = t
  BY HolderLemma DEF HolderPcs, QueueHolderPcs
<1>2. FrontRequest \in Requests \cup {0}
  BY PopLemma DEF FrontRequest, QType, QueueTypeOK
<1>3. QType'
  BY <1>2 DEF QType, QueueTypeOK
<1>4. LockInv'
  BY <1>1 DEF QType, LockInv, QueueLockExclusive, HolderPcs, QueueHolderPcs, ReleasePcs, Serving
<1>5. PlaceInv'
  BY DEF QType, PlaceInv, Serves
<1>6. LockerInv'
  BY DEF QType, LockerInv, Lockers
<1>7. OwnerInv'
  BY DEF QType, OwnerInv, Reachable, Queued, Cancelling, Waits, FramelessPcs
<1>8. GrantInv'
  BY DEF QType, GrantInv, Reachable, Queued, Cancelling, Waits, FramelessPcs
<1>9. FrontInv'
  BY <1>1 DEF FrontInv, FrontRequest
<1>10. QED
  BY <1>3, <1>4, <1>5, <1>6, <1>7, <1>8, <1>9

\* ... and is right when it is freed.
LEMMA UnlockCasLemma ==
  ASSUME QInv, NEW t \in Threads, UnlockCas(t), UNCHANGED <<entry, ret>>
  PROVE  QInv'
<1> USE DEF QInv, blockVars
<1>1. /\ pc[t] = "unlockCas" /\ locked = 1 /\ grabbed = <<>> /\ oldLen = 0
      /\ \A s \in Threads : pc[s] \in HolderPcs => s = t
      /\ wakeQueue[t] = <<>>
  BY HolderLemma DEF UnlockCas, Freed, Step, HolderPcs, QueueHolderPcs, LockInv
<1>2. CASE pending = <<>> /\ Freed(t)
  <2>1. /\ pc'[t] = IF privateQueue = <<>> THEN "check" ELSE "wakeLockers"
        /\ DOMAIN pc' = Threads /\ \A s \in Threads \ {t} : pc'[s] = pc[s]
        /\ locked' = 0 /\ privateQueue' = <<>> /\ force' = 0 /\ wakeQueue'[t] = privateQueue
        /\ \A s \in Threads \ {t} : wakeQueue'[s] = wakeQueue[s]
        /\ wakeQueue' \in [Threads -> Seq(Threads)]
        /\ UNCHANGED <<pending, list, frontRequest, oldLen, grabbed, blockVars, lockGranted, entry, ret>>
        /\ pending = <<>>
    BY <1>2 DEF UnlockCas, Freed, Step, QType, QueueTypeOK
  <2>a. /\ pc'[t] \in {"check", "wakeLockers"}
        /\ \A s \in Threads : wakeQueue'[s] = <<>> <=> pc'[s] # "wakeLockers"
    BY <1>1, <2>1 DEF LockInv
  <2>b. UNCHANGED <<pending, list, grabbed, frontRequest, oldLen, request, count, unparked, unlinked, lockGranted, entry, ret>>
    BY <2>1
  <2>2. /\ \A x : ~In(x, pending) /\ ~In(x, grabbed) /\ ~In(x, wakeQueue[t]) /\ ~In(x, privateQueue')
        /\ Distinct(privateQueue')
    BY <1>1, <2>1, SmallStacks
  <2>3. \A s \in Threads : Waits(s)' <=> Waits(s)
    BY <1>1, <2>1 DEF Waits, FramelessPcs, Cancelling
  <2>4. \A s \in Threads : Reachable(s)' <=> Reachable(s)
    BY <1>1, <2>1 DEF Reachable, Queued
  <2>5. Lockers' = Lockers /\ Lockers \subseteq Threads
    BY <1>1, <2>1, <2>2 DEF Lockers
  <2>6. QType'
    BY <2>1 DEF QType, QueueTypeOK
  <2>7. LockInv'
    BY <1>1, <2>1, <2>a, <2>b, ZenonT(30) DEF LockInv, QueueLockExclusive, HolderPcs, QueueHolderPcs, ReleasePcs, Serving
  <2>8. PlaceInv'
    BY <1>1, <2>1, <2>2 DEF PlaceInv, Serves
  <2>9. LockerInv'
    <3>1. \A s \in Threads : Distinct(wakeQueue'[s])
      BY <2>1 DEF LockerInv, PlaceInv
    <3>2. \A r, s \in Threads : In(r, wakeQueue'[s])
            <=> (s = t /\ In(r, privateQueue)) \/ (s # t /\ In(r, wakeQueue[s]))
      BY <2>1
    <3>3. \A s \in Threads : pc'[s] = "lockParked" <=> pc[s] = "lockParked"
      BY <1>1, <2>1, <2>a
    <3>4. QED
      BY <2>2, <2>5, <2>b, <3>1, <3>2, <3>3 DEF LockerInv
  <2>10. OwnerInv'
    <3>1. /\ \A s \in Threads : pc[s] \in Cancelling <=> pc'[s] \in Cancelling
          /\ \A s \in Threads : pc'[s] # "unpark"
      BY <1>1, <2>1, <2>a DEF Cancelling, HolderPcs, ReleasePcs
    <3>2. QED
      BY <2>2, <2>3, <2>4, <2>b, <3>1 DEF OwnerInv
  <2>11. GrantInv'
    BY <1>1, <2>1, <2>3, <2>4, ZenonT(30) DEF GrantInv, Cancelling
  <2>12. FrontInv'
    BY <1>1, <2>1 DEF FrontInv, FrontRequest, HolderPcs, QueueHolderPcs
  <2>13. QED
    BY <2>6, <2>7, <2>8, <2>9, <2>10, <2>11, <2>12
<1>3. CASE /\ Step(t, "unlockCas", "unlock") /\ frontRequest' = 0
           /\ UNCHANGED <<locked, wakeQueue, privateQueue, force, pending, list, oldLen, grabbed, blockVars,
                          lockGranted, entry, ret>>
  <2> USE <1>3 DEF Step
  <2>1. QType'
    BY DEF QType, QueueTypeOK
  <2>2. LockInv'
    BY <1>1 DEF QType, LockInv, QueueLockExclusive, HolderPcs, QueueHolderPcs, ReleasePcs, Serving
  <2>3. PlaceInv'
    BY DEF QType, PlaceInv, Serves
  <2>4. LockerInv'
    BY DEF QType, LockerInv, Lockers
  <2>5. OwnerInv'
    BY DEF QType, OwnerInv, Reachable, Queued, Cancelling, Waits, FramelessPcs
  <2>6. GrantInv'
    BY DEF QType, GrantInv, Reachable, Queued, Cancelling, Waits, FramelessPcs
  <2>7. FrontInv'
    BY <1>1 DEF QType, FrontInv, FrontRequest, HolderPcs, QueueHolderPcs
  <2>8. QED
    BY <2>1, <2>2, <2>3, <2>4, <2>5, <2>6, <2>7
<1>4. QED
  BY <1>2, <1>3 DEF UnlockCas

\* The holder takes the stack over.
LEMMA UnlockGrabLemma ==
  ASSUME QInv, NEW t \in Threads, UnlockGrab(t), UNCHANGED <<entry, ret>>
  PROVE  QInv'
<1> USE DEF QInv, UnlockGrab, Step, blockVars, lockVars
<1>1. /\ pc[t] = "unlock" /\ locked = 1 /\ grabbed = <<>> /\ oldLen = 0
      /\ \A s \in Threads : pc[s] \in HolderPcs => s = t
  BY HolderLemma DEF HolderPcs, QueueHolderPcs
<1>2. /\ grabbed' = pending /\ pending' = <<>> /\ \A x : ~In(x, grabbed) /\ ~In(x, pending')
      /\ Distinct(pending') /\ Len(list) \in Nat
  BY <1>1, SmallStacks DEF QType, QueueTypeOK
<1>3. \A s \in Threads : Waits(s)' <=> Waits(s)
  BY DEF Waits, FramelessPcs, Cancelling, QType
<1>4. \A s \in Threads : Reachable(s)' <=> Reachable(s)
  BY <1>2 DEF Reachable, Queued, QType
<1>5. Lockers' = Lockers /\ Lockers \subseteq Threads
  BY <1>2 DEF Lockers
<1>6. QType'
  BY <1>2 DEF QType, QueueTypeOK
<1>7. LockInv'
  BY <1>1, <1>2 DEF QType, LockInv, QueueLockExclusive, HolderPcs, QueueHolderPcs, ReleasePcs, Serving
<1>8. PlaceInv'
  BY <1>2 DEF QType, PlaceInv, Serves
<1>9. LockerInv'
  BY <1>2, <1>5 DEF QType, LockerInv
<1>10. OwnerInv'
  BY <1>2, <1>3, <1>4 DEF QType, OwnerInv, Cancelling
<1>11. GrantInv'
  BY <1>2, <1>3, <1>4 DEF QType, GrantInv, Cancelling
<1>12. FrontInv'
  BY <1>1 DEF QType, FrontInv, FrontRequest, HolderPcs, QueueHolderPcs
<1>13. QED
  BY <1>6, <1>7, <1>8, <1>9, <1>10, <1>11, <1>12

\* It has processed the stack.
LEMMA ProcessDoneLemma ==
  ASSUME QInv, NEW t \in Threads, ProcessDone(t, "release"), UNCHANGED <<entry, ret>>
  PROVE  QInv'
<1> USE DEF QInv, ProcessDone, Step, blockVars, lockVars
<1>1. /\ pc[t] = "process" /\ locked = 1
      /\ \A s \in Threads : pc[s] \in HolderPcs => s = t
  BY HolderLemma DEF HolderPcs, QueueHolderPcs
<1>2. pc'[t] \in {"release", "unlock"} /\ \A s \in Threads \ {t} : pc'[s] = pc[s]
  BY DEF QType
<1>3. \A s \in Threads : Waits(s)' <=> Waits(s)
  BY <1>1, <1>2 DEF Waits, FramelessPcs, Cancelling, QType
<1>4. \A s \in Threads : Reachable(s)' <=> Reachable(s)
  BY <1>1, <1>2 DEF Reachable, Queued, QType
<1>5. Lockers' = Lockers /\ Lockers \subseteq Threads
  BY DEF Lockers
<1>6. QType'
  BY DEF QType, QueueTypeOK
<1>7. LockInv'
  <2>1. Len(list) \in Nat
    BY DEF QType, QueueTypeOK
  <2>2. QED
    BY <1>1, <1>2, <2>1 DEF LockInv, QueueLockExclusive, HolderPcs, QueueHolderPcs, ReleasePcs, Serving
<1>8. PlaceInv'
  BY <1>1, <1>2 DEF PlaceInv, Serves
<1>9. LockerInv'
  BY <1>1, <1>2, <1>5 DEF LockerInv
<1>10. OwnerInv'
  BY <1>1, <1>2, <1>3, <1>4 DEF OwnerInv, Cancelling
<1>11. GrantInv'
  BY <1>1, <1>2, <1>3, <1>4 DEF GrantInv, Cancelling
<1>12. FrontInv'
  BY <1>1, <1>2 DEF FrontInv, FrontRequest
<1>13. QED
  BY <1>6, <1>7, <1>8, <1>9, <1>10, <1>11, <1>12

\* A locker is woken, once.
LEMMA WakeLockerLemma ==
  ASSUME QInv, NEW t \in Threads, WakeLocker(t), UNCHANGED <<entry, ret>>
  PROVE  QInv'
<1> USE DEF QInv, queueVars, blockVars
<1> DEFINE w == Head(wakeQueue[t])
<1>1. pc[t] = "wakeLockers" /\ wakeQueue[t] # <<>> /\ wakeQueue[t] \in Seq(Threads)
  BY DEF WakeLocker, Step, LockInv, QType, QueueTypeOK
<1>2. /\ w \in Threads /\ Tail(wakeQueue[t]) \in Seq(Threads) /\ Distinct(Tail(wakeQueue[t]))
      /\ ~In(w, Tail(wakeQueue[t]))
      /\ \A x : In(x, wakeQueue[t]) <=> x = w \/ In(x, Tail(wakeQueue[t]))
  BY <1>1, PopLemma DEF LockerInv
<1>3. Len(wakeQueue[t]) = 1 <=> Tail(wakeQueue[t]) = <<>>
  <2> DEFINE q == wakeQueue[t]
  <2> HIDE DEF q
  <2>1. q \in Seq(Threads) /\ q # <<>>
    BY <1>1 DEF q
  <2>2. Len(q) = 1 <=> Tail(q) = <<>>
    <3>1. Tail(q) \in Seq(Threads) /\ Len(Tail(q)) = Len(q) - 1 /\ Len(q) \in Nat
      BY <2>1
    <3>2. Tail(q) = <<>> <=> Len(Tail(q)) = 0
      BY <3>1, EmptySeq
    <3>3. QED
      BY <3>1, <3>2
  <2>3. QED
    BY <2>2 DEF q
<1> HIDE DEF w
<1>4. /\ pc'[t] = IF Tail(wakeQueue[t]) = <<>> THEN "check" ELSE "wakeLockers"
      /\ DOMAIN pc' = Threads /\ \A s \in Threads \ {t} : pc'[s] = pc[s]
      /\ wakeQueue' \in [Threads -> Seq(Threads)] /\ wakeQueue'[t] = Tail(wakeQueue[t])
      /\ \A s \in Threads \ {t} : wakeQueue'[s] = wakeQueue[s]
      /\ lockGranted' \in [Threads -> {0, 1}]
      /\ \A s \in Threads \ {w} : lockGranted'[s] = lockGranted[s]
      /\ UNCHANGED <<locked, pending, list, frontRequest, privateQueue, force, oldLen, grabbed,
                     request, count, unparked, unlinked, entry, ret>>
  BY <1>1, <1>2, <1>3 DEF WakeLocker, Step, QType, QueueTypeOK, w
<1>a. \A r, s \in Threads : In(r, wakeQueue'[s]) <=> In(r, wakeQueue[s]) /\ ~(s = t /\ r = w)
  BY <1>2, <1>4, ZenonT(30)
<1>b. /\ pc'[t] \in {"check", "wakeLockers"}
      /\ \A s \in Threads : wakeQueue'[s] = <<>> <=> pc'[s] # "wakeLockers"
  BY <1>1, <1>4, ZenonT(30) DEF LockInv
<1>5. \A s \in Threads : Waits(s)' <=> Waits(s)
  BY <1>1, <1>4 DEF Waits, FramelessPcs, Cancelling
<1>6. \A s \in Threads : Reachable(s)' <=> Reachable(s)
  BY <1>1, <1>4 DEF Reachable, Queued
<1>7. Lockers' \subseteq Lockers \ {w} /\ Lockers \subseteq Threads /\ w \in Lockers
  <2>1. Lockers' \subseteq Lockers /\ Lockers \subseteq Threads /\ w \in Lockers
    BY <1>2, <1>4, <1>a DEF Lockers
  <2>2. w \notin Lockers'
    BY <1>2, <1>4, <1>a DEF Lockers, LockerInv
  <2>3. QED
    BY <2>1, <2>2
<1>8. QType'
  BY <1>4 DEF QType, QueueTypeOK
<1>9. LockInv'
  BY <1>1, <1>4, <1>b, ZenonT(30) DEF LockInv, QueueLockExclusive, HolderPcs, QueueHolderPcs, ReleasePcs, Serving
<1>10. PlaceInv'
  BY <1>1, <1>4 DEF PlaceInv, Serves
<1>11. LockerInv'
  <2>1. \A s \in Threads : Distinct(wakeQueue'[s])
    BY <1>2, <1>4 DEF LockerInv
  <2>2. \A r, s \in Threads : In(r, wakeQueue'[s]) => In(r, wakeQueue[s])
    BY <1>2, <1>4
  <2>3. \A s \in Threads : In(s, privateQueue') => s \in Lockers'
    BY <1>4, SmallStacks DEF Lockers, LockerInv, LockInv, QType, QueueTypeOK
  <2>4. \A s \in Lockers' : pc'[s] = "lockParked" /\ lockGranted'[s] = 0
    BY <1>1, <1>4, <1>7 DEF LockerInv
  <2>5. QED
    BY <1>4, <2>1, <2>2, <2>3, <2>4 DEF LockerInv
<1>12. OwnerInv'
  <2>1. \A s \in Threads : /\ pc[s] \in Cancelling <=> pc'[s] \in Cancelling
                           /\ pc[s] = "unpark" <=> pc'[s] = "unpark"
                           /\ pc[s] # "wakeLockers" => pc'[s] = pc[s]
    BY <1>1, <1>4, <1>b DEF Cancelling
  <2>2. UNCHANGED <<pending, grabbed, request, count, unparked, unlinked, entry>>
    BY <1>4
  <2>3. \A s \in Threads : In(WaitBlock(s), pending) \/ In(WaitBlock(s), grabbed) => pc[s] # "wakeLockers"
    BY DEF OwnerInv
  <2>4. QED
    BY <1>5, <1>6, <2>1, <2>2, <2>3 DEF OwnerInv
<1>13. GrantInv'
  <2>1. UNCHANGED <<list, request, count, unparked, unlinked>>
    BY <1>4
  <2>2. \A s \in Threads : /\ pc[s] \in Cancelling <=> pc'[s] \in Cancelling
                           /\ pc[s] # "wakeLockers" => pc'[s] = pc[s]
                           /\ pc[s] = "wakeLockers" => pc'[s] \in {"check", "wakeLockers"}
    BY <1>1, <1>4, <1>b DEF Cancelling
  <2>3. QED
    BY <1>5, <1>6, <2>1, <2>2 DEF GrantInv
<1>14. FrontInv'
  BY <1>1, <1>4 DEF FrontInv, FrontRequest
<1>15. QED
  BY <1>8, <1>9, <1>10, <1>11, <1>12, <1>13, <1>14

\* A block of the stack goes to the queue or the private queue, or is unlinked.
LEMMA ProcessLemma ==
  ASSUME QInv, NEW t \in Threads, ProcessLockQueue(t), UNCHANGED <<entry, ret>>
  PROVE  QInv'
<1> USE DEF QInv
<1> DEFINE b == Head(grabbed)
           x == b[1]
<1>1. /\ pc[t] = "process" /\ locked = 1 /\ grabbed # <<>> /\ grabbed' = Tail(grabbed)
      /\ \A s \in Threads : pc[s] \in HolderPcs => s = t
      /\ UNCHANGED <<locked, pending, frontRequest, force, oldLen, pc, request, count, unparked,
                     lockGranted, wakeQueue, entry, ret>>
  BY HolderLemma DEF ProcessLockQueue, lockVars, HolderPcs, QueueHolderPcs
<1>2. /\ b \in Blocks /\ grabbed' \in Seq(Blocks) /\ Distinct(grabbed')
      /\ ~In(b, grabbed') /\ \A c : In(c, grabbed) <=> c = b \/ In(c, grabbed')
  BY <1>1, PopLemma DEF QType, QueueTypeOK, PlaceInv
<1>3. \A s \in Threads : Waits(s)' <=> Waits(s)
  BY <1>1 DEF Waits
<1>4. CASE b[2] = "lock" /\ privateQueue' = <<x>> \o privateQueue /\ UNCHANGED <<list, unlinked>>
  <2>1. b = LockBlock(x) /\ x \in Threads
    BY <1>2, <1>4, BlockLemma DEF WaitBlock
  <2> HIDE DEF b, x
  <2>2. /\ \A s \in Threads : In(WaitBlock(s), grabbed') <=> In(WaitBlock(s), grabbed)
        /\ \A s \in Threads : In(LockBlock(s), grabbed') <=> s # x /\ In(LockBlock(s), grabbed)
        /\ In(LockBlock(x), grabbed)
    BY <1>2, <2>1, BlockLemma
  <2>3. ~In(x, privateQueue)
    BY <2>1, <2>2 DEF LockerInv
  <2>4. /\ privateQueue' \in Seq(Threads) /\ Distinct(privateQueue')
        /\ \A s : In(s, privateQueue') <=> s = x \/ In(s, privateQueue)
    BY <1>4, <2>1, <2>3, PushLemma DEF QType, QueueTypeOK, PlaceInv
  <2>5. \A s \in Threads : Reachable(s)' <=> Reachable(s)
    BY <1>1, <1>4, <2>2 DEF Reachable, Queued
  <2>6. Lockers' = Lockers
    BY <1>1, <2>1, <2>2, <2>4 DEF Lockers
  <2> USE <1>1, <1>4
  <2>7. QType'
    BY <1>2, <2>4 DEF QType, QueueTypeOK
  <2>8. LockInv'
    BY DEF LockInv, QueueLockExclusive
  <2>9. PlaceInv'
    BY <1>2, <2>2, <2>4 DEF PlaceInv, Serves
  <2>10. LockerInv'
    BY <1>2, <2>1, <2>2, <2>4, <2>6 DEF LockerInv, PlaceInv, Lockers
  <2>11. OwnerInv'
    BY <1>3, <2>2, <2>5 DEF OwnerInv
  <2>12. GrantInv'
    BY <1>3, <2>5 DEF GrantInv
  <2>13. FrontInv'
    BY DEF FrontInv, HolderPcs, QueueHolderPcs
  <2>14. QED
    BY <2>7, <2>8, <2>9, <2>10, <2>11, <2>12, <2>13
<1>5. ASSUME b[2] = "wait"
      PROVE  /\ b = WaitBlock(x) /\ x \in Threads /\ In(WaitBlock(x), grabbed)
             /\ \A s \in Threads : In(WaitBlock(s), grabbed') <=> s # x /\ In(WaitBlock(s), grabbed)
             /\ \A s \in Threads : In(LockBlock(s), grabbed') <=> In(LockBlock(s), grabbed)
             /\ ~In(x, list) /\ ~In(WaitBlock(x), pending) /\ Reachable(x)
  <2>1. b = WaitBlock(x) /\ x \in Threads
    BY <1>2, <1>5, BlockLemma DEF LockBlock
  <2> HIDE DEF b, x
  <2>2. QED
    BY <1>2, <2>1, BlockLemma DEF PlaceInv, Reachable, Queued
<1>6. CASE /\ b[2] = "wait" /\ count[x] = 1 /\ list' = InsertBehind(list, oldLen, x)
           /\ UNCHANGED <<privateQueue, unlinked>>
  <2> HIDE DEF b, x
  <2>1. /\ list' \in Seq(Threads) /\ Distinct(list') /\ Len(list') = Len(list) + 1
        /\ \A s : In(s, list') <=> s = x \/ In(s, list)
    BY <1>5, <1>6, InsertLemma, ZenonT(30) DEF QType, QueueTypeOK, LockInv, PlaceInv
  <2>2. \A s \in Threads : Reachable(s)' <=> Reachable(s)
    BY <1>1, <1>5, <1>6, <2>1 DEF Reachable, Queued
  <2>3. Lockers' = Lockers
    BY <1>1, <1>5, <1>6 DEF Lockers
  <2> USE <1>1, <1>6
  <2>4. QType'
    BY <1>2, <2>1 DEF QType, QueueTypeOK
  <2>5. LockInv'
    BY <2>1, SMTT(30) DEF LockInv, QueueLockExclusive, QType, QueueTypeOK
  <2>6. PlaceInv'
    BY <1>2, <1>5, <2>1 DEF PlaceInv, Serves
  <2>7. LockerInv'
    BY <1>5, <2>3 DEF LockerInv, Lockers
  <2>8. OwnerInv'
    BY <1>3, <1>5, <2>2 DEF OwnerInv
  <2>9. GrantInv'
    BY <1>3, <2>1, <2>2 DEF GrantInv
  <2>10. FrontInv'
    BY DEF FrontInv, HolderPcs, QueueHolderPcs
  <2>11. QED
    BY <2>4, <2>5, <2>6, <2>7, <2>8, <2>9, <2>10
<1>7. CASE /\ b[2] = "wait" /\ count[x] = 0 /\ unlinked' = [unlinked EXCEPT ![x] = 1]
           /\ UNCHANGED <<list, privateQueue>>
  <2> HIDE DEF b, x
  <2>1. /\ unlinked' \in [Threads -> {0, 1}] /\ unlinked'[x] = 1
        /\ \A s \in Threads \ {x} : unlinked'[s] = unlinked[s]
    BY <1>5, <1>7 DEF QType, QueueTypeOK
  <2>2. \A s \in Threads : Reachable(s)' <=> s # x /\ Reachable(s)
    BY <1>1, <1>5, <1>7 DEF Reachable, Queued, HolderPcs, ReleasePcs
  <2>3. Lockers' = Lockers
    BY <1>1, <1>5, <1>7 DEF Lockers
  <2> USE <1>1, <1>7
  <2>4. QType'
    BY <1>2, <2>1 DEF QType, QueueTypeOK
  <2>5. LockInv'
    BY DEF LockInv, QueueLockExclusive
  <2>6. PlaceInv'
    BY <1>2, <1>5 DEF PlaceInv, Serves
  <2>7. LockerInv'
    BY <1>5, <2>3 DEF LockerInv, Lockers
  <2>8. OwnerInv'
    BY <1>3, <1>5, <2>1, <2>2 DEF OwnerInv, HolderPcs, ReleasePcs
  <2>9. GrantInv'
    BY <1>3, <1>5, <2>1, <2>2 DEF GrantInv, OwnerInv
  <2>10. FrontInv'
    BY DEF FrontInv, HolderPcs, QueueHolderPcs
  <2>11. QED
    BY <2>4, <2>5, <2>6, <2>7, <2>8, <2>9, <2>10
<1>8. QED
  BY <1>4, <1>6, <1>7 DEF ProcessLockQueue

\* A releaser takes the free lock.
LEMMA TryLockLemma ==
  ASSUME QInv, NEW t \in Threads, TakeLock, Step(t, "tryLock", "release"),
         UNCHANGED <<pending, list, force, oldLen, grabbed, blockVars, lockVars, entry, ret>>
  PROVE  QInv'
<1> USE DEF QInv, TakeLock, Step, blockVars, lockVars
<1>1. /\ pending = <<>> /\ grabbed = <<>> /\ privateQueue = <<>> /\ oldLen = 0
      /\ \A s \in Threads : pc[s] \notin HolderPcs
  BY FreeLemma
<1>2. QType'
  BY DEF QType, QueueTypeOK
<1>3. LockInv'
  BY <1>1 DEF QType, LockInv, QueueLockExclusive, HolderPcs, QueueHolderPcs, ReleasePcs, Serving
<1>4. PlaceInv'
  BY <1>1 DEF QType, PlaceInv, Serves
<1>5. LockerInv'
  BY <1>1, SmallStacks DEF QType, LockerInv, Lockers
<1>6. OwnerInv'
  BY DEF QType, OwnerInv, Reachable, Queued, Cancelling, Waits, FramelessPcs
<1>7. GrantInv'
  BY DEF QType, GrantInv, Reachable, Queued, Cancelling, Waits, FramelessPcs
<1>8. FrontInv'
  BY <1>1 DEF QType, FrontInv, HolderPcs, QueueHolderPcs
<1>9. QED
  BY <1>2, <1>3, <1>4, <1>5, <1>6, <1>7, <1>8

\* A canceller looks at its block ...
LEMMA LockTestLemma ==
  ASSUME QInv, NEW t \in Threads, LockTest(t), UNCHANGED <<entry, ret>>
  PROVE  QInv'
<1> USE DEF QInv, LockTest, Step, queueVars, blockVars, lockVars
<1>1. unlinked[t] = 1 => ~Reachable(t)
  BY DEF OwnerInv, QType, QueueTypeOK
<1>2. QType'
  BY DEF QType, QueueTypeOK
<1>3. LockInv'
  BY DEF QType, LockInv, QueueLockExclusive, HolderPcs, QueueHolderPcs, ReleasePcs, Serving
<1>4. PlaceInv'
  BY DEF QType, PlaceInv, Serves
<1>5. LockerInv'
  BY DEF QType, LockerInv, Lockers
<1>6. OwnerInv'
  BY <1>1 DEF QType, OwnerInv, Reachable, Queued, Cancelling, Waits, FramelessPcs
<1>7. GrantInv'
  BY <1>1 DEF QType, GrantInv, Reachable, Queued, Cancelling, Waits, FramelessPcs
<1>8. FrontInv'
  BY DEF QType, FrontInv, FrontRequest
<1>9. QED
  BY <1>2, <1>3, <1>4, <1>5, <1>6, <1>7, <1>8

\* ... takes the lock, or waits for it on the stack ...
LEMMA LockTryLemma ==
  ASSUME QInv, NEW t \in Threads, LockTry(t), UNCHANGED <<entry, ret>>
  PROVE  QInv'
<1> USE DEF QInv, Step, blockVars
<1>1. CASE /\ TakeLock /\ Step(t, "lockTry", "remove")
           /\ UNCHANGED <<pending, list, force, oldLen, grabbed, blockVars, lockVars, entry, ret>>
  <2> USE <1>1 DEF TakeLock, lockVars
  <2>1. /\ pending = <<>> /\ grabbed = <<>> /\ privateQueue = <<>> /\ oldLen = 0
        /\ \A s \in Threads : pc[s] \notin HolderPcs
        /\ \A x : ~In(x, pending) /\ ~In(x, grabbed)
    BY FreeLemma, SmallStacks
  <2>2. QType'
    BY DEF QType, QueueTypeOK
  <2>3. LockInv'
    BY <2>1 DEF QType, LockInv, QueueLockExclusive, HolderPcs, QueueHolderPcs, ReleasePcs, Serving
  <2>4. PlaceInv'
    BY <2>1 DEF QType, PlaceInv, Serves
  <2>5. LockerInv'
    BY <2>1, SmallStacks DEF QType, LockerInv, Lockers
  <2>6. OwnerInv'
    BY <2>1 DEF QType, OwnerInv, Reachable, Queued, Cancelling, Waits, FramelessPcs
  <2>7. GrantInv'
    BY DEF QType, GrantInv, Reachable, Queued, Cancelling, Waits, FramelessPcs
  <2>8. FrontInv'
    BY <2>1 DEF QType, FrontInv, HolderPcs, QueueHolderPcs
  <2>9. QED
    BY <2>2, <2>3, <2>4, <2>5, <2>6, <2>7, <2>8
<1>2. CASE /\ locked = 1 /\ Step(t, "lockTry", "lockParked")
           /\ pending' = <<LockBlock(t)>> \o pending
           /\ lockGranted' = [lockGranted EXCEPT ![t] = 0]
           /\ UNCHANGED <<locked, list, frontRequest, privateQueue, force, oldLen, grabbed, blockVars,
                          wakeQueue, entry, ret>>
  <2>1. /\ pc[t] = "lockTry" /\ pc'[t] = "lockParked" /\ \A s \in Threads \ {t} : pc'[s] = pc[s]
        /\ DOMAIN pc' = Threads /\ t \notin Lockers /\ lockGranted'[t] = 0
        /\ lockGranted' \in [Threads -> {0, 1}]
        /\ \A s \in Threads \ {t} : lockGranted'[s] = lockGranted[s]
    BY <1>2 DEF QType, QueueTypeOK, LockerInv
  <2>2. /\ ~In(LockBlock(t), pending) /\ ~In(LockBlock(t), grabbed) /\ ~In(t, privateQueue)
        /\ \A s \in Threads : ~In(t, wakeQueue[s])
    BY <1>2, <2>1 DEF Lockers
  <2>3. /\ pending' \in Seq(Blocks) /\ Distinct(pending')
        /\ \A x : In(x, pending') <=> x = LockBlock(t) \/ In(x, pending)
    BY <1>2, <2>2, PushLemma, BlockLemma DEF QType, QueueTypeOK, PlaceInv
  <2>4. /\ \A s \in Threads : In(WaitBlock(s), pending') <=> In(WaitBlock(s), pending)
        /\ \A s \in Threads : In(LockBlock(s), pending') <=> s = t \/ In(LockBlock(s), pending)
    BY <2>3, BlockLemma
  <2>5. \A s \in Threads : Reachable(s)' <=> Reachable(s)
    BY <1>2, <2>1, <2>4 DEF Reachable, Queued
  <2>6. \A s \in Threads : Waits(s)' <=> Waits(s)
    BY <1>2, <2>1 DEF Waits, Cancelling
  <2>7. Lockers' = Lockers \cup {t} /\ Lockers \subseteq Threads
    BY <1>2, <2>4 DEF Lockers
  <2> USE <1>2, <2>1
  <2>8. QType'
    BY <2>3 DEF QType, QueueTypeOK
  <2>9. LockInv'
    BY DEF LockInv, QueueLockExclusive, HolderPcs, QueueHolderPcs, ReleasePcs, Serving
  <2>10. PlaceInv'
    BY <2>2, <2>3, <2>4, BlockLemma DEF PlaceInv, Serves
  <2>11. LockerInv'
    BY <2>2, <2>4, <2>7 DEF LockerInv
  <2>12. OwnerInv'
    BY <2>4, <2>5, <2>6 DEF OwnerInv, Cancelling
  <2>13. GrantInv'
    BY <2>5, <2>6 DEF GrantInv, Cancelling
  <2>14. FrontInv'
    BY DEF FrontInv, FrontRequest
  <2>15. QED
    BY <2>8, <2>9, <2>10, <2>11, <2>12, <2>13, <2>14
<1>3. QED
  BY <1>1, <1>2 DEF LockTry, lockVars

\* ... and tries again.
LEMMA LockUnparkedLemma ==
  ASSUME QInv, NEW t \in Threads, LockUnparked(t), UNCHANGED <<entry, ret>>
  PROVE  QInv'
<1> USE DEF QInv, LockUnparked, Step, queueVars, blockVars
<1>1. t \notin Lockers
  BY DEF LockerInv
<1>2. QType'
  BY DEF QType, QueueTypeOK
<1>3. LockInv'
  BY DEF QType, LockInv, QueueLockExclusive, HolderPcs, QueueHolderPcs, ReleasePcs, Serving
<1>4. PlaceInv'
  BY DEF QType, PlaceInv, Serves
<1>5. LockerInv'
  BY <1>1 DEF QType, QueueTypeOK, LockerInv, Lockers
<1>6. OwnerInv'
  BY DEF QType, OwnerInv, Reachable, Queued, Cancelling, Waits, FramelessPcs
<1>7. GrantInv'
  BY DEF QType, GrantInv, Reachable, Queued, Cancelling, Waits, FramelessPcs
<1>8. FrontInv'
  BY DEF QType, FrontInv, FrontRequest
<1>9. QED
  BY <1>2, <1>3, <1>4, <1>5, <1>6, <1>7, <1>8

\* CancelAcquire unlinks the wait block from wherever it was.
LEMMA CancelAcquireLemma == ASSUME QInv, NEW t \in Threads, CancelAcquire(t) PROVE QInv'
<1> USE DEF QInv
<1>1. /\ pc[t] = "remove" /\ pc'[t] = "release" /\ \A s \in Threads \ {t} : pc'[s] = pc[s]
      /\ DOMAIN pc' = Threads /\ ret'[t] = "out" /\ \A s \in Threads \ {t} : ret'[s] = ret[s]
      /\ ret' \in [Threads -> {"out", "parked"}]
      /\ UNCHANGED <<locked, pending, frontRequest, privateQueue, force, oldLen, grabbed,
                     request, count, unparked, unlinked, lockGranted, wakeQueue, entry>>
  BY DEF CancelAcquire, Step, QType, blockVars, lockVars
<1>2. /\ locked = 1 /\ grabbed = <<>> /\ oldLen = 0
      /\ \A s \in Threads : pc[s] \in HolderPcs => s = t
  BY <1>1, HolderLemma DEF HolderPcs, QueueHolderPcs
<1>3. /\ list' \in Seq(Threads) /\ Distinct(list')
      /\ \A s \in Threads : In(s, list') <=> s # t /\ In(s, list)
  <2>1. unlinked[t] = 1 => ~In(t, list)
    BY DEF OwnerInv, Reachable, Queued
  <2>2. QED
    BY <2>1, WithoutLemma DEF CancelAcquire, QType, QueueTypeOK, PlaceInv
<1>4. ~In(WaitBlock(t), pending) /\ ~In(WaitBlock(t), grabbed)
  BY <1>1 DEF OwnerInv
<1>5. \A s \in Threads : Reachable(s)' <=> s # t /\ Reachable(s)
  <2>1. \A h \in Threads : pc[h] # "lockParker" /\ pc'[h] # "lockParker"
    BY <1>1, <1>2 DEF HolderPcs, ReleasePcs
  <2>2. QED
    BY <1>1, <1>3, <1>4, <2>1 DEF Reachable, Queued
<1>6. \A s \in Threads : Waits(s)' <=> Waits(s)
  BY <1>1 DEF Waits, Cancelling
<1> USE <1>1
<1>7. QType'
  BY <1>3 DEF QType, QueueTypeOK
<1>8. LockInv'
  <2>1. Len(list') \in Nat
    BY <1>3
  <2>2. QED
    BY <1>2, <2>1 DEF LockInv, QueueLockExclusive, HolderPcs, QueueHolderPcs, ReleasePcs, Serving
<1>9. PlaceInv'
  BY <1>3 DEF PlaceInv, Serves
<1>10. LockerInv'
  BY DEF LockerInv, Lockers
<1>11. OwnerInv'
  BY <1>2, <1>5, <1>6 DEF OwnerInv, Cancelling
<1>12. GrantInv'
  <2>1. ~Waits(t)
    BY DEF Waits, Cancelling
  <2>2. QED
    BY <1>3, <1>5, <1>6, <2>1 DEF GrantInv, Cancelling
<1>13. FrontInv'
  BY <1>2 DEF FrontInv, HolderPcs, QueueHolderPcs
<1>14. QED
  BY <1>7, <1>8, <1>9, <1>10, <1>11, <1>12, <1>13

-----------------------------------------------------------------------------
(* Release. *)

\* t comes to a release operation or leaves one, and to the event's Set with TrySet; an
\* acquire that it has behind it is forgotten.
Leaves(t) ==
  /\ pc[t] \in {"holding", "out"} /\ pc' = [pc EXCEPT ![t] = pc'[t]]
  /\ pc'[t] \in {"out", "check", "lockTest"}
  /\ \/ ForgetBlock(t)
     \/ pc[t] = "out" /\ pc'[t] # "lockTest" /\ UNCHANGED blockVars
  /\ ret' \in [Threads -> {"out", "parked"}] /\ \A s \in Threads \ {t} : ret'[s] = ret[s]
  /\ pc'[t] = "check" => ret'[t] = "out"
  /\ UNCHANGED <<queueVars, lockVars, entry>>

\* Such a step keeps the invariant.
LEMMA LeavesLemma == ASSUME QInv, NEW t \in Threads, Leaves(t) PROVE QInv'
<1> USE DEF QInv
<1>1. /\ pc[t] \in {"holding", "out"} /\ pc'[t] \in {"out", "check", "lockTest"}
      /\ \A s \in Threads \ {t} :
           /\ pc'[s] = pc[s] /\ request'[s] = request[s] /\ count'[s] = count[s]
           /\ unparked'[s] = unparked[s] /\ unlinked'[s] = unlinked[s] /\ ret'[s] = ret[s]
      /\ unparked'[t] = 0 /\ (pc'[t] = "lockTest" => request'[t] = 0)
      /\ pc'[t] = "check" => ret'[t] = "out"
      /\ request' \in [Threads -> Requests \cup {0}] /\ count' \in [Threads -> {0, 1}]
      /\ unparked' \in [Threads -> {0, 1}] /\ unlinked' \in [Threads -> {0, 1}]
      /\ ret' \in [Threads -> {"out", "parked"}] /\ DOMAIN pc' = Threads
      /\ UNCHANGED <<queueVars, lockVars, entry>>
  <2>1. CASE ForgetBlock(t)
    BY <2>1 DEF Leaves, ForgetBlock, QType, QueueTypeOK
  <2>2. CASE pc[t] = "out" /\ pc'[t] # "lockTest" /\ UNCHANGED blockVars
    <3>1. unparked[t] = 0
      BY <2>2, ZenonT(30) DEF GrantInv, Waits, FramelessPcs, QType, QueueTypeOK
    <3>2. QED
      BY <2>2, <3>1 DEF Leaves, blockVars, QType, QueueTypeOK
  <2>3. QED
    BY <2>1, <2>2 DEF Leaves
<1>2. ~Reachable(t) /\ ~Waits(t) /\ (list # <<>> => Head(list) # t)
  BY <1>1, FramelessLemma DEF FramelessPcs
<1>3. \A h \in Threads : ~Serves(h, t)
  BY <1>1, FramelessLemma DEF FramelessPcs
<1>4. \A s \in Threads : Reachable(s)' <=> Reachable(s)
  BY <1>1 DEF Reachable, Queued, queueVars
<1>5. ~Waits(t)' /\ \A s \in Threads \ {t} : Waits(s)' <=> Waits(s)
  BY <1>1 DEF Waits, FramelessPcs, Cancelling
<1> USE <1>1 DEF queueVars, lockVars
<1>6. QType'
  BY DEF QType, QueueTypeOK
<1>7. LockInv'
  BY DEF LockInv, QueueLockExclusive, HolderPcs, QueueHolderPcs, ReleasePcs, Serving
<1>8. PlaceInv'
  BY DEF PlaceInv, Serves
<1>9. LockerInv'
  BY DEF LockerInv, Lockers
<1>10. OwnerInv'
  <2>1. ASSUME NEW s \in Threads, Reachable(s)'
        PROVE  /\ s # t /\ Reachable(s)
    BY <1>2, <1>4, <2>1
  <2>2. ASSUME NEW s \in Threads, In(WaitBlock(s), pending)' \/ In(WaitBlock(s), grabbed)'
        PROVE  s # t /\ (In(WaitBlock(s), pending) \/ In(WaitBlock(s), grabbed))
    BY <1>2, <2>2 DEF Reachable, Queued
  <2>3. ASSUME NEW h \in Threads, NEW s \in Threads, pc'[h] = "unpark" /\ entry' = s
        PROVE  s # t /\ pc[h] = "unpark" /\ entry = s
    BY <1>3, <2>3 DEF Serves
  <2>4. QED
    BY <1>5, <2>1, <2>2, <2>3 DEF OwnerInv
<1>11. GrantInv'
  BY <1>2, <1>4, <1>5 DEF GrantInv, Cancelling
<1>12. FrontInv'
  BY <1>2 DEF FrontInv, FrontRequest, QType, QueueTypeOK
<1>13. QED
  BY <1>6, <1>7, <1>8, <1>9, <1>10, <1>11, <1>12

\* A release operation is one.
LEMMA GiveLemma ==
  ASSUME QInv, NEW t \in Threads, NEW new, NEW look, Give(t, new, look),
         \/ pc[t] = "holding" /\ ForgetBlock(t)
         \/ pc[t] = "out" /\ (ForgetBlock(t) \/ UNCHANGED blockVars)
  PROVE  QInv'
<1>1. Leaves(t)
  BY DEF Give, Leaves, QInv, QType
<1>2. QED
  BY <1>1, LeavesLemma

\* The steps of a releaser that only look keep the invariant.
LEMMA LookLemma ==
  ASSUME QInv, NEW t \in Threads,
         \/ IsReleasePending(t) \/ CheckState(t) \/ LeaveLoop(t) \/ TryUnlock(t)
  PROVE  QInv'
<1>1. Moves(t)
  BY DEF QInv, QType, IsReleasePending, CheckState, LeaveLoop, TryUnlock, Moves, Step, queueVars, blockVars,
         lockVars, stateVars, Busy, Serving, Cancelling, HolderPcs, QueueHolderPcs, ReleasePcs, Waits,
         FramelessPcs, QueueTypeOK
<1>2. QED
  BY <1>1, MovesLemma

\* The release loop takes the front waiter out of the queue.
TakesFront(t) ==
  /\ list # <<>> /\ Step(t, "release", "lockParker")
  /\ entry' = Head(list) /\ list' = Tail(list)
  /\ UNCHANGED <<locked, pending, frontRequest, privateQueue, force, oldLen, grabbed, blockVars,
                 lockVars, ret>>

\* Its block is then in the hands of the releaser.
LEMMA TakesFrontLemma == ASSUME QInv, NEW t \in Threads, TakesFront(t) PROVE QInv'
<1> USE DEF QInv
<1>1. /\ pc[t] = "release" /\ pc'[t] = "lockParker" /\ \A s \in Threads \ {t} : pc'[s] = pc[s]
      /\ DOMAIN pc' = Threads
      /\ UNCHANGED <<locked, pending, frontRequest, privateQueue, force, oldLen, grabbed,
                     request, count, unparked, unlinked, lockGranted, wakeQueue, ret>>
  BY DEF TakesFront, Step, QType, blockVars, lockVars
<1>2. /\ locked = 1 /\ grabbed = <<>> /\ oldLen = 0
      /\ \A s \in Threads : pc[s] \in HolderPcs => s = t
  BY <1>1, HolderLemma DEF HolderPcs, ReleasePcs
<1>3. /\ entry' \in Threads /\ list' \in Seq(Threads) /\ Distinct(list') /\ ~In(entry', list')
      /\ \A s \in Threads : In(s, list) <=> s = entry' \/ In(s, list')
      /\ Len(list') \in Nat
  <2>1. /\ entry' \in Threads /\ list' \in Seq(Threads) /\ Distinct(list') /\ ~In(entry', list')
        /\ \A s \in Threads : In(s, list) <=> s = entry' \/ In(s, list')
    BY PopLemma DEF TakesFront, QType, QueueTypeOK, PlaceInv
  <2>2. QED
    BY <2>1
<1>4. \A s \in Threads : Reachable(s)' <=> Reachable(s)
  BY <1>1, <1>2, <1>3 DEF Reachable, Queued, HolderPcs, ReleasePcs
<1>5. \A s \in Threads : Waits(s)' <=> Waits(s)
  BY <1>1 DEF Waits, Cancelling, FramelessPcs
<1> USE <1>1
<1>6. QType'
  BY <1>3 DEF QType, QueueTypeOK
<1>7. LockInv'
  BY <1>2, <1>3 DEF LockInv, QueueLockExclusive, HolderPcs, QueueHolderPcs, ReleasePcs, Serving
<1>8. PlaceInv'
  BY <1>2, <1>3 DEF PlaceInv, Serves, HolderPcs, ReleasePcs
<1>9. LockerInv'
  BY DEF LockerInv, Lockers
<1>10. OwnerInv'
  BY <1>2, <1>4, <1>5 DEF OwnerInv, Cancelling, HolderPcs, ReleasePcs
<1>11. GrantInv'
  BY <1>2, <1>3, <1>4, <1>5 DEF GrantInv, Cancelling, HolderPcs, QueueHolderPcs
<1>12. FrontInv'
  BY <1>2 DEF FrontInv, HolderPcs, QueueHolderPcs
<1>13. QED
  BY <1>6, <1>7, <1>8, <1>9, <1>10, <1>11, <1>12

\* The releaser wins the parker, or unlinks the block of a wait that was cancelled.
LEMMA TryLockParkerLemma == ASSUME QInv, NEW t \in Threads, TryLockParker(t) PROVE QInv'
<1> USE DEF QInv
<1>1. /\ pc[t] = "lockParker" /\ \A s \in Threads \ {t} : pc'[s] = pc[s]
      /\ DOMAIN pc' = Threads /\ pc'[t] \in {"unpark", "undo"}
      /\ UNCHANGED <<locked, pending, list, frontRequest, privateQueue, force, oldLen, grabbed,
                     request, unparked, lockGranted, wakeQueue, entry, ret>>
  BY DEF TryLockParker, Step, QType, queueVars, lockVars, stateVars
<1>2. /\ locked = 1 /\ grabbed = <<>> /\ oldLen = 0
      /\ \A s \in Threads : pc[s] \in HolderPcs => s = t
      /\ \A s \in Threads \ {t} : pc[s] \notin Serving
  BY <1>1, HolderLemma DEF HolderPcs, ReleasePcs, Serving
<1>3. /\ entry \in Threads /\ Reachable(entry) /\ entry \notin Queued
  BY <1>1 DEF LockInv, Serving, Reachable, PlaceInv, Serves, Queued
<1>4. \A s \in Threads : Reachable(s)' <=> s # entry /\ Reachable(s)
  BY <1>1, <1>2, <1>3 DEF Reachable, Queued, Serving
<1>5. \A s \in Threads : Waits(s)' <=> Waits(s)
  BY <1>1 DEF Waits, Cancelling, FramelessPcs
<1>6. LockInv'
  BY <1>1, <1>2, <1>3 DEF LockInv, QueueLockExclusive, HolderPcs, QueueHolderPcs, ReleasePcs, Serving
<1>7. PlaceInv'
  BY <1>1, <1>2 DEF PlaceInv, Serves
<1>8. LockerInv'
  BY <1>1 DEF LockerInv, Lockers
<1>9. FrontInv'
  BY <1>1, <1>2 DEF FrontInv, HolderPcs, QueueHolderPcs
<1>10. CASE /\ pc'[t] = "unpark" /\ count[entry] = 1
            /\ count' = [count EXCEPT ![entry] = 0] /\ UNCHANGED unlinked
  <2>1. /\ count' \in [Threads -> {0, 1}] /\ count'[entry] = 0
        /\ \A s \in Threads \ {entry} : count'[s] = count[s]
    BY <1>3, <1>10 DEF QType, QueueTypeOK
  <2> USE <1>1, <1>10, <2>1
  <2>2. QType'
    BY DEF QType, QueueTypeOK
  <2>3. OwnerInv'
    BY <1>2, <1>3, <1>4, <1>5 DEF OwnerInv, Cancelling, Serving, Queued
  <2>4. GrantInv'
    BY <1>2, <1>3, <1>4, <1>5 DEF GrantInv, OwnerInv, Cancelling, HolderPcs, QueueHolderPcs, Waits, FramelessPcs
  <2>5. QED
    BY <1>6, <1>7, <1>8, <1>9, <2>2, <2>3, <2>4
<1>11. CASE /\ pc'[t] = "undo" /\ count[entry] = 0
            /\ unlinked' = [unlinked EXCEPT ![entry] = 1] /\ UNCHANGED count
  <2>1. /\ unlinked' \in [Threads -> {0, 1}] /\ unlinked'[entry] = 1
        /\ \A s \in Threads \ {entry} : unlinked'[s] = unlinked[s]
    BY <1>3, <1>11 DEF QType, QueueTypeOK
  <2> USE <1>1, <1>11, <2>1
  <2>2. QType'
    BY DEF QType, QueueTypeOK
  <2>3. OwnerInv'
    BY <1>2, <1>3, <1>4, <1>5 DEF OwnerInv, Cancelling, Serving, Queued
  <2>4. GrantInv'
    BY <1>2, <1>3, <1>4, <1>5 DEF GrantInv, OwnerInv, Cancelling, HolderPcs, QueueHolderPcs, Waits, FramelessPcs
  <2>5. QED
    BY <1>6, <1>7, <1>8, <1>9, <2>2, <2>3, <2>4
<1>12. QED
  BY <1>1, <1>10, <1>11 DEF TryLockParker, Step, QType

\* The waiter is unparked.
LEMMA UnparkLemma == ASSUME QInv, NEW t \in Threads, UnparkThread(t) PROVE QInv'
<1> USE DEF QInv
<1>1. /\ pc[t] = "unpark" /\ pc'[t] \in {"leave", "release"}
      /\ DOMAIN pc' = Threads /\ \A s \in Threads \ {t} : pc'[s] = pc[s]
      /\ entry' = NoThread
      /\ UNCHANGED <<locked, pending, list, frontRequest, privateQueue, force, oldLen, grabbed,
                     request, count, unlinked, lockGranted, wakeQueue, ret>>
  BY DEF UnparkThread, Step, QType, queueVars, lockVars
<1>2. /\ locked = 1 /\ grabbed = <<>> /\ oldLen = 0
      /\ \A s \in Threads : pc[s] \in HolderPcs => s = t
      /\ \A s \in Threads \ {t} : pc[s] \notin Serving
  BY <1>1, HolderLemma DEF HolderPcs, ReleasePcs, Serving
<1>3. /\ entry \in Threads /\ ~Reachable(entry) /\ Waits(entry) /\ count[entry] = 0
      /\ request[entry] # 0
      /\ unparked' \in [Threads -> {0, 1}] /\ unparked'[entry] = 1
      /\ \A s \in Threads \ {entry} : unparked'[s] = unparked[s]
  <2>1. entry \in Threads /\ Waits(entry) /\ count[entry] = 0 /\ request[entry] # 0
    BY <1>1 DEF LockInv, Serving, OwnerInv
  <2>2. ~Reachable(entry)
    BY <2>1 DEF OwnerInv, Waits, Cancelling, FramelessPcs
  <2>3. QED
    BY <2>1, <2>2 DEF UnparkThread, QType, QueueTypeOK
<1>4. \A s \in Threads : Reachable(s)' <=> Reachable(s)
  BY <1>1, <1>2 DEF Reachable, Queued, Serving
<1>5. \A s \in Threads : Waits(s)' <=> Waits(s)
  BY <1>1 DEF Waits, Cancelling, FramelessPcs
<1> USE <1>1, <1>3
<1>6. QType'
  BY DEF QType, QueueTypeOK
<1>7. LockInv'
  BY <1>2 DEF LockInv, QueueLockExclusive, HolderPcs, QueueHolderPcs, ReleasePcs, Serving
<1>8. PlaceInv'
  BY <1>2 DEF PlaceInv, Serves, Serving
<1>9. LockerInv'
  BY DEF LockerInv, Lockers
<1>10. OwnerInv'
  BY <1>2, <1>4, <1>5 DEF OwnerInv, Cancelling, Serving
<1>11. GrantInv'
  BY <1>4, <1>5 DEF GrantInv, Cancelling
<1>12. FrontInv'
  BY <1>2 DEF FrontInv, HolderPcs, QueueHolderPcs
<1>13. QED
  BY <1>6, <1>7, <1>8, <1>9, <1>10, <1>11, <1>12

\* The release loop undoes what it acquired for a cancelled wait.
Undoes(t) ==
  Step(t, "undo", "release") /\ entry' = NoThread /\ UNCHANGED <<queueVars, blockVars, lockVars, ret>>

\* The block is not reachable any more.
LEMMA UndoesLemma == ASSUME QInv, NEW t \in Threads, Undoes(t) PROVE QInv'
<1> USE DEF QInv, Undoes, Step, queueVars, blockVars, lockVars
<1>1. /\ locked = 1 /\ grabbed = <<>> /\ oldLen = 0
      /\ \A s \in Threads : pc[s] \in HolderPcs => s = t
      /\ \A s \in Threads \ {t} : pc[s] \notin Serving
  BY HolderLemma DEF HolderPcs, ReleasePcs, Serving
<1>2. QType'
  BY DEF QType, QueueTypeOK
<1>3. LockInv'
  BY <1>1 DEF QType, LockInv, QueueLockExclusive, HolderPcs, QueueHolderPcs, ReleasePcs, Serving
<1>4. PlaceInv'
  BY <1>1 DEF QType, PlaceInv, Serves, Serving
<1>5. LockerInv'
  BY DEF QType, LockerInv, Lockers
<1>6. OwnerInv'
  BY <1>1 DEF QType, OwnerInv, Reachable, Queued, Cancelling, Waits, FramelessPcs, Serving
<1>7. GrantInv'
  BY <1>1 DEF QType, GrantInv, Reachable, Queued, Cancelling, Waits, FramelessPcs, Serving
<1>8. FrontInv'
  BY DEF QType, FrontInv, FrontRequest
<1>9. QED
  BY <1>2, <1>3, <1>4, <1>5, <1>6, <1>7, <1>8

-----------------------------------------------------------------------------
(* All of it. *)

\* Initially nobody waits.
LEMMA QInvInitially == ASSUME RequestsAssumption, SyncInit PROVE QInv
<1> USE DEF SyncInit, QueueInit
<1>1. /\ \A x : ~In(x, pending) /\ ~In(x, list) /\ ~In(x, grabbed) /\ ~In(x, privateQueue)
      /\ \A s \in Threads : wakeQueue[s] = <<>> /\ ~In(s, wakeQueue[s]) /\ Distinct(wakeQueue[s])
      /\ Distinct(<<>>) /\ Len(list) = 0
  BY SmallStacks, EmptySeq
<1>2. QType
  BY DEF QType, QueueTypeOK
<1>3. LockInv
  BY <1>1 DEF LockInv, QueueLockExclusive, HolderPcs, QueueHolderPcs, ReleasePcs, Serving
<1>4. PlaceInv
  BY <1>1 DEF PlaceInv, Serves
<1>5. LockerInv
  BY <1>1, SmallStacks DEF LockerInv, Lockers
<1>6. OwnerInv
  BY <1>1 DEF OwnerInv, Reachable, Queued
<1>7. GrantInv
  BY DEF GrantInv, Waits, FramelessPcs, Cancelling
<1>8. FrontInv
  BY DEF FrontInv, FrontRequest
<1>9. QED
  BY <1>2, <1>3, <1>4, <1>5, <1>6, <1>7, <1>8 DEF QInv

\* The steps of the queue keep the invariant.
LEMMA QueueLemma ==
  ASSUME QInv, NEW t \in Threads, QueueStep(t) \/ ProcessDone(t, "release"), UNCHANGED <<entry, ret>>
  PROVE  QInv'
BY EnqueueLemma, UnlockPublishLemma, UnlockCasLemma, UnlockGrabLemma, ProcessLemma, ProcessDoneLemma,
   WakeLockerLemma, LockTestLemma, LockTryLemma, LockUnparkedLemma DEF QueueStep

\* So does trying its lock.
LEMMA TryLockLockedQueueLemma ==
  ASSUME QInv, NEW t \in Threads, TryLockLockedQueue(t, "release", ret[t]), UNCHANGED <<entry, ret>>
  PROVE  QInv'
<1>1. CASE TakeLock /\ Step(t, "tryLock", "release")
  BY <1>1, TryLockLemma DEF TryLockLockedQueue
<1>2. CASE Step(t, "tryLock", ret[t]) /\ UNCHANGED <<locked, frontRequest, privateQueue>>
  <2>1. Moves(t)
    BY <1>2 DEF TryLockLockedQueue, QInv, QType, Moves, Step, queueVars, blockVars, lockVars, Busy, Serving,
                Cancelling, HolderPcs, QueueHolderPcs, ReleasePcs, Waits, FramelessPcs, QueueTypeOK
  <2>2. QED
    BY <2>1, MovesLemma
<1>3. QED
  BY <1>1, <1>2 DEF TryLockLockedQueue

\* What the synchronizers take over from the queue keeps the invariant.
LEMMA AcquireLemma ==
  ASSUME QInv, NEW t \in Threads,
         TryAcquire(t) \/ AcquireTail(t) \/ ParkCancelled(t) \/ TryLockParker(t) \/ UnparkThread(t)
  PROVE  QInv'
BY TryLemma, TryFailsLemma, EnqueuedLemma, ParkSuccessLemma, CancelAcquireLemma, ParkCancelledLemma,
   TryLockParkerLemma, UnparkLemma DEF AcquireTail

\* Every step inside an operation keeps the invariant.
LEMMA SyncLemma == ASSUME QInv, NEW t \in Threads, SyncStep(t) PROVE QInv'
<1>1. CASE Queue(t)
  BY <1>1, QueueLemma, TryLockLockedQueueLemma DEF Queue, stateVars
<1>2. CASE TryAcquire(t) \/ AcquireTail(t)
  BY <1>2, AcquireLemma
<1>3. CASE AcquireForFront(t)
  <2>1. TakesFront(t)
    BY <1>3 DEF AcquireForFront, FrontCanAcquire, TakesFront
  <2>2. QED
    BY <2>1, TakesFrontLemma
<1>4. CASE UndoAcquire(t)
  <2>1. Undoes(t)
    BY <1>4 DEF UndoAcquire, Undoes
  <2>2. QED
    BY <2>1, UndoesLemma
<1>5. QED
  BY <1>1, <1>2, <1>3, <1>4, AcquireLemma, LookLemma DEF SyncStep, ReleaseWaiters

\* The invariant is about these variables.
LEMMA StutterLemma ==
  ASSUME QInv, UNCHANGED <<queueVars, blockVars, lockVars, pc, entry, ret>>
  PROVE  QInv'
BY DEF QInv, QType, QueueTypeOK, LockInv, QueueLockExclusive, PlaceInv, Serves, LockerInv, Lockers, OwnerInv,
       GrantInv, Waits, Reachable, Queued, FrontInv, FrontRequest, queueVars, blockVars, lockVars

-----------------------------------------------------------------------------
(* The properties of every synchronizer of this kind. *)

\* The event's Set takes the lock of the queue without a wait block of its own.
AskedInv == \A t \in Threads : pc[t] \in Cancelling => request[t] # 0

\* No other operation does that.
LEMMA AskedLemma ==
  ASSUME RequestsAssumption, QInv, AskedInv, NEW t \in Threads,
         \/ SyncStep(t) \/ ParkCancelled(t) \/ \E r \in Requests : Call(t, r)
         \/ \E new, look : Give(t, new, look) /\ pc[t] \in {"holding", "out"}
                              /\ (ForgetBlock(t) \/ UNCHANGED blockVars)
  PROVE  AskedInv'
<1> USE DEF QInv, QType, AskedInv, Cancelling, Step
<1>1. CASE Queue(t)
  BY <1>1, ZenonT(30) DEF Queue, QueueStep, EnqueueInLockedQueue, UnlockPublish, UnlockCas, Freed, UnlockGrab, ProcessLockQueue,
     ProcessDone, WakeLocker, TryLockLockedQueue, LockTest, LockTry, LockUnparked, queueVars, blockVars, QueueTypeOK
<1>2. CASE TryAcquire(t) \/ AcquireTail(t) \/ ReleaseWaiters(t)
  BY <1>2, SMTT(30) DEF TryAcquire, AcquireTail, ReleaseWaiters, TryRead, TryEmpty, TryCas, TryFails, ForgetBlock, Enqueued,
     ParkSuccess, CancelAcquire, IsReleasePending, CheckState, AcquireForFront, TryLockParker, UnparkThread,
     UndoAcquire, LeaveLoop, TryUnlock, queueVars, blockVars, QueueTypeOK
<1>3. CASE ParkCancelled(t)
  BY <1>3 DEF ParkCancelled, GrantInv, Waits
<1>4. ASSUME NEW r \in Requests, Call(t, r) PROVE AskedInv'
  BY <1>4 DEF Call, QueueTypeOK
<1>5. ASSUME NEW new, NEW look, Give(t, new, look), ForgetBlock(t) \/ UNCHANGED blockVars PROVE AskedInv'
  BY <1>5 DEF Give, ForgetBlock, blockVars, QueueTypeOK
<1>6. QED
  BY <1>1, <1>2, <1>3, <1>4, <1>5 DEF SyncStep

\* What is reachable is alive, and the lock of the queue is exclusive.
LEMMA SoundLemma ==
  ASSUME QInv
  PROVE  QueueLockExclusive /\ BlockLifetime /\ (AskedInv => RemoveListed)
<1> USE DEF QInv
<1>1. \A t \in Threads : Waits(t) \/ pc[t] \in Cancelling => WaitFrame(t)
  BY DEF Waits, Cancelling, WaitFrame, FramelessPcs
<1>2. BlockLifetime
  BY <1>1 DEF BlockLifetime, OwnerInv, LockerInv, LockInv, Reachable, Queued, Serving
<1>3. ASSUME AskedInv PROVE RemoveListed
  <2> SUFFICES ASSUME NEW t \in Threads, pc[t] = "remove", unlinked[t] = 0 PROVE In(t, list)
    BY DEF RemoveListed
  <2>1. Reachable(t) /\ ~In(WaitBlock(t), pending) /\ ~In(WaitBlock(t), grabbed)
    BY <1>3 DEF AskedInv, Cancelling, GrantInv, OwnerInv
  <2>2. \A h \in Threads : pc[h] # "lockParker"
    BY HolderLemma DEF HolderPcs, QueueHolderPcs, ReleasePcs
  <2>3. QED
    BY <2>1, <2>2 DEF Reachable, Queued
<1>4. QED
  BY <1>2, <1>3 DEF LockInv

-----------------------------------------------------------------------------
(* No lost wakeup. *)

\* t will find out that the state allows the request of the front waiter.
Fresh(t) ==
  \/ pc[t] \in {"wakeLockers", "check", "tryLock"}
  \/ pc[t] = "checkState" /\ seen[t] = FrontRequest

StarveInv ==
  locked = 0 /\ list # <<>> /\ Available(state, FrontRequest) => \E t \in Threads : Fresh(t)

\* A step inside an operation leaves somebody who will look, or a front that cannot be satisfied.
LEMMA StarveStepLemma ==
  ASSUME RequestsAssumption, QInv, DOMAIN seen = Threads, StarveInv, NEW t \in Threads, SyncStep(t),
         \A r, q \in Requests : Available(Take(state, r), q) => Available(state, q)
  PROVE  StarveInv'
<1> SUFFICES ASSUME locked' = 0, list' # <<>>, Available(state, FrontRequest)'
             PROVE  \E u \in Threads : Fresh(u)'
  BY DEF StarveInv
<1> USE DEF QInv, Step
<1>1. CASE locked # 0
  <2>1. UnlockCas(t)
    BY <1>1 DEF SyncStep, Queue, QueueStep, EnqueueInLockedQueue, UnlockPublish, UnlockGrab, ProcessLockQueue,
       ProcessDone, WakeLocker, TryLockLockedQueue, LockTest, LockTry, LockUnparked, TakeLock, TryAcquire,
       AcquireTail, ReleaseWaiters, TryRead, TryEmpty, TryCas, TryFails, Enqueued,
       ParkSuccess, CancelAcquire, IsReleasePending, CheckState, AcquireForFront, TryLockParker, UnparkThread,
       UndoAcquire, LeaveLoop, TryUnlock, queueVars
  <2>2. pc'[t] \in {"check", "wakeLockers"}
    BY <1>1, <2>1 DEF UnlockCas, Freed, QType
  <2>3. QED
    BY <2>2 DEF Fresh
<1>2. CASE locked = 0
  <2>1. /\ frontRequest = FrontRequest /\ pc[t] \notin HolderPcs
        /\ list # <<>> => Head(list) \in Threads /\ In(Head(list), list)
    BY <1>2, FreeLemma, PopLemma DEF FrontInv, QType, QueueTypeOK
  <2>2. \/ pc[t] \in {"enqueue", "lockTest", "lockTry", "lockParked", "try", "tryEmpty", "tryCas", "parked"}
        \/ pc[t] = "wakeLockers" /\ WakeLocker(t) /\ UNCHANGED stateVars
        \/ pc[t] = "tryLock" /\ TryLockLockedQueue(t, "release", ret[t]) /\ UNCHANGED stateVars
        \/ IsReleasePending(t) \/ CheckState(t)
    BY <2>1 DEF SyncStep, Queue, QueueStep, EnqueueInLockedQueue, UnlockPublish, UnlockCas, Freed, UnlockGrab,
       ProcessLockQueue, ProcessDone, WakeLocker, TryLockLockedQueue, LockTest, LockTry, LockUnparked, TryAcquire,
       AcquireTail, ReleaseWaiters, TryRead, TryEmpty, TryCas, TryFails, Enqueued,
       ParkSuccess, CancelAcquire, AcquireForFront, TryLockParker, UnparkThread,
       UndoAcquire, LeaveLoop, TryUnlock, HolderPcs, QueueHolderPcs, ReleasePcs
  <2>3. /\ list' = list /\ \A u \in Threads \ {t} : pc'[u] = pc[u] /\ seen'[u] = seen[u] /\ request'[u] = request[u]
        /\ request' = request \/ pc[t] \in FramelessPcs
        /\ state' = state \/ (state' = Take(state, request[t]) /\ pc[t] = "tryCas")
    <3>1. CASE Queue(t)
      BY <1>2, <2>1, <3>1 DEF Queue, QueueStep, EnqueueInLockedQueue, UnlockPublish, UnlockCas, Freed, UnlockGrab,
         ProcessLockQueue, ProcessDone, WakeLocker, TryLockLockedQueue, LockTest, LockTry, LockUnparked, TakeLock,
         HolderPcs, QueueHolderPcs, ReleasePcs, QType, queueVars, blockVars, stateVars
    <3>2. CASE TryAcquire(t) \/ AcquireTail(t)
      BY <2>1, <3>2 DEF TryAcquire, AcquireTail, TryRead, TryEmpty, TryCas, TryFails, Enqueued, ForgetBlock,
         ParkSuccess, CancelAcquire, HolderPcs, QueueHolderPcs, ReleasePcs, QType, QueueTypeOK, queueVars, blockVars,
         stateVars, FramelessPcs
    <3>3. CASE ReleaseWaiters(t)
      BY <2>1, <3>3 DEF ReleaseWaiters, IsReleasePending, CheckState, AcquireForFront, TryLockParker, UnparkThread,
         UndoAcquire, LeaveLoop, TryUnlock, HolderPcs, ReleasePcs, QType, queueVars, blockVars, stateVars
    <3>4. QED
      BY <3>1, <3>2, <3>3 DEF SyncStep
  <2>4. FrontRequest' = FrontRequest /\ FrontRequest \in Requests
    <3>1. pc[t] \in FramelessPcs => Head(list) # t
      BY <2>3, FramelessLemma
    <3>2. request[Head(list)] \in Requests
      BY <2>1, <2>3 DEF OwnerInv, Reachable, Queued, QType, QueueTypeOK
    <3>3. QED
      BY <2>1, <2>3, <3>1, <3>2 DEF FrontRequest
  <2>5. list # <<>> /\ Available(state, FrontRequest)
    <3>1. CASE state' = state
      BY <2>3, <2>4, <3>1
    <3>2. CASE state' = Take(state, request[t]) /\ pc[t] = "tryCas"
      <4>1. request[t] \in Requests
        BY <3>2 DEF GrantInv, QType, QueueTypeOK
      <4>2. QED
        BY <2>3, <2>4, <3>2, <4>1
    <3>3. QED
      BY <2>3, <3>1, <3>2
  <2>6. PICK u \in Threads : Fresh(u)
    BY <1>2, <2>3, <2>5 DEF StarveInv
  <2>7. CASE u # t
    BY <2>3, <2>4, <2>6, <2>7 DEF Fresh
  <2>8. CASE u = t
    <3>1. CASE pc[t] = "wakeLockers"
      <4>1. pc'[t] \in {"check", "wakeLockers"}
        BY <2>2, <3>1 DEF WakeLocker, IsReleasePending, CheckState, QType
      <4>2. QED
        BY <4>1 DEF Fresh
    <3>2. CASE pc[t] = "check"
      <4>1. pc'[t] = "checkState" /\ seen'[t] = FrontRequest'
        BY <2>1, <2>2, <2>4, <2>5, <3>2 DEF IsReleasePending, CheckState, QType, FrontInv, RequestsAssumption
      <4>2. QED
        BY <4>1 DEF Fresh
    <3>3. CASE pc[t] = "tryLock"
      BY <1>2, <2>2, <3>3 DEF TryLockLockedQueue, TakeLock, IsReleasePending, CheckState
    <3>4. CASE pc[t] = "checkState" /\ seen[t] = FrontRequest
      <4>1. pc'[t] = "tryLock"
        BY <2>2, <2>5, <3>4 DEF IsReleasePending, CheckState, QType
      <4>2. QED
        BY <4>1 DEF Fresh
    <3>5. QED
      BY <2>6, <2>8, <3>1, <3>2, <3>3, <3>4 DEF Fresh
  <2>9. QED
    BY <2>7, <2>8
<1>3. QED
  BY <1>1, <1>2

\* So does a call, or giving up.
LEMMA StarveCallLemma ==
  ASSUME RequestsAssumption, QInv, DOMAIN seen = Threads, StarveInv, NEW t \in Threads,
         ParkCancelled(t) \/ \E r \in Requests : Call(t, r)
  PROVE  StarveInv'
<1>1. FrontRequest' = FrontRequest
  BY FramelessLemma, PopLemma DEF ParkCancelled, Call, Step, FramelessPcs, FrontRequest, queueVars, QInv, QType, QueueTypeOK
<1>2. \A u \in Threads : Fresh(u) => Fresh(u)'
  BY <1>1 DEF ParkCancelled, Call, Step, Fresh, stateVars, QInv, QType
<1>3. UNCHANGED <<locked, list, state>>
  BY DEF ParkCancelled, Call, queueVars, stateVars
<1>4. QED
  BY <1>1, <1>2, <1>3 DEF StarveInv

\* So does a release that looks at the queue, or gives the front waiter nothing.
LEMMA StarveGiveLemma ==
  ASSUME RequestsAssumption, QInv, DOMAIN seen = Threads, StarveInv,
         NEW t \in Threads, NEW new, NEW look, Give(t, new, look),
         pc[t] \in {"holding", "out"}, ForgetBlock(t) \/ UNCHANGED blockVars,
         look \/ (Available(new, FrontRequest) => Available(state, FrontRequest))
  PROVE  StarveInv'
<1>1. FrontRequest' = FrontRequest
  <2>1. list # <<>> => Head(list) # t /\ Head(list) \in Threads
    BY FramelessLemma, PopLemma DEF FramelessPcs, QInv, QType, QueueTypeOK
  <2>2. QED
    BY <2>1 DEF Give, ForgetBlock, FrontRequest, queueVars, blockVars, QInv, QType, QueueTypeOK
<1>2. \A u \in Threads : Fresh(u) => Fresh(u)'
  BY <1>1 DEF Give, Fresh, QInv, QType
<1>3. CASE look
  <2>1. pc'[t] = "check"
    BY <1>3 DEF Give, QInv, QType
  <2>2. QED
    BY <2>1 DEF StarveInv, Fresh
<1>4. CASE Available(new, FrontRequest) => Available(state, FrontRequest)
  <2>1. UNCHANGED <<locked, list>> /\ state' = new
    BY DEF Give, queueVars
  <2>2. QED
    BY <1>1, <1>2, <1>4, <2>1 DEF StarveInv
<1>5. QED
  BY <1>3, <1>4

\* Hence the front waiter is not forgotten.
LEMMA ServedLemma == ASSUME QInv, StarveInv PROVE NoStarvedFront
BY DEF StarveInv, NoStarvedFront, Fresh, Looking, FrontRequest

-----------------------------------------------------------------------------
(* Who has been granted what. *)

\* t has what it asked for, whether it has woken up or not.
Has(t) == pc[t] = "holding" \/ unparked[t] = 1

\* What a releaser has in its hands for a waiter is that waiter's request; and a direct
\* attempt is made with a state that allows it.
TakenInv ==
  /\ DOMAIN seen = Threads
  /\ (\A h \in Threads : pc[h] \notin Serving) => taken = 0
  /\ \A h \in Threads : pc[h] \in Serving => taken \in Requests
  /\ \A h, t \in Threads : Serves(h, t) => taken = request[t]
  /\ \A t \in Threads : pc[t] \in {"tryEmpty", "tryCas"} => Available(seen[t], request[t])

\* Nobody but the threads of S gets or gives up anything.
Keeps(S) == \A s \in Threads \ S : (Has(s)' <=> Has(s)) /\ (Has(s) => request'[s] = request[s])

\* No grant.
Quiet == UNCHANGED <<state, taken>> /\ Keeps({})

\* A direct acquire.
Takes(t) ==
  /\ pc[t] = "tryCas" /\ request[t] \in Requests /\ Available(state, request[t])
  /\ state' = Take(state, request[t]) /\ taken' = taken
  /\ ~Has(t) /\ Has(t)' /\ request'[t] = request[t] /\ Keeps({t})

\* The grant in the hands of a releaser goes to its waiter.
Grants(t) ==
  /\ taken \in Requests /\ taken' = 0 /\ state' = state
  /\ \E e \in Threads : ~Has(e) /\ Has(e)' /\ request'[e] = taken /\ Keeps({e})

\* Steps that the event shares with the others.
LEMMA QuietQueueLemma ==
  ASSUME QInv, TakenInv, NEW t \in Threads, UNCHANGED stateVars,
         \/ QueueStep(t) \/ ProcessDone(t, "release") \/ TryLockLockedQueue(t, "release", ret[t])
         \/ TryLockLockedQueue(t, "release", "out")
  PROVE  TakenInv' /\ Quiet
<1> USE DEF QInv, QType
<1>1. /\ \A s \in Threads \ {t} : pc'[s] = pc[s]
      /\ pc[t] \notin Serving \cup {"holding", "tryEmpty", "tryCas"}
      /\ pc'[t] \notin Serving \cup {"holding", "tryEmpty", "tryCas"}
      /\ UNCHANGED <<unparked, request>>
  BY DEF QueueStep, EnqueueInLockedQueue, UnlockPublish, UnlockCas, Freed, UnlockGrab, ProcessLockQueue,
     ProcessDone, WakeLocker, TryLockLockedQueue, LockTest, LockTry, LockUnparked, Step, Serving, blockVars
<1>2. UNCHANGED <<state, seen, taken, entry>>
  BY DEF stateVars
<1>3. \A s \in Threads : /\ Has(s)' <=> Has(s)
                         /\ pc[s] \in Serving <=> pc'[s] \in Serving
                         /\ \A u \in Threads : Serves(s, u)' <=> Serves(s, u)
  BY <1>1, <1>2 DEF Has, Serves, Serving
<1>4. TakenInv'
  BY <1>1, <1>2, <1>3 DEF TakenInv
<1>5. QED
  BY <1>1, <1>2, <1>3, <1>4 DEF Quiet, Keeps

\* The other steps that grant nothing.
LEMMA QuietAcquireLemma ==
  ASSUME QInv, TakenInv, NEW t \in Threads,
         \/ AcquireTail(t) \/ ParkCancelled(t) \/ TryRead(t) \/ TryEmpty(t) \/ IsReleasePending(t)
         \/ CheckState(t) \/ LeaveLoop(t) \/ TryUnlock(t) \/ \E r \in Requests : Call(t, r)
  PROVE  TakenInv' /\ Quiet
<1> USE DEF QInv, QType
<1>1. /\ \A s \in Threads \ {t} : /\ pc'[s] = pc[s] /\ request'[s] = request[s] /\ seen'[s] = seen[s]
                                   /\ unparked'[s] = unparked[s]
      /\ pc[t] \notin Serving \cup {"holding"} /\ pc'[t] \notin Serving
      /\ UNCHANGED <<state, taken, entry>> /\ DOMAIN seen' = Threads
  BY DEF AcquireTail, TryFails, ForgetBlock, Enqueued, ParkSuccess, CancelAcquire, ParkCancelled, TryRead,
     TryEmpty, IsReleasePending, CheckState, LeaveLoop, TryUnlock, Call, Step, Serving, blockVars, stateVars,
     TakenInv, QueueTypeOK
<1>2. pc'[t] \in {"tryEmpty", "tryCas"} => Available(seen'[t], request'[t])
  BY DEF AcquireTail, TryFails, ForgetBlock, Enqueued, ParkSuccess, CancelAcquire, ParkCancelled, TryRead,
     TryEmpty, IsReleasePending, CheckState, LeaveLoop, TryUnlock, Call, Step, blockVars, stateVars, TakenInv
<1>3. /\ Has(t)' <=> Has(t)
      /\ Has(t) => request'[t] = request[t]
      /\ request'[t] = request[t] \/ pc[t] \in FramelessPcs
  <2>1. CASE TryFails(t) \/ \E r \in Requests : Call(t, r)
    <3>1. pc[t] \in {"try", "tryEmpty", "out"} /\ pc[t] \in FramelessPcs
      BY <2>1 DEF TryFails, Call, Step, FramelessPcs
    <3>2. ~Has(t)
      BY <3>1, FramelessLemma DEF Has, GrantInv
    <3>3. ~Has(t)'
      BY <2>1, <3>2 DEF TryFails, Call, Step, ForgetBlock, Has, QueueTypeOK
    <3>4. QED
      BY <3>1, <3>2, <3>3
  <2>2. CASE ParkSuccess(t)
    BY <2>2 DEF ParkSuccess, Step, Has, blockVars
  <2>3. CASE /\ UNCHANGED <<unparked, request>> /\ pc'[t] # "holding"
    BY <1>1, <2>3 DEF Has
  <2>4. QED
    BY <2>1, <2>2, <2>3 DEF AcquireTail, Enqueued, CancelAcquire, ParkCancelled, TryRead, TryEmpty,
       IsReleasePending, CheckState, LeaveLoop, TryUnlock, Step, blockVars, TakenInv, QueueTypeOK
<1>4. \A s \in Threads : pc[s] \in Serving <=> pc'[s] \in Serving
  BY <1>1
<1>5. \A h, s \in Threads : Serves(h, s)' => Serves(h, s) /\ request'[s] = request[s]
  BY <1>1, <1>3, FramelessLemma DEF Serves, Serving
<1>6. TakenInv'
  BY <1>1, <1>2, <1>4, <1>5 DEF TakenInv
<1>7. \A s \in Threads : (Has(s)' <=> Has(s)) /\ (Has(s) => request'[s] = request[s])
  BY <1>1, <1>3 DEF Has
<1>8. QED
  BY <1>1, <1>6, <1>7 DEF Quiet, Keeps

\* A direct acquire, or an attempt that has to start again.
LEMMA TakesLemma ==
  ASSUME QInv, TakenInv, NEW t \in Threads, TryCas(t)
  PROVE  TakenInv' /\ (Takes(t) \/ Quiet)
<1> USE DEF QInv, QType, QueueTypeOK
<1>1. /\ pc[t] = "tryCas" /\ pc'[t] \in {"holding", "try"}
      /\ \A s \in Threads \ {t} : pc'[s] = pc[s] /\ seen'[s] = seen[s]
      /\ DOMAIN seen' = Threads /\ UNCHANGED <<request, unparked, entry, taken>>
  BY DEF TryCas, Step, TakenInv, blockVars
<1>2. ~Has(t)
  BY <1>1, FramelessLemma DEF Has, GrantInv, FramelessPcs
<1>3. TakenInv'
  BY <1>1 DEF TakenInv, Serves, Serving
<1>4. Takes(t) \/ Quiet
  <2>1. \A s \in Threads \ {t} : Has(s)' <=> Has(s)
    BY <1>1 DEF Has
  <2>2. CASE state = seen[t] /\ pc'[t] = "holding" /\ state' = Take(state, request[t])
    BY <1>1, <1>2, <2>1, <2>2 DEF Takes, Has, Keeps, TakenInv, GrantInv
  <2>3. CASE pc'[t] = "try" /\ UNCHANGED state
    BY <1>1, <1>2, <2>1, <2>3 DEF Quiet, Has, Keeps
  <2>4. QED
    BY <2>2, <2>3 DEF TryCas, Step
<1>5. QED
  BY <1>3, <1>4

\* Locking the parker of the waiter is not the grant ...
LEMMA QuietLockParkerLemma ==
  ASSUME QInv, TakenInv, NEW t \in Threads, TryLockParker(t)
  PROVE  TakenInv' /\ Quiet
<1> USE DEF QInv, QType
<1>1. /\ pc[t] = "lockParker" /\ pc'[t] \in {"unpark", "undo"}
      /\ \A s \in Threads \ {t} : pc'[s] = pc[s]
      /\ UNCHANGED <<request, unparked, entry, state, seen, taken>>
  BY DEF TryLockParker, Step, stateVars
<1>2. TakenInv'
  BY <1>1 DEF TakenInv, Serves, Serving
<1>3. QED
  BY <1>1, <1>2 DEF Quiet, Keeps, Has

\* ... unparking it is.
LEMMA GrantsLemma ==
  ASSUME QInv, TakenInv, NEW t \in Threads, UnparkThread(t)
  PROVE  TakenInv' /\ Grants(t)
<1> USE DEF QInv, QType, QueueTypeOK
<1>1. /\ pc[t] = "unpark" /\ pc'[t] \in {"leave", "release"}
      /\ \A s \in Threads \ {t} : pc'[s] = pc[s] /\ pc[s] \notin Serving
      /\ UNCHANGED <<request, state, seen>> /\ taken' = 0
  <2>1. \A s \in Threads \ {t} : pc[s] \notin Serving
    BY HolderLemma DEF UnparkThread, Step, HolderPcs, ReleasePcs, Serving
  <2>2. QED
    BY <2>1 DEF UnparkThread, Step
<1>2. PICK e \in Threads : e = entry
  BY <1>1 DEF LockInv, Serving
<1>3. /\ taken = request[e] /\ taken \in Requests /\ unparked[e] = 0 /\ Waits(e)
      /\ unparked'[e] = 1 /\ \A s \in Threads \ {e} : unparked'[s] = unparked[s]
  BY <1>1, <1>2 DEF TakenInv, Serves, Serving, OwnerInv, UnparkThread
<1>4. ~Has(e) /\ Has(e)' /\ \A s \in Threads \ {e} : Has(s)' <=> Has(s)
  <2>1. pc[e] # "holding"
    BY <1>3 DEF Waits, FramelessPcs
  <2>2. \A s \in Threads : pc'[s] = "holding" <=> pc[s] = "holding"
    BY <1>1
  <2>3. QED
    BY <1>3, <2>1, <2>2 DEF Has
<1>5. TakenInv'
  BY <1>1 DEF TakenInv, Serves, Serving
<1>6. Keeps({e})
  BY <1>1, <1>4 DEF Keeps
<1>7. QED
  BY <1>1, <1>3, <1>4, <1>5, <1>6 DEF Grants

\* The release loop acquires for the front waiter ...
LEMMA TakesFrontTakenLemma ==
  ASSUME QInv, TakenInv, NEW t \in Threads, TakesFront(t), taken' = request[Head(list)], UNCHANGED seen
  PROVE  TakenInv' /\ Keeps({}) /\ taken = 0 /\ taken' \in Requests
<1> USE DEF QInv, QType, QueueTypeOK
<1>1. /\ pc[t] = "release" /\ pc'[t] = "lockParker"
      /\ \A s \in Threads \ {t} : pc'[s] = pc[s] /\ pc[s] \notin Serving
      /\ UNCHANGED <<request, unparked, seen>> /\ taken' = request[entry']
  <2>1. \A s \in Threads \ {t} : pc[s] \notin Serving
    BY HolderLemma DEF TakesFront, Step, HolderPcs, ReleasePcs, Serving
  <2>2. QED
    BY <2>1 DEF TakesFront, Step, blockVars
<1>2. taken = 0 /\ taken' \in Requests
  <2>1. entry' \in Threads /\ In(entry', list)
    BY PopLemma DEF TakesFront
  <2>2. QED
    BY <1>1, <2>1 DEF TakenInv, Serving, OwnerInv, Reachable, Queued
<1>3. TakenInv'
  BY <1>1, <1>2 DEF TakenInv, Serves, Serving
<1>4. QED
  BY <1>1, <1>2, <1>3 DEF Keeps, Has

\* ... or gives it back.
LEMMA UndoesTakenLemma ==
  ASSUME QInv, TakenInv, NEW t \in Threads, Undoes(t), taken' = 0, UNCHANGED seen
  PROVE  TakenInv' /\ Keeps({}) /\ taken \in Requests
<1> USE DEF QInv, QType, QueueTypeOK
<1>1. /\ pc[t] = "undo" /\ pc'[t] = "release"
      /\ \A s \in Threads \ {t} : pc'[s] = pc[s] /\ pc[s] \notin Serving
      /\ UNCHANGED <<request, unparked, seen>>
  <2>1. \A s \in Threads \ {t} : pc[s] \notin Serving
    BY HolderLemma DEF Undoes, Step, HolderPcs, ReleasePcs, Serving
  <2>2. QED
    BY <2>1 DEF Undoes, Step, blockVars
<1>2. TakenInv'
  BY <1>1 DEF TakenInv, Serves, Serving
<1>3. QED
  BY <1>1, <1>2 DEF Keeps, Has, TakenInv, Serving

\* A release gives up what its thread had, if anything.
LEMMA LeavesTakenLemma ==
  ASSUME QInv, TakenInv, NEW t \in Threads, Leaves(t), UNCHANGED <<taken, seen>>
  PROVE  TakenInv' /\ Keeps({t}) /\ ~Has(t)' /\ (Has(t) <=> pc[t] = "holding")
<1> USE DEF QInv, QType, QueueTypeOK
<1>1. /\ pc[t] \in {"holding", "out"} /\ pc'[t] \in {"out", "check", "lockTest"} /\ entry' = entry
      /\ \A s \in Threads \ {t} : pc'[s] = pc[s] /\ unparked'[s] = unparked[s] /\ request'[s] = request[s]
      /\ unparked'[t] = 0 \/ (unparked'[t] = unparked[t] /\ pc[t] = "out")
  BY DEF Leaves, ForgetBlock, blockVars
<1>2. /\ \A h \in Threads : ~Serves(h, t)
      /\ pc[t] = "out" => unparked[t] = 0
  BY <1>1, FramelessLemma DEF FramelessPcs, GrantInv
<1>3. \A h, s \in Threads : Serves(h, s)' <=> Serves(h, s)
  BY <1>1 DEF Serves
<1>4. \A h \in Threads : pc[h] \in Serving <=> pc'[h] \in Serving
  BY <1>1 DEF Serving
<1>5. TakenInv'
  BY <1>1, <1>2, <1>3, <1>4 DEF TakenInv
<1>6. QED
  BY <1>1, <1>2, <1>5 DEF Keeps, Has

\* The release loop takes for a waiter, or takes it back.
TakesForFront ==
  /\ taken = 0 /\ taken' \in Requests /\ Available(state, taken') /\ state' = Take(state, taken')
  /\ Keeps({})
GivesBack == taken \in Requests /\ taken' = 0 /\ state' = Undo(state, taken) /\ Keeps({})

\* What the steps inside the operations do to the state and to those who were granted it.
LEMMA EffectLemma ==
  ASSUME QInv, TakenInv, NEW t \in Threads,
         SyncStep(t) \/ ParkCancelled(t) \/ \E r \in Requests : Call(t, r)
  PROVE  TakenInv' /\ (Quiet \/ Takes(t) \/ Grants(t) \/ TakesForFront \/ GivesBack)
<1>1. CASE AcquireForFront(t)
  <2>1. TakesFront(t) /\ taken' = request[Head(list)] /\ UNCHANGED seen
    BY <1>1 DEF AcquireForFront, FrontCanAcquire, TakesFront
  <2>2. Available(state, taken') /\ state' = Take(state, taken')
    BY <1>1 DEF AcquireForFront, FrontCanAcquire
  <2>3. QED
    BY <2>1, <2>2, TakesFrontTakenLemma DEF TakesForFront
<1>2. CASE UndoAcquire(t)
  <2>1. Undoes(t) /\ taken' = 0 /\ UNCHANGED seen /\ state' = Undo(state, taken)
    BY <1>2 DEF UndoAcquire, Undoes
  <2>2. QED
    BY <2>1, UndoesTakenLemma DEF GivesBack
<1>3. CASE Queue(t)
  BY <1>3, QuietQueueLemma DEF Queue
<1>4. CASE TryCas(t)
  BY <1>4, TakesLemma
<1>5. CASE TryLockParker(t)
  BY <1>5, QuietLockParkerLemma
<1>6. CASE UnparkThread(t)
  BY <1>6, GrantsLemma
<1>7. QED
  BY <1>1, <1>2, <1>3, <1>4, <1>5, <1>6, QuietAcquireLemma DEF SyncStep, TryAcquire, ReleaseWaiters

\* A step inside an operation is not one of a thread that holds the synchronizer.
LEMMA HoldersLemma ==
  ASSUME QInv, NEW t \in Threads, SyncStep(t) \/ ParkCancelled(t) \/ \E r \in Requests : Call(t, r)
  PROVE  /\ \A s \in Threads \ {t} : pc'[s] = pc[s] /\ request'[s] = request[s]
         /\ pc[t] # "holding"
         /\ pc'[t] = "holding" => request'[t] = request[t]
<1> USE DEF QInv, QType, Step
<1>1. CASE Queue(t)
  BY <1>1 DEF Queue, QueueStep, EnqueueInLockedQueue, UnlockPublish, UnlockCas, Freed, UnlockGrab, ProcessLockQueue,
     ProcessDone, WakeLocker, TryLockLockedQueue, LockTest, LockTry, LockUnparked, blockVars
<1>2. CASE TryAcquire(t) \/ AcquireTail(t) \/ ReleaseWaiters(t)
  BY <1>2 DEF TryAcquire, AcquireTail, ReleaseWaiters, TryRead, TryEmpty, TryCas, TryFails, ForgetBlock, Enqueued,
     ParkSuccess, CancelAcquire, IsReleasePending, CheckState, AcquireForFront, TryLockParker, UnparkThread,
     UndoAcquire, LeaveLoop, TryUnlock, blockVars, QueueTypeOK
<1>3. CASE ParkCancelled(t) \/ \E r \in Requests : Call(t, r)
  BY <1>3 DEF ParkCancelled, Call, QueueTypeOK
<1>4. QED
  BY <1>1, <1>2, <1>3 DEF SyncStep

\* A step to a control point of the same kind grants nothing.
LEMMA MovesTakenLemma ==
  ASSUME QInv, TakenInv, NEW t \in Threads, Moves(t), pc[t] \notin {"try", "tryEmpty", "tryCas"},
         UNCHANGED <<taken, seen>>
  PROVE  TakenInv' /\ Keeps({})
<1> USE DEF QInv, QType
<1>1. /\ \A s \in Threads \ {t} : pc'[s] = pc[s]
      /\ pc[t] \notin Serving \cup {"holding"}
      /\ pc'[t] \notin Serving \cup {"holding", "tryEmpty", "tryCas"}
      /\ UNCHANGED <<unparked, request, entry>>
  BY DEF Moves, Busy, Serving, blockVars
<1>2. TakenInv'
  BY <1>1 DEF TakenInv, Serves, Serving
<1>3. QED
  BY <1>1, <1>2 DEF Keeps, Has

\* A thread without a request has no wait block that could be unlinked.
LEMMA UnlinksLemma ==
  ASSUME QInv, NEW t \in Threads, TryLockParker(t) \/ ProcessLockQueue(t)
  PROVE  \A s \in Threads : request[s] = 0 => unlinked'[s] = unlinked[s]
<1> USE DEF QInv, QType, QueueTypeOK
<1>1. CASE TryLockParker(t)
  <2>1. entry \in Threads /\ Reachable(entry)
    BY <1>1 DEF TryLockParker, Step, LockInv, Serving, Reachable
  <2>2. request[entry] # 0
    BY <2>1 DEF OwnerInv
  <2>3. QED
    BY <1>1, <2>1, <2>2 DEF TryLockParker
<1>2. CASE ProcessLockQueue(t)
  <2>1. Head(grabbed) \in Blocks /\ In(Head(grabbed), grabbed)
    BY <1>2, PopLemma DEF ProcessLockQueue
  <2>2. PICK u \in Threads : Head(grabbed)[1] = u
    BY <2>1 DEF Blocks
  <2>3. Head(grabbed)[2] = "wait" => Head(grabbed) = WaitBlock(u)
    BY <2>1, <2>2 DEF Blocks, WaitBlock
  <2>4. Head(grabbed)[2] = "wait" => request[u] # 0
    BY <2>1, <2>3 DEF OwnerInv, Reachable, Queued
  <2>5. QED
    BY <1>2, <2>2, <2>4 DEF ProcessLockQueue
<1>3. QED
  BY <1>1, <1>2

\* Initially nothing is in anybody's hands.
LEMMA TakenInvInitially == ASSUME SyncInit PROVE TakenInv
BY DEF SyncInit, TakenInv, Serves, Serving
=============================================================================
