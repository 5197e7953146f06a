---------------------------- MODULE WaitsProofs -----------------------------
(***************************************************************************)
(* Theorems about the systems of MCWaits, for any set of threads: the      *)
(* reentrant lock, the condition variable with the lock of its monitor,    *)
(* the reentrant reader/writer lock with its resource tables, and the      *)
(* alerter.  Each has an inductive invariant, and the properties of the    *)
(* runs follow.  WaitablesProofs has those of the waits on several objects.*)
(***************************************************************************)
EXTENDS MCWaits, WaitListLemmas, FiniteSetTheorems, TLAPS

-----------------------------------------------------------------------------
(* The reentrant lock: an owner and a count over a lock that is a mutex.   *)

ReentrantTypes ==
  /\ innerHolder \in Threads \cup {NoThread} /\ Owner \in Threads \cup {NoThread}
  /\ Count \in Nat /\ at \in [Threads -> RLock!Inside \cup {"out", "wait", "condition"}]
  /\ saved \in [Threads -> Nat] /\ depth \in [Threads -> Nat]

\* A thread has acquisitions exactly while it holds the lock below.
InnerInv ==
  \A t \in Threads : /\ depth[t] > 0 <=> innerHolder = t
                     /\ at[t] \in RLock!Inside => innerHolder = t
                     /\ at[t] \in {"wait", "condition"} => innerHolder # t

\* The owner is recorded outside of the steps that surround an acquisition or a
\* release, and only then; the count is zero when no owner is recorded.
RecordInv ==
  /\ \A t \in Threads : Owner = t <=> innerHolder = t /\ at[t] = "out"
  /\ \A t \in Threads : Owner = t => Count = depth[t] - 1
  /\ Owner = NoThread => Count = 0

\* What a thread remembers of its count while it waits on a condition, and that an
\* acquisition brings back what was remembered.
SavedInv ==
  \A t \in Threads :
    /\ at[t] \in {"out", "wait", "acquired", "exit"} => saved[t] = 0
    /\ at[t] \in {"acquired", "reacquired"} => depth[t] = saved[t] + 1

ReentrantInv == ReentrantTypes /\ InnerInv /\ RecordInv /\ SavedInv

LEMMA ReentrantInit == RLock!Init => ReentrantInv
BY WaitsAssumption
   DEF WaitsAssumption, RLock!ReentrantLockAssumption, RLock!Init, ReentrantInv, ReentrantTypes,
       InnerInv, RecordInv, SavedInv, RLock!Inside

\* Every step of the lock keeps the invariant.
LEMMA ReentrantStep == ASSUME ReentrantInv, [RLock!Next]_RLock!vars PROVE ReentrantInv'
<1> USE WaitsAssumption DEF WaitsAssumption, RLock!ReentrantLockAssumption
<1> USE DEF ReentrantInv, ReentrantTypes, InnerInv, RecordInv, SavedInv, RLock!Inside, RLock!Goto
<1>1. ASSUME NEW t \in Threads, RLock!TryAcquireInternal(t) PROVE ReentrantInv'
  <2>1. CASE innerHolder = NoThread /\ RLock!Goto(t, "out", "acquired") /\ RLock!Acquire(t)
             /\ UNCHANGED <<Owner, Count, saved>>
    BY <2>1 DEF RLock!Acquire
  <2>2. CASE /\ at[t] = "out" /\ Owner = t
             /\ Count' = Count + 1 /\ depth' = [depth EXCEPT ![t] = @ + 1]
             /\ UNCHANGED <<innerHolder, Owner, at, saved>>
    BY <2>2
  <2>3. QED
    BY <1>1, <2>1, <2>2 DEF RLock!TryAcquireInternal, RLock!Acquire
<1>2. ASSUME NEW t \in Threads, RLock!Wait(t) PROVE ReentrantInv'
  BY <1>2 DEF RLock!Wait
<1>3. ASSUME NEW t \in Threads, RLock!WaitCancelled(t) PROVE ReentrantInv'
  BY <1>3 DEF RLock!WaitCancelled
<1>4. ASSUME NEW t \in Threads, RLock!WaitSucceeds(t) PROVE ReentrantInv'
  BY <1>4 DEF RLock!WaitSucceeds, RLock!Acquire
<1>5. ASSUME NEW t \in Threads, RLock!SetOwner(t) PROVE ReentrantInv'
  BY <1>5 DEF RLock!SetOwner
<1>6. ASSUME NEW t \in Threads, RLock!Exit(t) PROVE ReentrantInv'
  BY <1>6 DEF RLock!Exit
<1>7. ASSUME NEW t \in Threads, RLock!ExitLock(t) PROVE ReentrantInv'
  BY <1>7 DEF RLock!ExitLock
<1>8. ASSUME NEW t \in Threads, RLock!ReleaseCompletely(t) PROVE ReentrantInv'
  BY <1>8 DEF RLock!ReleaseCompletely
<1>9. ASSUME NEW t \in Threads, RLock!Reacquire(t) PROVE ReentrantInv'
  BY <1>9 DEF RLock!Reacquire, RLock!Acquire
<1>10. ASSUME NEW t \in Threads, RLock!RestoreCount(t) PROVE ReentrantInv'
  BY <1>10 DEF RLock!RestoreCount
<1>11. CASE UNCHANGED RLock!vars
  BY <1>11 DEF RLock!vars
<1> HIDE DEF ReentrantInv
<1>12. QED
  BY <1>1, <1>2, <1>3, <1>4, <1>5, <1>6, <1>7, <1>8, <1>9, <1>10, <1>11 DEF RLock!Next

\* The invariant of the lock, by itself and among the systems of MCWaits.
LEMMA ReentrantInvariance == RLock!Spec => []ReentrantInv
<1>1. ReentrantInv /\ [RLock!Next]_RLock!vars => ReentrantInv'
  BY ReentrantStep
<1>2. QED
  BY <1>1, ReentrantInit, PTL DEF RLock!Spec

ReentrantOK == which = "reentrant" => ReentrantInv

LEMMA ReentrantKeepsInvariant == MCSpec => []ReentrantOK
<1>1. MCInit => ReentrantOK
  BY ReentrantInit DEF MCInit, ReentrantOK
<1>2. ReentrantOK /\ [MCNext]_MCVars => ReentrantOK'
  BY ReentrantStep DEF MCNext, MCVars, reentrantOnly, ReentrantOK, RLock!vars
<1>3. QED
  BY <1>1, <1>2, PTL DEF MCSpec

\* Between calls the owner and the count of the reentrant lock say who holds it and how
\* often, and whoever has just acquired the lock below finds no owner and no count, as the
\* enter and reacquire functions assert: the part of NothingLost that is about it.
ReentrantCounts == which = "reentrant" => RLock!CountsRight /\ RLock!NobodyOwns

THEOREM ReentrantCountsAreRight == MCSpec => []ReentrantCounts
<1>1. ReentrantOK => ReentrantCounts
  BY WaitsAssumption
     DEF WaitsAssumption, RLock!ReentrantLockAssumption, ReentrantOK, ReentrantInv,
         ReentrantTypes, InnerInv, RecordInv, RLock!CountsRight, RLock!NobodyOwns,
         ReentrantCounts, RLock!Inside
<1>2. QED
  BY <1>1, ReentrantKeepsInvariant, PTL

\* The reentrant lock implements a mutex.
THEOREM ReentrantImplementsMutex == RLock!Spec => RLock!Exclusive
<1>1. RLock!Init => RLock!ReentrantMutex!Init
  BY DEF RLock!Init, RLock!ReentrantMutex!Init, RLock!holders
<1>2. ASSUME ReentrantInv, [RLock!Next]_RLock!vars
      PROVE  [RLock!ReentrantMutex!Next]_RLock!holders
  <2>1. RLock!holders = IF innerHolder = NoThread THEN {} ELSE {innerHolder}
    BY <1>2, WaitsAssumption
       DEF WaitsAssumption, RLock!ReentrantLockAssumption, ReentrantInv, ReentrantTypes,
           InnerInv, RLock!holders
  <2>2. RLock!holders' = IF innerHolder' = NoThread THEN {} ELSE {innerHolder'}
    <3>1. ReentrantInv'
      BY <1>2, ReentrantStep
    <3>2. QED
      BY <3>1, WaitsAssumption
         DEF WaitsAssumption, RLock!ReentrantLockAssumption, ReentrantInv, ReentrantTypes,
             InnerInv, RLock!holders
  <2>n. NoThread \notin Threads
    BY WaitsAssumption DEF WaitsAssumption, RLock!ReentrantLockAssumption
  <2>3. ASSUME NEW t \in Threads, RLock!Acquire(t) PROVE RLock!ReentrantMutex!Acquire(t)
    BY <2>n, <2>1, <2>2, <2>3 DEF RLock!Acquire, RLock!ReentrantMutex!Acquire
  <2>4. ASSUME NEW t \in Threads, RLock!ExitLock(t) PROVE RLock!ReentrantMutex!Release(t)
    BY <1>2, <2>n, <2>1, <2>2, <2>4
       DEF RLock!ExitLock, RLock!Goto, ReentrantInv, ReentrantTypes, InnerInv, RLock!Inside,
           RLock!ReentrantMutex!Release
  <2>5. CASE innerHolder' = innerHolder
    BY <2>1, <2>2, <2>5
  <2>6. CASE innerHolder' # innerHolder
    BY <1>2, <2>3, <2>4, <2>6
       DEF RLock!Next, RLock!vars, RLock!TryAcquireInternal, RLock!Wait, RLock!WaitSucceeds,
           RLock!WaitCancelled, RLock!SetOwner, RLock!Exit, RLock!ReleaseCompletely,
           RLock!Reacquire, RLock!RestoreCount, RLock!ReentrantMutex!Next
  <2>7. QED
    BY <2>5, <2>6
<1>3. QED
  BY <1>1, <1>2, ReentrantInvariance, PTL
     DEF RLock!Spec, RLock!Exclusive, RLock!ReentrantMutex!Spec

-----------------------------------------------------------------------------
(* The monitor. *)

Leaving   == {"unlink", "grab", "unparkAll", "spinUnlinked"}
Inside    == {"held", "notifiedAll"}
Returning == {"reacquire", "reacquireCancelled"}

MonitorTypes ==
  /\ busy \in {0, 1} /\ list \in Seq(Threads)
  /\ pc \in [Threads -> Monitors!Pcs \cup {"notifiedAll"}]
  /\ timeout \in [Threads -> {"FINITE", "INFINITE"}]
  /\ count \in [Threads -> {0, 1}] /\ unparked \in [Threads -> {0, 1}]
  /\ unlinked \in [Threads -> {0, 1}]
  /\ grabbed \in [Threads -> Seq(Threads)] /\ wakeStack \in [Threads -> Seq(Threads)]
  /\ waitList \in Seq(Threads)
  /\ phase \in [Threads -> {"none", "park"} \cup Returning]
  /\ notified \subseteq Threads /\ marked \subseteq Threads

\* Only a thread inside UnparkWaitList holds wait blocks, and the list of a
\* free lock is empty.
WalkInv ==
  /\ \A t \in Threads : pc[t] \notin {"exit", "unparkAll"} =>
       grabbed[t] = <<>> /\ wakeStack[t] = <<>>
  /\ list # <<>> => busy = 1

\* One thread at most is inside the monitor, and none when its lock is free.
HolderInv ==
  /\ \A t \in Threads : pc[t] \in Inside => busy = 1
  /\ \A s, t \in Threads : pc[s] \in Inside /\ pc[t] \in Inside => s = t

\* A wait block of the lock is in one place, once.
PlaceInv ==
  /\ Distinct(list)
  /\ \A s \in Threads : Distinct(grabbed[s]) /\ Distinct(wakeStack[s])
  /\ \A t, s \in Threads :
       In(t, list) => ~In(t, grabbed[s]) /\ ~In(t, wakeStack[s])
  /\ \A t, s, r \in Threads :
       /\ In(t, grabbed[s]) => ~In(t, wakeStack[r])
       /\ In(t, grabbed[s]) /\ In(t, grabbed[r]) => s = r
       /\ In(t, wakeStack[s]) /\ In(t, wakeStack[r]) => s = r

\* The block of a thread that was not notified is there because it waits for the lock:
\* it is parked, or gave up and waits for the block to be unlinked.
OwnerInv ==
  \A t \in Threads \ notified :
    /\ In(t, list) \/ (\E s \in Threads : In(t, grabbed[s])) =>
         /\ unlinked[t] = 0
         /\ \/ pc[t] = "parked" /\ count[t] = 1 /\ unparked[t] = 0
            \/ pc[t] \in Leaving /\ count[t] = 0
    /\ (\E s \in Threads : In(t, wakeStack[s])) =>
         pc[t] = "parked" /\ count[t] = 0 /\ unparked[t] = 0

\* Where the control of a thread is in WaitEx; a notified one waits with its parker
\* locked, and once it was unparked its block is on no list of the lock.
PhaseInv ==
  \A t \in Threads :
    /\ phase[t] = "park" => pc[t] \in {"exit", "out"}
    /\ pc[t] = "notifiedAll" => phase[t] = "none"
    /\ phase[t] \in Returning => pc[t] # "exit"
    /\ t \in notified => phase[t] = "park" /\ count[t] = 0
    /\ t \in notified /\ unparked[t] = 1 =>
         /\ ~In(t, list)
         /\ \A s \in Threads : ~In(t, grabbed[s]) /\ ~In(t, wakeStack[s])

\* A thread waits on the condition, or was notified; the others whose block is there
\* gave up and have not returned.
CondInv ==
  /\ Distinct(waitList)
  /\ \A t \in Threads :
    /\ phase[t] = "park" => IF count[t] = 1 THEN unparked[t] = 0 /\ In(t, waitList)
                                            ELSE t \in notified
    /\ In(t, waitList) =>
         /\ t \notin marked
         /\ (phase[t] = "park" /\ count[t] = 1) \/ phase[t] = "reacquireCancelled"

\* A notified thread that was not unparked is on a list of the lock.
NotifiedInv ==
  \A t \in notified : unparked[t] = 0 =>
    \/ busy = 1 /\ In(t, list)
    \/ \E s \in Threads : In(t, grabbed[s]) \/ In(t, wakeStack[s])

MonitorInv ==
  /\ MonitorTypes /\ WalkInv /\ HolderInv /\ PlaceInv /\ OwnerInv /\ PhaseInv /\ CondInv
  /\ NotifiedInv

\* The lists of the monitor are those of the lemmas.
LEMMA SameLists ==
  /\ \A t, s : Monitors!In(t, s) <=> In(t, s)
  /\ \A t, s : Monitors!Without(s, t) = Without(s, t)
BY DEF Monitors!In, In, Monitors!Without, Without

\* Removing the first n entries of a list.
LEMMA DropLemma ==
  ASSUME NEW T, NEW s \in Seq(T), NEW n \in 1..Len(s), Distinct(s)
  PROVE  LET r == SubSeq(s, n + 1, Len(s)) IN
         /\ r \in Seq(T) /\ Distinct(r)
         /\ \A u : In(u, r) <=> In(u, s) /\ u \notin {s[i] : i \in 1..n}
<1> DEFINE r == SubSeq(s, n + 1, Len(s))
<1>1. /\ r \in Seq(T) /\ Len(r) = Len(s) - n /\ Len(s) \in Nat
      /\ \A i \in 1..(Len(s) - n) : r[i] = s[n + i]
  OBVIOUS
<1> HIDE DEF r
<1>2. \A i \in (n + 1)..Len(s) : s[i] = r[i - n] /\ i - n \in 1..Len(r)
  BY <1>1
<1>3. Distinct(r)
  <2> SUFFICES ASSUME NEW i \in 1..Len(r), NEW j \in 1..Len(r), r[i] = r[j] PROVE i = j
    BY DEF Distinct
  <2>1. s[n + i] = s[n + j] /\ n + i \in 1..Len(s) /\ n + j \in 1..Len(s)
    BY <1>1
  <2>2. n + i = n + j
    BY <2>1 DEF Distinct
  <2>3. QED
    BY <2>2, <1>1
<1>4. ASSUME NEW u, In(u, r) PROVE In(u, s) /\ u \notin {s[i] : i \in 1..n}
  <2>1. PICK i \in 1..Len(r) : r[i] = u
    BY <1>4 DEF In
  <2>2. s[n + i] = u /\ n + i \in 1..Len(s)
    BY <1>1, <2>1
  <2>3. ASSUME NEW j \in 1..n PROVE s[j] # u
    <3>1. j \in 1..Len(s) /\ j # n + i
      BY <1>1, <2>2
    <3>2. QED
      BY <2>2, <3>1 DEF Distinct
  <2>4. QED
    BY <2>2, <2>3 DEF In
<1>5. ASSUME NEW u, In(u, s), u \notin {s[i] : i \in 1..n} PROVE In(u, r)
  <2>1. PICK i \in 1..Len(s) : s[i] = u
    BY <1>5 DEF In
  <2>2. i \in (n + 1)..Len(s)
    BY <1>1, <1>5, <2>1
  <2>3. QED
    BY <1>2, <2>1, <2>2 DEF In
<1>6. QED
  BY <1>1, <1>3, <1>4, <1>5 DEF r

\* Every step of the monitor keeps the invariant.
LEMMA MonitorStep ==
  ASSUME MonitorInv, Monitors!MonitorNext PROVE MonitorInv'
<1> USE SameLists
    DEF Monitors!Step, Monitors!TryAcquire, Monitors!Occupied, Monitors!SetPhase, Monitors!Owner,
        Monitors!Pcs, Monitors!conditionVars, Monitors!HeldBySomeone, Monitors!vars
<1>1. /\ MonitorTypes /\ WalkInv /\ HolderInv /\ PlaceInv /\ OwnerInv /\ PhaseInv /\ CondInv
      /\ NotifiedInv
  BY DEF MonitorInv
<1>2. ASSUME NEW t \in Threads, Monitors!Enter(t)
      PROVE  MonitorInv'
  <2>1. MonitorTypes'
    BY <1>1, <1>2, ZenonT(30)
       DEF MonitorTypes, Returning, Inside, Leaving, Monitors!Enter, Monitors!TryEnterEx
  <2>2. WalkInv'
    BY <1>1, <1>2
       DEF MonitorTypes, WalkInv, Returning, Inside, Leaving, Monitors!Enter, Monitors!TryEnterEx
  <2>3. HolderInv'
    BY <1>1, <1>2
       DEF MonitorTypes, HolderInv, Returning, Inside, Leaving, Monitors!Enter,
           Monitors!TryEnterEx
  <2>4. PlaceInv'
    BY <1>1, <1>2
       DEF MonitorTypes, PlaceInv, Returning, Inside, Leaving, Monitors!Enter,
           Monitors!TryEnterEx
  <2>5. OwnerInv'
    BY <1>1, <1>2, ZenonT(30)
       DEF MonitorTypes, OwnerInv, Returning, Inside, Leaving, Monitors!Enter,
           Monitors!TryEnterEx
  <2>6. PhaseInv'
    BY <1>1, <1>2, SMTT(30)
       DEF MonitorTypes, PhaseInv, Returning, Inside, Leaving, Monitors!Enter,
           Monitors!TryEnterEx
  <2>7. CondInv'
    BY <1>1, <1>2
       DEF MonitorTypes, CondInv, Returning, Inside, Leaving, Monitors!Enter, Monitors!TryEnterEx
  <2>8. NotifiedInv'
    BY <1>1, <1>2
       DEF MonitorTypes, NotifiedInv, Returning, Inside, Leaving, Monitors!Enter,
           Monitors!TryEnterEx
  <2>9. QED
    BY <2>1, <2>2, <2>3, <2>4, <2>5, <2>6, <2>7, <2>8 DEF MonitorInv
<1>3. ASSUME NEW t \in Threads, Monitors!Owner(t), Monitors!Exit(t),
             UNCHANGED Monitors!conditionVars
      PROVE  MonitorInv'
  <2>a. (\A x_1 : ~In(x_1, <<>>)) /\ Distinct(<<>>) /\ <<>> \in Seq(Threads)
    BY SmallStacks
  <2>b. grabbed[t] = <<>> /\ wakeStack[t] = <<>>
    BY <1>1, <1>3 DEF WalkInv, Monitors!Exit
  <2>c. /\ grabbed'[t] = list /\ \A s \in Threads \ {t} : grabbed'[s] = grabbed[s]
    BY <1>1, <1>3 DEF MonitorTypes, Monitors!Exit
  <2>1. MonitorTypes'
    BY <1>1, <1>3, <2>a, <2>b, <2>c DEF MonitorTypes, Returning, Inside, Leaving, Monitors!Exit
  <2>2. WalkInv'
    BY <1>1, <1>3, <2>a, <2>b, <2>c
       DEF MonitorTypes, WalkInv, Returning, Inside, Leaving, Monitors!Exit
  <2>3. HolderInv'
    BY <1>1, <1>3, <2>a, <2>b, <2>c
       DEF MonitorTypes, HolderInv, Returning, Inside, Leaving, Monitors!Exit
  <2>4. PlaceInv'
    BY <1>1, <1>3, <2>a, <2>b, <2>c
       DEF MonitorTypes, PlaceInv, Returning, Inside, Leaving, Monitors!Exit
  <2>5. OwnerInv'
    BY <1>1, <1>3, <2>a, <2>b, <2>c
       DEF MonitorTypes, OwnerInv, Returning, Inside, Leaving, Monitors!Exit
  <2>6. PhaseInv'
    BY <1>1, <1>3, <2>a, <2>b, <2>c
       DEF MonitorTypes, PhaseInv, Returning, Inside, Leaving, Monitors!Exit
  <2>7. CondInv'
    BY <1>1, <1>3, <2>a, <2>b, <2>c
       DEF MonitorTypes, CondInv, Returning, Inside, Leaving, Monitors!Exit
  <2>8. NotifiedInv'
    BY <1>1, <1>3, <2>a, <2>b, <2>c
       DEF MonitorTypes, NotifiedInv, Returning, Inside, Leaving, Monitors!Exit
  <2>9. QED
    BY <2>1, <2>2, <2>3, <2>4, <2>5, <2>6, <2>7, <2>8 DEF MonitorInv
<1>4. ASSUME NEW t \in Threads, Monitors!Spin(t), UNCHANGED Monitors!conditionVars
      PROVE  MonitorInv'
  <2>1. MonitorTypes'
    BY <1>1, <1>4 DEF MonitorTypes, Returning, Inside, Leaving, Monitors!Spin
  <2>2. WalkInv'
    BY <1>1, <1>4 DEF MonitorTypes, WalkInv, Returning, Inside, Leaving, Monitors!Spin
  <2>3. HolderInv'
    BY <1>1, <1>4 DEF MonitorTypes, HolderInv, Returning, Inside, Leaving, Monitors!Spin
  <2>4. PlaceInv'
    BY <1>1, <1>4 DEF MonitorTypes, PlaceInv, Returning, Inside, Leaving, Monitors!Spin
  <2>5. OwnerInv'
    <3>1. /\ UNCHANGED <<list, grabbed, wakeStack, notified, unlinked, count, unparked>>
          /\ \A s \in Threads \ {t} : pc'[s] = pc[s]
          /\ pc[t] = "spin"
      BY <1>1, <1>4 DEF MonitorTypes, Monitors!Spin
    <3>2. QED
      BY <1>1, <3>1 DEF OwnerInv, Leaving
  <2>6. PhaseInv'
    BY <1>1, <1>4 DEF MonitorTypes, PhaseInv, Returning, Inside, Leaving, Monitors!Spin
  <2>7. CondInv'
    BY <1>1, <1>4 DEF MonitorTypes, CondInv, Returning, Inside, Leaving, Monitors!Spin
  <2>8. NotifiedInv'
    BY <1>1, <1>4 DEF MonitorTypes, NotifiedInv, Returning, Inside, Leaving, Monitors!Spin
  <2>9. QED
    BY <2>1, <2>2, <2>3, <2>4, <2>5, <2>6, <2>7, <2>8 DEF MonitorInv
<1>5. ASSUME NEW t \in Threads, Monitors!Enqueue(t), UNCHANGED Monitors!conditionVars
      PROVE  MonitorInv'
  <2>a. <<t>> \o list \in Seq(Threads) /\ <<t>> \o list # <<>>
    BY <1>1, PushLemma DEF MonitorTypes
  <2>b. \A x_1 : In(x_1, <<t>> \o list) <=> x_1 = t \/ In(x_1, list)
    BY <1>1, PushLemma DEF MonitorTypes
  <2>c. /\ t \notin notified /\ ~In(t, list)
        /\ \A s \in Threads : ~In(t, grabbed[s]) /\ ~In(t, wakeStack[s])
    BY <1>1, <1>5 DEF OwnerInv, PhaseInv, Leaving, Monitors!Enqueue
  <2>d. Distinct(<<t>> \o list)
    BY <1>1, <2>c, PushLemma DEF MonitorTypes, PlaceInv
  <2>1. MonitorTypes'
    BY <1>1, <1>5, <2>a, <2>b, <2>c, <2>d
       DEF MonitorTypes, Returning, Inside, Leaving, Monitors!Enqueue
  <2>2. WalkInv'
    BY <1>1, <1>5, <2>a, <2>b, <2>c, <2>d
       DEF MonitorTypes, WalkInv, Returning, Inside, Leaving, Monitors!Enqueue
  <2>3. HolderInv'
    BY <1>1, <1>5, <2>a, <2>b, <2>c, <2>d
       DEF MonitorTypes, HolderInv, Returning, Inside, Leaving, Monitors!Enqueue
  <2>4. PlaceInv'
    <3>1. list' = list \/ list' = <<t>> \o list
      BY <1>5 DEF Monitors!Enqueue
    <3>2. UNCHANGED <<grabbed, wakeStack>>
      BY <1>5 DEF Monitors!Enqueue
    <3>3. Distinct(list') /\ \A s \in Threads : In(s, list') => s = t \/ In(s, list)
      BY <1>1, <2>b, <2>d, <3>1 DEF PlaceInv
    <3>4. QED
      BY <1>1, <2>c, <3>2, <3>3 DEF PlaceInv
  <2>5. OwnerInv'
    <3>1. /\ UNCHANGED <<grabbed, wakeStack, notified, phase>>
          /\ \A s \in Threads : s # t =>
               /\ pc'[s] = pc[s] /\ count'[s] = count[s]
               /\ unparked'[s] = unparked[s] /\ unlinked'[s] = unlinked[s]
      BY <1>1, <1>5 DEF MonitorTypes, Monitors!Enqueue
    <3>2. CASE busy = 0
      <4>1. list' = list
        BY <1>5, <3>2 DEF Monitors!Enqueue
      <4>2. QED
        BY <1>1, <2>c, <3>1, <3>2, <4>1 DEF OwnerInv, Leaving
    <3>3. CASE busy = 1
      <4>1. /\ list' = <<t>> \o list /\ busy' = 1
            /\ pc'[t] = "parked" /\ count'[t] = 1 /\ unparked'[t] = 0 /\ unlinked'[t] = 0
        BY <1>1, <1>5, <3>3 DEF MonitorTypes, Monitors!Enqueue
      <4>2. QED
        BY <1>1, <2>b, <2>c, <3>1, <4>1 DEF OwnerInv, Leaving
    <3>4. QED
      BY <1>1, <3>2, <3>3 DEF MonitorTypes
  <2>6. PhaseInv'
    <3>1. /\ UNCHANGED <<grabbed, wakeStack, notified, phase>>
          /\ pc[t] = "enqueue" /\ pc'[t] \in {"parked", "held"}
          /\ \A s \in Threads : s # t =>
               pc'[s] = pc[s] /\ count'[s] = count[s] /\ unparked'[s] = unparked[s]
      BY <1>1, <1>5 DEF MonitorTypes, Monitors!Enqueue
    <3>2. \A s \in Threads : In(s, list') => s = t \/ In(s, list)
      BY <1>5, <2>b DEF Monitors!Enqueue
    <3>3. phase[t] # "park"
      BY <1>1, <3>1 DEF PhaseInv
    <3>4. QED
      BY <1>1, <2>c, <3>1, <3>2, <3>3 DEF PhaseInv, Returning
  <2>7. CondInv'
    BY <1>1, <1>5, <2>a, <2>b, <2>c, <2>d
       DEF MonitorTypes, CondInv, Returning, Inside, Leaving, Monitors!Enqueue
  <2>8. NotifiedInv'
    <3>1. /\ UNCHANGED <<grabbed, wakeStack, notified>>
          /\ \A s \in notified : unparked'[s] = unparked[s]
      BY <1>1, <1>5, <2>c DEF MonitorTypes, Monitors!Enqueue
    <3>2. /\ busy = 1 => busy' = 1
          /\ \A s \in Threads : In(s, list) => In(s, list')
      BY <1>5, <2>b DEF Monitors!Enqueue
    <3>3. QED
      BY <1>1, <3>1, <3>2 DEF MonitorTypes, NotifiedInv
  <2>9. QED
    BY <2>1, <2>2, <2>3, <2>4, <2>5, <2>6, <2>7, <2>8 DEF MonitorInv
<1>6. ASSUME NEW t \in Threads, Monitors!Unparked(t), UNCHANGED Monitors!conditionVars
      PROVE  MonitorInv'
  <2>1. MonitorTypes'
    BY <1>1, <1>6 DEF MonitorTypes, Returning, Inside, Leaving, Monitors!Unparked
  <2>2. WalkInv'
    BY <1>1, <1>6 DEF MonitorTypes, WalkInv, Returning, Inside, Leaving, Monitors!Unparked
  <2>3. HolderInv'
    BY <1>1, <1>6 DEF MonitorTypes, HolderInv, Returning, Inside, Leaving, Monitors!Unparked
  <2>4. PlaceInv'
    BY <1>1, <1>6 DEF MonitorTypes, PlaceInv, Returning, Inside, Leaving, Monitors!Unparked
  <2>5. OwnerInv'
    BY <1>1, <1>6 DEF MonitorTypes, OwnerInv, Returning, Inside, Leaving, Monitors!Unparked
  <2>6. PhaseInv'
    BY <1>1, <1>6 DEF MonitorTypes, PhaseInv, Returning, Inside, Leaving, Monitors!Unparked
  <2>7. CondInv'
    BY <1>1, <1>6 DEF MonitorTypes, CondInv, Returning, Inside, Leaving, Monitors!Unparked
  <2>8. NotifiedInv'
    BY <1>1, <1>6 DEF MonitorTypes, NotifiedInv, Returning, Inside, Leaving, Monitors!Unparked
  <2>9. QED
    BY <2>1, <2>2, <2>3, <2>4, <2>5, <2>6, <2>7, <2>8 DEF MonitorInv
<1>7. ASSUME NEW t \in Threads, Monitors!Cancelled(t), UNCHANGED Monitors!conditionVars
      PROVE  MonitorInv'
  <2>1. MonitorTypes'
    BY <1>1, <1>7 DEF MonitorTypes, Returning, Inside, Leaving, Monitors!Cancelled
  <2>2. WalkInv'
    BY <1>1, <1>7 DEF MonitorTypes, WalkInv, Returning, Inside, Leaving, Monitors!Cancelled
  <2>3. HolderInv'
    BY <1>1, <1>7 DEF MonitorTypes, HolderInv, Returning, Inside, Leaving, Monitors!Cancelled
  <2>4. PlaceInv'
    BY <1>1, <1>7 DEF MonitorTypes, PlaceInv, Returning, Inside, Leaving, Monitors!Cancelled
  <2>5. OwnerInv'
    BY <1>1, <1>7 DEF MonitorTypes, OwnerInv, Returning, Inside, Leaving, Monitors!Cancelled
  <2>6. PhaseInv'
    BY <1>1, <1>7 DEF MonitorTypes, PhaseInv, Returning, Inside, Leaving, Monitors!Cancelled
  <2>7. CondInv'
    BY <1>1, <1>7
       DEF MonitorTypes, PhaseInv, CondInv, Returning, Inside, Leaving, Monitors!Cancelled
  <2>8. NotifiedInv'
    BY <1>1, <1>7 DEF MonitorTypes, NotifiedInv, Returning, Inside, Leaving, Monitors!Cancelled
  <2>9. QED
    BY <2>1, <2>2, <2>3, <2>4, <2>5, <2>6, <2>7, <2>8 DEF MonitorInv
<1>8. ASSUME NEW t \in Threads, Monitors!Retry(t), UNCHANGED Monitors!conditionVars
      PROVE  MonitorInv'
  <2>1. MonitorTypes'
    BY <1>1, <1>8 DEF MonitorTypes, Returning, Inside, Leaving, Monitors!Retry
  <2>2. WalkInv'
    BY <1>1, <1>8 DEF MonitorTypes, WalkInv, Returning, Inside, Leaving, Monitors!Retry
  <2>3. HolderInv'
    <3>1. CASE busy = 0
      BY <1>1, <1>8, <3>1 DEF MonitorTypes, HolderInv, Inside, Monitors!Retry
    <3>2. CASE busy = 1
      <4>1. /\ busy' = 1
            /\ \A s \in Threads : pc'[s] \in Inside => pc[s] \in Inside
        BY <1>1, <1>8, <3>2 DEF MonitorTypes, Inside, Monitors!Retry
      <4>2. QED
        BY <1>1, <4>1 DEF HolderInv
    <3>3. QED
      BY <1>1, <3>1, <3>2 DEF MonitorTypes
  <2>4. PlaceInv'
    BY <1>1, <1>8 DEF MonitorTypes, PlaceInv, Returning, Inside, Leaving, Monitors!Retry
  <2>5. OwnerInv'
    <3>1. /\ UNCHANGED <<list, grabbed, wakeStack, notified, unlinked, count, unparked>>
          /\ \A s \in Threads \ {t} : pc'[s] = pc[s]
          /\ pc[t] = "retry"
      BY <1>1, <1>8 DEF MonitorTypes, Monitors!Retry
    <3>2. QED
      BY <1>1, <3>1 DEF OwnerInv, Leaving
  <2>6. PhaseInv'
    BY <1>1, <1>8 DEF MonitorTypes, PhaseInv, Returning, Inside, Leaving, Monitors!Retry
  <2>7. CondInv'
    BY <1>1, <1>8 DEF MonitorTypes, CondInv, Returning, Inside, Leaving, Monitors!Retry
  <2>8. NotifiedInv'
    BY <1>1, <1>8 DEF MonitorTypes, NotifiedInv, Returning, Inside, Leaving, Monitors!Retry
  <2>9. QED
    BY <2>1, <2>2, <2>3, <2>4, <2>5, <2>6, <2>7, <2>8 DEF MonitorInv
<1>9. ASSUME NEW t \in Threads, Monitors!UnlinkTest(t), UNCHANGED Monitors!conditionVars
      PROVE  MonitorInv'
  <2>1. MonitorTypes'
    BY <1>1, <1>9 DEF MonitorTypes, Returning, Inside, Leaving, Monitors!UnlinkTest
  <2>2. WalkInv'
    BY <1>1, <1>9 DEF MonitorTypes, WalkInv, Returning, Inside, Leaving, Monitors!UnlinkTest
  <2>3. HolderInv'
    BY <1>1, <1>9 DEF MonitorTypes, HolderInv, Returning, Inside, Leaving, Monitors!UnlinkTest
  <2>4. PlaceInv'
    BY <1>1, <1>9 DEF MonitorTypes, PlaceInv, Returning, Inside, Leaving, Monitors!UnlinkTest
  <2>5. OwnerInv'
    BY <1>1, <1>9 DEF MonitorTypes, OwnerInv, Returning, Inside, Leaving, Monitors!UnlinkTest
  <2>6. PhaseInv'
    BY <1>1, <1>9 DEF MonitorTypes, PhaseInv, Returning, Inside, Leaving, Monitors!UnlinkTest
  <2>7. CondInv'
    BY <1>1, <1>9 DEF MonitorTypes, CondInv, Returning, Inside, Leaving, Monitors!UnlinkTest
  <2>8. NotifiedInv'
    BY <1>1, <1>9 DEF MonitorTypes, NotifiedInv, Returning, Inside, Leaving, Monitors!UnlinkTest
  <2>9. QED
    BY <2>1, <2>2, <2>3, <2>4, <2>5, <2>6, <2>7, <2>8 DEF MonitorInv
<1>10. ASSUME NEW t \in Threads, Monitors!UnlinkGrab(t), UNCHANGED Monitors!conditionVars
      PROVE  MonitorInv'
  <2> DEFINE alone == <<t>>
  <2>a. (\A x_1 : ~In(x_1, <<>>)) /\ Distinct(<<>>) /\ <<>> \in Seq(Threads)
    BY SmallStacks
  <2>b. grabbed[t] = <<>>
    BY <1>1, <1>10 DEF WalkInv, Monitors!UnlinkGrab
  <2>c. \A x_1 : In(x_1, alone) <=> x_1 = t
    BY SmallStacks
  <2>d. /\ UNCHANGED <<busy, timeout, count, unparked, unlinked, wakeStack>>
        /\ UNCHANGED Monitors!conditionVars
        /\ list' = <<>> /\ pc[t] = "grab"
        /\ \/ /\ list = <<>> /\ UNCHANGED grabbed
              /\ pc' = [pc EXCEPT ![t] = "spinUnlinked"]
           \/ /\ list = alone /\ UNCHANGED grabbed
              /\ pc' = [pc EXCEPT ![t] = "out"]
           \/ /\ list # <<>> /\ grabbed' = [grabbed EXCEPT ![t] = list]
              /\ pc' = [pc EXCEPT ![t] = "unparkAll"]
    BY <1>10 DEF Monitors!UnlinkGrab
  <2> HIDE DEF alone
  <2>1. MonitorTypes'
    BY <1>1, <2>a, <2>b, <2>c, <2>d, ZenonT(30) DEF MonitorTypes, Returning, Inside, Leaving
  <2>2. WalkInv'
    BY <1>1, <2>a, <2>b, <2>c, <2>d DEF MonitorTypes, WalkInv, Returning, Inside, Leaving
  <2>3. HolderInv'
    <3>1. busy' = busy /\ \A s \in Threads : pc'[s] \in Inside => pc[s] \in Inside
      BY <1>1, <2>d DEF MonitorTypes, Inside
    <3>2. QED
      BY <1>1, <3>1 DEF HolderInv
  <2>4. PlaceInv'
    <3>1. CASE UNCHANGED grabbed
      <4>1. \A s \in Threads : In(s, list) => s = t
        BY <1>1, <2>a, <2>b, <2>c, <2>d, <3>1 DEF MonitorTypes
      <4>2. /\ \A s \in Threads \ {t} : pc'[s] = pc[s]
            /\ pc[t] = "grab" /\ (list = <<>> => pc'[t] \in Leaving)
            /\ pc'[t] \in {"spinUnlinked", "out"}
            /\ list # <<>> => In(t, list)
        BY <1>1, <2>a, <2>b, <2>c, <2>d, <3>1 DEF MonitorTypes, Leaving
      <4>3. QED
        BY <1>1, <2>a, <2>d, <3>1, <4>1, <4>2 DEF PlaceInv
    <3>2. CASE /\ list # <<>> /\ grabbed' = [grabbed EXCEPT ![t] = list]
               /\ pc' = [pc EXCEPT ![t] = "unparkAll"]
      <4>1. /\ grabbed'[t] = list /\ \A s \in Threads \ {t} : grabbed'[s] = grabbed[s]
            /\ \A s \in Threads \ {t} : pc'[s] = pc[s]
            /\ pc[t] = "grab" /\ pc'[t] = "unparkAll"
            /\ notified \subseteq Threads
        BY <1>1, <2>d, <3>2 DEF MonitorTypes
      <4>2. QED
        BY <1>1, <2>a, <2>b, <2>d, <4>1 DEF PlaceInv
    <3>3. QED
      BY <2>d, <3>1, <3>2
  <2>5. OwnerInv'
    <3>1. CASE UNCHANGED grabbed
      <4>1. \A s \in Threads : In(s, list) => s = t
        BY <1>1, <2>a, <2>b, <2>c, <2>d, <3>1 DEF MonitorTypes
      <4>2. /\ \A s \in Threads \ {t} : pc'[s] = pc[s]
            /\ pc[t] = "grab" /\ (list = <<>> => pc'[t] \in Leaving)
            /\ pc'[t] \in {"spinUnlinked", "out"}
            /\ list # <<>> => In(t, list)
        BY <1>1, <2>a, <2>b, <2>c, <2>d, <3>1 DEF MonitorTypes, Leaving
      <4>3. QED
        BY <1>1, <2>a, <2>d, <3>1, <4>1, <4>2 DEF OwnerInv, PlaceInv, Leaving
    <3>2. CASE /\ list # <<>> /\ grabbed' = [grabbed EXCEPT ![t] = list]
               /\ pc' = [pc EXCEPT ![t] = "unparkAll"]
      <4>1. /\ grabbed'[t] = list /\ \A s \in Threads \ {t} : grabbed'[s] = grabbed[s]
            /\ \A s \in Threads \ {t} : pc'[s] = pc[s]
            /\ pc[t] = "grab" /\ pc'[t] = "unparkAll"
            /\ notified \subseteq Threads
        BY <1>1, <2>d, <3>2 DEF MonitorTypes
      <4>2. QED
        BY <1>1, <2>a, <2>b, <2>d, <4>1 DEF OwnerInv, PlaceInv, Leaving
    <3>3. QED
      BY <2>d, <3>1, <3>2
  <2>6. PhaseInv'
    <3>1. CASE UNCHANGED grabbed
      <4>1. \A s \in Threads : In(s, list) => s = t
        BY <1>1, <2>a, <2>b, <2>c, <2>d, <3>1 DEF MonitorTypes
      <4>2. /\ \A s \in Threads \ {t} : pc'[s] = pc[s]
            /\ pc[t] = "grab" /\ (list = <<>> => pc'[t] \in Leaving)
            /\ pc'[t] \in {"spinUnlinked", "out"}
            /\ list # <<>> => In(t, list)
        BY <1>1, <2>a, <2>b, <2>c, <2>d, <3>1 DEF MonitorTypes, Leaving
      <4>3. QED
        BY <1>1, <2>a, <2>d, <3>1, <4>1, <4>2 DEF PhaseInv, Returning, Leaving
    <3>2. CASE /\ list # <<>> /\ grabbed' = [grabbed EXCEPT ![t] = list]
               /\ pc' = [pc EXCEPT ![t] = "unparkAll"]
      <4>1. /\ grabbed'[t] = list /\ \A s \in Threads \ {t} : grabbed'[s] = grabbed[s]
            /\ \A s \in Threads \ {t} : pc'[s] = pc[s]
            /\ pc[t] = "grab" /\ pc'[t] = "unparkAll"
            /\ notified \subseteq Threads
        BY <1>1, <2>d, <3>2 DEF MonitorTypes
      <4>2. QED
        BY <1>1, <2>a, <2>b, <2>d, <4>1 DEF PhaseInv, Returning, Leaving
    <3>3. QED
      BY <2>d, <3>1, <3>2
  <2>7. CondInv'
    BY <1>1, <2>a, <2>b, <2>c, <2>d DEF MonitorTypes, CondInv, Returning, Inside, Leaving
  <2>8. NotifiedInv'
    <3>1. CASE UNCHANGED grabbed
      <4>1. \A s \in Threads : In(s, list) => s = t
        BY <1>1, <2>a, <2>b, <2>c, <2>d, <3>1 DEF MonitorTypes
      <4>2. /\ \A s \in Threads \ {t} : pc'[s] = pc[s]
            /\ pc[t] = "grab" /\ (list = <<>> => pc'[t] \in Leaving)
            /\ pc'[t] \in {"spinUnlinked", "out"}
            /\ list # <<>> => In(t, list)
        BY <1>1, <2>a, <2>b, <2>c, <2>d, <3>1 DEF MonitorTypes, Leaving
      <4>3. t \notin notified
        BY <1>1, <4>2 DEF PhaseInv
      <4>4. QED
        BY <1>1, <2>d, <3>1, <4>1, <4>3 DEF NotifiedInv, MonitorTypes
    <3>2. CASE /\ list # <<>> /\ grabbed' = [grabbed EXCEPT ![t] = list]
               /\ pc' = [pc EXCEPT ![t] = "unparkAll"]
      <4>1. /\ grabbed'[t] = list /\ \A s \in Threads \ {t} : grabbed'[s] = grabbed[s]
            /\ \A s \in Threads \ {t} : pc'[s] = pc[s]
            /\ pc[t] = "grab" /\ pc'[t] = "unparkAll"
            /\ notified \subseteq Threads
        BY <1>1, <2>d, <3>2 DEF MonitorTypes
      <4>2. QED
        BY <1>1, <2>a, <2>b, <2>d, <4>1 DEF NotifiedInv
    <3>3. QED
      BY <2>d, <3>1, <3>2
  <2>9. QED
    BY <2>1, <2>2, <2>3, <2>4, <2>5, <2>6, <2>7, <2>8 DEF MonitorInv
<1>11. ASSUME NEW t \in Threads, Monitors!SpinUntilUnlinked(t), UNCHANGED Monitors!conditionVars
      PROVE  MonitorInv'
  <2>1. MonitorTypes'
    BY <1>1, <1>11 DEF MonitorTypes, Returning, Inside, Leaving, Monitors!SpinUntilUnlinked
  <2>2. WalkInv'
    BY <1>1, <1>11
       DEF MonitorTypes, WalkInv, Returning, Inside, Leaving, Monitors!SpinUntilUnlinked
  <2>3. HolderInv'
    BY <1>1, <1>11
       DEF MonitorTypes, HolderInv, Returning, Inside, Leaving, Monitors!SpinUntilUnlinked
  <2>4. PlaceInv'
    BY <1>1, <1>11
       DEF MonitorTypes, PlaceInv, Returning, Inside, Leaving, Monitors!SpinUntilUnlinked
  <2>5. OwnerInv'
    BY <1>1, <1>11
       DEF MonitorTypes, OwnerInv, Returning, Inside, Leaving, Monitors!SpinUntilUnlinked
  <2>6. PhaseInv'
    BY <1>1, <1>11
       DEF MonitorTypes, PhaseInv, Returning, Inside, Leaving, Monitors!SpinUntilUnlinked
  <2>7. CondInv'
    BY <1>1, <1>11
       DEF MonitorTypes, CondInv, Returning, Inside, Leaving, Monitors!SpinUntilUnlinked
  <2>8. NotifiedInv'
    BY <1>1, <1>11
       DEF MonitorTypes, NotifiedInv, Returning, Inside, Leaving, Monitors!SpinUntilUnlinked
  <2>9. QED
    BY <2>1, <2>2, <2>3, <2>4, <2>5, <2>6, <2>7, <2>8 DEF MonitorInv
<1>12. ASSUME NEW t \in Threads, Monitors!UnparkEntry(t), UNCHANGED Monitors!conditionVars
      PROVE  MonitorInv'
  <2> DEFINE e == Head(wakeStack[t])
             rest == Tail(wakeStack[t])
  <2>a. wakeStack[t] \in Seq(Threads) /\ wakeStack[t] # <<>>
    BY <1>1, <1>12 DEF MonitorTypes, Monitors!UnparkEntry
  <2>b. /\ e \in Threads /\ rest \in Seq(Threads)
        /\ \A x_1 : In(x_1, wakeStack[t]) <=> x_1 = e \/ In(x_1, rest)
        /\ Distinct(rest) /\ ~In(e, rest)
    BY <1>1, <2>a, PopLemma DEF PlaceInv
  <2>c. /\ unparked' = [unparked EXCEPT ![e] = 1]
        /\ wakeStack' = [wakeStack EXCEPT ![t] = rest]
        /\ UNCHANGED <<busy, list, pc, timeout, count, unlinked, grabbed>>
        /\ UNCHANGED Monitors!conditionVars
        /\ wakeStack[t] # <<>>
    BY <1>12 DEF Monitors!UnparkEntry
  <2> HIDE DEF e, rest
  <2>1. MonitorTypes'
    BY <1>1, <2>a, <2>b, <2>c DEF MonitorTypes, Returning, Inside, Leaving
  <2>2. WalkInv'
    BY <1>1, <2>a, <2>b, <2>c DEF MonitorTypes, WalkInv, Returning, Inside, Leaving
  <2>3. HolderInv'
    BY <1>1, <2>a, <2>b, <2>c DEF MonitorTypes, HolderInv, Returning, Inside, Leaving
  <2>4. PlaceInv'
    BY <1>1, <2>a, <2>b, <2>c, SMTT(30) DEF MonitorTypes, PlaceInv, Returning, Inside, Leaving
  <2>5. OwnerInv'
    BY <1>1, <2>a, <2>b, <2>c, SMTT(30)
       DEF MonitorTypes, PlaceInv, OwnerInv, PhaseInv, CondInv, Returning, Inside, Leaving
  <2>6. PhaseInv'
    BY <1>1, <2>a, <2>b, <2>c, SMTT(30)
       DEF MonitorTypes, PlaceInv, OwnerInv, PhaseInv, CondInv, Returning, Inside, Leaving
  <2>7. CondInv'
    BY <1>1, <2>a, <2>b, <2>c, ZenonT(30)
       DEF MonitorTypes, OwnerInv, PhaseInv, CondInv, Returning, Inside, Leaving
  <2>8. NotifiedInv'
    <3>1. /\ wakeStack'[t] = rest /\ \A s \in Threads \ {t} : wakeStack'[s] = wakeStack[s]
          /\ unparked'[e] = 1 /\ \A s \in Threads \ {e} : unparked'[s] = unparked[s]
          /\ UNCHANGED <<busy, list, grabbed, notified>> /\ notified \subseteq Threads
      BY <1>1, <2>b, <2>c DEF MonitorTypes
    <3>2. \A s, u \in Threads : In(u, wakeStack[s]) /\ u # e => In(u, wakeStack'[s])
      BY <2>b, <3>1
    <3>3. QED
      BY <1>1, <3>1, <3>2 DEF NotifiedInv
  <2>9. QED
    BY <2>1, <2>2, <2>3, <2>4, <2>5, <2>6, <2>7, <2>8 DEF MonitorInv
<1>13. ASSUME NEW t \in Threads, Monitors!UnparkDone(t), UNCHANGED Monitors!conditionVars
      PROVE  MonitorInv'
  <2>1. MonitorTypes'
    BY <1>1, <1>13 DEF MonitorTypes, Returning, Inside, Leaving, Monitors!UnparkDone
  <2>2. WalkInv'
    BY <1>1, <1>13 DEF MonitorTypes, WalkInv, Returning, Inside, Leaving, Monitors!UnparkDone
  <2>3. HolderInv'
    BY <1>1, <1>13, ZenonT(30) DEF MonitorTypes, HolderInv, Returning, Inside, Leaving, Monitors!UnparkDone
  <2>4. PlaceInv'
    BY <1>1, <1>13 DEF MonitorTypes, PlaceInv, Returning, Inside, Leaving, Monitors!UnparkDone
  <2>5. OwnerInv'
    BY <1>1, <1>13, ZenonT(30) DEF MonitorTypes, OwnerInv, Returning, Inside, Leaving, Monitors!UnparkDone
  <2>6. PhaseInv'
    BY <1>1, <1>13 DEF MonitorTypes, PhaseInv, Returning, Inside, Leaving, Monitors!UnparkDone
  <2>7. CondInv'
    BY <1>1, <1>13 DEF MonitorTypes, CondInv, Returning, Inside, Leaving, Monitors!UnparkDone
  <2>8. NotifiedInv'
    BY <1>1, <1>13 DEF MonitorTypes, NotifiedInv, Returning, Inside, Leaving, Monitors!UnparkDone
  <2>9. QED
    BY <2>1, <2>2, <2>3, <2>4, <2>5, <2>6, <2>7, <2>8 DEF MonitorInv
<1>14. ASSUME NEW t \in Threads, Monitors!VisitEntry(t), UNCHANGED Monitors!conditionVars,
              grabbed[t] # <<>> => Head(grabbed[t]) \notin notified
      PROVE  MonitorInv'
  <2> DEFINE e == Head(grabbed[t])
             rest == Tail(grabbed[t])
             push == <<e>> \o wakeStack[t]
  <2>a. grabbed[t] \in Seq(Threads) /\ wakeStack[t] \in Seq(Threads) /\ grabbed[t] # <<>>
    BY <1>1, <1>14 DEF MonitorTypes, Monitors!VisitEntry
  <2>b. /\ e \in Threads /\ rest \in Seq(Threads)
        /\ \A x_1 : In(x_1, grabbed[t]) <=> x_1 = e \/ In(x_1, rest)
        /\ Distinct(rest) /\ ~In(e, rest)
    BY <1>1, <2>a, PopLemma DEF PlaceInv
  <2>c. ~In(e, wakeStack[t])
    BY <1>1, <2>b DEF PlaceInv
  <2>d. /\ push \in Seq(Threads) /\ Distinct(push)
        /\ \A x_1 : In(x_1, push) <=> x_1 = e \/ In(x_1, wakeStack[t])
    BY <1>1, <2>a, <2>b, <2>c, PushLemma DEF PlaceInv
  <2>e. /\ grabbed' = [grabbed EXCEPT ![t] = rest]
        /\ \/ /\ count[e] = 1 /\ count' = [count EXCEPT ![e] = 0]
              /\ wakeStack' = [wakeStack EXCEPT ![t] = push]
              /\ UNCHANGED unlinked
           \/ /\ count[e] = 0 /\ unlinked' = [unlinked EXCEPT ![e] = 1]
              /\ UNCHANGED <<count, wakeStack>>
        /\ UNCHANGED <<busy, list, pc, timeout, unparked>>
        /\ UNCHANGED Monitors!conditionVars
        /\ pc[t] \in {"exit", "unparkAll"} /\ e \notin notified
    BY <1>14 DEF Monitors!VisitEntry
  <2> HIDE DEF e, rest, push
  <2>1. MonitorTypes'
    BY <1>1, <2>a, <2>b, <2>c, <2>d, <2>e DEF MonitorTypes, Returning, Inside, Leaving
  <2>2. WalkInv'
    BY <1>1, <2>a, <2>b, <2>c, <2>d, <2>e DEF MonitorTypes, WalkInv, Returning, Inside, Leaving
  <2>3. HolderInv'
    BY <1>1, <2>a, <2>b, <2>c, <2>d, <2>e DEF MonitorTypes, HolderInv, Returning, Inside, Leaving
  <2>4. PlaceInv'
    <3>1. CASE count[e] = 1
      <4>1. /\ count'[e] = 0 /\ \A s \in Threads \ {e} : count'[s] = count[s]
            /\ grabbed'[t] = rest /\ wakeStack'[t] = push
            /\ \A s \in Threads \ {t} :
                 grabbed'[s] = grabbed[s] /\ wakeStack'[s] = wakeStack[s]
            /\ UNCHANGED <<list, pc, unparked, unlinked, notified, busy>>
        BY <1>1, <2>b, <2>e, <3>1 DEF MonitorTypes
      <4>2. QED
        BY <1>1, <2>b, <2>c, <2>d, <4>1 DEF PlaceInv
    <3>2. CASE count[e] = 0
      <4>1. /\ unlinked'[e] = 1 /\ \A s \in Threads \ {e} : unlinked'[s] = unlinked[s]
            /\ grabbed'[t] = rest
            /\ \A s \in Threads \ {t} : grabbed'[s] = grabbed[s]
            /\ UNCHANGED <<list, pc, unparked, count, wakeStack, notified, busy>>
            /\ notified \subseteq Threads
        BY <1>1, <2>b, <2>e, <3>2 DEF MonitorTypes
      <4>2. QED
        BY <1>1, <2>b, <4>1 DEF PlaceInv
    <3>3. QED
      BY <1>1, <2>b, <2>e, <3>1, <3>2 DEF MonitorTypes
  <2>5. OwnerInv'
    <3>1. CASE count[e] = 1
      <4>1. /\ count'[e] = 0 /\ \A s \in Threads \ {e} : count'[s] = count[s]
            /\ grabbed'[t] = rest /\ wakeStack'[t] = push
            /\ \A s \in Threads \ {t} :
                 grabbed'[s] = grabbed[s] /\ wakeStack'[s] = wakeStack[s]
            /\ UNCHANGED <<list, pc, unparked, unlinked, notified, busy>>
        BY <1>1, <2>b, <2>e, <3>1 DEF MonitorTypes
      <4>2. pc[e] = "parked" /\ unparked[e] = 0 /\ e \notin notified
        BY <1>1, <2>b, <2>e, <3>1 DEF OwnerInv, Leaving
      <4>3. ~In(e, list) /\ \A s \in Threads : ~In(e, grabbed'[s])
        BY <1>1, <2>b, <4>1 DEF PlaceInv
      <4>4. \A s, u \in Threads :
              /\ In(u, grabbed'[s]) => In(u, grabbed[s])
              /\ In(u, wakeStack'[s]) => u = e \/ In(u, wakeStack[s])
        BY <2>b, <2>d, <4>1
      <4>5. QED
        BY <1>1, <4>1, <4>2, <4>3, <4>4 DEF OwnerInv, Leaving
    <3>2. CASE count[e] = 0
      <4>1. /\ unlinked'[e] = 1 /\ \A s \in Threads \ {e} : unlinked'[s] = unlinked[s]
            /\ grabbed'[t] = rest
            /\ \A s \in Threads \ {t} : grabbed'[s] = grabbed[s]
            /\ UNCHANGED <<list, pc, unparked, count, wakeStack, notified, busy>>
            /\ notified \subseteq Threads
        BY <1>1, <2>b, <2>e, <3>2 DEF MonitorTypes
      <4>2. ~In(e, list) /\ \A s \in Threads : ~In(e, grabbed'[s]) /\ ~In(e, wakeStack[s])
        BY <1>1, <2>b, <4>1 DEF PlaceInv
      <4>3. QED
        BY <1>1, <2>b, <4>1, <4>2 DEF OwnerInv, Leaving
    <3>3. QED
      BY <1>1, <2>b, <2>e, <3>1, <3>2 DEF MonitorTypes
  <2>6. PhaseInv'
    BY <1>1, <2>a, <2>b, <2>c, <2>d, <2>e, SMTT(30) DEF MonitorTypes, PhaseInv, Returning, Inside, Leaving
  <2>7. CondInv'
    BY <1>1, <2>a, <2>b, <2>c, <2>d, <2>e, SMTT(30)
       DEF MonitorTypes, OwnerInv, PhaseInv, CondInv, Returning, Inside, Leaving
  <2>8. NotifiedInv'
    <3>1. CASE count[e] = 1
      <4>1. /\ count'[e] = 0 /\ \A s \in Threads \ {e} : count'[s] = count[s]
            /\ grabbed'[t] = rest /\ wakeStack'[t] = push
            /\ \A s \in Threads \ {t} :
                 grabbed'[s] = grabbed[s] /\ wakeStack'[s] = wakeStack[s]
            /\ UNCHANGED <<list, pc, unparked, unlinked, notified, busy>>
        BY <1>1, <2>b, <2>e, <3>1 DEF MonitorTypes
      <4>2. \A s, u \in Threads :
              In(u, grabbed[s]) \/ In(u, wakeStack[s]) =>
                In(u, grabbed'[s]) \/ In(u, wakeStack'[s])
        BY <2>b, <2>d, <4>1
      <4>3. QED
        BY <1>1, <4>1, <4>2 DEF NotifiedInv, MonitorTypes
    <3>2. CASE count[e] = 0
      <4>1. /\ unlinked'[e] = 1 /\ \A s \in Threads \ {e} : unlinked'[s] = unlinked[s]
            /\ grabbed'[t] = rest
            /\ \A s \in Threads \ {t} : grabbed'[s] = grabbed[s]
            /\ UNCHANGED <<list, pc, unparked, count, wakeStack, notified, busy>>
            /\ notified \subseteq Threads
        BY <1>1, <2>b, <2>e, <3>2 DEF MonitorTypes
      <4>2. \A s, u \in Threads : In(u, grabbed[s]) /\ u # e => In(u, grabbed'[s])
        BY <2>b, <4>1
      <4>3. QED
        BY <1>1, <2>e, <4>1, <4>2 DEF NotifiedInv
    <3>3. QED
      BY <1>1, <2>b, <2>e, <3>1, <3>2 DEF MonitorTypes
  <2>9. QED
    BY <2>1, <2>2, <2>3, <2>4, <2>5, <2>6, <2>7, <2>8 DEF MonitorInv
<1>15. ASSUME NEW t \in Threads, Monitors!VisitNotified(t)
      PROVE  MonitorInv'
  <2> DEFINE e == Head(grabbed[t])
             rest == Tail(grabbed[t])
             push == <<e>> \o wakeStack[t]
  <2>a. grabbed[t] \in Seq(Threads) /\ wakeStack[t] \in Seq(Threads) /\ grabbed[t] # <<>>
    BY <1>1, <1>15 DEF MonitorTypes, Monitors!VisitNotified
  <2>b. /\ e \in Threads /\ rest \in Seq(Threads)
        /\ \A x_1 : In(x_1, grabbed[t]) <=> x_1 = e \/ In(x_1, rest)
        /\ Distinct(rest) /\ ~In(e, rest)
    BY <1>1, <2>a, PopLemma DEF PlaceInv
  <2>c. ~In(e, wakeStack[t])
    BY <1>1, <2>b DEF PlaceInv
  <2>d. /\ push \in Seq(Threads) /\ Distinct(push)
        /\ \A x_1 : In(x_1, push) <=> x_1 = e \/ In(x_1, wakeStack[t])
    BY <1>1, <2>a, <2>b, <2>c, PushLemma DEF PlaceInv
  <2>e. /\ grabbed' = [grabbed EXCEPT ![t] = rest]
        /\ wakeStack' = [wakeStack EXCEPT ![t] = push]
        /\ UNCHANGED <<busy, list, pc, timeout, count, unparked, unlinked>>
        /\ UNCHANGED Monitors!conditionVars
        /\ pc[t] \in {"exit", "unparkAll"} /\ e \in notified
    BY <1>15 DEF Monitors!VisitNotified
  <2> HIDE DEF e, rest, push
  <2>1. MonitorTypes'
    BY <1>1, <2>a, <2>b, <2>c, <2>d, <2>e DEF MonitorTypes, Returning, Inside, Leaving
  <2>2. WalkInv'
    BY <1>1, <2>a, <2>b, <2>c, <2>d, <2>e DEF MonitorTypes, WalkInv, Returning, Inside, Leaving
  <2>3. HolderInv'
    BY <1>1, <2>a, <2>b, <2>c, <2>d, <2>e DEF MonitorTypes, HolderInv, Returning, Inside, Leaving
  <2>4. PlaceInv'
    BY <1>1, <2>a, <2>b, <2>c, <2>d, <2>e, SMTT(30) DEF MonitorTypes, PlaceInv, Returning, Inside, Leaving
  <2>5. OwnerInv'
    BY <1>1, <2>a, <2>b, <2>c, <2>d, <2>e, SMTT(30)
       DEF MonitorTypes, OwnerInv, Returning, Inside, Leaving
  <2>6. PhaseInv'
    BY <1>1, <2>a, <2>b, <2>c, <2>d, <2>e, SMTT(30) DEF MonitorTypes, PhaseInv, Returning, Inside, Leaving
  <2>7. CondInv'
    BY <1>1, <2>a, <2>b, <2>c, <2>d, <2>e DEF MonitorTypes, CondInv, Returning, Inside, Leaving
  <2>8. NotifiedInv'
    BY <1>1, <2>a, <2>b, <2>c, <2>d, <2>e
       DEF MonitorTypes, NotifiedInv, Returning, Inside, Leaving
  <2>9. QED
    BY <2>1, <2>2, <2>3, <2>4, <2>5, <2>6, <2>7, <2>8 DEF MonitorInv
<1>16. ASSUME NEW t \in Threads, Monitors!WaitEx(t)
      PROVE  MonitorInv'
  <2>a. (\A x_1 : ~In(x_1, <<>>)) /\ Distinct(<<>>) /\ <<>> \in Seq(Threads)
    BY SmallStacks
  <2>b. grabbed[t] = <<>> /\ wakeStack[t] = <<>>
    BY <1>1, <1>16 DEF WalkInv, Monitors!WaitEx
  <2>c. /\ grabbed'[t] = list /\ \A s \in Threads \ {t} : grabbed'[s] = grabbed[s]
    BY <1>1, <1>16 DEF MonitorTypes, Monitors!WaitEx
  <2>d. /\ Append(waitList, t) \in Seq(Threads)
        /\ \A x_1 : In(x_1, Append(waitList, t)) <=> x_1 = t \/ In(x_1, waitList)
    BY <1>1, AppendLemma DEF MonitorTypes
  <2>e. /\ ~In(t, waitList) /\ t \notin notified
        /\ ~In(t, list) /\ \A s \in Threads : ~In(t, grabbed[s]) /\ ~In(t, wakeStack[s])
    BY <1>1, <1>16 DEF CondInv, PhaseInv, OwnerInv, Leaving, Monitors!WaitEx
  <2>f. Distinct(Append(waitList, t))
    BY <1>1, <2>e, AppendLemma DEF MonitorTypes, CondInv
  <2>1. MonitorTypes'
    BY <1>1, <1>16, <2>a, <2>b, <2>c, <2>d, <2>e, <2>f
       DEF MonitorTypes, Returning, Inside, Leaving, Monitors!WaitEx
  <2>2. WalkInv'
    BY <1>1, <1>16, <2>a, <2>b, <2>c, <2>d, <2>e, <2>f
       DEF MonitorTypes, WalkInv, Returning, Inside, Leaving, Monitors!WaitEx
  <2>3. HolderInv'
    BY <1>1, <1>16, <2>a, <2>b, <2>c, <2>d, <2>e, <2>f
       DEF MonitorTypes, HolderInv, Returning, Inside, Leaving, Monitors!WaitEx
  <2>4. PlaceInv'
    BY <1>1, <1>16, <2>a, <2>b, <2>c, <2>d, <2>e, <2>f
       DEF MonitorTypes, PlaceInv, Returning, Inside, Leaving, Monitors!WaitEx
  <2>5. OwnerInv'
    BY <1>1, <1>16, <2>a, <2>b, <2>c, <2>d, <2>e, <2>f
       DEF MonitorTypes, OwnerInv, Returning, Inside, Leaving, Monitors!WaitEx
  <2>6. PhaseInv'
    BY <1>1, <1>16, <2>a, <2>b, <2>c, <2>d, <2>e, <2>f
       DEF MonitorTypes, PhaseInv, Returning, Inside, Leaving, Monitors!WaitEx
  <2>7. CondInv'
    BY <1>1, <1>16, <2>a, <2>b, <2>c, <2>d, <2>e, <2>f
       DEF MonitorTypes, CondInv, Returning, Inside, Leaving, Monitors!WaitEx
  <2>8. NotifiedInv'
    BY <1>1, <1>16, <2>a, <2>b, <2>c, <2>d, <2>e, <2>f, ZenonT(30)
       DEF MonitorTypes, NotifiedInv, Returning, Inside, Leaving, Monitors!WaitEx
  <2>9. QED
    BY <2>1, <2>2, <2>3, <2>4, <2>5, <2>6, <2>7, <2>8 DEF MonitorInv
<1>17. ASSUME NEW t \in Threads, Monitors!WaitUnparked(t)
      PROVE  MonitorInv'
  <2>1. MonitorTypes'
    BY <1>1, <1>17 DEF MonitorTypes, Returning, Inside, Leaving, Monitors!WaitUnparked
  <2>2. WalkInv'
    BY <1>1, <1>17 DEF MonitorTypes, WalkInv, Returning, Inside, Leaving, Monitors!WaitUnparked
  <2>3. HolderInv'
    BY <1>1, <1>17 DEF MonitorTypes, HolderInv, Returning, Inside, Leaving, Monitors!WaitUnparked
  <2>4. PlaceInv'
    BY <1>1, <1>17 DEF MonitorTypes, PlaceInv, Returning, Inside, Leaving, Monitors!WaitUnparked
  <2>5. OwnerInv'
    BY <1>1, <1>17
       DEF MonitorTypes, OwnerInv, PhaseInv, Returning, Inside, Leaving, Monitors!WaitUnparked
  <2>6. PhaseInv'
    BY <1>1, <1>17 DEF MonitorTypes, PhaseInv, Returning, Inside, Leaving, Monitors!WaitUnparked
  <2>7. CondInv'
    BY <1>1, <1>17 DEF MonitorTypes, CondInv, Returning, Inside, Leaving, Monitors!WaitUnparked
  <2>8. NotifiedInv'
    BY <1>1, <1>17
       DEF MonitorTypes, NotifiedInv, Returning, Inside, Leaving, Monitors!WaitUnparked
  <2>9. QED
    BY <2>1, <2>2, <2>3, <2>4, <2>5, <2>6, <2>7, <2>8 DEF MonitorInv
<1>18. ASSUME NEW t \in Threads, Monitors!WaitCancelled(t)
      PROVE  MonitorInv'
  <2>1. MonitorTypes'
    BY <1>1, <1>18 DEF MonitorTypes, Returning, Inside, Leaving, Monitors!WaitCancelled
  <2>2. WalkInv'
    BY <1>1, <1>18 DEF MonitorTypes, WalkInv, Returning, Inside, Leaving, Monitors!WaitCancelled
  <2>3. HolderInv'
    BY <1>1, <1>18 DEF MonitorTypes, HolderInv, Returning, Inside, Leaving, Monitors!WaitCancelled
  <2>4. PlaceInv'
    BY <1>1, <1>18 DEF MonitorTypes, PlaceInv, Returning, Inside, Leaving, Monitors!WaitCancelled
  <2>5. OwnerInv'
    BY <1>1, <1>18 DEF MonitorTypes, OwnerInv, Returning, Inside, Leaving, Monitors!WaitCancelled
  <2>6. PhaseInv'
    BY <1>1, <1>18 DEF MonitorTypes, PhaseInv, Returning, Inside, Leaving, Monitors!WaitCancelled
  <2>7. CondInv'
    BY <1>1, <1>18 DEF MonitorTypes, CondInv, Returning, Inside, Leaving, Monitors!WaitCancelled
  <2>8. NotifiedInv'
    BY <1>1, <1>18
       DEF MonitorTypes, NotifiedInv, Returning, Inside, Leaving, Monitors!WaitCancelled
  <2>9. QED
    BY <2>1, <2>2, <2>3, <2>4, <2>5, <2>6, <2>7, <2>8 DEF MonitorInv
<1>19. ASSUME NEW t \in Threads, Monitors!WaitReturns(t)
      PROVE  MonitorInv'
  <2>a. /\ Without(waitList, t) \in Seq(Threads) /\ Distinct(Without(waitList, t))
        /\ \A x_1 : In(x_1, Without(waitList, t)) <=> x_1 # t /\ In(x_1, waitList)
    BY <1>1, WithoutLemma DEF MonitorTypes, CondInv
  <2>1. MonitorTypes'
    BY <1>1, <1>19, <2>a DEF MonitorTypes, Returning, Inside, Leaving, Monitors!WaitReturns
  <2>2. WalkInv'
    BY <1>1, <1>19, <2>a
       DEF MonitorTypes, WalkInv, Returning, Inside, Leaving, Monitors!WaitReturns
  <2>3. HolderInv'
    BY <1>1, <1>19, <2>a
       DEF MonitorTypes, HolderInv, Returning, Inside, Leaving, Monitors!WaitReturns
  <2>4. PlaceInv'
    BY <1>1, <1>19, <2>a
       DEF MonitorTypes, PlaceInv, Returning, Inside, Leaving, Monitors!WaitReturns
  <2>5. OwnerInv'
    BY <1>1, <1>19, <2>a
       DEF MonitorTypes, OwnerInv, Returning, Inside, Leaving, Monitors!WaitReturns
  <2>6. PhaseInv'
    BY <1>1, <1>19, <2>a
       DEF MonitorTypes, PhaseInv, Returning, Inside, Leaving, Monitors!WaitReturns
  <2>7. CondInv'
    BY <1>1, <1>19, <2>a
       DEF MonitorTypes, CondInv, Returning, Inside, Leaving, Monitors!WaitReturns
  <2>8. NotifiedInv'
    BY <1>1, <1>19, <2>a
       DEF MonitorTypes, NotifiedInv, Returning, Inside, Leaving, Monitors!WaitReturns
  <2>9. QED
    BY <2>1, <2>2, <2>3, <2>4, <2>5, <2>6, <2>7, <2>8 DEF MonitorInv
<1>20. ASSUME NEW t \in Threads, Monitors!Notify(t)
      PROVE  MonitorInv'
  <2> DEFINE CanTake(i) == phase[waitList[i]] = "park" /\ count[waitList[i]] = 1
             gone(m) == {waitList[i] : i \in 1..m}
  <2>a. /\ waitList \in Seq(Threads) /\ Distinct(waitList) /\ Len(waitList) \in Nat
        /\ \A i \in 1..Len(waitList) : waitList[i] \in Threads /\ In(waitList[i], waitList)
        /\ \A u : In(u, waitList) <=> \E i \in 1..Len(waitList) : waitList[i] = u
    BY <1>1 DEF MonitorTypes, CondInv, In
  <2>b. busy = 1 /\ pc[t] = "held" /\ phase[t] = "none"
    BY <1>1, <1>20 DEF HolderInv, Inside, Monitors!Notify
  <2>c. UNCHANGED <<busy, pc, timeout, unparked, unlinked, grabbed, wakeStack, phase>>
    BY <1>20 DEF Monitors!Notify
  <2>d. \/ \E m \in 1..Len(waitList) :
             /\ CanTake(m) /\ \A i \in 1..(m - 1) : ~CanTake(i)
             /\ count' = [count EXCEPT ![waitList[m]] = 0]
             /\ list' = <<waitList[m]>> \o list /\ notified' = notified \cup {waitList[m]}
             /\ marked' = marked \cup gone(m - 1)
             /\ waitList' = SubSeq(waitList, m + 1, Len(waitList))
        \/ /\ \A i \in 1..Len(waitList) : ~CanTake(i)
           /\ waitList' = <<>> /\ marked' = marked \cup gone(Len(waitList))
           /\ UNCHANGED <<count, list, notified>>
    BY <1>20 DEF Monitors!Notify, Monitors!EnqueueLockWaiter
  <2>e. (\A u : ~In(u, <<>>)) /\ Distinct(<<>>) /\ <<>> \in Seq(Threads)
    BY SmallStacks
  <2>f. CASE /\ \A i \in 1..Len(waitList) : ~CanTake(i)
             /\ waitList' = <<>> /\ marked' = marked \cup gone(Len(waitList))
             /\ UNCHANGED <<count, list, notified>>
    <3>1. \A u \in Threads : ~(phase[u] = "park" /\ count[u] = 1)
      BY <1>1, <2>a, <2>f DEF CondInv
    <3>2. gone(Len(waitList)) \subseteq Threads
      BY <2>a
    <3> HIDE DEF CanTake, gone
    <3>3. UNCHANGED <<count, list, notified>> /\ waitList' = <<>>
          /\ marked' = marked \cup gone(Len(waitList))
      BY <2>f
    <3>4. MonitorTypes'
      BY <1>1, <2>b, <2>c, <2>e, <3>1, <3>2, <3>3 DEF MonitorTypes, Returning, Inside, Leaving
    <3>5. WalkInv'
      BY <1>1, <2>b, <2>c, <2>e, <3>1, <3>2, <3>3
         DEF MonitorTypes, WalkInv, Returning, Inside, Leaving
    <3>6. HolderInv'
      BY <1>1, <2>b, <2>c, <2>e, <3>1, <3>2, <3>3
         DEF MonitorTypes, HolderInv, Returning, Inside, Leaving
    <3>7. PlaceInv'
      BY <1>1, <2>b, <2>c, <2>e, <3>1, <3>2, <3>3
         DEF MonitorTypes, PlaceInv, Returning, Inside, Leaving
    <3>8. OwnerInv'
      BY <1>1, <2>b, <2>c, <2>e, <3>1, <3>2, <3>3
         DEF MonitorTypes, OwnerInv, Returning, Inside, Leaving
    <3>9. PhaseInv'
      BY <1>1, <2>b, <2>c, <2>e, <3>1, <3>2, <3>3
         DEF MonitorTypes, PhaseInv, Returning, Inside, Leaving
    <3>10. CondInv'
      BY <1>1, <2>b, <2>c, <2>e, <3>1, <3>2, <3>3
         DEF MonitorTypes, CondInv, Returning, Inside, Leaving
    <3>11. NotifiedInv'
      BY <1>1, <2>b, <2>c, <2>e, <3>1, <3>2, <3>3
         DEF MonitorTypes, NotifiedInv, Returning, Inside, Leaving
    <3>12. QED
      BY <3>4, <3>5, <3>6, <3>7, <3>8, <3>9, <3>10, <3>11 DEF MonitorInv
  <2>g. CASE \E m \in 1..Len(waitList) :
             /\ CanTake(m) /\ \A i \in 1..(m - 1) : ~CanTake(i)
             /\ count' = [count EXCEPT ![waitList[m]] = 0]
             /\ list' = <<waitList[m]>> \o list /\ notified' = notified \cup {waitList[m]}
             /\ marked' = marked \cup gone(m - 1)
             /\ waitList' = SubSeq(waitList, m + 1, Len(waitList))
    <3>1. PICK m \in 1..Len(waitList) :
             /\ CanTake(m) /\ \A i \in 1..(m - 1) : ~CanTake(i)
             /\ count' = [count EXCEPT ![waitList[m]] = 0]
             /\ list' = <<waitList[m]>> \o list /\ notified' = notified \cup {waitList[m]}
             /\ marked' = marked \cup gone(m - 1)
             /\ waitList' = SubSeq(waitList, m + 1, Len(waitList))
      BY <2>g
    <3> DEFINE e == waitList[m]
               rest == SubSeq(waitList, m + 1, Len(waitList))
               push == <<e>> \o list
               skipped == gone(m - 1)
    <3>2. e \in Threads /\ In(e, waitList) /\ phase[e] = "park" /\ count[e] = 1
      BY <2>a, <3>1
    <3>3. /\ unparked[e] = 0 /\ e \notin notified
          /\ ~In(e, list) /\ \A s \in Threads : ~In(e, grabbed[s]) /\ ~In(e, wakeStack[s])
      BY <1>1, <3>2 DEF CondInv, PhaseInv, OwnerInv, Leaving
    <3>4. /\ rest \in Seq(Threads) /\ Distinct(rest)
          /\ \A u : In(u, rest) <=> In(u, waitList) /\ u \notin gone(m)
      BY <2>a, DropLemma
    <3>5. gone(m) = skipped \cup {e}
      BY <2>a
    <3>6. /\ skipped \subseteq Threads
          /\ \A u \in skipped : ~(phase[u] = "park" /\ count[u] = 1)
      <4>1. \A i \in 1..(m - 1) : waitList[i] \in Threads /\ ~CanTake(i)
        BY <2>a, <3>1
      <4>2. QED
        BY <4>1
    <3>7. /\ push \in Seq(Threads) /\ push # <<>> /\ Distinct(push)
          /\ \A u : In(u, push) <=> u = e \/ In(u, list)
      BY <1>1, <3>2, <3>3, PushLemma DEF MonitorTypes, PlaceInv
    <3>8. /\ count' = [count EXCEPT ![e] = 0] /\ list' = push
          /\ notified' = notified \cup {e} /\ marked' = marked \cup skipped /\ waitList' = rest
      BY <3>1
    <3>9. \A u : In(u, rest) <=> In(u, waitList) /\ u # e /\ u \notin skipped
      BY <3>4, <3>5
    <3> HIDE DEF e, rest, push, skipped, CanTake, gone
    <3>10. MonitorTypes'
      BY <1>1, <2>b, <2>c, <3>2, <3>3, <3>4, <3>6, <3>7, <3>8, <3>9
         DEF MonitorTypes, Returning, Inside, Leaving
    <3>11. WalkInv'
      BY <1>1, <2>b, <2>c, <3>2, <3>3, <3>4, <3>6, <3>7, <3>8, <3>9
         DEF MonitorTypes, WalkInv, Returning, Inside, Leaving
    <3>12. HolderInv'
      BY <1>1, <2>b, <2>c, <3>2, <3>3, <3>4, <3>6, <3>7, <3>8, <3>9
         DEF MonitorTypes, HolderInv, Returning, Inside, Leaving
    <3>13. PlaceInv'
      BY <1>1, <2>b, <2>c, <3>2, <3>3, <3>4, <3>6, <3>7, <3>8, <3>9, ZenonT(30)
         DEF MonitorTypes, PlaceInv, Returning, Inside, Leaving
    <3>14. OwnerInv'
      BY <1>1, <2>b, <2>c, <3>2, <3>3, <3>4, <3>6, <3>7, <3>8, <3>9
         DEF MonitorTypes, OwnerInv, Returning, Inside, Leaving
    <3>c. /\ count'[e] = 0 /\ \A s \in Threads \ {e} : count'[s] = count[s]
          /\ UNCHANGED <<pc, phase, unparked, grabbed, wakeStack, busy>>
      BY <1>1, <2>b, <2>c, <3>2, <3>8 DEF MonitorTypes
    <3>l. /\ \A s \in Threads : s \in notified' <=> s = e \/ s \in notified
          /\ \A s \in Threads : s \in marked' <=> s \in marked \/ s \in skipped
          /\ \A s \in Threads : In(s, list') <=> s = e \/ In(s, list)
          /\ \A s \in Threads : In(s, waitList') <=> In(s, waitList) /\ s # e /\ s \notin skipped
          /\ Distinct(waitList')
      BY <3>2, <3>4, <3>7, <3>8, <3>9
    <3>15. PhaseInv'
      BY <1>1, <3>2, <3>3, <3>c, <3>l DEF PhaseInv
    <3>16. CondInv'
      BY <1>1, <3>2, <3>6, <3>c, <3>l DEF CondInv
    <3>17. NotifiedInv'
      <4>1. notified \subseteq Threads /\ notified' \subseteq Threads
        BY <3>10, <1>1 DEF MonitorTypes
      <4>2. busy = 1
        BY <1>1, <2>b, <2>c DEF HolderInv, Inside, MonitorTypes
      <4>3. QED
        BY <1>1, <3>3, <3>c, <3>l, <4>1, <4>2 DEF NotifiedInv
    <3>18. QED
      BY <3>10, <3>11, <3>12, <3>13, <3>14, <3>15, <3>16, <3>17 DEF MonitorInv
  <2>1. QED
    BY <2>d, <2>f, <2>g
<1>21. ASSUME NEW t \in Threads, Monitors!NotifyAll(t)
      PROVE  MonitorInv'
  <2>1. MonitorTypes'
    BY <1>1, <1>21 DEF MonitorTypes, Returning, Inside, Leaving, Monitors!NotifyAll
  <2>2. WalkInv'
    BY <1>1, <1>21 DEF MonitorTypes, WalkInv, Returning, Inside, Leaving, Monitors!NotifyAll
  <2>3. HolderInv'
    BY <1>1, <1>21 DEF MonitorTypes, HolderInv, Returning, Inside, Leaving, Monitors!NotifyAll
  <2>4. PlaceInv'
    BY <1>1, <1>21 DEF MonitorTypes, PlaceInv, Returning, Inside, Leaving, Monitors!NotifyAll
  <2>5. OwnerInv'
    BY <1>1, <1>21 DEF MonitorTypes, OwnerInv, Returning, Inside, Leaving, Monitors!NotifyAll
  <2>6. PhaseInv'
    BY <1>1, <1>21 DEF MonitorTypes, PhaseInv, Returning, Inside, Leaving, Monitors!NotifyAll
  <2>7. CondInv'
    BY <1>1, <1>21 DEF MonitorTypes, CondInv, Returning, Inside, Leaving, Monitors!NotifyAll
  <2>8. NotifiedInv'
    BY <1>1, <1>21 DEF MonitorTypes, NotifiedInv, Returning, Inside, Leaving, Monitors!NotifyAll
  <2>9. QED
    BY <2>1, <2>2, <2>3, <2>4, <2>5, <2>6, <2>7, <2>8 DEF MonitorInv
<1>22. ASSUME NEW t \in Threads, Monitors!NotifyAllReturns(t)
      PROVE  MonitorInv'
  <2>1. MonitorTypes'
    BY <1>1, <1>22 DEF MonitorTypes, Returning, Inside, Leaving, Monitors!NotifyAllReturns
  <2>2. WalkInv'
    BY <1>1, <1>22
       DEF MonitorTypes, WalkInv, Returning, Inside, Leaving, Monitors!NotifyAllReturns
  <2>3. HolderInv'
    BY <1>1, <1>22
       DEF MonitorTypes, HolderInv, Returning, Inside, Leaving, Monitors!NotifyAllReturns
  <2>4. PlaceInv'
    BY <1>1, <1>22
       DEF MonitorTypes, PlaceInv, Returning, Inside, Leaving, Monitors!NotifyAllReturns
  <2>5. OwnerInv'
    BY <1>1, <1>22
       DEF MonitorTypes, OwnerInv, Returning, Inside, Leaving, Monitors!NotifyAllReturns
  <2>6. PhaseInv'
    BY <1>1, <1>22
       DEF MonitorTypes, PhaseInv, Returning, Inside, Leaving, Monitors!NotifyAllReturns
  <2>7. CondInv'
    BY <1>1, <1>22
       DEF MonitorTypes, CondInv, Returning, Inside, Leaving, Monitors!NotifyAllReturns
  <2>8. NotifiedInv'
    BY <1>1, <1>22
       DEF MonitorTypes, NotifiedInv, Returning, Inside, Leaving, Monitors!NotifyAllReturns
  <2>9. QED
    BY <2>1, <2>2, <2>3, <2>4, <2>5, <2>6, <2>7, <2>8 DEF MonitorInv
<1>23. QED
  BY <1>2, <1>3, <1>4, <1>5, <1>6, <1>7, <1>8, <1>9, <1>10, <1>11, <1>12, <1>13, <1>14, <1>15,
     <1>16, <1>17, <1>18, <1>19, <1>20, <1>21, <1>22
     DEF Monitors!MonitorNext, Monitors!LockStep

\* A step of the other systems leaves the monitor alone.
LEMMA MonitorStutter == ASSUME MonitorInv, UNCHANGED Monitors!monitorVars PROVE MonitorInv'
BY DEF MonitorInv, MonitorTypes, WalkInv, HolderInv, PlaceInv, OwnerInv, PhaseInv, CondInv,
       NotifiedInv, Monitors!monitorVars, Monitors!vars, Monitors!conditionVars

\* At first nobody waits, for the lock or on the condition.
LEMMA MonitorInit == Monitors!InitForLock => MonitorInv
<1> SUFFICES ASSUME Monitors!InitForLock PROVE MonitorInv
  OBVIOUS
<1>1. (\A u : ~In(u, <<>>)) /\ Distinct(<<>>) /\ <<>> \in Seq(Threads)
  BY SmallStacks
<1>2. /\ busy = 0 /\ list = <<>> /\ waitList = <<>> /\ notified = {} /\ marked = {}
      /\ \A t \in Threads : /\ pc[t] = "out" /\ phase[t] = "none" /\ grabbed[t] = <<>>
                            /\ wakeStack[t] = <<>>
  BY DEF Monitors!InitForLock, Monitors!Init
<1>3. MonitorTypes
  BY <1>1 DEF Monitors!InitForLock, Monitors!Init, MonitorTypes, Monitors!Pcs
<1>4. WalkInv /\ HolderInv /\ PlaceInv /\ OwnerInv
  BY <1>1, <1>2 DEF WalkInv, HolderInv, Inside, PlaceInv, OwnerInv
<1>5. PhaseInv /\ CondInv /\ NotifiedInv
  BY <1>1, <1>2 DEF PhaseInv, Returning, CondInv, NotifiedInv
<1>6. QED
  BY <1>3, <1>4, <1>5 DEF MonitorInv

\* The monitor among the systems of MCWaits.
MonitorOK == which = "monitor" => MonitorInv

\* The invariant of the monitor holds in every behaviour.
LEMMA MonitorKeepsInvariant == MCSpec => []MonitorOK
<1>1. MCInit => MonitorOK
  BY MonitorInit DEF MCInit, MonitorOK
<1>2. MonitorOK /\ [MCNext]_MCVars => MonitorOK'
  <2> SUFFICES ASSUME MonitorOK, [MCNext]_MCVars, which' = "monitor" PROVE MonitorInv'
    BY DEF MonitorOK
  <2>1. CASE MCNext
    BY <2>1, MonitorStep DEF MCNext, MonitorOK
  <2>2. CASE UNCHANGED MCVars
    BY <2>2, MonitorStutter
       DEF MCVars, monitorOnly, MonitorOK, Monitors!monitorVars, Monitors!vars,
           Monitors!conditionVars
  <2>3. QED
    BY <2>1, <2>2
<1>3. QED
  BY <1>1, <1>2, PTL DEF MCSpec

\* No notification is lost, for any number of threads: a thread that waits on the condition
\* and was not unparked is on its list with a parker that can be locked, or it was notified
\* and its wait block is where somebody will unpark it from.
THEOREM NoNotificationLost == MCSpec => []NobodyForgotten
<1>1. MonitorOK => NobodyForgotten
  BY SameLists
     DEF MonitorOK, MonitorInv, MonitorTypes, CondInv, NotifiedInv, NobodyForgotten,
         Monitors!NobodyForgotten, Monitors!HeldBySomeone
<1>2. QED
  BY <1>1, MonitorKeepsInvariant, PTL

\* When WaitEx has returned its wait block is on no list: the part of BlocksLeave that is
\* about the monitor.
MonitorBlocksLeave == which = "monitor" => Monitors!BlocksRemoved

THEOREM MonitorBlocksAreRemoved == MCSpec => []MonitorBlocksLeave
<1>1. MonitorOK => MonitorBlocksLeave
  BY SameLists
     DEF MonitorOK, MonitorInv, MonitorTypes, OwnerInv, PhaseInv, CondInv, Leaving,
         MonitorBlocksLeave, Monitors!BlocksRemoved, Monitors!HeldBySomeone
<1>2. QED
  BY <1>1, MonitorKeepsInvariant, PTL

-----------------------------------------------------------------------------
(* The reentrant reader/writer lock. *)

\* The resource table of a thread: what it has an entry for, and with which count.
OneEach(s) == \A i, j \in 1..Len(s) : s[i][1] = s[j][1] => i = j
HasEntry(s, l) == \E i \in 1..Len(s) : s[i][1] = l
RefCount(s, l) ==
  IF HasEntry(s, l) THEN s[CHOOSE i \in 1..Len(s) : s[i][1] = l][2] ELSE 0

Entries == Locks \X Nat
Wheres == {"out", "setFirst", "readWait", "exitRead", "exitEntry", "setWriter", "writeWait",
           "exitWrite", "exitAndPark", "condition"}

RWTypes ==
  /\ word \in [Locks -> Nat]
  /\ firstReader \in [Locks -> Threads \cup {NoThread}] /\ firstReaderCount \in [Locks -> Nat]
  /\ writer \in [Locks -> Threads \cup {NoThread}] /\ writerCount \in [Locks -> Nat]
  /\ table \in [Threads -> Seq(Entries)]
  /\ where \in [Threads -> Wheres] /\ using \in [Threads -> Locks \cup {NoLock}]
  /\ savedCount \in [Threads -> Nat]
  /\ reading \in [Threads -> [Locks -> Nat]] /\ writing \in [Threads -> [Locks -> Nat]]

\* A thread uses a lock while it is in a call, and remembers a count from the release of
\* the lock, on a condition, to the end of the call.
UsingInv ==
  \A t \in Threads :
    /\ where[t] = "out" <=> using[t] = NoLock
    /\ savedCount[t] > 0 => where[t] \in {"exitAndPark", "condition", "setWriter"}
    /\ where[t] \in {"exitAndPark", "condition"} => savedCount[t] > 0

\* A lock has one entry at most, and that of a reader that waits is the last one.
TableInv ==
  \A t \in Threads :
    /\ OneEach(table[t])
    /\ where[t] = "readWait" =>
         Len(table[t]) > 0 /\ table[t][Len(table[t])][1] = using[t]

Enrolling == {"readWait", "exitEntry", "setFirst", "exitRead"}

\* What is recorded of the acquisitions of a reader, and how it differs from what the
\* reader has during the calls that change it.
ReadsRecorded(t, l) ==
  /\ firstReader[l] = t =>
       /\ ~HasEntry(table[t], l) /\ ~(using[t] = l /\ where[t] \in Enrolling)
       /\ firstReaderCount[l] = reading[t][l] /\ reading[t][l] > 0
  /\ using[t] = l /\ where[t] = "readWait" =>
       HasEntry(table[t], l) /\ RefCount(table[t], l) = 1 /\ reading[t][l] = 0
  /\ using[t] = l /\ where[t] = "exitEntry" =>
       HasEntry(table[t], l) /\ RefCount(table[t], l) = 0 /\ reading[t][l] = 1
  /\ using[t] = l /\ where[t] \in {"setFirst", "exitRead"} =>
       ~HasEntry(table[t], l) /\ reading[t][l] = 1
  /\ using[t] = l /\ where[t] = "setFirst" => firstReader[l] = NoThread
  /\ firstReader[l] # t /\ ~(using[t] = l /\ where[t] \in Enrolling) =>
       /\ RefCount(table[t], l) = reading[t][l]
       /\ HasEntry(table[t], l) => reading[t][l] > 0

ReadInv == \A t \in Threads, l \in Locks : ReadsRecorded(t, l)

\* One reader at most is about to be recorded in the lock.
FirstInv ==
  \A s, t \in Threads :
    where[s] = "setFirst" /\ where[t] = "setFirst" /\ using[s] = using[t] => s = t

Changing == {"setWriter", "exitWrite", "exitAndPark"}

\* The same for the writer.
WritesRecorded(t, l) ==
  /\ writer[l] = t => writing[t][l] > 0 /\ writerCount[l] = writing[t][l]
  /\ using[t] = l /\ where[t] \in Changing => writing[t][l] > 0 /\ writer[l] # t
  /\ writing[t][l] > 0 => writer[l] = t \/ (using[t] = l /\ where[t] \in Changing)
  /\ using[t] = l /\ where[t] = "setWriter" =>
       writing[t][l] = IF savedCount[t] = 0 THEN 1 ELSE savedCount[t]

WriteInv == \A t \in Threads, l \in Locks : WritesRecorded(t, l)

ReadersOf(l) == {t \in Threads : reading[t][l] > 0}
WritersOf(l) == {t \in Threads : writing[t][l] > 0}

WordInv ==
  \A l \in Locks :
    /\ word[l] = Cardinality(ReadersOf(l)) + (IF WritersOf(l) = {} THEN 0 ELSE WRITING)
    /\ WritersOf(l) # {} => ReadersOf(l) = {}
    /\ \A s, t \in WritersOf(l) : s = t

ReentrantRWInv ==
  RWTypes /\ UsingInv /\ TableInv /\ ReadInv /\ FirstInv /\ WriteInv /\ WordInv

\* What an entry of a table says.
LEMMA EntryLemma ==
  ASSUME NEW s \in Seq(Entries), OneEach(s), NEW i \in 1..Len(s)
  PROVE  HasEntry(s, s[i][1]) /\ RefCount(s, s[i][1]) = s[i][2] /\ s[i] = <<s[i][1], s[i][2]>>
         /\ s[i][1] \in Locks /\ s[i][2] \in Nat
<1>1. HasEntry(s, s[i][1])
  BY DEF HasEntry
<1>2. (CHOOSE j \in 1..Len(s) : s[j][1] = s[i][1]) = i
  BY DEF OneEach
<1>3. s[i] \in Entries
  OBVIOUS
<1>4. /\ s[i] = <<s[i][1], s[i][2]>> /\ s[i][1] \in Locks /\ s[i][2] \in Nat
  BY <1>3 DEF Entries
<1>5. RefCount(s, s[i][1]) = s[i][2]
  BY <1>1, <1>2 DEF RefCount
<1>6. QED
  BY <1>1, <1>4, <1>5

\* Two tables with the same entries, but for those of one lock.
LEMMA SameEntriesLemma ==
  ASSUME NEW s \in Seq(Entries), NEW r \in Seq(Entries), OneEach(s), OneEach(r), NEW l,
         \A i \in 1..Len(s) : s[i][1] # l => \E j \in 1..Len(r) : r[j] = s[i],
         \A j \in 1..Len(r) : r[j][1] # l => \E i \in 1..Len(s) : r[j] = s[i]
  PROVE  \A k \in Locks \ {l} :
           (HasEntry(r, k) <=> HasEntry(s, k)) /\ RefCount(r, k) = RefCount(s, k)
<1> TAKE k \in Locks \ {l}
<1>1. CASE HasEntry(s, k)
  <2>1. PICK i \in 1..Len(s) : s[i][1] = k
    BY <1>1 DEF HasEntry
  <2>2. PICK j \in 1..Len(r) : r[j] = s[i]
    BY <2>1
  <2>3. RefCount(s, k) = s[i][2] /\ RefCount(r, k) = r[j][2] /\ HasEntry(r, k)
    BY <2>1, <2>2, EntryLemma
  <2>4. QED
    BY <1>1, <2>2, <2>3
<1>2. CASE ~HasEntry(s, k)
  <2>1. ~HasEntry(r, k)
    BY <1>2 DEF HasEntry
  <2>2. QED
    BY <1>2, <2>1 DEF RefCount
<1>3. QED
  BY <1>1, <1>2

\* LookupEntryOnResourceTable finds the entry of the lock.
LEMMA LookupLemma ==
  ASSUME NEW t \in Threads, table[t] \in Seq(Entries), OneEach(table[t]), NEW l \in Locks
  PROVE  LET i == RRWLock!Lookup(t, l) IN
         /\ i # 0 <=> HasEntry(table[t], l)
         /\ i # 0 => i \in 1..Len(table[t]) /\ table[t][i][1] = l
                     /\ table[t][i][2] = RefCount(table[t], l)
<1> DEFINE s == table[t]
<1>1. CASE ~HasEntry(s, l)
  BY <1>1 DEF HasEntry, RRWLock!Lookup
<1>2. CASE HasEntry(s, l)
  <2>1. PICK i \in 1..Len(s) : s[i][1] = l
    BY <1>2 DEF HasEntry
  <2>2. Len(s) \in Nat /\ \A j \in (i + 1)..Len(s) : s[j][1] # l
    BY <2>1 DEF OneEach
  <2>3. RRWLock!Lookup(t, l) = CHOOSE n \in 1..Len(s) :
          s[n][1] = l /\ \A j \in (n + 1)..Len(s) : s[j][1] # l
    BY <2>1 DEF RRWLock!Lookup
  <2> DEFINE n == RRWLock!Lookup(t, l)
  <2>4. n \in 1..Len(s) /\ s[n][1] = l
    BY <2>1, <2>2, <2>3
  <2> HIDE DEF n
  <2>5. RefCount(s, l) = s[n][2]
    BY <2>4, EntryLemma
  <2>6. QED
    BY <1>2, <2>4, <2>5 DEF n
<1>3. QED
  BY <1>1, <1>2

\* An entry for one more lock.
LEMMA AddEntryLemma ==
  ASSUME NEW s \in Seq(Entries), OneEach(s), NEW l \in Locks, ~HasEntry(s, l)
  PROVE  LET r == Append(s, <<l, 1>>) IN
         /\ r \in Seq(Entries) /\ OneEach(r) /\ Len(r) > 0 /\ r[Len(r)][1] = l
         /\ HasEntry(r, l) /\ RefCount(r, l) = 1
         /\ \A k \in Locks \ {l} :
              (HasEntry(r, k) <=> HasEntry(s, k)) /\ RefCount(r, k) = RefCount(s, k)
<1> DEFINE e == <<l, 1>>
           r == Append(s, e)
<1>1. e \in Entries /\ e[1] = l /\ e[2] = 1
  BY DEF Entries
<1> HIDE DEF e
<1>2. /\ r \in Seq(Entries) /\ Len(r) = Len(s) + 1 /\ Len(s) \in Nat
      /\ r[Len(s) + 1] = e /\ \A i \in 1..Len(s) : r[i] = s[i]
  BY <1>1
<1> HIDE DEF r
<1>3. OneEach(r)
  BY <1>1, <1>2 DEF OneEach, HasEntry
<1>4. HasEntry(r, l) /\ RefCount(r, l) = 1
  <2>1. Len(r) \in 1..Len(r) /\ r[Len(r)] = e
    BY <1>2
  <2>2. QED
    BY <1>1, <1>2, <1>3, <2>1, EntryLemma
<1>5. \A k \in Locks \ {l} :
        (HasEntry(r, k) <=> HasEntry(s, k)) /\ RefCount(r, k) = RefCount(s, k)
  <2>1. \A i \in 1..Len(s) : s[i][1] # l => \E j \in 1..Len(r) : r[j] = s[i]
    BY <1>2
  <2>2. \A j \in 1..Len(r) : r[j][1] # l => \E i \in 1..Len(s) : r[j] = s[i]
    BY <1>1, <1>2
  <2>3. QED
    BY <1>2, <1>3, <2>1, <2>2, SameEntriesLemma
<1>6. QED
  BY <1>1, <1>2, <1>3, <1>4, <1>5 DEF r, e

\* Another count in one entry.
LEMMA SetCountLemma ==
  ASSUME NEW s \in Seq(Entries), OneEach(s), NEW i \in 1..Len(s), NEW n \in Nat,
         NEW r \in Seq(Entries), Len(r) = Len(s), r[i][1] = s[i][1], r[i][2] = n,
         \A j \in 1..Len(s) : j # i => r[j] = s[j]
  PROVE  /\ OneEach(r) /\ HasEntry(r, s[i][1]) /\ RefCount(r, s[i][1]) = n
         /\ \A k \in Locks \ {s[i][1]} :
              (HasEntry(r, k) <=> HasEntry(s, k)) /\ RefCount(r, k) = RefCount(s, k)
<1> DEFINE l == s[i][1]
<1>1. Len(s) \in Nat /\ l = s[i][1]
  OBVIOUS
<1> HIDE DEF l
<1>2. \A j \in 1..Len(s) : r[j][1] = s[j][1]
  BY <1>1
<1>3. OneEach(r)
  BY <1>1, <1>2 DEF OneEach
<1>4. HasEntry(r, l) /\ RefCount(r, l) = n
  BY <1>1, <1>3, EntryLemma
<1>5. \A k \in Locks \ {l} :
        (HasEntry(r, k) <=> HasEntry(s, k)) /\ RefCount(r, k) = RefCount(s, k)
  <2>1. \A j \in 1..Len(s) : s[j][1] # l => \E m \in 1..Len(r) : r[m] = s[j]
    BY <1>1
  <2>2. \A j \in 1..Len(r) : r[j][1] # l => \E m \in 1..Len(s) : r[j] = s[m]
    BY <1>1
  <2>3. QED
    BY <1>3, <2>1, <2>2, SameEntriesLemma, ZenonT(30)
<1>6. QED
  BY <1>1, <1>3, <1>4, <1>5

\* The entry of one lock is freed.
LEMMA FreeEntryLemma ==
  ASSUME NEW s \in Seq(Entries), OneEach(s), NEW i \in 1..Len(s)
  PROVE  LET r == SubSeq([s EXCEPT ![i] = s[Len(s)]], 1, Len(s) - 1) IN
         /\ r \in Seq(Entries) /\ OneEach(r) /\ ~HasEntry(r, s[i][1])
         /\ \A k \in Locks \ {s[i][1]} :
              (HasEntry(r, k) <=> HasEntry(s, k)) /\ RefCount(r, k) = RefCount(s, k)
<1> DEFINE n == Len(s)
           q == [s EXCEPT ![i] = s[n]]
           r == SubSeq(q, 1, n - 1)
           l == s[i][1]
<1>1. n \in Nat /\ n >= 1 /\ n \in 1..n /\ i <= n /\ l \in Locks
  BY DEF Entries
<1>2. /\ q \in Seq(Entries) /\ Len(q) = n /\ q[i] = s[n]
      /\ \A j \in 1..n : j # i => q[j] = s[j]
  BY <1>1
<1> HIDE DEF q
<1>3. /\ r \in Seq(Entries) /\ Len(r) = n - 1 /\ \A j \in 1..n - 1 : r[j] = q[j]
  BY <1>1, <1>2
<1> HIDE DEF r
<1>4. \A j \in 1..Len(r) : r[j] = IF j = i THEN s[n] ELSE s[j]
  BY <1>1, <1>2, <1>3
<1>5. OneEach(r)
  <2> SUFFICES ASSUME NEW a \in 1..Len(r), NEW b \in 1..Len(r), r[a][1] = r[b][1] PROVE a = b
    BY DEF OneEach
  <2> DEFINE old(j) == IF j = i THEN n ELSE j
  <2>1. ASSUME NEW j \in 1..Len(r) PROVE old(j) \in 1..Len(s) /\ r[j] = s[old(j)]
    BY <1>1, <1>3, <1>4
  <2>2. old(a) = old(b)
    <3> HIDE DEF old
    <3> QED BY <2>1, SMTT(30) DEF OneEach
  <2>3. QED
    BY <2>2, <1>1, <1>3
<1>6. ~HasEntry(r, l)
  <2> SUFFICES ASSUME NEW j \in 1..Len(r) PROVE r[j][1] # l
    BY DEF HasEntry
  <2>1. CASE j = i
    <3>1. n # i
      BY <1>1, <1>3, <2>1
    <3>2. s[n][1] # l
      BY <1>1, <3>1 DEF OneEach
    <3>3. QED
      BY <1>4, <2>1, <3>2
  <2>2. CASE j # i
    BY <1>1, <1>3, <1>4, <2>2 DEF OneEach
  <2>3. QED
    BY <2>1, <2>2
<1>a. l = s[i][1]
  OBVIOUS
<1> HIDE DEF l
<1>7. \A k \in Locks \ {l} :
        (HasEntry(r, k) <=> HasEntry(s, k)) /\ RefCount(r, k) = RefCount(s, k)
  <2>1. ASSUME NEW j \in 1..Len(s), s[j][1] # l PROVE \E m \in 1..Len(r) : r[m] = s[j]
    <3>1. j # i
      BY <2>1, <1>a
    <3>2. CASE j < n
      BY <1>1, <1>3, <1>4, <3>1, <3>2
    <3>3. CASE j = n
      BY <1>1, <1>3, <1>4, <3>1, <3>3
    <3>4. QED
      BY <1>1, <3>2, <3>3
  <2>2. \A j \in 1..Len(r) : r[j][1] # l => \E m \in 1..Len(s) : r[j] = s[m]
    BY <1>1, <1>3, <1>4
  <2>3. QED
    BY <1>1, <1>3, <1>5, <2>1, <2>2, SameEntriesLemma
<1>8. QED
  BY <1>3, <1>5, <1>6, <1>7 DEF r, q, l

\* Every step keeps the invariant.
LEMMA ReentrantRWStep ==
  ASSUME ReentrantRWInv, RRWLock!Next PROVE ReentrantRWInv'
<1> USE DEF RRWLock!fields
<1>1. /\ RWTypes /\ UsingInv /\ TableInv /\ ReadInv /\ FirstInv /\ WriteInv /\ WordInv
      /\ NoThread \notin Threads /\ NoLock \notin Locks /\ IsFiniteSet(Threads)
      /\ WRITING \in Nat \ {0} /\ MaxDepth \in Nat \ {0}
  BY WaitsAssumption
     DEF WaitsAssumption, ReentrantRWInv, RRWLock!ReentrantReadWriteLockAssumption,
         RRWLock!IsFiniteSet, IsFiniteSet
<1>2. ASSUME NEW t \in Threads, NEW l \in Locks, RRWLock!FirstReaderEnters(t, l)
      PROVE  ReentrantRWInv'
  <2>v. /\ word[l] = 0 /\ word'[l] = 1
        /\ where[t] = "out" /\ where'[t] = "setFirst" /\ using'[t] = l
        /\ reading'[t][l] = reading[t][l] + 1
        /\ UNCHANGED <<firstReader, firstReaderCount, writer, writerCount, table, savedCount,
                       writing>>
    BY <1>1, <1>2 DEF RWTypes, RRWLock!FirstReaderEnters, RRWLock!Begin, RRWLock!Read
  <2>o. /\ \A k \in Locks \ {l} : word'[k] = word[k]
        /\ \A s \in Threads \ {t} : where'[s] = where[s]
        /\ \A s \in Threads \ {t} : using'[s] = using[s]
        /\ \A s \in Threads \ {t} : reading'[s] = reading[s]
        /\ \A k \in Locks \ {l} : reading'[t][k] = reading[t][k]
    BY <1>1, <1>2 DEF RWTypes, RRWLock!FirstReaderEnters, RRWLock!Begin, RRWLock!Read
  <2>u. /\ where[t] = "out" <=> using[t] = NoLock
        /\ l # NoLock /\ NoLock \notin Locks /\ t # NoThread /\ savedCount[t] \in Nat
        /\ savedCount[t] > 0 => where[t] \in {"exitAndPark", "condition", "setWriter"}
        /\ where[t] \in {"exitAndPark", "condition"} => savedCount[t] > 0
    BY <1>1 DEF UsingInv, RWTypes
  <2>f. \A k \in Locks : IsFiniteSet(ReadersOf(k)) /\ Cardinality(ReadersOf(k)) \in Nat
    BY <1>1, FS_Subset, FS_CardinalityType DEF ReadersOf
  <2>a. ReadersOf(l) = {} /\ WritersOf(l) = {}
    BY <1>1, <2>f, <2>v, FS_EmptySet DEF WordInv
  <2>b. reading'[t][l] = 1 /\ reading[t][l] = 0
    BY <1>1, <2>a, <2>v DEF RWTypes, ReadersOf
  <2>c. /\ ReadersOf(l)' = {t}
        /\ \A k \in Locks \ {l} : ReadersOf(k)' = ReadersOf(k)
        /\ \A k \in Locks : WritersOf(k)' = WritersOf(k)
    BY <2>a, <2>b, <2>o, <2>v DEF ReadersOf, WritersOf
  <2>e. word'[l] = Cardinality(ReadersOf(l)')
    BY <2>c, <2>v, FS_Singleton
  <2>d. /\ firstReader[l] = NoThread /\ ~HasEntry(table[t], l)
        /\ \A s \in Threads : ~(using[s] = l /\ where[s] = "setFirst")
    BY <1>1, <2>a, <2>v DEF RWTypes, ReadInv, ReadsRecorded, UsingInv, ReadersOf, Enrolling
  <2>1. RWTypes'
    BY <1>1, <1>2, SMTT(30) DEF RWTypes, Wheres, RRWLock!FirstReaderEnters, RRWLock!Begin, RRWLock!Read
  <2>2. UsingInv'
    BY <1>1, <2>o, <2>v DEF UsingInv
  <2>3. TableInv'
    BY <1>1, <2>o, <2>v DEF TableInv, UsingInv
  <2>4. ReadInv'
    BY <1>1, <2>o, <2>v, <2>b, <2>d DEF ReadInv, ReadsRecorded, Enrolling
  <2>5. FirstInv'
    BY <1>1, <2>o, <2>v, <2>d DEF FirstInv
  <2>6. WriteInv'
    BY <1>1, <2>o, <2>v DEF WriteInv, WritesRecorded, Changing
  <2>7. WordInv'
    <3> SUFFICES ASSUME NEW k \in Locks
                   PROVE  /\ word'[k] = Cardinality(ReadersOf(k)')
                                          + (IF WritersOf(k)' = {} THEN 0 ELSE WRITING)
                          /\ WritersOf(k)' # {} => ReadersOf(k)' = {}
                          /\ \A s, r \in WritersOf(k)' : s = r
      BY DEF WordInv
    <3>1. CASE k = l
      <4>1. word'[l] = Cardinality(ReadersOf(l)') + (IF WritersOf(l)' = {} THEN 0 ELSE WRITING)
        BY <2>v, <2>a, <2>c, <2>e
      <4>2. WritersOf(l)' # {} => ReadersOf(l)' = {}
        BY <2>a, <2>c
      <4>3. \A s, r \in WritersOf(l)' : s = r
        BY <2>a, <2>c
      <4>4. QED
        BY <3>1, <4>1, <4>2, <4>3
    <3>2. CASE k # l
      BY <1>1, <2>o, <2>c, <3>2 DEF WordInv
    <3>3. QED
      BY <3>1, <3>2
  <2>8. QED
    BY <2>1, <2>2, <2>3, <2>4, <2>5, <2>6, <2>7 DEF ReentrantRWInv
<1>3. ASSUME NEW t \in Threads, NEW l \in Locks, RRWLock!SetFirstReader(t, l)
      PROVE  ReentrantRWInv'
  <2>v. /\ using[t] = l /\ where[t] = "setFirst" /\ where'[t] = "out" /\ using'[t] = NoLock
        /\ firstReader'[l] = t /\ firstReaderCount'[l] = 1
        /\ UNCHANGED <<word, writer, writerCount, table, savedCount, reading, writing>>
    BY <1>1, <1>3 DEF RWTypes, RRWLock!SetFirstReader, RRWLock!End
  <2>o. /\ \A s \in Threads \ {t} : where'[s] = where[s]
        /\ \A s \in Threads \ {t} : using'[s] = using[s]
        /\ \A k \in Locks \ {l} : firstReader'[k] = firstReader[k]
        /\ \A k \in Locks \ {l} : firstReaderCount'[k] = firstReaderCount[k]
    BY <1>1, <1>3 DEF RWTypes, RRWLock!SetFirstReader, RRWLock!End
  <2>u. /\ where[t] = "out" <=> using[t] = NoLock
        /\ l # NoLock /\ NoLock \notin Locks /\ t # NoThread /\ savedCount[t] \in Nat
        /\ savedCount[t] > 0 => where[t] \in {"exitAndPark", "condition", "setWriter"}
        /\ where[t] \in {"exitAndPark", "condition"} => savedCount[t] > 0
    BY <1>1 DEF UsingInv, RWTypes
  <2>d. /\ firstReader[l] = NoThread
        /\ \A s \in Threads \ {t} : ~(using[s] = l /\ where[s] = "setFirst")
    BY <1>1, <2>v DEF ReadInv, ReadsRecorded, FirstInv
  <2>r. \A k \in Locks : ReadersOf(k)' = ReadersOf(k) /\ WritersOf(k)' = WritersOf(k)
    BY <2>v DEF ReadersOf, WritersOf
  <2>1. RWTypes'
    BY <1>1, <1>3, <2>v, <2>d, <2>u DEF RWTypes, Wheres, RRWLock!SetFirstReader, RRWLock!End
  <2>2. UsingInv'
    BY <1>1, <2>o, <2>v DEF UsingInv
  <2>3. TableInv'
    BY <1>1, <2>o, <2>v DEF TableInv, UsingInv
  <2>4. ReadInv'
    BY <1>1, <2>o, <2>v, <2>d DEF ReadInv, ReadsRecorded, Enrolling
  <2>5. FirstInv'
    BY <1>1, <2>o, <2>v DEF FirstInv
  <2>6. WriteInv'
    BY <1>1, <2>o, <2>v DEF WriteInv, WritesRecorded, Changing
  <2>7. WordInv'
    BY <1>1, <2>r, <2>v DEF WordInv
  <2>8. QED
    BY <2>1, <2>2, <2>3, <2>4, <2>5, <2>6, <2>7 DEF ReentrantRWInv
<1>4. ASSUME NEW t \in Threads, NEW l \in Locks, RRWLock!ReadsAgain(t, l),
             firstReader[l] = t
      PROVE  ReentrantRWInv'
  <2>v. /\ where[t] = "out" /\ firstReader[l] = t /\ reading'[t][l] = reading[t][l] + 1
        /\ firstReaderCount'[l] = firstReaderCount[l] + 1
        /\ UNCHANGED <<word, firstReader, writer, writerCount, table, savedCount, writing, where,
                       using>>
    BY <1>1, <1>4
       DEF RWTypes, RRWLock!ReadsAgain, RRWLock!Local, RRWLock!Read, RRWLock!AddToRefCount
  <2>o. /\ \A s \in Threads \ {t} : reading'[s] = reading[s]
        /\ \A k \in Locks \ {l} : reading'[t][k] = reading[t][k]
        /\ \A k \in Locks \ {l} : firstReaderCount'[k] = firstReaderCount[k]
    BY <1>1, <1>4 DEF RWTypes, RRWLock!ReadsAgain, RRWLock!Local, RRWLock!Read
  <2>u. /\ where[t] = "out" <=> using[t] = NoLock
        /\ l # NoLock /\ NoLock \notin Locks /\ t # NoThread /\ savedCount[t] \in Nat
        /\ savedCount[t] > 0 => where[t] \in {"exitAndPark", "condition", "setWriter"}
        /\ where[t] \in {"exitAndPark", "condition"} => savedCount[t] > 0
    BY <1>1 DEF UsingInv, RWTypes
  <2>p. reading[t][l] > 0 /\ reading'[t][l] > 0
    BY <1>1, <1>4, <2>v
       DEF RWTypes, UsingInv, ReadInv, ReadsRecorded, WriteInv, WritesRecorded, Enrolling
  <2>q. \A s \in Threads, k \in Locks :
          (reading'[s][k] > 0 <=> reading[s][k] > 0) /\ (writing'[s][k] > 0 <=> writing[s][k] > 0)
    BY <2>o, <2>v, <2>p
  <2>r. \A k \in Locks : ReadersOf(k)' = ReadersOf(k) /\ WritersOf(k)' = WritersOf(k)
    BY <2>q DEF ReadersOf, WritersOf
  <2>1. RWTypes'
    BY <1>1, <1>4, <2>v, <2>p, <2>u, SMTT(30)
       DEF RWTypes, Wheres, RRWLock!ReadsAgain, RRWLock!Local, RRWLock!Read
  <2>2. UsingInv'
    BY <1>1, <2>v DEF UsingInv
  <2>3. TableInv'
    BY <1>1, <2>v DEF TableInv
  <2>4. ReadInv'
    BY <1>1, <2>o, <2>v, <2>p DEF ReadInv, ReadsRecorded, Enrolling
  <2>5. FirstInv'
    BY <1>1, <2>v DEF FirstInv
  <2>6. WriteInv'
    BY <1>1, <2>v DEF WriteInv, WritesRecorded
  <2>7. WordInv'
    BY <1>1, <2>r, <2>v DEF WordInv
  <2>8. QED
    BY <2>1, <2>2, <2>3, <2>4, <2>5, <2>6, <2>7 DEF ReentrantRWInv
<1>5. ASSUME NEW t \in Threads, NEW l \in Locks, RRWLock!ReadsAgain(t, l),
             firstReader[l] # t
      PROVE  ReentrantRWInv'
  <2>v. /\ where[t] = "out" /\ firstReader[l] # t /\ reading'[t][l] = reading[t][l] + 1
        /\ RRWLock!Lookup(t, l) # 0
        /\ UNCHANGED <<word, firstReader, firstReaderCount, writer, writerCount, savedCount,
                       writing, where, using>>
    BY <1>1, <1>5
       DEF RWTypes, RRWLock!ReadsAgain, RRWLock!Local, RRWLock!Read, RRWLock!AddToRefCount
  <2>o. /\ \A s \in Threads \ {t} : reading'[s] = reading[s]
        /\ \A k \in Locks \ {l} : reading'[t][k] = reading[t][k]
    <3>1. \E n : reading' = [reading EXCEPT ![t][l] = n]
      BY <1>5, <2>v DEF RRWLock!ReadsAgain, RRWLock!Local, RRWLock!Read
    <3>2. QED
      BY <1>1, <3>1 DEF RWTypes
  <2>k. /\ table[t] \in Seq(Entries) /\ OneEach(table[t])
        /\ RRWLock!Lookup(t, l) # 0 <=> HasEntry(table[t], l)
        /\ RRWLock!Lookup(t, l) # 0 =>
             /\ RRWLock!Lookup(t, l) \in 1..Len(table[t])
             /\ table[t][RRWLock!Lookup(t, l)][1] = l
             /\ table[t][RRWLock!Lookup(t, l)][2] = RefCount(table[t], l)
    BY <1>1, LookupLemma DEF RWTypes, TableInv
  <2>t. /\ RefCount(table'[t], l) = RefCount(table[t], l) + 1
        /\ RefCount(table[t], l) = table[t][RRWLock!Lookup(t, l)][2]
        /\ HasEntry(table'[t], l) /\ HasEntry(table[t], l) /\ OneEach(table'[t])
        /\ table'[t] \in Seq(Entries) /\ table' = [table EXCEPT ![t] = table'[t]]
        /\ \A k \in Locks \ {l} :
             /\ HasEntry(table'[t], k) <=> HasEntry(table[t], k)
             /\ RefCount(table'[t], k) = RefCount(table[t], k)
    <3> DEFINE s == table[t]
               i == RRWLock!Lookup(t, l)
               c == s[i][2] + 1
               e == [s[i] EXCEPT ![2] = c]
               r == [s EXCEPT ![i] = e]
    <3>1. i # 0 /\ table' = [table EXCEPT ![t][i][2] = c]
      BY <1>5, <2>v DEF RRWLock!ReadsAgain, RRWLock!AddToRefCount
    <3>2. s[i][2] = RefCount(s, l) /\ HasEntry(s, l) /\ i \in 1..Len(s) /\ s \in Seq(Entries)
      BY <2>k, <3>1
    <3>3. s[i] \in Entries /\ s[i][2] \in Nat /\ s[i][1] = l
      BY <2>k, <3>2 DEF Entries
    <3>4. RefCount(s, l) = reading[t][l] /\ reading[t][l] > 0
      BY <1>1, <2>v, <3>2 DEF ReadInv, ReadsRecorded, UsingInv, Enrolling
    <3>5. c \in Nat
      BY <3>2, <3>3, <3>4
    <3>6. table' = [table EXCEPT ![t] = r]
      BY <1>1, <3>1 DEF RWTypes
    <3>7. table'[t] = r
      <4> HIDE DEF r
      <4> QED BY <1>1, <3>6 DEF RWTypes
    <3> HIDE DEF i, c, s
    <3>8. e \in Entries /\ e[1] = l /\ e[2] = c
      BY <3>3, <3>5 DEF Entries
    <3> HIDE DEF e
    <3>9. /\ r \in Seq(Entries) /\ Len(r) = Len(s) /\ r[i] = e
          /\ \A j \in 1..Len(s) : j # i => r[j] = s[j]
      BY <3>2, <3>8
    <3> HIDE DEF r
    <3>a. OneEach(s)
      BY <2>k DEF s
    <3>b. /\ OneEach(r) /\ HasEntry(r, l) /\ RefCount(r, l) = c
          /\ \A k \in Locks \ {l} :
               (HasEntry(r, k) <=> HasEntry(s, k)) /\ RefCount(r, k) = RefCount(s, k)
      BY <3>2, <3>3, <3>5, <3>8, <3>9, <3>a, SetCountLemma
    <3>c. QED
      BY <3>2, <3>6, <3>7, <3>9, <3>b DEF i, c, s
  <2>w. \A s \in Threads \ {t} : table'[s] = table[s]
    BY <1>1, <2>t DEF RWTypes
  <2>u. /\ where[t] = "out" <=> using[t] = NoLock
        /\ l # NoLock /\ NoLock \notin Locks /\ t # NoThread /\ savedCount[t] \in Nat
        /\ savedCount[t] > 0 => where[t] \in {"exitAndPark", "condition", "setWriter"}
        /\ where[t] \in {"exitAndPark", "condition"} => savedCount[t] > 0
    BY <1>1 DEF UsingInv, RWTypes
  <2>p. reading[t][l] > 0 /\ reading'[t][l] > 0
    BY <1>1, <1>5, <2>v, <1>5, <2>t
       DEF RWTypes, UsingInv, ReadInv, ReadsRecorded, WriteInv, WritesRecorded, Enrolling
  <2>q. \A s \in Threads, k \in Locks :
          (reading'[s][k] > 0 <=> reading[s][k] > 0) /\ (writing'[s][k] > 0 <=> writing[s][k] > 0)
    BY <2>o, <2>v, <2>p
  <2>r. \A k \in Locks : ReadersOf(k)' = ReadersOf(k) /\ WritersOf(k)' = WritersOf(k)
    BY <2>q DEF ReadersOf, WritersOf
  <2>1. RWTypes'
    <3>1. table' \in [Threads -> Seq(Entries)]
      BY <1>1, <2>t DEF RWTypes
    <3>2. reading' \in [Threads -> [Locks -> Nat]]
      BY <1>1, <1>5
         DEF RWTypes, RRWLock!ReadsAgain, RRWLock!Local, RRWLock!Read, RRWLock!AddToRefCount
    <3>3. QED
      BY <1>1, <2>v, <3>1, <3>2 DEF RWTypes
  <2>2. UsingInv'
    BY <1>1, <2>v DEF UsingInv
  <2>3. TableInv'
    BY <1>1, <2>v, <2>t, <2>w DEF TableInv, UsingInv
  <2>4. ReadInv'
    BY <1>1, <2>o, <2>v, <2>p, <2>t, <2>w DEF ReadInv, ReadsRecorded, Enrolling
  <2>5. FirstInv'
    BY <1>1, <2>v DEF FirstInv
  <2>6. WriteInv'
    BY <1>1, <2>v DEF WriteInv, WritesRecorded
  <2>7. WordInv'
    BY <1>1, <2>r, <2>v DEF WordInv
  <2>8. QED
    BY <2>1, <2>2, <2>3, <2>4, <2>5, <2>6, <2>7 DEF ReentrantRWInv
<1>6. ASSUME NEW t \in Threads, NEW l \in Locks, RRWLock!TryEnterReadTail(t, l)
      PROVE  ReentrantRWInv'
  <2>v. /\ where[t] = "out" /\ where'[t] = "readWait" /\ using'[t] = l /\ firstReader[l] # t
        /\ RRWLock!Lookup(t, l) = 0
        /\ UNCHANGED <<word, firstReader, firstReaderCount, writer, writerCount, savedCount,
                       reading, writing>>
    BY <1>1, <1>6
       DEF RWTypes, RRWLock!TryEnterReadTail, RRWLock!Begin, RRWLock!AddEntryToResourceTable
  <2>o. /\ \A s \in Threads \ {t} : where'[s] = where[s]
        /\ \A s \in Threads \ {t} : using'[s] = using[s]
    BY <1>1, <1>6 DEF RWTypes, RRWLock!TryEnterReadTail, RRWLock!Begin
  <2>k. /\ table[t] \in Seq(Entries) /\ OneEach(table[t])
        /\ RRWLock!Lookup(t, l) # 0 <=> HasEntry(table[t], l)
        /\ RRWLock!Lookup(t, l) # 0 =>
             /\ RRWLock!Lookup(t, l) \in 1..Len(table[t])
             /\ table[t][RRWLock!Lookup(t, l)][1] = l
             /\ table[t][RRWLock!Lookup(t, l)][2] = RefCount(table[t], l)
    BY <1>1, LookupLemma DEF RWTypes, TableInv
  <2>t. /\ ~HasEntry(table[t], l)
        /\ HasEntry(table'[t], l) /\ RefCount(table'[t], l) = 1 /\ OneEach(table'[t])
        /\ Len(table'[t]) > 0 /\ table'[t][Len(table'[t])][1] = l
        /\ table'[t] \in Seq(Entries) /\ table' = [table EXCEPT ![t] = table'[t]]
        /\ \A k \in Locks \ {l} :
             /\ HasEntry(table'[t], k) <=> HasEntry(table[t], k)
             /\ RefCount(table'[t], k) = RefCount(table[t], k)
    <3> DEFINE r == Append(table[t], <<l, 1>>)
    <3>1. table' = [table EXCEPT ![t] = r]
      BY <1>1, <1>6 DEF RWTypes, RRWLock!TryEnterReadTail, RRWLock!AddEntryToResourceTable
    <3>2. /\ r \in Seq(Entries) /\ OneEach(r) /\ Len(r) > 0 /\ r[Len(r)][1] = l
          /\ HasEntry(r, l) /\ RefCount(r, l) = 1
          /\ \A k \in Locks \ {l} :
               (HasEntry(r, k) <=> HasEntry(table[t], k)) /\ RefCount(r, k) = RefCount(table[t], k)
      BY <2>k, <2>v, AddEntryLemma
    <3> HIDE DEF r
    <3>3. table'[t] = r
      BY <1>1, <3>1 DEF RWTypes
    <3>4. QED
      BY <2>k, <2>v, <3>1, <3>2, <3>3
  <2>w. \A s \in Threads \ {t} : table'[s] = table[s]
    BY <1>1, <2>t DEF RWTypes
  <2>u. /\ where[t] = "out" <=> using[t] = NoLock
        /\ l # NoLock /\ NoLock \notin Locks /\ t # NoThread /\ savedCount[t] \in Nat
        /\ savedCount[t] > 0 => where[t] \in {"exitAndPark", "condition", "setWriter"}
        /\ where[t] \in {"exitAndPark", "condition"} => savedCount[t] > 0
    BY <1>1 DEF UsingInv, RWTypes
  <2>g. \A s, k : ~HasEntry(s, k) => RefCount(s, k) = 0
    BY DEF RefCount
  <2>r. \A k \in Locks : ReadersOf(k)' = ReadersOf(k) /\ WritersOf(k)' = WritersOf(k)
    BY <2>v DEF ReadersOf, WritersOf
  <2>1. RWTypes'
    BY <1>1, <1>6, <2>t, <2>u, ZenonT(30) DEF RWTypes, Wheres, RRWLock!TryEnterReadTail, RRWLock!Begin
  <2>2. UsingInv'
    BY <1>1, <2>o, <2>v DEF UsingInv
  <2>3. TableInv'
    BY <1>1, <2>o, <2>v, <2>t, <2>w DEF TableInv, UsingInv
  <2>4. ReadInv'
    BY <1>1, <2>o, <2>v, <2>g, <2>t, <2>w DEF ReadInv, ReadsRecorded, Enrolling
  <2>5. FirstInv'
    BY <1>1, <2>o, <2>v DEF FirstInv
  <2>6. WriteInv'
    BY <1>1, <2>o, <2>v DEF WriteInv, WritesRecorded, Changing
  <2>7. WordInv'
    BY <1>1, <2>r, <2>v DEF WordInv
  <2>8. QED
    BY <2>1, <2>2, <2>3, <2>4, <2>5, <2>6, <2>7 DEF ReentrantRWInv
<1>7. ASSUME NEW t \in Threads, NEW l \in Locks, RRWLock!ReadEntered(t, l)
      PROVE  ReentrantRWInv'
  <2>v. /\ word[l] < WRITING /\ word'[l] = word[l] + 1 /\ where[t] = "readWait" /\ using[t] = l
        /\ where'[t] = "out" /\ using'[t] = NoLock /\ reading'[t][l] = reading[t][l] + 1
        /\ UNCHANGED <<firstReader, firstReaderCount, writer, writerCount, table, savedCount,
                       writing>>
    BY <1>1, <1>7 DEF RWTypes, RRWLock!ReadEntered, RRWLock!End, RRWLock!Read
  <2>o. /\ \A k \in Locks \ {l} : word'[k] = word[k]
        /\ \A s \in Threads \ {t} : where'[s] = where[s]
        /\ \A s \in Threads \ {t} : using'[s] = using[s]
        /\ \A s \in Threads \ {t} : reading'[s] = reading[s]
        /\ \A k \in Locks \ {l} : reading'[t][k] = reading[t][k]
    BY <1>1, <1>7 DEF RWTypes, RRWLock!ReadEntered, RRWLock!End, RRWLock!Read
  <2>u. /\ where[t] = "out" <=> using[t] = NoLock
        /\ l # NoLock /\ NoLock \notin Locks /\ t # NoThread /\ savedCount[t] \in Nat
        /\ savedCount[t] > 0 => where[t] \in {"exitAndPark", "condition", "setWriter"}
        /\ where[t] \in {"exitAndPark", "condition"} => savedCount[t] > 0
    BY <1>1 DEF UsingInv, RWTypes
  <2>f. \A k \in Locks : IsFiniteSet(ReadersOf(k)) /\ Cardinality(ReadersOf(k)) \in Nat
    BY <1>1, FS_Subset, FS_CardinalityType DEF ReadersOf
  <2>a. WritersOf(l) = {}
    BY <1>1, <2>f, <2>v DEF WordInv
  <2>b. reading'[t][l] = 1 /\ reading[t][l] = 0
    BY <1>1, <2>v DEF RWTypes, ReadInv, ReadsRecorded
  <2>c. /\ ReadersOf(l)' = ReadersOf(l) \cup {t} /\ t \notin ReadersOf(l)
        /\ \A k \in Locks \ {l} : ReadersOf(k)' = ReadersOf(k)
        /\ \A k \in Locks : WritersOf(k)' = WritersOf(k)
    BY <2>b, <2>o, <2>v DEF ReadersOf, WritersOf
  <2>d. Cardinality(ReadersOf(l)') = Cardinality(ReadersOf(l)) + 1
    BY <2>c, <2>f, FS_AddElement
  <2>h. word[l] = Cardinality(ReadersOf(l))
    BY <1>1, <2>a, <2>f DEF WordInv
  <2>e. word'[l] = Cardinality(ReadersOf(l)')
    BY <2>d, <2>h, <2>v
  <2>1. RWTypes'
    BY <1>1, <1>7, <2>v, <2>e, SMTT(30) DEF RWTypes, Wheres, RRWLock!ReadEntered, RRWLock!End, RRWLock!Read
  <2>2. UsingInv'
    BY <1>1, <2>o, <2>v DEF UsingInv
  <2>3. TableInv'
    BY <1>1, <2>o, <2>v DEF TableInv, UsingInv
  <2>4. ReadInv'
    BY <1>1, <2>o, <2>v DEF ReadInv, ReadsRecorded, Enrolling
  <2>5. FirstInv'
    BY <1>1, <2>o, <2>v DEF FirstInv
  <2>6. WriteInv'
    BY <1>1, <2>o, <2>v DEF WriteInv, WritesRecorded, Changing
  <2>7. WordInv'
    <3> SUFFICES ASSUME NEW k \in Locks
                   PROVE  /\ word'[k] = Cardinality(ReadersOf(k)')
                                          + (IF WritersOf(k)' = {} THEN 0 ELSE WRITING)
                          /\ WritersOf(k)' # {} => ReadersOf(k)' = {}
                          /\ \A s, r \in WritersOf(k)' : s = r
      BY DEF WordInv
    <3>1. CASE k = l
      <4>1. word'[l] = Cardinality(ReadersOf(l)') + (IF WritersOf(l)' = {} THEN 0 ELSE WRITING)
        BY <2>a, <2>c, <2>d, <2>e, <2>f
      <4>2. WritersOf(l)' # {} => ReadersOf(l)' = {}
        BY <2>a, <2>c
      <4>3. \A s, r \in WritersOf(l)' : s = r
        BY <2>a, <2>c
      <4>4. QED
        BY <3>1, <4>1, <4>2, <4>3
    <3>2. CASE k # l
      BY <1>1, <2>o, <2>c, <3>2 DEF WordInv
    <3>3. QED
      BY <3>1, <3>2
  <2>8. QED
    BY <2>1, <2>2, <2>3, <2>4, <2>5, <2>6, <2>7 DEF ReentrantRWInv
<1>8. ASSUME NEW t \in Threads, NEW l \in Locks, RRWLock!ReadCancelled(t, l)
      PROVE  ReentrantRWInv'
  <2>v. /\ where[t] = "readWait" /\ using[t] = l /\ where'[t] = "out" /\ using'[t] = NoLock
        /\ UNCHANGED <<word, firstReader, firstReaderCount, writer, writerCount, savedCount,
                       reading, writing>>
    BY <1>1, <1>8 DEF RWTypes, RRWLock!ReadCancelled, RRWLock!End, RRWLock!FreeResourceTableEntry
  <2>o. /\ \A s \in Threads \ {t} : where'[s] = where[s]
        /\ \A s \in Threads \ {t} : using'[s] = using[s]
    BY <1>1, <1>8 DEF RWTypes, RRWLock!ReadCancelled, RRWLock!End
  <2>t. /\ ~HasEntry(table'[t], l) /\ OneEach(table'[t])
        /\ table'[t] \in Seq(Entries) /\ table' = [table EXCEPT ![t] = table'[t]]
        /\ \A k \in Locks \ {l} :
             /\ HasEntry(table'[t], k) <=> HasEntry(table[t], k)
             /\ RefCount(table'[t], k) = RefCount(table[t], k)
    <3> DEFINE i == Len(table[t])
               r == SubSeq([table[t] EXCEPT ![i] = table[t][Len(table[t])]], 1, Len(table[t]) - 1)
    <3>1. table' = [table EXCEPT ![t] = r]
      BY <1>8, <2>v DEF RRWLock!ReadCancelled, RRWLock!End, RRWLock!FreeResourceTableEntry
    <3>2. /\ table[t] \in Seq(Entries) /\ OneEach(table[t])
          /\ i \in 1..Len(table[t]) /\ table[t][i][1] = l
      BY <1>1, <2>v DEF RWTypes, TableInv
    <3>3. /\ r \in Seq(Entries) /\ OneEach(r) /\ ~HasEntry(r, l)
          /\ \A k \in Locks \ {l} :
               (HasEntry(r, k) <=> HasEntry(table[t], k)) /\ RefCount(r, k) = RefCount(table[t], k)
      <4> HIDE DEF i
      <4> QED BY <3>2, FreeEntryLemma
    <3> HIDE DEF r
    <3>4. table'[t] = r
      BY <1>1, <3>1 DEF RWTypes
    <3>5. QED
      BY <3>1, <3>3, <3>4
  <2>w. \A s \in Threads \ {t} : table'[s] = table[s]
    BY <1>1, <2>t DEF RWTypes
  <2>u. /\ where[t] = "out" <=> using[t] = NoLock
        /\ l # NoLock /\ NoLock \notin Locks /\ t # NoThread /\ savedCount[t] \in Nat
        /\ savedCount[t] > 0 => where[t] \in {"exitAndPark", "condition", "setWriter"}
        /\ where[t] \in {"exitAndPark", "condition"} => savedCount[t] > 0
    BY <1>1 DEF UsingInv, RWTypes
  <2>g. \A s, k : ~HasEntry(s, k) => RefCount(s, k) = 0
    BY DEF RefCount
  <2>r. \A k \in Locks : ReadersOf(k)' = ReadersOf(k) /\ WritersOf(k)' = WritersOf(k)
    BY <2>v DEF ReadersOf, WritersOf
  <2>1. RWTypes'
    BY <1>1, <1>8, <2>t DEF RWTypes, Wheres, RRWLock!ReadCancelled, RRWLock!End
  <2>2. UsingInv'
    BY <1>1, <2>o, <2>v DEF UsingInv
  <2>3. TableInv'
    BY <1>1, <2>o, <2>v, <2>t, <2>w DEF TableInv, UsingInv
  <2>4. ReadInv'
    BY <1>1, <2>o, <2>v, <2>g, <2>t, <2>w DEF ReadInv, ReadsRecorded, Enrolling
  <2>5. FirstInv'
    BY <1>1, <2>o, <2>v DEF FirstInv
  <2>6. WriteInv'
    BY <1>1, <2>o, <2>v DEF WriteInv, WritesRecorded, Changing
  <2>7. WordInv'
    BY <1>1, <2>r, <2>v DEF WordInv
  <2>8. QED
    BY <2>1, <2>2, <2>3, <2>4, <2>5, <2>6, <2>7 DEF ReentrantRWInv
<1>9. ASSUME NEW t \in Threads, NEW l \in Locks, RRWLock!ExitReadFirst(t, l),
             firstReaderCount[l] = 1
      PROVE  ReentrantRWInv'
  <2>v. /\ firstReader[l] = t /\ firstReaderCount[l] = 1 /\ firstReaderCount'[l] = 0
        /\ where[t] = "out" /\ where'[t] = "exitRead" /\ using'[t] = l /\ firstReader'[l] = NoThread
        /\ UNCHANGED <<word, writer, writerCount, table, savedCount, reading, writing>>
    BY <1>1, <1>9 DEF RWTypes, RRWLock!ExitReadFirst, RRWLock!Begin, RRWLock!Local, RRWLock!Read
  <2>o. /\ \A s \in Threads \ {t} : where'[s] = where[s]
        /\ \A s \in Threads \ {t} : using'[s] = using[s]
        /\ \A k \in Locks \ {l} : firstReader'[k] = firstReader[k]
        /\ \A k \in Locks \ {l} : firstReaderCount'[k] = firstReaderCount[k]
    BY <1>1, <1>9 DEF RWTypes, RRWLock!ExitReadFirst, RRWLock!Begin, RRWLock!Local, RRWLock!Read
  <2>u. /\ where[t] = "out" <=> using[t] = NoLock
        /\ l # NoLock /\ NoLock \notin Locks /\ t # NoThread /\ savedCount[t] \in Nat
        /\ savedCount[t] > 0 => where[t] \in {"exitAndPark", "condition", "setWriter"}
        /\ where[t] \in {"exitAndPark", "condition"} => savedCount[t] > 0
    BY <1>1 DEF UsingInv, RWTypes
  <2>r. \A k \in Locks : ReadersOf(k)' = ReadersOf(k) /\ WritersOf(k)' = WritersOf(k)
    BY <2>v DEF ReadersOf, WritersOf
  <2>1. RWTypes'
    <3>1. firstReader' \in [Locks -> Threads \cup {NoThread}]
      BY <1>1, <1>9, <2>v, <2>u, ZenonT(30)
         DEF RWTypes, RRWLock!ExitReadFirst, RRWLock!Begin, RRWLock!Local, RRWLock!Read
    <3>2. firstReaderCount' \in [Locks -> Nat]
      BY <1>1, <1>9, <2>v, <2>u
         DEF RWTypes, RRWLock!ExitReadFirst, RRWLock!Begin, RRWLock!Local, RRWLock!Read
    <3>3. where' \in [Threads -> Wheres]
      <4>1. where' = [where EXCEPT ![t] = "exitRead"]
        BY <1>9 DEF RRWLock!ExitReadFirst, RRWLock!Begin
      <4>2. QED
        BY <1>1, <4>1 DEF RWTypes, Wheres
    <3>4. using' \in [Threads -> Locks \cup {NoLock}]
      BY <1>1, <1>9 DEF RWTypes, RRWLock!ExitReadFirst, RRWLock!Begin, RRWLock!Local, RRWLock!Read
    <3>5. QED
      BY <1>1, <2>v, <3>1, <3>2, <3>3, <3>4 DEF RWTypes
  <2>2. UsingInv'
    BY <1>1, <2>o, <2>v DEF UsingInv
  <2>3. TableInv'
    BY <1>1, <2>o, <2>v DEF TableInv, UsingInv
  <2>4. ReadInv'
    BY <1>1, <2>o, <2>v DEF ReadInv, ReadsRecorded, Enrolling
  <2>5. FirstInv'
    BY <1>1, <2>o, <2>v DEF FirstInv
  <2>6. WriteInv'
    BY <1>1, <2>o, <2>v DEF WriteInv, WritesRecorded, Changing
  <2>7. WordInv'
    BY <1>1, <2>r, <2>v DEF WordInv
  <2>8. QED
    BY <2>1, <2>2, <2>3, <2>4, <2>5, <2>6, <2>7 DEF ReentrantRWInv
<1>10. ASSUME NEW t \in Threads, NEW l \in Locks, RRWLock!ExitReadFirst(t, l),
             firstReaderCount[l] # 1
      PROVE  ReentrantRWInv'
  <2>v. /\ firstReader[l] = t /\ firstReaderCount[l] # 1 /\ where[t] = "out"
        /\ firstReaderCount'[l] = firstReaderCount[l] - 1 /\ reading'[t][l] = reading[t][l] - 1
        /\ UNCHANGED <<word, firstReader, writer, writerCount, table, savedCount, writing, where,
                       using>>
    BY <1>1, <1>10 DEF RWTypes, RRWLock!ExitReadFirst, RRWLock!Begin, RRWLock!Local, RRWLock!Read
  <2>o. /\ \A k \in Locks \ {l} : firstReaderCount'[k] = firstReaderCount[k]
        /\ \A s \in Threads \ {t} : reading'[s] = reading[s]
        /\ \A k \in Locks \ {l} : reading'[t][k] = reading[t][k]
    BY <1>1, <1>10, SMTT(30)
       DEF RWTypes, RRWLock!ExitReadFirst, RRWLock!Begin, RRWLock!Local, RRWLock!Read
  <2>u. /\ where[t] = "out" <=> using[t] = NoLock
        /\ l # NoLock /\ NoLock \notin Locks /\ t # NoThread /\ savedCount[t] \in Nat
        /\ savedCount[t] > 0 => where[t] \in {"exitAndPark", "condition", "setWriter"}
        /\ where[t] \in {"exitAndPark", "condition"} => savedCount[t] > 0
    BY <1>1 DEF UsingInv, RWTypes
  <2>p. reading[t][l] > 0 /\ reading'[t][l] > 0
    BY <1>1, <1>10, <2>v
       DEF RWTypes, UsingInv, ReadInv, ReadsRecorded, WriteInv, WritesRecorded, Enrolling
  <2>q. \A s \in Threads, k \in Locks :
          (reading'[s][k] > 0 <=> reading[s][k] > 0) /\ (writing'[s][k] > 0 <=> writing[s][k] > 0)
    BY <2>o, <2>v, <2>p
  <2>r. \A k \in Locks : ReadersOf(k)' = ReadersOf(k) /\ WritersOf(k)' = WritersOf(k)
    BY <2>q DEF ReadersOf, WritersOf
  <2>1. RWTypes'
    <3>1. firstReaderCount' \in [Locks -> Nat]
      <4>1. firstReaderCount' = [firstReaderCount EXCEPT ![l] = firstReaderCount[l] - 1]
        BY <1>10, <2>v DEF RRWLock!ExitReadFirst, RRWLock!Begin, RRWLock!Local, RRWLock!Read
      <4>2. firstReaderCount[l] - 1 \in Nat
        BY <1>1, <2>p, <2>v DEF RWTypes, ReadInv, ReadsRecorded
      <4>3. QED
        BY <1>1, <4>1, <4>2 DEF RWTypes
    <3>2. reading' \in [Threads -> [Locks -> Nat]]
      <4>1. reading' = [reading EXCEPT ![t][l] = reading[t][l] - 1]
        BY <1>10, <2>v DEF RRWLock!ExitReadFirst, RRWLock!Begin, RRWLock!Local, RRWLock!Read
      <4>2. reading[t][l] - 1 \in Nat
        BY <1>1, <2>p DEF RWTypes
      <4>3. QED
        BY <1>1, <4>1, <4>2 DEF RWTypes
    <3>3. QED
      BY <1>1, <2>v, <3>1, <3>2 DEF RWTypes
  <2>2. UsingInv'
    BY <1>1, <2>v DEF UsingInv
  <2>3. TableInv'
    BY <1>1, <2>v DEF TableInv
  <2>4. ReadInv'
    BY <1>1, <2>o, <2>v, <2>p DEF ReadInv, ReadsRecorded, Enrolling
  <2>5. FirstInv'
    BY <1>1, <2>v DEF FirstInv
  <2>6. WriteInv'
    BY <1>1, <2>v DEF WriteInv, WritesRecorded
  <2>7. WordInv'
    BY <1>1, <2>r, <2>v DEF WordInv
  <2>8. QED
    BY <2>1, <2>2, <2>3, <2>4, <2>5, <2>6, <2>7 DEF ReentrantRWInv
<1>11. ASSUME NEW t \in Threads, NEW l \in Locks, RRWLock!ExitReadEntry(t, l),
             table[t][RRWLock!Lookup(t, l)][2] = 1
      PROVE  ReentrantRWInv'
  <2>v. /\ firstReader[l] # t /\ RRWLock!Lookup(t, l) # 0 /\ where[t] = "out"
        /\ table[t][RRWLock!Lookup(t, l)][2] = 1 /\ where'[t] = "exitEntry" /\ using'[t] = l
        /\ UNCHANGED <<word, firstReader, firstReaderCount, writer, writerCount, savedCount,
                       reading, writing>>
    BY <1>1, <1>11
       DEF RWTypes, RRWLock!ExitReadEntry, RRWLock!Begin, RRWLock!Local, RRWLock!Read,
           RRWLock!AddToRefCount
  <2>o. /\ \A s \in Threads \ {t} : where'[s] = where[s]
        /\ \A s \in Threads \ {t} : using'[s] = using[s]
    BY <1>1, <1>11 DEF RWTypes, RRWLock!ExitReadEntry, RRWLock!Begin, RRWLock!Local, RRWLock!Read
  <2>k. /\ table[t] \in Seq(Entries) /\ OneEach(table[t])
        /\ RRWLock!Lookup(t, l) # 0 <=> HasEntry(table[t], l)
        /\ RRWLock!Lookup(t, l) # 0 =>
             /\ RRWLock!Lookup(t, l) \in 1..Len(table[t])
             /\ table[t][RRWLock!Lookup(t, l)][1] = l
             /\ table[t][RRWLock!Lookup(t, l)][2] = RefCount(table[t], l)
    BY <1>1, LookupLemma DEF RWTypes, TableInv
  <2>t. /\ RefCount(table'[t], l) = RefCount(table[t], l) - 1
        /\ RefCount(table[t], l) = table[t][RRWLock!Lookup(t, l)][2]
        /\ HasEntry(table'[t], l) /\ HasEntry(table[t], l) /\ OneEach(table'[t])
        /\ table'[t] \in Seq(Entries) /\ table' = [table EXCEPT ![t] = table'[t]]
        /\ \A k \in Locks \ {l} :
             /\ HasEntry(table'[t], k) <=> HasEntry(table[t], k)
             /\ RefCount(table'[t], k) = RefCount(table[t], k)
    <3> DEFINE s == table[t]
               i == RRWLock!Lookup(t, l)
               c == s[i][2] - 1
               e == [s[i] EXCEPT ![2] = c]
               r == [s EXCEPT ![i] = e]
    <3>1. i # 0 /\ table' = [table EXCEPT ![t][i][2] = c]
      BY <1>11, <2>v DEF RRWLock!ExitReadEntry, RRWLock!AddToRefCount
    <3>2. s[i][2] = RefCount(s, l) /\ HasEntry(s, l) /\ i \in 1..Len(s) /\ s \in Seq(Entries)
      BY <2>k, <3>1
    <3>3. s[i] \in Entries /\ s[i][2] \in Nat /\ s[i][1] = l
      BY <2>k, <3>2 DEF Entries
    <3>4. RefCount(s, l) = reading[t][l] /\ reading[t][l] > 0
      BY <1>1, <2>v, <3>2 DEF ReadInv, ReadsRecorded, UsingInv, Enrolling
    <3>5. c \in Nat
      BY <3>2, <3>3, <3>4
    <3>6. table' = [table EXCEPT ![t] = r]
      BY <1>1, <3>1 DEF RWTypes
    <3>7. table'[t] = r
      <4> HIDE DEF r
      <4> QED BY <1>1, <3>6 DEF RWTypes
    <3> HIDE DEF i, c, s
    <3>8. e \in Entries /\ e[1] = l /\ e[2] = c
      BY <3>3, <3>5 DEF Entries
    <3> HIDE DEF e
    <3>9. /\ r \in Seq(Entries) /\ Len(r) = Len(s) /\ r[i] = e
          /\ \A j \in 1..Len(s) : j # i => r[j] = s[j]
      BY <3>2, <3>8
    <3> HIDE DEF r
    <3>a. OneEach(s)
      BY <2>k DEF s
    <3>b. /\ OneEach(r) /\ HasEntry(r, l) /\ RefCount(r, l) = c
          /\ \A k \in Locks \ {l} :
               (HasEntry(r, k) <=> HasEntry(s, k)) /\ RefCount(r, k) = RefCount(s, k)
      BY <3>2, <3>3, <3>5, <3>8, <3>9, <3>a, SetCountLemma
    <3>c. QED
      BY <3>2, <3>6, <3>7, <3>9, <3>b DEF i, c, s
  <2>w. \A s \in Threads \ {t} : table'[s] = table[s]
    BY <1>1, <2>t DEF RWTypes
  <2>u. /\ where[t] = "out" <=> using[t] = NoLock
        /\ l # NoLock /\ NoLock \notin Locks /\ t # NoThread /\ savedCount[t] \in Nat
        /\ savedCount[t] > 0 => where[t] \in {"exitAndPark", "condition", "setWriter"}
        /\ where[t] \in {"exitAndPark", "condition"} => savedCount[t] > 0
    BY <1>1 DEF UsingInv, RWTypes
  <2>r. \A k \in Locks : ReadersOf(k)' = ReadersOf(k) /\ WritersOf(k)' = WritersOf(k)
    BY <2>v DEF ReadersOf, WritersOf
  <2>1. RWTypes'
    <3>1. table' \in [Threads -> Seq(Entries)]
      BY <1>1, <2>t DEF RWTypes
    <3>2. where' \in [Threads -> Wheres]
      BY <1>1, <1>11
         DEF RWTypes, Wheres, RRWLock!ExitReadEntry, RRWLock!Begin, RRWLock!Local, RRWLock!Read,
             RRWLock!AddToRefCount
    <3>3. using' \in [Threads -> Locks \cup {NoLock}]
      BY <1>1, <1>11
         DEF RWTypes, RRWLock!ExitReadEntry, RRWLock!Begin, RRWLock!Local, RRWLock!Read,
             RRWLock!AddToRefCount
    <3>4. QED
      BY <1>1, <2>v, <3>1, <3>2, <3>3 DEF RWTypes
  <2>2. UsingInv'
    BY <1>1, <2>o, <2>v DEF UsingInv
  <2>3. TableInv'
    BY <1>1, <2>o, <2>v, <2>t, <2>w DEF TableInv, UsingInv
  <2>4. ReadInv'
    BY <1>1, <2>o, <2>v, <2>t, <2>w DEF ReadInv, ReadsRecorded, Enrolling
  <2>5. FirstInv'
    BY <1>1, <2>o, <2>v DEF FirstInv
  <2>6. WriteInv'
    BY <1>1, <2>o, <2>v DEF WriteInv, WritesRecorded, Changing
  <2>7. WordInv'
    BY <1>1, <2>r, <2>v DEF WordInv
  <2>8. QED
    BY <2>1, <2>2, <2>3, <2>4, <2>5, <2>6, <2>7 DEF ReentrantRWInv
<1>12. ASSUME NEW t \in Threads, NEW l \in Locks, RRWLock!ExitReadEntry(t, l),
             table[t][RRWLock!Lookup(t, l)][2] # 1
      PROVE  ReentrantRWInv'
  <2>v. /\ firstReader[l] # t /\ RRWLock!Lookup(t, l) # 0 /\ where[t] = "out"
        /\ reading'[t][l] = reading[t][l] - 1
        /\ UNCHANGED <<word, firstReader, firstReaderCount, writer, writerCount, savedCount,
                       writing, where, using>>
    BY <1>1, <1>12
       DEF RWTypes, RRWLock!ExitReadEntry, RRWLock!Begin, RRWLock!Local, RRWLock!Read,
           RRWLock!AddToRefCount
  <2>o. /\ \A s \in Threads \ {t} : reading'[s] = reading[s]
        /\ \A k \in Locks \ {l} : reading'[t][k] = reading[t][k]
    <3>1. \E n : reading' = [reading EXCEPT ![t][l] = n]
      BY <1>12, <2>v DEF RRWLock!ExitReadEntry, RRWLock!Begin, RRWLock!Local, RRWLock!Read
    <3>2. QED
      BY <1>1, <3>1 DEF RWTypes
  <2>k. /\ table[t] \in Seq(Entries) /\ OneEach(table[t])
        /\ RRWLock!Lookup(t, l) # 0 <=> HasEntry(table[t], l)
        /\ RRWLock!Lookup(t, l) # 0 =>
             /\ RRWLock!Lookup(t, l) \in 1..Len(table[t])
             /\ table[t][RRWLock!Lookup(t, l)][1] = l
             /\ table[t][RRWLock!Lookup(t, l)][2] = RefCount(table[t], l)
    BY <1>1, LookupLemma DEF RWTypes, TableInv
  <2>t. /\ RefCount(table'[t], l) = RefCount(table[t], l) - 1
        /\ RefCount(table[t], l) = table[t][RRWLock!Lookup(t, l)][2]
        /\ HasEntry(table'[t], l) /\ HasEntry(table[t], l) /\ OneEach(table'[t])
        /\ table'[t] \in Seq(Entries) /\ table' = [table EXCEPT ![t] = table'[t]]
        /\ \A k \in Locks \ {l} :
             /\ HasEntry(table'[t], k) <=> HasEntry(table[t], k)
             /\ RefCount(table'[t], k) = RefCount(table[t], k)
    <3> DEFINE s == table[t]
               i == RRWLock!Lookup(t, l)
               c == s[i][2] - 1
               e == [s[i] EXCEPT ![2] = c]
               r == [s EXCEPT ![i] = e]
    <3>1. i # 0 /\ table' = [table EXCEPT ![t][i][2] = c]
      BY <1>12, <2>v DEF RRWLock!ExitReadEntry, RRWLock!AddToRefCount
    <3>2. s[i][2] = RefCount(s, l) /\ HasEntry(s, l) /\ i \in 1..Len(s) /\ s \in Seq(Entries)
      BY <2>k, <3>1
    <3>3. s[i] \in Entries /\ s[i][2] \in Nat /\ s[i][1] = l
      BY <2>k, <3>2 DEF Entries
    <3>4. RefCount(s, l) = reading[t][l] /\ reading[t][l] > 0
      BY <1>1, <2>v, <3>2 DEF ReadInv, ReadsRecorded, UsingInv, Enrolling
    <3>5. c \in Nat
      BY <3>2, <3>3, <3>4
    <3>6. table' = [table EXCEPT ![t] = r]
      BY <1>1, <3>1 DEF RWTypes
    <3>7. table'[t] = r
      <4> HIDE DEF r
      <4> QED BY <1>1, <3>6 DEF RWTypes
    <3> HIDE DEF i, c, s
    <3>8. e \in Entries /\ e[1] = l /\ e[2] = c
      BY <3>3, <3>5 DEF Entries
    <3> HIDE DEF e
    <3>9. /\ r \in Seq(Entries) /\ Len(r) = Len(s) /\ r[i] = e
          /\ \A j \in 1..Len(s) : j # i => r[j] = s[j]
      BY <3>2, <3>8
    <3> HIDE DEF r
    <3>a. OneEach(s)
      BY <2>k DEF s
    <3>b. /\ OneEach(r) /\ HasEntry(r, l) /\ RefCount(r, l) = c
          /\ \A k \in Locks \ {l} :
               (HasEntry(r, k) <=> HasEntry(s, k)) /\ RefCount(r, k) = RefCount(s, k)
      BY <3>2, <3>3, <3>5, <3>8, <3>9, <3>a, SetCountLemma
    <3>c. QED
      BY <3>2, <3>6, <3>7, <3>9, <3>b DEF i, c, s
  <2>w. \A s \in Threads \ {t} : table'[s] = table[s]
    BY <1>1, <2>t DEF RWTypes
  <2>u. /\ where[t] = "out" <=> using[t] = NoLock
        /\ l # NoLock /\ NoLock \notin Locks /\ t # NoThread /\ savedCount[t] \in Nat
        /\ savedCount[t] > 0 => where[t] \in {"exitAndPark", "condition", "setWriter"}
        /\ where[t] \in {"exitAndPark", "condition"} => savedCount[t] > 0
    BY <1>1 DEF UsingInv, RWTypes
  <2>p. reading[t][l] > 0 /\ reading'[t][l] > 0
    BY <1>1, <1>12, <2>v, <1>12, <2>t
       DEF RWTypes, UsingInv, ReadInv, ReadsRecorded, WriteInv, WritesRecorded, Enrolling
  <2>q. \A s \in Threads, k \in Locks :
          (reading'[s][k] > 0 <=> reading[s][k] > 0) /\ (writing'[s][k] > 0 <=> writing[s][k] > 0)
    BY <2>o, <2>v, <2>p
  <2>r. \A k \in Locks : ReadersOf(k)' = ReadersOf(k) /\ WritersOf(k)' = WritersOf(k)
    BY <2>q DEF ReadersOf, WritersOf
  <2>1. RWTypes'
    <3>1. table' \in [Threads -> Seq(Entries)]
      BY <1>1, <2>t DEF RWTypes
    <3>2. reading' \in [Threads -> [Locks -> Nat]]
      <4>1. reading' = [reading EXCEPT ![t][l] = reading[t][l] - 1]
        BY <1>12, <2>v
           DEF RRWLock!ExitReadEntry, RRWLock!Begin, RRWLock!Local, RRWLock!Read,
               RRWLock!AddToRefCount
      <4>2. reading[t][l] - 1 \in Nat
        BY <1>1, <2>p DEF RWTypes
      <4>3. QED
        BY <1>1, <4>1, <4>2 DEF RWTypes
    <3>3. QED
      BY <1>1, <2>v, <3>1, <3>2 DEF RWTypes
  <2>2. UsingInv'
    BY <1>1, <2>v DEF UsingInv
  <2>3. TableInv'
    BY <1>1, <2>v, <2>t, <2>w DEF TableInv, UsingInv
  <2>4. ReadInv'
    BY <1>1, <2>o, <2>v, <2>p, <2>t, <2>w DEF ReadInv, ReadsRecorded, Enrolling
  <2>5. FirstInv'
    BY <1>1, <2>v DEF FirstInv
  <2>6. WriteInv'
    BY <1>1, <2>v DEF WriteInv, WritesRecorded
  <2>7. WordInv'
    BY <1>1, <2>r, <2>v DEF WordInv
  <2>8. QED
    BY <2>1, <2>2, <2>3, <2>4, <2>5, <2>6, <2>7 DEF ReentrantRWInv
<1>13. ASSUME NEW t \in Threads, NEW l \in Locks, RRWLock!ExitRead(t, l),
             where[t] = "exitRead"
      PROVE  ReentrantRWInv'
  <2>v. /\ using[t] = l /\ where[t] = "exitRead" /\ where'[t] = "out" /\ using'[t] = NoLock
        /\ word'[l] = word[l] - 1 /\ reading'[t][l] = 0
        /\ UNCHANGED <<firstReader, firstReaderCount, writer, writerCount, table, savedCount,
                       writing>>
    BY <1>1, <1>13
       DEF RWTypes, RRWLock!ExitRead, RRWLock!End, RRWLock!Read, RRWLock!FreeResourceTableEntry
  <2>o. /\ \A k \in Locks \ {l} : word'[k] = word[k]
        /\ \A s \in Threads \ {t} : where'[s] = where[s]
        /\ \A s \in Threads \ {t} : using'[s] = using[s]
        /\ \A s \in Threads \ {t} : reading'[s] = reading[s]
        /\ \A k \in Locks \ {l} : reading'[t][k] = reading[t][k]
    BY <1>1, <1>13 DEF RWTypes, RRWLock!ExitRead, RRWLock!End, RRWLock!Read
  <2>u. /\ where[t] = "out" <=> using[t] = NoLock
        /\ l # NoLock /\ NoLock \notin Locks /\ t # NoThread /\ savedCount[t] \in Nat
        /\ savedCount[t] > 0 => where[t] \in {"exitAndPark", "condition", "setWriter"}
        /\ where[t] \in {"exitAndPark", "condition"} => savedCount[t] > 0
    BY <1>1 DEF UsingInv, RWTypes
  <2>g. \A s, k : ~HasEntry(s, k) => RefCount(s, k) = 0
    BY DEF RefCount
  <2>f. \A k \in Locks : IsFiniteSet(ReadersOf(k)) /\ Cardinality(ReadersOf(k)) \in Nat
    BY <1>1, FS_Subset, FS_CardinalityType DEF ReadersOf
  <2>b. reading'[t][l] = 0 /\ reading[t][l] = 1
    BY <1>1, <2>v DEF RWTypes, ReadInv, ReadsRecorded
  <2>c. /\ ReadersOf(l)' = ReadersOf(l) \ {t} /\ t \in ReadersOf(l)
        /\ \A k \in Locks \ {l} : ReadersOf(k)' = ReadersOf(k)
        /\ \A k \in Locks : WritersOf(k)' = WritersOf(k)
    BY <2>b, <2>o, <2>v DEF ReadersOf, WritersOf
  <2>d. Cardinality(ReadersOf(l)') = Cardinality(ReadersOf(l)) - 1 /\ Cardinality(ReadersOf(l)) >= 1
    <3>1. Cardinality(ReadersOf(l) \ {t}) = Cardinality(ReadersOf(l)) - 1
      BY <2>c, <2>f, FS_RemoveElement
    <3>2. Cardinality(ReadersOf(l)) # 0
      BY <2>c, <2>f, FS_EmptySet
    <3>3. QED
      BY <2>c, <2>f, <3>1, <3>2
  <2>a. WritersOf(l) = {}
    BY <1>1, <2>c DEF WordInv
  <2>h. word[l] = Cardinality(ReadersOf(l))
    BY <1>1, <2>a, <2>f DEF WordInv
  <2>e. word'[l] = Cardinality(ReadersOf(l)') /\ word[l] - 1 \in Nat
    BY <2>d, <2>f, <2>h, <2>v
  <2>1. RWTypes'
    BY <1>1, <1>13, <2>a, <2>b, <2>d, <2>e, <2>g, <2>u
       DEF RWTypes, Wheres, RRWLock!ExitRead, RRWLock!End, RRWLock!Read
  <2>2. UsingInv'
    BY <1>1, <2>o, <2>v DEF UsingInv
  <2>3. TableInv'
    BY <1>1, <2>o, <2>v DEF TableInv, UsingInv
  <2>4. ReadInv'
    BY <1>1, <2>o, <2>v, <2>g DEF ReadInv, ReadsRecorded, Enrolling
  <2>5. FirstInv'
    BY <1>1, <2>o, <2>v DEF FirstInv
  <2>6. WriteInv'
    BY <1>1, <2>o, <2>v DEF WriteInv, WritesRecorded, Changing
  <2>7. WordInv'
    <3> SUFFICES ASSUME NEW k \in Locks
                   PROVE  /\ word'[k] = Cardinality(ReadersOf(k)')
                                          + (IF WritersOf(k)' = {} THEN 0 ELSE WRITING)
                          /\ WritersOf(k)' # {} => ReadersOf(k)' = {}
                          /\ \A s, r \in WritersOf(k)' : s = r
      BY DEF WordInv
    <3>1. CASE k = l
      <4>1. word'[l] = Cardinality(ReadersOf(l)') + (IF WritersOf(l)' = {} THEN 0 ELSE WRITING)
        BY <2>v, <2>a, <2>c, <2>e
      <4>2. WritersOf(l)' # {} => ReadersOf(l)' = {}
        BY <2>a, <2>c
      <4>3. \A s, r \in WritersOf(l)' : s = r
        BY <2>a, <2>c
      <4>4. QED
        BY <3>1, <4>1, <4>2, <4>3
    <3>2. CASE k # l
      BY <1>1, <2>o, <2>c, <3>2 DEF WordInv
    <3>3. QED
      BY <3>1, <3>2
  <2>8. QED
    BY <2>1, <2>2, <2>3, <2>4, <2>5, <2>6, <2>7 DEF ReentrantRWInv
<1>14. ASSUME NEW t \in Threads, NEW l \in Locks, RRWLock!ExitRead(t, l),
             where[t] # "exitRead"
      PROVE  ReentrantRWInv'
  <2>v. /\ using[t] = l /\ where[t] = "exitEntry" /\ where'[t] = "out" /\ using'[t] = NoLock
        /\ word'[l] = word[l] - 1 /\ reading'[t][l] = 0
        /\ UNCHANGED <<firstReader, firstReaderCount, writer, writerCount, savedCount, writing>>
    BY <1>1, <1>14
       DEF RWTypes, RRWLock!ExitRead, RRWLock!End, RRWLock!Read, RRWLock!FreeResourceTableEntry
  <2>o. /\ \A k \in Locks \ {l} : word'[k] = word[k]
        /\ \A s \in Threads \ {t} : where'[s] = where[s]
        /\ \A s \in Threads \ {t} : using'[s] = using[s]
        /\ \A s \in Threads \ {t} : reading'[s] = reading[s]
        /\ \A k \in Locks \ {l} : reading'[t][k] = reading[t][k]
    BY <1>1, <1>14 DEF RWTypes, RRWLock!ExitRead, RRWLock!End, RRWLock!Read
  <2>k. /\ table[t] \in Seq(Entries) /\ OneEach(table[t])
        /\ RRWLock!Lookup(t, l) # 0 <=> HasEntry(table[t], l)
        /\ RRWLock!Lookup(t, l) # 0 =>
             /\ RRWLock!Lookup(t, l) \in 1..Len(table[t])
             /\ table[t][RRWLock!Lookup(t, l)][1] = l
             /\ table[t][RRWLock!Lookup(t, l)][2] = RefCount(table[t], l)
    BY <1>1, LookupLemma DEF RWTypes, TableInv
  <2>t. /\ ~HasEntry(table'[t], l) /\ OneEach(table'[t])
        /\ table'[t] \in Seq(Entries) /\ table' = [table EXCEPT ![t] = table'[t]]
        /\ \A k \in Locks \ {l} :
             /\ HasEntry(table'[t], k) <=> HasEntry(table[t], k)
             /\ RefCount(table'[t], k) = RefCount(table[t], k)
    <3> DEFINE i == RRWLock!Lookup(t, l)
               r == SubSeq([table[t] EXCEPT ![i] = table[t][Len(table[t])]], 1, Len(table[t]) - 1)
    <3>1. table' = [table EXCEPT ![t] = r]
      BY <1>14, <2>v
         DEF RRWLock!ExitRead, RRWLock!End, RRWLock!Read, RRWLock!FreeResourceTableEntry
    <3>2. /\ table[t] \in Seq(Entries) /\ OneEach(table[t])
          /\ i \in 1..Len(table[t]) /\ table[t][i][1] = l
      BY <1>1, <2>k, <2>v DEF ReadInv, ReadsRecorded
    <3>3. /\ r \in Seq(Entries) /\ OneEach(r) /\ ~HasEntry(r, l)
          /\ \A k \in Locks \ {l} :
               (HasEntry(r, k) <=> HasEntry(table[t], k)) /\ RefCount(r, k) = RefCount(table[t], k)
      <4> HIDE DEF i
      <4> QED BY <3>2, FreeEntryLemma
    <3> HIDE DEF r
    <3>4. table'[t] = r
      BY <1>1, <3>1 DEF RWTypes
    <3>5. QED
      BY <3>1, <3>3, <3>4
  <2>w. \A s \in Threads \ {t} : table'[s] = table[s]
    BY <1>1, <2>t DEF RWTypes
  <2>u. /\ where[t] = "out" <=> using[t] = NoLock
        /\ l # NoLock /\ NoLock \notin Locks /\ t # NoThread /\ savedCount[t] \in Nat
        /\ savedCount[t] > 0 => where[t] \in {"exitAndPark", "condition", "setWriter"}
        /\ where[t] \in {"exitAndPark", "condition"} => savedCount[t] > 0
    BY <1>1 DEF UsingInv, RWTypes
  <2>g. \A s, k : ~HasEntry(s, k) => RefCount(s, k) = 0
    BY DEF RefCount
  <2>f. \A k \in Locks : IsFiniteSet(ReadersOf(k)) /\ Cardinality(ReadersOf(k)) \in Nat
    BY <1>1, FS_Subset, FS_CardinalityType DEF ReadersOf
  <2>b. reading'[t][l] = 0 /\ reading[t][l] = 1
    BY <1>1, <2>v DEF RWTypes, ReadInv, ReadsRecorded
  <2>c. /\ ReadersOf(l)' = ReadersOf(l) \ {t} /\ t \in ReadersOf(l)
        /\ \A k \in Locks \ {l} : ReadersOf(k)' = ReadersOf(k)
        /\ \A k \in Locks : WritersOf(k)' = WritersOf(k)
    BY <2>b, <2>o, <2>v DEF ReadersOf, WritersOf
  <2>d. Cardinality(ReadersOf(l)') = Cardinality(ReadersOf(l)) - 1 /\ Cardinality(ReadersOf(l)) >= 1
    <3>1. Cardinality(ReadersOf(l) \ {t}) = Cardinality(ReadersOf(l)) - 1
      BY <2>c, <2>f, FS_RemoveElement
    <3>2. Cardinality(ReadersOf(l)) # 0
      BY <2>c, <2>f, FS_EmptySet
    <3>3. QED
      BY <2>c, <2>f, <3>1, <3>2
  <2>a. WritersOf(l) = {}
    BY <1>1, <2>c DEF WordInv
  <2>h. word[l] = Cardinality(ReadersOf(l))
    BY <1>1, <2>a, <2>f DEF WordInv
  <2>e. word'[l] = Cardinality(ReadersOf(l)') /\ word[l] - 1 \in Nat
    BY <2>d, <2>f, <2>h, <2>v
  <2>1. RWTypes'
    <3>1. word' \in [Locks -> Nat]
      <4>1. word' = [word EXCEPT ![l] = word[l] - 1]
        BY <1>14, <2>v
           DEF RRWLock!ExitRead, RRWLock!End, RRWLock!Read, RRWLock!FreeResourceTableEntry
      <4>2. word[l] - 1 \in Nat
        BY <2>e
      <4>3. QED
        BY <1>1, <4>1, <4>2 DEF RWTypes
    <3>2. table' \in [Threads -> Seq(Entries)]
      BY <1>1, <2>t DEF RWTypes
    <3>3. reading' \in [Threads -> [Locks -> Nat]]
      BY <1>1, <1>14
         DEF RWTypes, RRWLock!ExitRead, RRWLock!End, RRWLock!Read, RRWLock!FreeResourceTableEntry
    <3>4. where' \in [Threads -> Wheres]
      BY <1>1, <1>14
         DEF RWTypes, Wheres, RRWLock!ExitRead, RRWLock!End, RRWLock!Read,
             RRWLock!FreeResourceTableEntry
    <3>5. using' \in [Threads -> Locks \cup {NoLock}]
      BY <1>1, <1>14
         DEF RWTypes, RRWLock!ExitRead, RRWLock!End, RRWLock!Read, RRWLock!FreeResourceTableEntry
    <3>6. QED
      BY <1>1, <2>v, <3>1, <3>2, <3>3, <3>4, <3>5 DEF RWTypes
  <2>2. UsingInv'
    BY <1>1, <2>o, <2>v DEF UsingInv
  <2>3. TableInv'
    BY <1>1, <2>o, <2>v, <2>t, <2>w DEF TableInv, UsingInv
  <2>4. ReadInv'
    BY <1>1, <2>o, <2>v, <2>g, <2>t, <2>w DEF ReadInv, ReadsRecorded, Enrolling
  <2>5. FirstInv'
    BY <1>1, <2>o, <2>v DEF FirstInv
  <2>6. WriteInv'
    BY <1>1, <2>o, <2>v DEF WriteInv, WritesRecorded, Changing
  <2>7. WordInv'
    <3> SUFFICES ASSUME NEW k \in Locks
                   PROVE  /\ word'[k] = Cardinality(ReadersOf(k)')
                                          + (IF WritersOf(k)' = {} THEN 0 ELSE WRITING)
                          /\ WritersOf(k)' # {} => ReadersOf(k)' = {}
                          /\ \A s, r \in WritersOf(k)' : s = r
      BY DEF WordInv
    <3>1. CASE k = l
      <4>1. word'[l] = Cardinality(ReadersOf(l)') + (IF WritersOf(l)' = {} THEN 0 ELSE WRITING)
        BY <2>v, <2>a, <2>c, <2>e
      <4>2. WritersOf(l)' # {} => ReadersOf(l)' = {}
        BY <2>a, <2>c
      <4>3. \A s, r \in WritersOf(l)' : s = r
        BY <2>a, <2>c
      <4>4. QED
        BY <3>1, <4>1, <4>2, <4>3
    <3>2. CASE k # l
      BY <1>1, <2>o, <2>c, <3>2 DEF WordInv
    <3>3. QED
      BY <3>1, <3>2
  <2>8. QED
    BY <2>1, <2>2, <2>3, <2>4, <2>5, <2>6, <2>7 DEF ReentrantRWInv
<1>15. ASSUME NEW t \in Threads, NEW l \in Locks, RRWLock!WriterEnters(t, l),
             where[t] = "out"
      PROVE  ReentrantRWInv'
  <2>v. /\ where[t] = "out" /\ where'[t] = "setWriter" /\ using'[t] = l
        /\ word[l] = 0 /\ word'[l] = WRITING /\ writing'[t][l] = 1
        /\ UNCHANGED <<firstReader, firstReaderCount, writer, writerCount, table, savedCount,
                       reading>>
    BY <1>1, <1>15
       DEF RWTypes, RRWLock!WriterEnters, RRWLock!Begin, RRWLock!GoOn, RRWLock!TakeWord,
           RRWLock!Write
  <2>o. /\ \A k \in Locks \ {l} : word'[k] = word[k]
        /\ \A s \in Threads \ {t} : where'[s] = where[s]
        /\ \A s \in Threads \ {t} : using'[s] = using[s]
        /\ \A s \in Threads \ {t} : writing'[s] = writing[s]
        /\ \A k \in Locks \ {l} : writing'[t][k] = writing[t][k]
    BY <1>1, <1>15
       DEF RWTypes, RRWLock!WriterEnters, RRWLock!Begin, RRWLock!GoOn, RRWLock!TakeWord,
           RRWLock!Write
  <2>u. /\ where[t] = "out" <=> using[t] = NoLock
        /\ l # NoLock /\ NoLock \notin Locks /\ t # NoThread /\ savedCount[t] \in Nat
        /\ savedCount[t] > 0 => where[t] \in {"exitAndPark", "condition", "setWriter"}
        /\ where[t] \in {"exitAndPark", "condition"} => savedCount[t] > 0
    BY <1>1 DEF UsingInv, RWTypes
  <2>f. \A k \in Locks : IsFiniteSet(ReadersOf(k)) /\ Cardinality(ReadersOf(k)) \in Nat
    BY <1>1, FS_Subset, FS_CardinalityType DEF ReadersOf
  <2>a. ReadersOf(l) = {} /\ WritersOf(l) = {}
    BY <1>1, <2>f, <2>v, FS_EmptySet DEF WordInv
  <2>b. writing'[t][l] > 0 /\ writing[t][l] = 0
    BY <1>1, <2>a, <2>v DEF RWTypes, UsingInv, WritersOf
  <2>c. /\ WritersOf(l)' = {t}
        /\ \A k \in Locks \ {l} : WritersOf(k)' = WritersOf(k)
        /\ \A k \in Locks : ReadersOf(k)' = ReadersOf(k)
    BY <2>a, <2>o, <2>v DEF ReadersOf, WritersOf
  <2>d. writer[l] = NoThread
    BY <1>1, <2>a DEF RWTypes, WriteInv, WritesRecorded, WritersOf
  <2>e. Cardinality(ReadersOf(l)) = 0
    BY <2>a, FS_EmptySet
  <2>h. Cardinality(ReadersOf(l)') = 0 /\ WritersOf(l)' # {}
    BY <2>c, <2>e
  <2>1. RWTypes'
    <3>1. word' \in [Locks -> Nat]
      BY <1>1, <1>15
         DEF RWTypes, RRWLock!WriterEnters, RRWLock!Begin, RRWLock!GoOn, RRWLock!TakeWord,
             RRWLock!Write
    <3>2. writing' \in [Threads -> [Locks -> Nat]]
      BY <1>1, <1>15
         DEF RWTypes, RRWLock!WriterEnters, RRWLock!Begin, RRWLock!GoOn, RRWLock!TakeWord,
             RRWLock!Write
    <3>3. where' \in [Threads -> Wheres]
      BY <1>1, <1>15
         DEF RWTypes, Wheres, RRWLock!WriterEnters, RRWLock!Begin, RRWLock!GoOn,
             RRWLock!TakeWord, RRWLock!Write
    <3>4. using' \in [Threads -> Locks \cup {NoLock}]
      BY <1>1, <1>15
         DEF RWTypes, RRWLock!WriterEnters, RRWLock!Begin, RRWLock!GoOn, RRWLock!TakeWord,
             RRWLock!Write
    <3>5. QED
      BY <1>1, <2>v, <3>1, <3>2, <3>3, <3>4 DEF RWTypes
  <2>2. UsingInv'
    BY <1>1, <2>o, <2>v DEF UsingInv
  <2>3. TableInv'
    BY <1>1, <2>o, <2>v DEF TableInv, UsingInv
  <2>4. ReadInv'
    BY <1>1, <2>o, <2>v DEF ReadInv, ReadsRecorded, Enrolling
  <2>5. FirstInv'
    BY <1>1, <2>o, <2>v DEF FirstInv
  <2>6. WriteInv'
    BY <1>1, <2>o, <2>u, <2>v, <2>d, <2>u DEF WriteInv, WritesRecorded, Changing
  <2>7. WordInv'
    <3> SUFFICES ASSUME NEW k \in Locks
                   PROVE  /\ word'[k] = Cardinality(ReadersOf(k)')
                                          + (IF WritersOf(k)' = {} THEN 0 ELSE WRITING)
                          /\ WritersOf(k)' # {} => ReadersOf(k)' = {}
                          /\ \A s, r \in WritersOf(k)' : s = r
      BY DEF WordInv
    <3>1. CASE k = l
      <4>1. word'[l] = Cardinality(ReadersOf(l)') + (IF WritersOf(l)' = {} THEN 0 ELSE WRITING)
        BY <1>1, <2>v, <2>h
      <4>2. WritersOf(l)' # {} => ReadersOf(l)' = {}
        BY <2>a, <2>c
      <4>3. \A s, r \in WritersOf(l)' : s = r
        BY <2>c
      <4>4. QED
        BY <3>1, <4>1, <4>2, <4>3
    <3>2. CASE k # l
      BY <1>1, <2>o, <2>c, <3>2 DEF WordInv
    <3>3. QED
      BY <3>1, <3>2
  <2>8. QED
    BY <2>1, <2>2, <2>3, <2>4, <2>5, <2>6, <2>7 DEF ReentrantRWInv
<1>16. ASSUME NEW t \in Threads, NEW l \in Locks, RRWLock!WriterEnters(t, l),
             where[t] # "out"
      PROVE  ReentrantRWInv'
  <2>v. /\ where[t] = "writeWait" /\ using[t] = l /\ where'[t] = "setWriter"
        /\ word[l] = 0 /\ word'[l] = WRITING /\ writing'[t][l] = 1
        /\ UNCHANGED <<firstReader, firstReaderCount, writer, writerCount, table, savedCount,
                       reading, using>>
    BY <1>1, <1>16
       DEF RWTypes, RRWLock!WriterEnters, RRWLock!Begin, RRWLock!GoOn, RRWLock!TakeWord,
           RRWLock!Write
  <2>o. /\ \A k \in Locks \ {l} : word'[k] = word[k]
        /\ \A s \in Threads \ {t} : where'[s] = where[s]
        /\ \A s \in Threads \ {t} : writing'[s] = writing[s]
        /\ \A k \in Locks \ {l} : writing'[t][k] = writing[t][k]
    BY <1>1, <1>16
       DEF RWTypes, RRWLock!WriterEnters, RRWLock!Begin, RRWLock!GoOn, RRWLock!TakeWord,
           RRWLock!Write
  <2>u. /\ where[t] = "out" <=> using[t] = NoLock
        /\ l # NoLock /\ NoLock \notin Locks /\ t # NoThread /\ savedCount[t] \in Nat
        /\ savedCount[t] > 0 => where[t] \in {"exitAndPark", "condition", "setWriter"}
        /\ where[t] \in {"exitAndPark", "condition"} => savedCount[t] > 0
    BY <1>1 DEF UsingInv, RWTypes
  <2>f. \A k \in Locks : IsFiniteSet(ReadersOf(k)) /\ Cardinality(ReadersOf(k)) \in Nat
    BY <1>1, FS_Subset, FS_CardinalityType DEF ReadersOf
  <2>a. ReadersOf(l) = {} /\ WritersOf(l) = {}
    BY <1>1, <2>f, <2>v, FS_EmptySet DEF WordInv
  <2>b. writing'[t][l] > 0 /\ writing[t][l] = 0
    BY <1>1, <2>a, <2>v DEF RWTypes, UsingInv, WritersOf
  <2>c. /\ WritersOf(l)' = {t}
        /\ \A k \in Locks \ {l} : WritersOf(k)' = WritersOf(k)
        /\ \A k \in Locks : ReadersOf(k)' = ReadersOf(k)
    BY <2>a, <2>o, <2>v DEF ReadersOf, WritersOf
  <2>d. writer[l] = NoThread
    BY <1>1, <2>a DEF RWTypes, WriteInv, WritesRecorded, WritersOf
  <2>e. Cardinality(ReadersOf(l)) = 0
    BY <2>a, FS_EmptySet
  <2>h. Cardinality(ReadersOf(l)') = 0 /\ WritersOf(l)' # {}
    BY <2>c, <2>e
  <2>1. RWTypes'
    BY <1>1, <1>16
       DEF RWTypes, Wheres, RRWLock!WriterEnters, RRWLock!Begin, RRWLock!GoOn, RRWLock!TakeWord,
           RRWLock!Write
  <2>2. UsingInv'
    BY <1>1, <2>o, <2>v DEF UsingInv
  <2>3. TableInv'
    BY <1>1, <2>o, <2>v DEF TableInv, UsingInv
  <2>4. ReadInv'
    BY <1>1, <2>o, <2>v DEF ReadInv, ReadsRecorded, Enrolling
  <2>5. FirstInv'
    BY <1>1, <2>o, <2>v DEF FirstInv
  <2>6. WriteInv'
    BY <1>1, <2>o, <2>u, <2>v, <2>d, <2>u DEF WriteInv, WritesRecorded, Changing
  <2>7. WordInv'
    <3> SUFFICES ASSUME NEW k \in Locks
                   PROVE  /\ word'[k] = Cardinality(ReadersOf(k)')
                                          + (IF WritersOf(k)' = {} THEN 0 ELSE WRITING)
                          /\ WritersOf(k)' # {} => ReadersOf(k)' = {}
                          /\ \A s, r \in WritersOf(k)' : s = r
      BY DEF WordInv
    <3>1. CASE k = l
      <4>1. word'[l] = Cardinality(ReadersOf(l)') + (IF WritersOf(l)' = {} THEN 0 ELSE WRITING)
        BY <1>1, <2>v, <2>h
      <4>2. WritersOf(l)' # {} => ReadersOf(l)' = {}
        BY <2>a, <2>c
      <4>3. \A s, r \in WritersOf(l)' : s = r
        BY <2>c
      <4>4. QED
        BY <3>1, <4>1, <4>2, <4>3
    <3>2. CASE k # l
      BY <1>1, <2>o, <2>c, <3>2 DEF WordInv
    <3>3. QED
      BY <3>1, <3>2
  <2>8. QED
    BY <2>1, <2>2, <2>3, <2>4, <2>5, <2>6, <2>7 DEF ReentrantRWInv
<1>17. ASSUME NEW t \in Threads, NEW l \in Locks, RRWLock!WriterWaits(t, l)
      PROVE  ReentrantRWInv'
  <2>v. /\ where[t] = "out" /\ where'[t] = "writeWait" /\ using'[t] = l
        /\ UNCHANGED <<word, firstReader, firstReaderCount, writer, writerCount, table,
                       savedCount, reading, writing>>
    BY <1>1, <1>17 DEF RWTypes, RRWLock!WriterWaits, RRWLock!Begin
  <2>o. /\ \A s \in Threads \ {t} : where'[s] = where[s]
        /\ \A s \in Threads \ {t} : using'[s] = using[s]
    BY <1>1, <1>17 DEF RWTypes, RRWLock!WriterWaits, RRWLock!Begin
  <2>u. /\ where[t] = "out" <=> using[t] = NoLock
        /\ l # NoLock /\ NoLock \notin Locks /\ t # NoThread /\ savedCount[t] \in Nat
        /\ savedCount[t] > 0 => where[t] \in {"exitAndPark", "condition", "setWriter"}
        /\ where[t] \in {"exitAndPark", "condition"} => savedCount[t] > 0
    BY <1>1 DEF UsingInv, RWTypes
  <2>r. \A k \in Locks : ReadersOf(k)' = ReadersOf(k) /\ WritersOf(k)' = WritersOf(k)
    BY <2>v DEF ReadersOf, WritersOf
  <2>1. RWTypes'
    BY <1>1, <1>17, <2>v, <2>u DEF RWTypes, Wheres, RRWLock!WriterWaits, RRWLock!Begin
  <2>2. UsingInv'
    BY <1>1, <2>o, <2>v DEF UsingInv
  <2>3. TableInv'
    BY <1>1, <2>o, <2>v DEF TableInv, UsingInv
  <2>4. ReadInv'
    BY <1>1, <2>o, <2>v DEF ReadInv, ReadsRecorded, Enrolling
  <2>5. FirstInv'
    BY <1>1, <2>o, <2>v DEF FirstInv
  <2>6. WriteInv'
    BY <1>1, <2>o, <2>v DEF WriteInv, WritesRecorded, Changing
  <2>7. WordInv'
    BY <1>1, <2>r, <2>v DEF WordInv
  <2>8. QED
    BY <2>1, <2>2, <2>3, <2>4, <2>5, <2>6, <2>7 DEF ReentrantRWInv
<1>18. ASSUME NEW t \in Threads, NEW l \in Locks, RRWLock!WriteCancelled(t, l)
      PROVE  ReentrantRWInv'
  <2>v. /\ using[t] = l /\ where[t] = "writeWait" /\ where'[t] = "out" /\ using'[t] = NoLock
        /\ UNCHANGED <<word, firstReader, firstReaderCount, writer, writerCount, table,
                       savedCount, reading, writing>>
    BY <1>1, <1>18 DEF RWTypes, RRWLock!WriteCancelled, RRWLock!End
  <2>o. /\ \A s \in Threads \ {t} : where'[s] = where[s]
        /\ \A s \in Threads \ {t} : using'[s] = using[s]
    BY <1>1, <1>18 DEF RWTypes, RRWLock!WriteCancelled, RRWLock!End
  <2>u. /\ where[t] = "out" <=> using[t] = NoLock
        /\ l # NoLock /\ NoLock \notin Locks /\ t # NoThread /\ savedCount[t] \in Nat
        /\ savedCount[t] > 0 => where[t] \in {"exitAndPark", "condition", "setWriter"}
        /\ where[t] \in {"exitAndPark", "condition"} => savedCount[t] > 0
    BY <1>1 DEF UsingInv, RWTypes
  <2>r. \A k \in Locks : ReadersOf(k)' = ReadersOf(k) /\ WritersOf(k)' = WritersOf(k)
    BY <2>v DEF ReadersOf, WritersOf
  <2>1. RWTypes'
    BY <1>1, <1>18, <2>v, <2>u DEF RWTypes, Wheres, RRWLock!WriteCancelled, RRWLock!End
  <2>2. UsingInv'
    BY <1>1, <2>o, <2>v DEF UsingInv
  <2>3. TableInv'
    BY <1>1, <2>o, <2>v DEF TableInv, UsingInv
  <2>4. ReadInv'
    BY <1>1, <2>o, <2>v DEF ReadInv, ReadsRecorded, Enrolling
  <2>5. FirstInv'
    BY <1>1, <2>o, <2>v DEF FirstInv
  <2>6. WriteInv'
    BY <1>1, <2>o, <2>v DEF WriteInv, WritesRecorded, Changing
  <2>7. WordInv'
    BY <1>1, <2>r, <2>v DEF WordInv
  <2>8. QED
    BY <2>1, <2>2, <2>3, <2>4, <2>5, <2>6, <2>7 DEF ReentrantRWInv
<1>19. ASSUME NEW t \in Threads, NEW l \in Locks, RRWLock!SetWriter(t, l)
      PROVE  ReentrantRWInv'
  <2>v. /\ using[t] = l /\ where[t] = "setWriter" /\ where'[t] = "out" /\ using'[t] = NoLock
        /\ writer'[l] = t /\ writerCount'[l] = (IF savedCount[t] = 0 THEN 1 ELSE savedCount[t])
        /\ savedCount'[t] = 0
        /\ UNCHANGED <<word, firstReader, firstReaderCount, table, reading, writing>>
    BY <1>1, <1>19 DEF RWTypes, RRWLock!SetWriter, RRWLock!End
  <2>o. /\ \A s \in Threads \ {t} : where'[s] = where[s]
        /\ \A s \in Threads \ {t} : using'[s] = using[s]
        /\ \A k \in Locks \ {l} : writer'[k] = writer[k]
        /\ \A k \in Locks \ {l} : writerCount'[k] = writerCount[k]
        /\ \A s \in Threads \ {t} : savedCount'[s] = savedCount[s]
    BY <1>1, <1>19 DEF RWTypes, RRWLock!SetWriter, RRWLock!End
  <2>u. /\ where[t] = "out" <=> using[t] = NoLock
        /\ l # NoLock /\ NoLock \notin Locks /\ t # NoThread /\ savedCount[t] \in Nat
        /\ savedCount[t] > 0 => where[t] \in {"exitAndPark", "condition", "setWriter"}
        /\ where[t] \in {"exitAndPark", "condition"} => savedCount[t] > 0
    BY <1>1 DEF UsingInv, RWTypes
  <2>d. \A s \in Threads \ {t} : ~(writing[s][l] > 0)
    <3>1. writing[t][l] > 0
      BY <1>1, <2>v DEF WriteInv, WritesRecorded, Changing
    <3>2. QED
      BY <1>1, <3>1 DEF WordInv, WritersOf
  <2>r. \A k \in Locks : ReadersOf(k)' = ReadersOf(k) /\ WritersOf(k)' = WritersOf(k)
    BY <2>v DEF ReadersOf, WritersOf
  <2>1. RWTypes'
    BY <1>1, <1>19, <2>v, <2>d, <2>u DEF RWTypes, Wheres, RRWLock!SetWriter, RRWLock!End
  <2>2. UsingInv'
    BY <1>1, <2>o, <2>v DEF UsingInv
  <2>3. TableInv'
    BY <1>1, <2>o, <2>v DEF TableInv, UsingInv
  <2>4. ReadInv'
    BY <1>1, <2>o, <2>v DEF ReadInv, ReadsRecorded, Enrolling
  <2>5. FirstInv'
    BY <1>1, <2>o, <2>v DEF FirstInv
  <2>6. WriteInv'
    BY <1>1, <2>o, <2>v, <2>d DEF WriteInv, WritesRecorded, Changing
  <2>7. WordInv'
    BY <1>1, <2>r, <2>v DEF WordInv
  <2>8. QED
    BY <2>1, <2>2, <2>3, <2>4, <2>5, <2>6, <2>7 DEF ReentrantRWInv
<1>20. ASSUME NEW t \in Threads, NEW l \in Locks, RRWLock!WritesAgain(t, l)
      PROVE  ReentrantRWInv'
  <2>v. /\ where[t] = "out" /\ writer[l] = t
        /\ writerCount'[l] = writerCount[l] + 1 /\ writing'[t][l] = writing[t][l] + 1
        /\ UNCHANGED <<word, firstReader, firstReaderCount, writer, table, savedCount, reading,
                       where, using>>
    BY <1>1, <1>20 DEF RWTypes, RRWLock!WritesAgain, RRWLock!Local, RRWLock!Write
  <2>o. /\ \A k \in Locks \ {l} : writerCount'[k] = writerCount[k]
        /\ \A s \in Threads \ {t} : writing'[s] = writing[s]
        /\ \A k \in Locks \ {l} : writing'[t][k] = writing[t][k]
    BY <1>1, <1>20 DEF RWTypes, RRWLock!WritesAgain, RRWLock!Local, RRWLock!Write
  <2>u. /\ where[t] = "out" <=> using[t] = NoLock
        /\ l # NoLock /\ NoLock \notin Locks /\ t # NoThread /\ savedCount[t] \in Nat
        /\ savedCount[t] > 0 => where[t] \in {"exitAndPark", "condition", "setWriter"}
        /\ where[t] \in {"exitAndPark", "condition"} => savedCount[t] > 0
    BY <1>1 DEF UsingInv, RWTypes
  <2>p. writing[t][l] > 0 /\ writing'[t][l] > 0
    BY <1>1, <1>20, <2>v
       DEF RWTypes, UsingInv, ReadInv, ReadsRecorded, WriteInv, WritesRecorded, Enrolling
  <2>q. \A s \in Threads, k \in Locks :
          (reading'[s][k] > 0 <=> reading[s][k] > 0) /\ (writing'[s][k] > 0 <=> writing[s][k] > 0)
    BY <2>o, <2>v, <2>p
  <2>r. \A k \in Locks : ReadersOf(k)' = ReadersOf(k) /\ WritersOf(k)' = WritersOf(k)
    BY <2>q DEF ReadersOf, WritersOf
  <2>1. RWTypes'
    BY <1>1, <1>20, <2>v, <2>p, <2>u, SMTT(30)
       DEF RWTypes, Wheres, RRWLock!WritesAgain, RRWLock!Local, RRWLock!Write
  <2>2. UsingInv'
    BY <1>1, <2>v DEF UsingInv
  <2>3. TableInv'
    BY <1>1, <2>v DEF TableInv
  <2>4. ReadInv'
    BY <1>1, <2>v DEF ReadInv, ReadsRecorded
  <2>5. FirstInv'
    BY <1>1, <2>v DEF FirstInv
  <2>6. WriteInv'
    BY <1>1, <2>o, <2>v, <2>p DEF WriteInv, WritesRecorded, Changing
  <2>7. WordInv'
    BY <1>1, <2>r, <2>v DEF WordInv
  <2>8. QED
    BY <2>1, <2>2, <2>3, <2>4, <2>5, <2>6, <2>7 DEF ReentrantRWInv
<1>21. ASSUME NEW t \in Threads, NEW l \in Locks, RRWLock!ExitWrite(t, l),
             writerCount[l] = 1
      PROVE  ReentrantRWInv'
  <2>v. /\ where[t] = "out" /\ writer[l] = t /\ writerCount[l] = 1
        /\ where'[t] = "exitWrite" /\ using'[t] = l /\ writer'[l] = NoThread /\ writerCount'[l] = 0
        /\ UNCHANGED <<word, firstReader, firstReaderCount, table, savedCount, reading, writing>>
    BY <1>1, <1>21
       DEF RWTypes, RRWLock!ExitWrite, RRWLock!ClearWriter, RRWLock!Begin, RRWLock!Local,
           RRWLock!Write
  <2>o. /\ \A s \in Threads \ {t} : where'[s] = where[s]
        /\ \A s \in Threads \ {t} : using'[s] = using[s]
        /\ \A k \in Locks \ {l} : writer'[k] = writer[k]
        /\ \A k \in Locks \ {l} : writerCount'[k] = writerCount[k]
    BY <1>1, <1>21
       DEF RWTypes, RRWLock!ExitWrite, RRWLock!ClearWriter, RRWLock!Begin, RRWLock!Local,
           RRWLock!Write
  <2>u. /\ where[t] = "out" <=> using[t] = NoLock
        /\ l # NoLock /\ NoLock \notin Locks /\ t # NoThread /\ savedCount[t] \in Nat
        /\ savedCount[t] > 0 => where[t] \in {"exitAndPark", "condition", "setWriter"}
        /\ where[t] \in {"exitAndPark", "condition"} => savedCount[t] > 0
    BY <1>1 DEF UsingInv, RWTypes
  <2>r. \A k \in Locks : ReadersOf(k)' = ReadersOf(k) /\ WritersOf(k)' = WritersOf(k)
    BY <2>v DEF ReadersOf, WritersOf
  <2>1. RWTypes'
    <3>1. writer' \in [Locks -> Threads \cup {NoThread}]
      BY <1>1, <1>21, <2>v, <2>u, ZenonT(30)
         DEF RWTypes, RRWLock!ExitWrite, RRWLock!ClearWriter, RRWLock!Begin, RRWLock!Local,
             RRWLock!Write
    <3>2. writerCount' \in [Locks -> Nat]
      <4>1. writerCount' = [writerCount EXCEPT ![l] = 0]
        BY <1>21, <2>v
           DEF RRWLock!ExitWrite, RRWLock!ClearWriter, RRWLock!Begin, RRWLock!Local,
               RRWLock!Write
      <4>2. 0 \in Nat
        OBVIOUS
      <4>3. QED
        BY <1>1, <4>1, <4>2 DEF RWTypes
    <3>3. where' \in [Threads -> Wheres]
      BY <1>1, <1>21, ZenonT(30)
         DEF RWTypes, Wheres, RRWLock!ExitWrite, RRWLock!ClearWriter, RRWLock!Begin,
             RRWLock!Local, RRWLock!Write
    <3>4. using' \in [Threads -> Locks \cup {NoLock}]
      BY <1>1, <1>21
         DEF RWTypes, RRWLock!ExitWrite, RRWLock!ClearWriter, RRWLock!Begin, RRWLock!Local,
             RRWLock!Write
    <3>5. QED
      BY <1>1, <2>v, <3>1, <3>2, <3>3, <3>4 DEF RWTypes
  <2>2. UsingInv'
    BY <1>1, <2>o, <2>v DEF UsingInv
  <2>3. TableInv'
    BY <1>1, <2>o, <2>v DEF TableInv, UsingInv
  <2>4. ReadInv'
    BY <1>1, <2>o, <2>v DEF ReadInv, ReadsRecorded, Enrolling
  <2>5. FirstInv'
    BY <1>1, <2>o, <2>v DEF FirstInv
  <2>6. WriteInv'
    BY <1>1, <2>o, <2>v DEF WriteInv, WritesRecorded, Changing
  <2>7. WordInv'
    BY <1>1, <2>r, <2>v DEF WordInv
  <2>8. QED
    BY <2>1, <2>2, <2>3, <2>4, <2>5, <2>6, <2>7 DEF ReentrantRWInv
<1>22. ASSUME NEW t \in Threads, NEW l \in Locks, RRWLock!ExitWrite(t, l),
             writerCount[l] # 1
      PROVE  ReentrantRWInv'
  <2>v. /\ where[t] = "out" /\ writer[l] = t /\ writerCount[l] # 1
        /\ writerCount'[l] = writerCount[l] - 1 /\ writing'[t][l] = writing[t][l] - 1
        /\ UNCHANGED <<word, firstReader, firstReaderCount, writer, table, savedCount, reading,
                       where, using>>
    BY <1>1, <1>22
       DEF RWTypes, RRWLock!ExitWrite, RRWLock!ClearWriter, RRWLock!Begin, RRWLock!Local,
           RRWLock!Write
  <2>o. /\ \A k \in Locks \ {l} : writerCount'[k] = writerCount[k]
        /\ \A s \in Threads \ {t} : writing'[s] = writing[s]
        /\ \A k \in Locks \ {l} : writing'[t][k] = writing[t][k]
    BY <1>1, <1>22
       DEF RWTypes, RRWLock!ExitWrite, RRWLock!ClearWriter, RRWLock!Begin, RRWLock!Local,
           RRWLock!Write
  <2>u. /\ where[t] = "out" <=> using[t] = NoLock
        /\ l # NoLock /\ NoLock \notin Locks /\ t # NoThread /\ savedCount[t] \in Nat
        /\ savedCount[t] > 0 => where[t] \in {"exitAndPark", "condition", "setWriter"}
        /\ where[t] \in {"exitAndPark", "condition"} => savedCount[t] > 0
    BY <1>1 DEF UsingInv, RWTypes
  <2>p. writing[t][l] > 0 /\ writing'[t][l] > 0
    BY <1>1, <1>22, <2>v
       DEF RWTypes, UsingInv, ReadInv, ReadsRecorded, WriteInv, WritesRecorded, Enrolling
  <2>q. \A s \in Threads, k \in Locks :
          (reading'[s][k] > 0 <=> reading[s][k] > 0) /\ (writing'[s][k] > 0 <=> writing[s][k] > 0)
    BY <2>o, <2>v, <2>p
  <2>r. \A k \in Locks : ReadersOf(k)' = ReadersOf(k) /\ WritersOf(k)' = WritersOf(k)
    BY <2>q DEF ReadersOf, WritersOf
  <2>1. RWTypes'
    <3>1. writerCount' \in [Locks -> Nat]
      <4>1. writerCount' = [writerCount EXCEPT ![l] = writerCount[l] - 1]
        BY <1>22, <2>v
           DEF RRWLock!ExitWrite, RRWLock!ClearWriter, RRWLock!Begin, RRWLock!Local,
               RRWLock!Write
      <4>2. writerCount[l] - 1 \in Nat
        BY <1>1, <2>p, <2>v DEF RWTypes, WriteInv, WritesRecorded
      <4>3. QED
        BY <1>1, <4>1, <4>2 DEF RWTypes
    <3>2. writing' \in [Threads -> [Locks -> Nat]]
      <4>1. writing' = [writing EXCEPT ![t][l] = writing[t][l] - 1]
        BY <1>22, <2>v
           DEF RRWLock!ExitWrite, RRWLock!ClearWriter, RRWLock!Begin, RRWLock!Local,
               RRWLock!Write
      <4>2. writing[t][l] - 1 \in Nat
        BY <1>1, <2>p DEF RWTypes
      <4>3. QED
        BY <1>1, <4>1, <4>2 DEF RWTypes
    <3>3. QED
      BY <1>1, <2>v, <3>1, <3>2 DEF RWTypes
  <2>2. UsingInv'
    BY <1>1, <2>v DEF UsingInv
  <2>3. TableInv'
    BY <1>1, <2>v DEF TableInv
  <2>4. ReadInv'
    BY <1>1, <2>v DEF ReadInv, ReadsRecorded
  <2>5. FirstInv'
    BY <1>1, <2>v DEF FirstInv
  <2>6. WriteInv'
    BY <1>1, <2>o, <2>v, <2>p DEF WriteInv, WritesRecorded, Changing
  <2>7. WordInv'
    BY <1>1, <2>r, <2>v DEF WordInv
  <2>8. QED
    BY <2>1, <2>2, <2>3, <2>4, <2>5, <2>6, <2>7 DEF ReentrantRWInv
<1>23. ASSUME NEW t \in Threads, NEW l \in Locks, RRWLock!ReleaseLockCompletely(t, l)
      PROVE  ReentrantRWInv'
  <2>v. /\ where[t] = "out" /\ writer[l] = t /\ where'[t] = "exitAndPark" /\ using'[t] = l
        /\ writer'[l] = NoThread /\ writerCount'[l] = 0 /\ savedCount'[t] = writerCount[l]
        /\ UNCHANGED <<word, firstReader, firstReaderCount, table, reading, writing>>
    BY <1>1, <1>23 DEF RWTypes, RRWLock!ReleaseLockCompletely, RRWLock!ClearWriter, RRWLock!Begin
  <2>o. /\ \A s \in Threads \ {t} : where'[s] = where[s]
        /\ \A s \in Threads \ {t} : using'[s] = using[s]
        /\ \A k \in Locks \ {l} : writer'[k] = writer[k]
        /\ \A k \in Locks \ {l} : writerCount'[k] = writerCount[k]
        /\ \A s \in Threads \ {t} : savedCount'[s] = savedCount[s]
    BY <1>1, <1>23 DEF RWTypes, RRWLock!ReleaseLockCompletely, RRWLock!ClearWriter, RRWLock!Begin
  <2>u. /\ where[t] = "out" <=> using[t] = NoLock
        /\ l # NoLock /\ NoLock \notin Locks /\ t # NoThread /\ savedCount[t] \in Nat
        /\ savedCount[t] > 0 => where[t] \in {"exitAndPark", "condition", "setWriter"}
        /\ where[t] \in {"exitAndPark", "condition"} => savedCount[t] > 0
    BY <1>1 DEF UsingInv, RWTypes
  <2>r. \A k \in Locks : ReadersOf(k)' = ReadersOf(k) /\ WritersOf(k)' = WritersOf(k)
    BY <2>v DEF ReadersOf, WritersOf
  <2>1. RWTypes'
    BY <1>1, <1>23, <2>v, <2>u
       DEF RWTypes, Wheres, RRWLock!ReleaseLockCompletely, RRWLock!ClearWriter, RRWLock!Begin
  <2>2. UsingInv'
    BY <1>1, <2>o, <2>v DEF UsingInv, WriteInv, WritesRecorded
  <2>3. TableInv'
    BY <1>1, <2>o, <2>v DEF TableInv, UsingInv
  <2>4. ReadInv'
    BY <1>1, <2>o, <2>v DEF ReadInv, ReadsRecorded, Enrolling
  <2>5. FirstInv'
    BY <1>1, <2>o, <2>v DEF FirstInv
  <2>6. WriteInv'
    BY <1>1, <2>o, <2>v DEF WriteInv, WritesRecorded, Changing
  <2>7. WordInv'
    BY <1>1, <2>r, <2>v DEF WordInv
  <2>8. QED
    BY <2>1, <2>2, <2>3, <2>4, <2>5, <2>6, <2>7 DEF ReentrantRWInv
<1>24. ASSUME NEW t \in Threads, NEW l \in Locks, RRWLock!ExitLock(t, l),
             where[t] = "exitWrite"
      PROVE  ReentrantRWInv'
  <2>v. /\ using[t] = l /\ where[t] = "exitWrite" /\ where'[t] = "out" /\ using'[t] = NoLock
        /\ word'[l] = word[l] - WRITING /\ writing'[t][l] = 0
        /\ UNCHANGED <<firstReader, firstReaderCount, writer, writerCount, table, savedCount,
                       reading>>
    BY <1>1, <1>24 DEF RWTypes, RRWLock!ExitLock, RRWLock!End, RRWLock!GoOn, RRWLock!Write
  <2>o. /\ \A k \in Locks \ {l} : word'[k] = word[k]
        /\ \A s \in Threads \ {t} : where'[s] = where[s]
        /\ \A s \in Threads \ {t} : using'[s] = using[s]
        /\ \A s \in Threads \ {t} : writing'[s] = writing[s]
        /\ \A k \in Locks \ {l} : writing'[t][k] = writing[t][k]
    BY <1>1, <1>24 DEF RWTypes, RRWLock!ExitLock, RRWLock!End, RRWLock!GoOn, RRWLock!Write
  <2>u. /\ where[t] = "out" <=> using[t] = NoLock
        /\ l # NoLock /\ NoLock \notin Locks /\ t # NoThread /\ savedCount[t] \in Nat
        /\ savedCount[t] > 0 => where[t] \in {"exitAndPark", "condition", "setWriter"}
        /\ where[t] \in {"exitAndPark", "condition"} => savedCount[t] > 0
    BY <1>1 DEF UsingInv, RWTypes
  <2>f. \A k \in Locks : IsFiniteSet(ReadersOf(k)) /\ Cardinality(ReadersOf(k)) \in Nat
    BY <1>1, FS_Subset, FS_CardinalityType DEF ReadersOf
  <2>b. writing'[t][l] = 0 /\ writing[t][l] > 0 /\ writer[l] # t
    BY <1>1, <2>v DEF RWTypes, WriteInv, WritesRecorded, Changing
  <2>a. WritersOf(l) = {t} /\ ReadersOf(l) = {}
    BY <1>1, <2>b DEF WordInv, WritersOf
  <2>c. /\ WritersOf(l)' = {}
        /\ \A k \in Locks \ {l} : WritersOf(k)' = WritersOf(k)
        /\ \A k \in Locks : ReadersOf(k)' = ReadersOf(k)
    BY <2>a, <2>o, <2>v DEF ReadersOf, WritersOf
  <2>d. Cardinality(ReadersOf(l)) = 0
    BY <2>a, FS_EmptySet
  <2>e. word[l] = WRITING /\ word'[l] = 0
    BY <1>1, <2>a, <2>d, <2>v DEF WordInv
  <2>h. Cardinality(ReadersOf(l)') = 0 /\ WritersOf(l)' = {}
    BY <2>c, <2>d
  <2>1. RWTypes'
    <3>1. word' \in [Locks -> Nat]
      BY <1>1, <1>24, <2>e DEF RWTypes, RRWLock!ExitLock, RRWLock!End, RRWLock!GoOn, RRWLock!Write
    <3>2. writing' \in [Threads -> [Locks -> Nat]]
      BY <1>1, <1>24 DEF RWTypes, RRWLock!ExitLock, RRWLock!End, RRWLock!GoOn, RRWLock!Write
    <3>3. where' \in [Threads -> Wheres]
      BY <1>1, <1>24
         DEF RWTypes, Wheres, RRWLock!ExitLock, RRWLock!End, RRWLock!GoOn, RRWLock!Write
    <3>4. using' \in [Threads -> Locks \cup {NoLock}]
      BY <1>1, <1>24 DEF RWTypes, RRWLock!ExitLock, RRWLock!End, RRWLock!GoOn, RRWLock!Write
    <3>5. QED
      BY <1>1, <2>v, <3>1, <3>2, <3>3, <3>4 DEF RWTypes
  <2>2. UsingInv'
    BY <1>1, <2>o, <2>v DEF UsingInv
  <2>3. TableInv'
    BY <1>1, <2>o, <2>v DEF TableInv, UsingInv
  <2>4. ReadInv'
    BY <1>1, <2>o, <2>v DEF ReadInv, ReadsRecorded, Enrolling
  <2>5. FirstInv'
    BY <1>1, <2>o, <2>v DEF FirstInv
  <2>6. WriteInv'
    BY <1>1, <2>o, <2>v DEF WriteInv, WritesRecorded, Changing
  <2>7. WordInv'
    <3> SUFFICES ASSUME NEW k \in Locks
                   PROVE  /\ word'[k] = Cardinality(ReadersOf(k)')
                                          + (IF WritersOf(k)' = {} THEN 0 ELSE WRITING)
                          /\ WritersOf(k)' # {} => ReadersOf(k)' = {}
                          /\ \A s, r \in WritersOf(k)' : s = r
      BY DEF WordInv
    <3>1. CASE k = l
      <4>1. word'[l] = Cardinality(ReadersOf(l)') + (IF WritersOf(l)' = {} THEN 0 ELSE WRITING)
        BY <1>1, <2>v, <2>e, <2>h
      <4>2. WritersOf(l)' # {} => ReadersOf(l)' = {}
        BY <2>c
      <4>3. \A s, r \in WritersOf(l)' : s = r
        BY <2>c
      <4>4. QED
        BY <3>1, <4>1, <4>2, <4>3
    <3>2. CASE k # l
      BY <1>1, <2>o, <2>c, <3>2 DEF WordInv
    <3>3. QED
      BY <3>1, <3>2
  <2>8. QED
    BY <2>1, <2>2, <2>3, <2>4, <2>5, <2>6, <2>7 DEF ReentrantRWInv
<1>25. ASSUME NEW t \in Threads, NEW l \in Locks, RRWLock!ExitLock(t, l),
             where[t] # "exitWrite"
      PROVE  ReentrantRWInv'
  <2>v. /\ using[t] = l /\ where[t] = "exitAndPark" /\ where'[t] = "condition"
        /\ word'[l] = word[l] - WRITING /\ writing'[t][l] = 0
        /\ UNCHANGED <<firstReader, firstReaderCount, writer, writerCount, table, savedCount,
                       reading, using>>
    BY <1>1, <1>25 DEF RWTypes, RRWLock!ExitLock, RRWLock!End, RRWLock!GoOn, RRWLock!Write
  <2>o. /\ \A k \in Locks \ {l} : word'[k] = word[k]
        /\ \A s \in Threads \ {t} : where'[s] = where[s]
        /\ \A s \in Threads \ {t} : writing'[s] = writing[s]
        /\ \A k \in Locks \ {l} : writing'[t][k] = writing[t][k]
    BY <1>1, <1>25 DEF RWTypes, RRWLock!ExitLock, RRWLock!End, RRWLock!GoOn, RRWLock!Write
  <2>u. /\ where[t] = "out" <=> using[t] = NoLock
        /\ l # NoLock /\ NoLock \notin Locks /\ t # NoThread /\ savedCount[t] \in Nat
        /\ savedCount[t] > 0 => where[t] \in {"exitAndPark", "condition", "setWriter"}
        /\ where[t] \in {"exitAndPark", "condition"} => savedCount[t] > 0
    BY <1>1 DEF UsingInv, RWTypes
  <2>f. \A k \in Locks : IsFiniteSet(ReadersOf(k)) /\ Cardinality(ReadersOf(k)) \in Nat
    BY <1>1, FS_Subset, FS_CardinalityType DEF ReadersOf
  <2>b. writing'[t][l] = 0 /\ writing[t][l] > 0 /\ writer[l] # t
    BY <1>1, <2>v DEF RWTypes, WriteInv, WritesRecorded, Changing
  <2>a. WritersOf(l) = {t} /\ ReadersOf(l) = {}
    BY <1>1, <2>b DEF WordInv, WritersOf
  <2>c. /\ WritersOf(l)' = {}
        /\ \A k \in Locks \ {l} : WritersOf(k)' = WritersOf(k)
        /\ \A k \in Locks : ReadersOf(k)' = ReadersOf(k)
    BY <2>a, <2>o, <2>v DEF ReadersOf, WritersOf
  <2>d. Cardinality(ReadersOf(l)) = 0
    BY <2>a, FS_EmptySet
  <2>e. word[l] = WRITING /\ word'[l] = 0
    BY <1>1, <2>a, <2>d, <2>v DEF WordInv
  <2>h. Cardinality(ReadersOf(l)') = 0 /\ WritersOf(l)' = {}
    BY <2>c, <2>d
  <2>1. RWTypes'
    <3>1. word' \in [Locks -> Nat]
      BY <1>1, <1>25, <2>e DEF RWTypes, RRWLock!ExitLock, RRWLock!End, RRWLock!GoOn, RRWLock!Write
    <3>2. writing' \in [Threads -> [Locks -> Nat]]
      BY <1>1, <1>25 DEF RWTypes, RRWLock!ExitLock, RRWLock!End, RRWLock!GoOn, RRWLock!Write
    <3>3. where' \in [Threads -> Wheres]
      BY <1>1, <1>25
         DEF RWTypes, Wheres, RRWLock!ExitLock, RRWLock!End, RRWLock!GoOn, RRWLock!Write
    <3>4. QED
      BY <1>1, <2>v, <3>1, <3>2, <3>3 DEF RWTypes
  <2>2. UsingInv'
    BY <1>1, <2>o, <2>v DEF UsingInv
  <2>3. TableInv'
    BY <1>1, <2>o, <2>v DEF TableInv, UsingInv
  <2>4. ReadInv'
    BY <1>1, <2>o, <2>v DEF ReadInv, ReadsRecorded, Enrolling
  <2>5. FirstInv'
    BY <1>1, <2>o, <2>v DEF FirstInv
  <2>6. WriteInv'
    BY <1>1, <2>o, <2>v DEF WriteInv, WritesRecorded, Changing
  <2>7. WordInv'
    <3> SUFFICES ASSUME NEW k \in Locks
                   PROVE  /\ word'[k] = Cardinality(ReadersOf(k)')
                                          + (IF WritersOf(k)' = {} THEN 0 ELSE WRITING)
                          /\ WritersOf(k)' # {} => ReadersOf(k)' = {}
                          /\ \A s, r \in WritersOf(k)' : s = r
      BY DEF WordInv
    <3>1. CASE k = l
      <4>1. word'[l] = Cardinality(ReadersOf(l)') + (IF WritersOf(l)' = {} THEN 0 ELSE WRITING)
        BY <1>1, <2>v, <2>e, <2>h
      <4>2. WritersOf(l)' # {} => ReadersOf(l)' = {}
        BY <2>c
      <4>3. \A s, r \in WritersOf(l)' : s = r
        BY <2>c
      <4>4. QED
        BY <3>1, <4>1, <4>2, <4>3
    <3>2. CASE k # l
      BY <1>1, <2>o, <2>c, <3>2 DEF WordInv
    <3>3. QED
      BY <3>1, <3>2
  <2>8. QED
    BY <2>1, <2>2, <2>3, <2>4, <2>5, <2>6, <2>7 DEF ReentrantRWInv
<1>26. ASSUME NEW t \in Threads, NEW l \in Locks, RRWLock!ReacquireLock(t, l)
      PROVE  ReentrantRWInv'
  <2>v. /\ using[t] = l /\ where[t] = "condition" /\ where'[t] = "setWriter"
        /\ word[l] = 0 /\ word'[l] = WRITING /\ writing'[t][l] = savedCount[t]
        /\ UNCHANGED <<firstReader, firstReaderCount, writer, writerCount, table, savedCount,
                       reading, using>>
    BY <1>1, <1>26
       DEF RWTypes, RRWLock!ReacquireLock, RRWLock!GoOn, RRWLock!TakeWord, RRWLock!Write
  <2>o. /\ \A k \in Locks \ {l} : word'[k] = word[k]
        /\ \A s \in Threads \ {t} : where'[s] = where[s]
        /\ \A s \in Threads \ {t} : writing'[s] = writing[s]
        /\ \A k \in Locks \ {l} : writing'[t][k] = writing[t][k]
    BY <1>1, <1>26
       DEF RWTypes, RRWLock!ReacquireLock, RRWLock!GoOn, RRWLock!TakeWord, RRWLock!Write
  <2>u. /\ where[t] = "out" <=> using[t] = NoLock
        /\ l # NoLock /\ NoLock \notin Locks /\ t # NoThread /\ savedCount[t] \in Nat
        /\ savedCount[t] > 0 => where[t] \in {"exitAndPark", "condition", "setWriter"}
        /\ where[t] \in {"exitAndPark", "condition"} => savedCount[t] > 0
    BY <1>1 DEF UsingInv, RWTypes
  <2>f. \A k \in Locks : IsFiniteSet(ReadersOf(k)) /\ Cardinality(ReadersOf(k)) \in Nat
    BY <1>1, FS_Subset, FS_CardinalityType DEF ReadersOf
  <2>a. ReadersOf(l) = {} /\ WritersOf(l) = {}
    BY <1>1, <2>f, <2>v, FS_EmptySet DEF WordInv
  <2>b. writing'[t][l] > 0 /\ writing[t][l] = 0
    BY <1>1, <2>a, <2>v DEF RWTypes, UsingInv, WritersOf
  <2>c. /\ WritersOf(l)' = {t}
        /\ \A k \in Locks \ {l} : WritersOf(k)' = WritersOf(k)
        /\ \A k \in Locks : ReadersOf(k)' = ReadersOf(k)
    BY <2>a, <2>b, <2>o, <2>v DEF ReadersOf, WritersOf
  <2>d. writer[l] = NoThread
    BY <1>1, <2>a DEF RWTypes, WriteInv, WritesRecorded, WritersOf
  <2>e. Cardinality(ReadersOf(l)) = 0
    BY <2>a, FS_EmptySet
  <2>h. Cardinality(ReadersOf(l)') = 0 /\ WritersOf(l)' # {}
    BY <2>c, <2>e
  <2>1. RWTypes'
    BY <1>1, <1>26
       DEF RWTypes, Wheres, RRWLock!ReacquireLock, RRWLock!GoOn, RRWLock!TakeWord, RRWLock!Write
  <2>2. UsingInv'
    BY <1>1, <2>o, <2>v DEF UsingInv
  <2>3. TableInv'
    BY <1>1, <2>o, <2>v DEF TableInv, UsingInv
  <2>4. ReadInv'
    BY <1>1, <2>o, <2>v DEF ReadInv, ReadsRecorded, Enrolling
  <2>5. FirstInv'
    BY <1>1, <2>o, <2>v DEF FirstInv
  <2>6. WriteInv'
    BY <1>1, <2>o, <2>v, <2>b DEF WriteInv, WritesRecorded, Changing
  <2>7. WordInv'
    <3> SUFFICES ASSUME NEW k \in Locks
                   PROVE  /\ word'[k] = Cardinality(ReadersOf(k)')
                                          + (IF WritersOf(k)' = {} THEN 0 ELSE WRITING)
                          /\ WritersOf(k)' # {} => ReadersOf(k)' = {}
                          /\ \A s, r \in WritersOf(k)' : s = r
      BY DEF WordInv
    <3>1. CASE k = l
      <4>1. word'[l] = Cardinality(ReadersOf(l)') + (IF WritersOf(l)' = {} THEN 0 ELSE WRITING)
        BY <1>1, <2>v, <2>h
      <4>2. WritersOf(l)' # {} => ReadersOf(l)' = {}
        BY <2>a, <2>c
      <4>3. \A s, r \in WritersOf(l)' : s = r
        BY <2>c
      <4>4. QED
        BY <3>1, <4>1, <4>2, <4>3
    <3>2. CASE k # l
      BY <1>1, <2>o, <2>c, <3>2 DEF WordInv
    <3>3. QED
      BY <3>1, <3>2
  <2>8. QED
    BY <2>1, <2>2, <2>3, <2>4, <2>5, <2>6, <2>7 DEF ReentrantRWInv
<1>27. QED
  BY <1>2, <1>3, <1>4, <1>5, <1>6, <1>7, <1>8, <1>9, <1>10, <1>11, <1>12, <1>13, <1>14, <1>15,
     <1>16, <1>17, <1>18, <1>19, <1>20, <1>21, <1>22, <1>23, <1>24, <1>25, <1>26
     DEF RRWLock!Next

\* A step of the other systems leaves the lock alone.
LEMMA ReentrantRWStutter == ASSUME ReentrantRWInv, UNCHANGED RRWLock!vars PROVE ReentrantRWInv'
<1>1. UNCHANGED <<word, firstReader, firstReaderCount, writer, writerCount, table, where, using,
                  savedCount, reading, writing>>
  BY DEF RRWLock!vars, RRWLock!fields
<1>2. RWTypes' /\ UsingInv' /\ TableInv' /\ FirstInv'
  BY <1>1 DEF ReentrantRWInv, RWTypes, UsingInv, TableInv, FirstInv
<1>3. ReadInv' /\ WriteInv'
  BY <1>1 DEF ReentrantRWInv, ReadInv, ReadsRecorded, WriteInv, WritesRecorded
<1>4. WordInv'
  <2>1. \A l \in Locks : ReadersOf(l)' = ReadersOf(l) /\ WritersOf(l)' = WritersOf(l)
    BY <1>1 DEF ReadersOf, WritersOf
  <2>2. QED
    BY <1>1, <2>1 DEF ReentrantRWInv, WordInv
<1>5. QED
  BY <1>2, <1>3, <1>4 DEF ReentrantRWInv

\* At first nobody has entered, and the tables are empty.
LEMMA ReentrantRWInit == RRWLock!Init => ReentrantRWInv
<1> SUFFICES ASSUME RRWLock!Init PROVE ReentrantRWInv
  OBVIOUS
<1>1. /\ NoThread \notin Threads /\ NoLock \notin Locks
      /\ \A l \in Locks : /\ word[l] = 0 /\ firstReader[l] = NoThread /\ writer[l] = NoThread
      /\ \A t \in Threads : /\ table[t] = <<>> /\ where[t] = "out" /\ using[t] = NoLock
                            /\ savedCount[t] = 0
      /\ \A t \in Threads, l \in Locks : reading[t][l] = 0 /\ writing[t][l] = 0
  BY WaitsAssumption
     DEF WaitsAssumption, RRWLock!ReentrantReadWriteLockAssumption, RRWLock!Init, RRWLock!PerLock
<1>2. OneEach(<<>>) /\ \A l : ~HasEntry(<<>>, l) /\ RefCount(<<>>, l) = 0
  BY DEF OneEach, HasEntry, RefCount
<1>3. RWTypes
  BY DEF RRWLock!Init, RRWLock!PerLock, RWTypes, Wheres
<1>4. UsingInv /\ TableInv /\ ReadInv /\ FirstInv /\ WriteInv
  BY <1>1, <1>2
     DEF UsingInv, TableInv, ReadInv, ReadsRecorded, FirstInv, WriteInv, WritesRecorded,
         Enrolling, Changing
<1>5. WordInv
  <2>1. \A l \in Locks : ReadersOf(l) = {} /\ WritersOf(l) = {}
    BY <1>1 DEF ReadersOf, WritersOf
  <2>2. \A l \in Locks : Cardinality(ReadersOf(l)) = 0
    BY <2>1, FS_EmptySet
  <2>3. QED
    BY <1>1, <2>1, <2>2 DEF WordInv
<1>6. QED
  BY <1>3, <1>4, <1>5 DEF ReentrantRWInv

\* The lock among the systems of MCWaits.
ReentrantRWOK == which = "reentrantRW" => ReentrantRWInv

\* The invariant of the lock holds in every behaviour.
LEMMA ReentrantRWKeepsInvariant == MCSpec => []ReentrantRWOK
<1>1. MCInit => ReentrantRWOK
  BY ReentrantRWInit DEF MCInit, ReentrantRWOK
<1>2. ReentrantRWOK /\ [MCNext]_MCVars => ReentrantRWOK'
  <2> SUFFICES ASSUME ReentrantRWOK, [MCNext]_MCVars, which' = "reentrantRW"
               PROVE  ReentrantRWInv'
    BY DEF ReentrantRWOK
  <2>1. CASE MCNext
    BY <2>1, ReentrantRWStep DEF MCNext, ReentrantRWOK
  <2>2. CASE UNCHANGED MCVars
    BY <2>2, ReentrantRWStutter
       DEF MCVars, reentrantRWOnly, ReentrantRWOK, RRWLock!vars, RRWLock!fields
  <2>3. QED
    BY <2>1, <2>2
<1>3. QED
  BY <1>1, <1>2, PTL DEF MCSpec

\* For any number of threads, locks and recursive acquisitions: what a lock and the resource
\* table of a thread record of the acquisitions of that thread, between its calls, is what
\* the thread has acquired and not released.
ReentrantRWCounts == which = "reentrantRW" => RRWLock!CountsRight

THEOREM ReentrantRWCountsAreRight == MCSpec => []ReentrantRWCounts
<1>1. ReentrantRWOK => ReentrantRWCounts
  <2> SUFFICES ASSUME ReentrantRWInv PROVE RRWLock!CountsRight
    BY DEF ReentrantRWOK, ReentrantRWCounts
  <2>1. RWTypes /\ TableInv /\ ReadInv /\ WriteInv
    BY DEF ReentrantRWInv
  <2>2. ASSUME NEW t \in Threads, NEW l \in Locks, using[t] # l
        PROVE  /\ RRWLock!ReadCount(t, l) = reading[t][l]
               /\ writer[l] = t <=> writing[t][l] > 0
               /\ writer[l] = t => writerCount[l] = writing[t][l]
    <3>1. /\ table[t] \in Seq(Entries) /\ OneEach(table[t])
          /\ reading[t][l] \in Nat /\ firstReaderCount[l] \in Nat
      BY <2>1 DEF RWTypes, TableInv
    <3>2. /\ RRWLock!Lookup(t, l) # 0 <=> HasEntry(table[t], l)
          /\ RRWLock!Lookup(t, l) # 0 =>
               table[t][RRWLock!Lookup(t, l)][2] = RefCount(table[t], l)
      BY <3>1, LookupLemma
    <3>3. ReadsRecorded(t, l) /\ WritesRecorded(t, l)
      BY <2>1 DEF ReadInv, WriteInv
    <3>4. RRWLock!ReadCount(t, l) = reading[t][l]
      BY <2>2, <3>1, <3>2, <3>3 DEF RRWLock!ReadCount, ReadsRecorded, RefCount
    <3>5. QED
      BY <2>2, <3>3, <3>4 DEF WritesRecorded
  <2>3. QED
    BY <2>1, <2>2 DEF RRWLock!CountsRight, TableInv, OneEach
<1>2. QED
  BY <1>1, ReentrantRWKeepsInvariant, PTL

\* The same of the state word: it counts every reader once, however often it has entered,
\* and a writer is alone.
ReentrantRWWord == which = "reentrantRW" => RRWLock!WordCountsOwners

THEOREM ReentrantRWWordIsRight == MCSpec => []ReentrantRWWord
<1>1. ReentrantRWOK => ReentrantRWWord
  <2> SUFFICES ASSUME ReentrantRWInv, NEW l \in Locks
               PROVE  /\ word[l] = RRWLock!Cardinality(RRWLock!Readers(l))
                                     + WRITING * RRWLock!Cardinality(RRWLock!Writers(l))
                      /\ RRWLock!Writers(l) # {} =>
                           RRWLock!Readers(l) = {} /\ RRWLock!Cardinality(RRWLock!Writers(l)) = 1
    BY DEF ReentrantRWOK, ReentrantRWWord, RRWLock!WordCountsOwners
  <2>1. RRWLock!Readers(l) = ReadersOf(l) /\ RRWLock!Writers(l) = WritersOf(l)
    BY DEF RRWLock!Readers, RRWLock!Writers, ReadersOf, WritersOf
  <2>2. \A S : RRWLock!Cardinality(S) = Cardinality(S)
    BY DEF RRWLock!Cardinality, Cardinality
  <2>3. /\ word[l] = Cardinality(ReadersOf(l)) + (IF WritersOf(l) = {} THEN 0 ELSE WRITING)
        /\ WritersOf(l) # {} => ReadersOf(l) = {}
        /\ \A s, t \in WritersOf(l) : s = t
        /\ IsFiniteSet(Threads) /\ WRITING \in Nat
    BY WaitsAssumption
       DEF WaitsAssumption, RRWLock!ReentrantReadWriteLockAssumption, RRWLock!IsFiniteSet,
           IsFiniteSet, ReentrantRWInv, WordInv
  <2>4. Cardinality(ReadersOf(l)) \in Nat
    BY <2>3, FS_Subset, FS_CardinalityType DEF ReadersOf
  <2>5. CASE WritersOf(l) = {}
    <3>1. Cardinality(WritersOf(l)) = 0
      BY <2>5, FS_EmptySet
    <3>2. QED
      BY <2>1, <2>2, <2>3, <2>4, <2>5, <3>1
  <2>6. CASE WritersOf(l) # {}
    <3>1. PICK t \in Threads : WritersOf(l) = {t}
      BY <2>3, <2>6 DEF WritersOf
    <3>2. Cardinality(WritersOf(l)) = 1
      BY <3>1, FS_Singleton
    <3>3. QED
      BY <2>1, <2>2, <2>3, <2>4, <2>6, <3>2
  <2>7. QED
    BY <2>5, <2>6
<1>2. QED
  BY <1>1, ReentrantRWKeepsInvariant, PTL

-----------------------------------------------------------------------------
(* The alerter: a stack of parkers, and the stacks that threads took from it. *)

\* The wait of a thread goes on: its parker is in use.
InWait(t) ==
  pc[t] # "out" /\ ~(resume[t] = "out" /\ pc[t] \in {"cancel", "unpark", "mark"})

\* A parker in use that nobody has marked as unlinked.
Listed(p) == InWait(p) /\ next[p] # p

\* The last one of the parkers that a walk has kept: its link is that of the old stack.
Stale(p) == \E s \in Threads : last[s] = p

\* A link that counts.
Links(p, q) == next[p] = q /\ q # p /\ ~Stale(p)

\* Whose a parker is: of the alerter's stack, or of what a thread walks over or has kept.
Lists == {"stack", "walk", "kept"} \X Alerts!Parkers
StackList == <<"stack", NULL>>

\* own says whose each parker is: heads and links agree on it, and lead to parkers in use.
ListsOK(own) ==
  /\ head \in Threads => own[head] = StackList /\ Listed(head)
  /\ \A s \in Threads :
       /\ current[s] \in Threads => own[current[s]] = <<"walk", s>> /\ Listed(current[s])
       /\ first[s] \in Threads => own[first[s]] = <<"kept", s>> /\ Listed(first[s])
       /\ last[s] \in Threads => own[last[s]] = <<"kept", s>> /\ Listed(last[s])
  /\ \A p, q \in Threads : Links(p, q) => own[q] = own[p] /\ Listed(q)

\* One link at most leads to a parker, and none to the head of a list.
OneLinkInv ==
  \A p, q \in Threads : Links(p, q) =>
    /\ \A r \in Threads : Links(r, q) => r = p
    /\ head # q /\ \A s \in Threads : current[s] # q /\ first[s] # q

\* What the locals of a walk are at each point.
WalkerOK(t) ==
  /\ first[t] = NULL <=> last[t] = NULL
  /\ pc[t] \notin {"walk", "merge", "mergeCas"} => first[t] = NULL
  /\ current[t] # NULL <=> pc[t] \in {"walk", "cancel", "unpark", "mark"}
  /\ pc[t] = "mergeCas" =>
       first[t] # NULL /\ state[t] \in Alerts!Parkers /\ next[last[t]] = state[t]
  /\ ~InWait(t) => next[t] = NULL
WalkerInv == \A t \in Threads : WalkerOK(t)

AlerterInv ==
  /\ Alerts!TypeOK /\ OneLinkInv /\ WalkerInv
  /\ \E own \in [Threads -> Lists] : ListsOK(own)

\* The constants are distinct.
LEMMA NoParker == NULL \notin Threads /\ ALERTED \notin Threads /\ NULL # ALERTED
  BY WaitsAssumption DEF WaitsAssumption, Alerts!AlerterAssumption

\* A parker that is not listed is in no list.
LEMMA UnlistedLemma ==
  ASSUME NEW own, ListsOK(own), NEW p \in Threads, ~Listed(p)
  PROVE  /\ head # p /\ \A s \in Threads : current[s] # p /\ first[s] # p /\ last[s] # p
         /\ \A q \in Threads : ~Links(q, p)
  BY DEF ListsOK

\* The types are kept by every step.
LEMMA AlerterTypes == ASSUME Alerts!TypeOK, WalkerInv, Alerts!Next PROVE Alerts!TypeOK'
<1> USE NoParker DEF Alerts!TypeOK, Alerts!Step, Alerts!Leave, Alerts!Parkers, Alerts!Pcs,
                     Alerts!walkVars, Alerts!vars
<1>1. PICK t \in Threads :
        \/ Alerts!RegisterParker(t) \/ Alerts!TryLockParker(t) \/ Alerts!SetAlerter(t)
        \/ Alerts!ThreadStep(t)
  BY DEF Alerts!Next
<1>2. CASE Alerts!RegisterParker(t)
  BY <1>2 DEF Alerts!RegisterParker
<1>3. CASE Alerts!TryLockParker(t)
  BY <1>3 DEF Alerts!TryLockParker
<1>4. CASE Alerts!SetAlerter(t)
  BY <1>4 DEF Alerts!SetAlerter
<1>5. CASE Alerts!Woken(t)
  BY <1>5 DEF Alerts!Woken
<1>6. CASE Alerts!DeregisterParker(t)
  BY <1>6 DEF Alerts!DeregisterParker
<1>7. CASE Alerts!DeregisterCas(t)
  BY <1>7 DEF Alerts!DeregisterCas
<1>8. CASE Alerts!SlowDeregisterParker(t)
  BY <1>8 DEF Alerts!SlowDeregisterParker
<1>9. CASE Alerts!Walk(t)
  <2>1. pc[t] = "walk" /\ current[t] \in Threads
    BY <1>9 DEF Alerts!Walk, WalkerInv, WalkerOK
  <2>2. QED
    BY <1>9, <2>1 DEF Alerts!Walk
<1>10. CASE Alerts!Merge(t)
  BY <1>10 DEF Alerts!Merge
<1>11. CASE Alerts!MergeCas(t)
  BY <1>11 DEF Alerts!MergeCas
<1>12. CASE Alerts!SpinUntilUnlinkedOrListChange(t)
  BY <1>12 DEF Alerts!SpinUntilUnlinkedOrListChange
<1>13. CASE Alerts!AlertCancel(t)
  BY <1>13 DEF Alerts!AlertCancel
<1>14. CASE Alerts!AlertUnpark(t)
  BY <1>14 DEF Alerts!AlertUnpark
<1>15. CASE Alerts!AlertMark(t)
  <2>1. pc[t] = "mark" /\ current[t] \in Threads
    BY <1>15 DEF Alerts!AlertMark, WalkerInv, WalkerOK
  <2>2. QED
    BY <1>15, <2>1 DEF Alerts!AlertMark
<1>16. QED
  BY <1>1, <1>2, <1>3, <1>4, <1>5, <1>6, <1>7, <1>8, <1>9, <1>10, <1>11, <1>12, <1>13, <1>14,
     <1>15 DEF Alerts!ThreadStep

\* The other threads walk as before, when their last links are left alone.
LEMMA WalkerFrame ==
  ASSUME WalkerInv, NEW t \in Threads, WalkerOK(t)',
         \A s \in Threads \ {t} :
           /\ pc'[s] = pc[s] /\ resume'[s] = resume[s] /\ state'[s] = state[s]
           /\ first'[s] = first[s] /\ last'[s] = last[s] /\ current'[s] = current[s]
           /\ pc[s] = "mergeCas" => next'[last[s]] = next[last[s]]
           /\ ~InWait(s) => next'[s] = next[s]
  PROVE  WalkerInv'
  BY DEF WalkerInv, WalkerOK, InWait

\* A step that changes no list.
LEMMA SameAlerterLists ==
  ASSUME OneLinkInv, NEW own, ListsOK(own), UNCHANGED <<head, next, first, last, current>>,
         \A s \in Threads : InWait(s)' <=> InWait(s)
  PROVE  OneLinkInv' /\ ListsOK(own)'
<1>1. \A p \in Threads : (Listed(p)' <=> Listed(p)) /\ (Stale(p)' <=> Stale(p))
  BY DEF Listed, Stale
<1>2. \A p, q \in Threads : Links(p, q)' <=> Links(p, q)
  BY <1>1 DEF Links
<1>3. QED
  BY <1>1, <1>2 DEF OneLinkInv, ListsOK

\* The wait of t returns: its parker was unlinked, or was the head of the stack.
LEMMA LeaveLists ==
  ASSUME Alerts!TypeOK, OneLinkInv, NEW own, ListsOK(own), NEW t \in Threads,
         \/ next[t] = t /\ UNCHANGED head
         \/ head = t /\ head' = NULL,
         next' = [next EXCEPT ![t] = NULL], UNCHANGED <<first, last, current>>,
         \A s \in Threads \ {t} : InWait(s)' <=> InWait(s)
  PROVE  OneLinkInv' /\ ListsOK(own)'
<1>1. /\ next'[t] = NULL /\ \A s \in Threads \ {t} : next'[s] = next[s]
      /\ \A p : Stale(p)' <=> Stale(p)
      /\ \A p \in Threads \ {t} : Listed(p)' <=> Listed(p)
  BY DEF Alerts!TypeOK, Stale, Listed
<1>2. ASSUME NEW p \in Threads, NEW q \in Threads, Links(p, q)'
      PROVE  Links(p, q) /\ p # t /\ q # t
  <2>1. next'[p] = q /\ q # p /\ ~Stale(p)
    BY <1>1, <1>2 DEF Links
  <2>2. p # t /\ Links(p, q)
    BY <1>1, <2>1, NoParker DEF Links
  <2>3. Listed(q) /\ head # q
    BY <2>2 DEF ListsOK, OneLinkInv
  <2>4. QED
    BY <2>2, <2>3 DEF Listed
<1>3. OneLinkInv'
  BY <1>2, NoParker DEF OneLinkInv
<1>4. \A s \in Threads : current[s] # t /\ first[s] # t /\ last[s] # t
  BY NoParker DEF ListsOK, Listed, StackList
<1>5. head' \in Threads => head' = head /\ head # t
  BY NoParker DEF ListsOK, Listed
<1>6. ListsOK(own)'
  <2>1. \A p, q \in Threads : Links(p, q)' => own[q] = own[p] /\ Listed(q)'
    BY <1>1, <1>2 DEF ListsOK
  <2>2. QED
    BY <1>1, <1>4, <1>5, <2>1 DEF ListsOK
<1>7. QED
  BY <1>3, <1>6

\* A registered parker is the head of the stack.
LEMMA RegisterLists ==
  ASSUME Alerts!TypeOK, OneLinkInv, WalkerInv, NEW own \in [Threads -> Lists], ListsOK(own),
         NEW t \in Threads, head # ALERTED, pc[t] = "out", InWait(t)',
         next' = [next EXCEPT ![t] = head], head' = t, UNCHANGED <<first, last, current>>,
         \A s \in Threads \ {t} : InWait(s)' <=> InWait(s)
  PROVE  OneLinkInv' /\ ListsOK([own EXCEPT ![t] = StackList])'
<1> DEFINE new == [own EXCEPT ![t] = StackList]
<1>1. ~Listed(t) /\ next[t] = NULL /\ head \in Alerts!Parkers
  BY DEF Listed, InWait, WalkerInv, WalkerOK, Alerts!TypeOK
<1>2. /\ head # t /\ \A s \in Threads : current[s] # t /\ first[s] # t /\ last[s] # t
      /\ \A p \in Threads : ~Links(p, t)
  BY <1>1, UnlistedLemma
<1>3. /\ next'[t] = head /\ \A s \in Threads \ {t} : next'[s] = next[s]
      /\ \A p : Stale(p)' <=> Stale(p)
      /\ \A p \in Threads \ {t} : Listed(p)' <=> Listed(p)
      /\ Listed(t)'
  BY <1>2 DEF Alerts!TypeOK, Stale, Listed
<1>4. new[t] = StackList /\ \A s \in Threads \ {t} : new[s] = own[s]
  OBVIOUS
<1>5. ASSUME NEW p \in Threads, NEW q \in Threads, Links(p, q)'
      PROVE  q # t /\ (IF p = t THEN q = head ELSE Links(p, q))
  BY <1>2, <1>3, <1>5 DEF Links
<1>6. OneLinkInv'
  <2>1. head \in Threads => \A s \in Threads : current[s] # head /\ first[s] # head
    BY DEF ListsOK, StackList
  <2>2. QED
    BY <1>2, <1>5, <2>1 DEF OneLinkInv
<1>7. ListsOK(new)'
  <2>1. \A p, q \in Threads : Links(p, q)' => new[q] = new[p] /\ Listed(q)'
    BY <1>2, <1>3, <1>4, <1>5 DEF ListsOK
  <2>2. QED
    BY <1>2, <1>3, <1>4, <2>1 DEF ListsOK
<1>8. QED
  BY <1>6, <1>7

\* The list of the parkers that were of from is now the list to.
Moved(own, from, to) == [p \in Threads |-> IF own[p] = from THEN to ELSE own[p]]

\* A thread takes the whole stack, to walk over it or to alert it.
LEMMA GrabLists ==
  ASSUME Alerts!TypeOK, OneLinkInv, NEW own \in [Threads -> Lists], ListsOK(own),
         NEW t \in Threads, head \in Threads, head' \notin Threads, current[t] = NULL,
         current' = [current EXCEPT ![t] = head], UNCHANGED <<next, first, last>>,
         \A s \in Threads : InWait(s)' <=> InWait(s)
  PROVE  OneLinkInv' /\ ListsOK(Moved(own, StackList, <<"walk", t>>))'
<1> DEFINE new == Moved(own, StackList, <<"walk", t>>)
<1>1. /\ current'[t] = head /\ \A s \in Threads \ {t} : current'[s] = current[s]
      /\ \A p \in Threads : (Stale(p)' <=> Stale(p)) /\ (Listed(p)' <=> Listed(p))
      /\ \A p, q \in Threads : Links(p, q)' <=> Links(p, q)
  BY DEF Alerts!TypeOK, Stale, Listed, Links
<1>2. \A p \in Threads : new[p] = IF own[p] = StackList THEN <<"walk", t>> ELSE own[p]
  BY DEF Moved
<1>3. OneLinkInv'
  BY <1>1 DEF OneLinkInv
<1>4. ListsOK(new)'
  BY <1>1, <1>2, NoParker DEF ListsOK, StackList
<1>5. QED
  BY <1>3, <1>4

\* The parker that a walk is at is marked as unlinked, and the walk goes on.
LEMMA MarkLists ==
  ASSUME Alerts!TypeOK, OneLinkInv, NEW own \in [Threads -> Lists], ListsOK(own),
         NEW t \in Threads, current[t] \in Threads, UNCHANGED <<head, first, last>>,
         next' = [next EXCEPT ![current[t]] = current[t]],
         current' = [current EXCEPT ![t] = next[current[t]]],
         \A s \in Threads : InWait(s)' <=> InWait(s)
  PROVE  OneLinkInv' /\ ListsOK(own)'
<1> DEFINE c == current[t]
<1>1. own[c] = <<"walk", t>> /\ Listed(c) /\ ~Stale(c)
  BY NoParker DEF ListsOK, Stale
<1>2. /\ next'[c] = c /\ \A s \in Threads \ {c} : next'[s] = next[s]
      /\ current'[t] = next[c] /\ \A s \in Threads \ {t} : current'[s] = current[s]
      /\ \A p : Stale(p)' <=> Stale(p)
      /\ \A p \in Threads \ {c} : Listed(p)' <=> Listed(p)
  BY DEF Alerts!TypeOK, Stale, Listed
<1>3. ASSUME NEW p \in Threads, NEW q \in Threads, Links(p, q)'
      PROVE  Links(p, q) /\ p # c /\ q # c
  <2>1. p # c /\ Links(p, q)
    BY <1>2, <1>3 DEF Links
  <2>2. QED
    BY <2>1 DEF OneLinkInv
<1>4. next[c] \in Threads => Links(c, next[c])
  BY <1>1 DEF Links, Listed
<1>5. OneLinkInv'
  BY <1>2, <1>3, <1>4 DEF OneLinkInv
<1>6. /\ head # c /\ \A s \in Threads : first[s] # c /\ last[s] # c
      /\ \A s \in Threads \ {t} : current[s] # c
  BY <1>1 DEF ListsOK, StackList
<1>7. current'[t] # c /\ (current'[t] \in Threads => own[current'[t]] = <<"walk", t>>
                                                      /\ Listed(current'[t]))
  BY <1>1, <1>2, <1>4 DEF ListsOK, Listed
<1>8. ListsOK(own)'
  BY <1>2, <1>3, <1>6, <1>7 DEF ListsOK
<1>9. QED
  BY <1>5, <1>8

\* The parker that a walk is at is kept: it is the first one, or is linked to the last one.
LEMMA KeepLists ==
  ASSUME Alerts!TypeOK, OneLinkInv, NEW own \in [Threads -> Lists], ListsOK(own),
         NEW t \in Threads, NEW c \in Threads, current[t] = c, first[t] = NULL <=> last[t] = NULL,
         UNCHANGED head, last' = [last EXCEPT ![t] = c],
         current' = [current EXCEPT ![t] = next[c]],
         \/ /\ first[t] = NULL /\ first' = [first EXCEPT ![t] = c] /\ UNCHANGED next
         \/ /\ first[t] # NULL /\ next' = [next EXCEPT ![last[t]] = c]
            /\ UNCHANGED first,
         \A s \in Threads : InWait(s)' <=> InWait(s)
  PROVE  OneLinkInv' /\ ListsOK([own EXCEPT ![c] = <<"kept", t>>])'
<1> DEFINE l == last[t]
           new == [own EXCEPT ![c] = <<"kept", t>>]
<1>1. own[c] = <<"walk", t>> /\ Listed(c) /\ ~Stale(c) /\ \A p \in Threads : ~Links(p, c)
  BY NoParker DEF ListsOK, Stale, OneLinkInv
<1>2. /\ head # c /\ \A s \in Threads : first[s] # c /\ last[s] # c
      /\ \A s \in Threads \ {t} : current[s] # c
  BY <1>1 DEF ListsOK, StackList
<1>3. /\ current'[t] = next[c] /\ \A s \in Threads \ {t} : current'[s] = current[s]
      /\ last'[t] = c /\ \A s \in Threads \ {t} : last'[s] = last[s]
  BY DEF Alerts!TypeOK
<1>4. l \in Threads => own[l] = <<"kept", t>> /\ Listed(l) /\ \A s \in Threads \ {t} : last[s] # l
  BY DEF ListsOK
<1>5. /\ first[t] = NULL => UNCHANGED next /\ first'[t] = c
      /\ first[t] # NULL => /\ l \in Threads /\ next'[l] = c /\ first'[t] = first[t]
                            /\ \A p \in Threads \ {l} : next'[p] = next[p]
      /\ \A s \in Threads \ {t} : first'[s] = first[s]
  BY DEF Alerts!TypeOK, Alerts!Parkers
<1>6. next'[c] = next[c] /\ \A p \in Threads : Listed(p) => Listed(p)'
  BY <1>2, <1>5 DEF Listed
<1>7. \A p \in Threads : Stale(p)' <=> p = c \/ (Stale(p) /\ p # l)
  BY <1>2, <1>3, <1>4, NoParker DEF Stale
<1>8. next[c] \in Threads => Links(c, next[c])
  BY <1>1 DEF Links, Listed
<1>9. ASSUME NEW p \in Threads, NEW q \in Threads, Links(p, q)'
      PROVE  p # c /\ (IF p = l THEN q = c ELSE Links(p, q) /\ q # c)
  <2>1. next'[p] = q /\ q # p /\ p # c /\ (Stale(p) => p = l)
    BY <1>7, <1>9 DEF Links
  <2>2. CASE p = l
    BY <1>5, <2>1, <2>2, NoParker DEF Alerts!TypeOK
  <2>3. CASE p # l
    BY <1>1, <1>5, <2>1, <2>3 DEF Links
  <2>4. QED
    BY <2>2, <2>3
<1>10. OneLinkInv'
  <2>1. ASSUME NEW p \in Threads, NEW q \in Threads, Links(p, q)'
        PROVE  /\ \A r \in Threads : Links(r, q)' => r = p
               /\ head' # q /\ \A s \in Threads : current'[s] # q /\ first'[s] # q
    <3>1. CASE p = l
      <4>1. q = c /\ first[t] # NULL
        BY <1>9, <2>1, <3>1, NoParker
      <4>2. \A r \in Threads : Links(r, c)' => r = l
        BY <1>9
      <4>3. QED
        BY <1>1, <1>2, <1>3, <1>5, <3>1, <4>1, <4>2 DEF Listed
    <3>2. CASE p # l
      <4>1. Links(p, q) /\ q # c /\ p # c
        BY <1>9, <2>1, <3>2
      <4>2. \A r \in Threads : Links(r, q)' => r = p
        BY <1>9, <4>1 DEF OneLinkInv
      <4>3. current'[t] # q
        BY <1>3, <1>8, <4>1 DEF OneLinkInv
      <4>4. QED
        BY <1>3, <1>5, <4>1, <4>2, <4>3 DEF OneLinkInv
    <3>3. QED
      BY <3>1, <3>2
  <2>2. QED
    BY <2>1 DEF OneLinkInv
<1>11. ListsOK(new)'
  <2>1. new[c] = <<"kept", t>> /\ \A p \in Threads \ {c} : new[p] = own[p]
    OBVIOUS
  <2>2. \A p, q \in Threads : Links(p, q)' => new[q] = new[p] /\ Listed(q)'
    BY <1>1, <1>4, <1>6, <1>9, <2>1 DEF ListsOK
  <2>3. \A d \in Threads : d = next[c] => new[d] = <<"walk", t>> /\ Listed(d)'
    BY <1>1, <1>6, <1>8, <2>1 DEF ListsOK, Listed
  <2>4. QED
    BY <1>1, <1>2, <1>3, <1>5, <1>6, <2>1, <2>2, <2>3 DEF ListsOK
<1>12. QED
  BY <1>10, <1>11

\* The alerter was set during a walk: what was kept is walked over again, to alert it.
LEMMA AlertKeptLists ==
  ASSUME Alerts!TypeOK, OneLinkInv, NEW own \in [Threads -> Lists], ListsOK(own),
         NEW t \in Threads, first[t] \in Threads, last[t] \in Threads, current[t] = NULL,
         UNCHANGED head, next' = [next EXCEPT ![last[t]] = NULL],
         current' = [current EXCEPT ![t] = first[t]],
         first' = [first EXCEPT ![t] = NULL], last' = [last EXCEPT ![t] = NULL],
         \A s \in Threads : InWait(s)' <=> InWait(s)
  PROVE  OneLinkInv' /\ ListsOK(Moved(own, <<"kept", t>>, <<"walk", t>>))'
<1> DEFINE l == last[t]
           new == Moved(own, <<"kept", t>>, <<"walk", t>>)
<1>1. own[l] = <<"kept", t>> /\ Listed(l) /\ \A s \in Threads \ {t} : last[s] # l
  BY DEF ListsOK
<1>2. /\ current'[t] = first[t] /\ \A s \in Threads \ {t} : current'[s] = current[s]
      /\ first'[t] = NULL /\ \A s \in Threads \ {t} : first'[s] = first[s]
      /\ last'[t] = NULL /\ \A s \in Threads \ {t} : last'[s] = last[s]
      /\ next'[l] = NULL /\ \A p \in Threads \ {l} : next'[p] = next[p]
  BY DEF Alerts!TypeOK
<1>3. \A p \in Threads : (Stale(p)' <=> Stale(p) /\ p # l) /\ (Listed(p) => Listed(p)')
  BY <1>1, <1>2, NoParker DEF Stale, Listed
<1>4. ASSUME NEW p \in Threads, NEW q \in Threads, Links(p, q)'
      PROVE  Links(p, q)
  BY <1>2, <1>3, <1>4, NoParker DEF Links
<1>5. OneLinkInv'
  BY <1>2, <1>4, NoParker DEF OneLinkInv
<1>6. \A p \in Threads : new[p] = IF own[p] = <<"kept", t>> THEN <<"walk", t>> ELSE own[p]
  BY DEF Moved
<1>7. ListsOK(new)'
  <2>1. \A p, q \in Threads : Links(p, q)' => new[q] = new[p] /\ Listed(q)'
    BY <1>3, <1>4, <1>6 DEF ListsOK
  <2>2. ASSUME NEW s \in Threads
        PROVE  /\ current'[s] \in Threads =>
                    new[current'[s]] = <<"walk", s>> /\ Listed(current'[s])
               /\ first'[s] \in Threads => new[first'[s]] = <<"kept", s>> /\ Listed(first'[s])
               /\ last'[s] \in Threads => new[last'[s]] = <<"kept", s>> /\ Listed(last'[s])
    BY <1>2, <1>6, NoParker, SMTT(30) DEF ListsOK
  <2>3. head \in Threads => new[head] = StackList /\ Listed(head)
    BY <1>6 DEF ListsOK, StackList
  <2>4. QED
    BY <1>3, <2>1, <2>2, <2>3 DEF ListsOK
<1>8. QED
  BY <1>5, <1>7

\* The last kept parker is linked to the stack, which does not yet count.
LEMMA LinkKeptLists ==
  ASSUME Alerts!TypeOK, OneLinkInv, NEW own \in [Threads -> Lists], ListsOK(own),
         NEW t \in Threads, last[t] \in Threads, next' = [next EXCEPT ![last[t]] = head],
         UNCHANGED <<head, first, last, current>>, head # ALERTED,
         \A s \in Threads : InWait(s)' <=> InWait(s)
  PROVE  OneLinkInv' /\ ListsOK(own)'
<1> DEFINE l == last[t]
<1>1. Listed(l) /\ own[l] = <<"kept", t>> /\ Stale(l) /\ head # l
  BY DEF ListsOK, Stale, StackList
<1>2. /\ next'[l] = head /\ \A p \in Threads \ {l} : next'[p] = next[p]
      /\ \A p : Stale(p)' <=> Stale(p)
  BY DEF Alerts!TypeOK, Stale
<1>3. \A p \in Threads : Listed(p) => Listed(p)'
  BY <1>1, <1>2 DEF Listed
<1>4. \A p, q \in Threads : Links(p, q)' => Links(p, q)
  BY <1>1, <1>2 DEF Links
<1>5. QED
  BY <1>3, <1>4 DEF OneLinkInv, ListsOK

\* The swap of the head: what was kept, and the stack below it, is the stack.
LEMMA MergeLists ==
  ASSUME Alerts!TypeOK, OneLinkInv, NEW own \in [Threads -> Lists], ListsOK(own),
         NEW t \in Threads, first[t] \in Threads, last[t] \in Threads, next[last[t]] = head,
         head' = first[t], first' = [first EXCEPT ![t] = NULL],
         last' = [last EXCEPT ![t] = NULL], UNCHANGED <<next, current>>,
         \A s \in Threads : InWait(s)' <=> InWait(s)
  PROVE  OneLinkInv' /\ ListsOK(Moved(own, <<"kept", t>>, StackList))'
<1> DEFINE l == last[t]
           new == Moved(own, <<"kept", t>>, StackList)
<1>1. own[l] = <<"kept", t>> /\ Listed(l) /\ \A s \in Threads \ {t} : last[s] # l
  BY DEF ListsOK
<1>2. /\ first'[t] = NULL /\ \A s \in Threads \ {t} : first'[s] = first[s]
      /\ last'[t] = NULL /\ \A s \in Threads \ {t} : last'[s] = last[s]
  BY DEF Alerts!TypeOK
<1>3. \A p \in Threads : (Stale(p)' <=> Stale(p) /\ p # l) /\ (Listed(p)' <=> Listed(p))
  BY <1>1, <1>2, NoParker DEF Stale, Listed
<1>4. ASSUME NEW p \in Threads, NEW q \in Threads, Links(p, q)'
      PROVE  IF p = l THEN q = head ELSE Links(p, q)
  BY <1>3, <1>4 DEF Links
<1>5. head \in Threads => /\ own[head] = StackList /\ Listed(head)
                          /\ \A p \in Threads : ~Links(p, head)
                          /\ \A s \in Threads : current[s] # head /\ first[s] # head
  BY DEF ListsOK, OneLinkInv, StackList
<1>6. \A p \in Threads : ~Links(p, first[t])
  BY DEF OneLinkInv
<1>7. OneLinkInv'
  <2>1. ASSUME NEW p \in Threads, NEW q \in Threads, Links(p, q)'
        PROVE  /\ \A r \in Threads : Links(r, q)' => r = p
               /\ first[t] # q /\ \A s \in Threads : current[s] # q /\ first'[s] # q
    BY <1>2, <1>4, <1>5, <1>6, <2>1, NoParker DEF OneLinkInv
  <2>2. QED
    BY <2>1 DEF OneLinkInv
<1>8. \A p \in Threads : new[p] = IF own[p] = <<"kept", t>> THEN StackList ELSE own[p]
  BY DEF Moved
<1>9. ListsOK(new)'
  <2>1. \A p, q \in Threads : Links(p, q)' => new[q] = new[p] /\ Listed(q)'
    BY <1>1, <1>3, <1>4, <1>5, <1>8 DEF ListsOK
  <2>2. QED
    BY <1>2, <1>3, <1>8, <2>1, NoParker, SMTT(30) DEF ListsOK, StackList
<1>10. QED
  BY <1>7, <1>9

\* A thread that goes from one point inside its wait to another one, or from one point of
\* AlertParkerList to another.
InWaitPoints == {"parked", "deregister", "cas", "slow", "walk", "merge", "mergeCas", "spin"}
Alerting == {"cancel", "unpark", "mark"}

\* A step that only moves t on, or changes a count or what t has seen of the head.
LEMMA AlerterMove ==
  ASSUME AlerterInv, Alerts!TypeOK', NEW t \in Threads,
         UNCHANGED <<head, next, first, last, current, resume>>,
         \A s \in Threads \ {t} : pc'[s] = pc[s] /\ state'[s] = state[s],
         \/ pc'[t] = pc[t] /\ state'[t] = state[t]
         \/ pc[t] \in InWaitPoints \ {"walk"} /\ pc'[t] \in InWaitPoints \ {"walk", "mergeCas"}
            /\ (pc'[t] # "merge" => first[t] = NULL)
         \/ pc[t] \in Alerting /\ pc'[t] \in Alerting
  PROVE  AlerterInv'
<1>1. PICK own \in [Threads -> Lists] : ListsOK(own)
  BY DEF AlerterInv
<1>2. \A s \in Threads : InWait(s)' <=> InWait(s)
  BY DEF InWait, InWaitPoints, Alerting
<1>3. OneLinkInv' /\ ListsOK(own)'
  BY <1>1, <1>2, SameAlerterLists DEF AlerterInv
<1>4. WalkerOK(t)'
  BY <1>2 DEF AlerterInv, WalkerInv, WalkerOK, InWaitPoints, Alerting
<1>5. WalkerInv'
  BY <1>4, WalkerFrame DEF AlerterInv
<1>6. QED
  BY <1>1, <1>3, <1>5 DEF AlerterInv

\* The wait of t returns.
LEMMA AlerterLeave ==
  ASSUME AlerterInv, Alerts!TypeOK', NEW t \in Threads, NEW from, Alerts!Leave(t, from),
         from \in {"deregister", "cas", "slow", "spin"},
         \/ next[t] = t /\ UNCHANGED head
         \/ head = t /\ head' = NULL,
         UNCHANGED <<first, last, current, resume>>
  PROVE  AlerterInv'
<1>1. PICK own \in [Threads -> Lists] : ListsOK(own)
  BY DEF AlerterInv
<1>2. /\ pc[t] = from /\ pc'[t] = "out" /\ next' = [next EXCEPT ![t] = NULL] /\ next'[t] = NULL
      /\ \A s \in Threads \ {t} : pc'[s] = pc[s] /\ state'[s] = state[s] /\ next'[s] = next[s]
  BY DEF Alerts!Leave, Alerts!Step, AlerterInv, Alerts!TypeOK
<1>3. \A s \in Threads \ {t} : InWait(s)' <=> InWait(s)
  BY <1>2 DEF InWait
<1>4. OneLinkInv' /\ ListsOK(own)'
  BY <1>1, <1>2, <1>3, LeaveLists DEF AlerterInv
<1>5. \A s \in Threads : last[s] # t
  BY <1>1, NoParker DEF ListsOK, Listed, StackList
<1>6. WalkerOK(t)'
  BY <1>2 DEF AlerterInv, WalkerInv, WalkerOK, InWait
<1>7. \A s \in Threads \ {t} : pc[s] = "mergeCas" => next'[last[s]] = next[last[s]]
  BY <1>2, <1>5, NoParker DEF AlerterInv, WalkerInv, WalkerOK, Alerts!TypeOK, Alerts!Parkers
<1>8. WalkerInv'
  BY <1>2, <1>6, <1>7, WalkerFrame DEF AlerterInv
<1>9. QED
  BY <1>1, <1>4, <1>8 DEF AlerterInv

\* Registering.
LEMMA AlerterRegister ==
  ASSUME AlerterInv, Alerts!TypeOK', NEW t \in Threads, Alerts!RegisterParker(t)
  PROVE  AlerterInv'
<1>1. PICK own \in [Threads -> Lists] : ListsOK(own)
  BY DEF AlerterInv
<1>2. CASE head = ALERTED
  <2>1. UNCHANGED <<head, next, pc, state, first, last, current, resume>>
    BY <1>2 DEF Alerts!RegisterParker, Alerts!vars, Alerts!walkVars
  <2>2. QED
    BY <2>1, AlerterMove
<1>3. CASE head # ALERTED
  <2>1. /\ pc[t] = "out" /\ pc'[t] = "parked" /\ next' = [next EXCEPT ![t] = head] /\ head' = t
        /\ \A s \in Threads \ {t} : pc'[s] = pc[s] /\ next'[s] = next[s]
        /\ UNCHANGED <<state, first, last, current, resume>>
    BY <1>3 DEF Alerts!RegisterParker, Alerts!Step, AlerterInv, Alerts!TypeOK, Alerts!walkVars
  <2>2. InWait(t)' /\ ~InWait(t) /\ \A s \in Threads \ {t} : InWait(s)' <=> InWait(s)
    BY <2>1 DEF InWait
  <2>3. OneLinkInv' /\ ListsOK([own EXCEPT ![t] = StackList])'
    BY <1>1, <1>3, <2>1, <2>2, RegisterLists DEF AlerterInv
  <2>4. [own EXCEPT ![t] = StackList] \in [Threads -> Lists]
    BY <1>1 DEF Lists, StackList, Alerts!Parkers
  <2>5. \A s \in Threads : last[s] # t
    BY <1>1, <2>2 DEF ListsOK, Listed
  <2>6. \A s \in Threads \ {t} : pc[s] = "mergeCas" => next'[last[s]] = next[last[s]]
    BY <2>1, <2>5, NoParker DEF AlerterInv, WalkerInv, WalkerOK, Alerts!TypeOK, Alerts!Parkers
  <2>7. WalkerOK(t)'
    BY <2>1, <2>2 DEF AlerterInv, WalkerInv, WalkerOK
  <2>8. WalkerInv'
    BY <2>1, <2>6, <2>7, WalkerFrame DEF AlerterInv
  <2>9. QED
    BY <2>3, <2>4, <2>8 DEF AlerterInv
<1>4. QED
  BY <1>2, <1>3

\* Taking the stack: SlowDeregisterParker, which walks over it, and SetAlerter.
LEMMA AlerterGrab ==
  ASSUME AlerterInv, Alerts!TypeOK', NEW t \in Threads, head \in Threads,
         head' \notin Threads, current' = [current EXCEPT ![t] = head],
         UNCHANGED <<next, state, first, last>>,
         \A s \in Threads \ {t} : pc'[s] = pc[s] /\ resume'[s] = resume[s],
         \/ pc[t] = "slow" /\ pc'[t] = "walk"
         \/ pc[t] = "out" /\ pc'[t] = "cancel" /\ resume'[t] = "out"
  PROVE  AlerterInv'
<1>1. PICK own \in [Threads -> Lists] : ListsOK(own)
  BY DEF AlerterInv
<1>2. \A s \in Threads : InWait(s)' <=> InWait(s)
  BY DEF InWait
<1>3. current'[t] = head /\ \A s \in Threads \ {t} : current'[s] = current[s]
  BY DEF AlerterInv, Alerts!TypeOK
<1>4. current[t] = NULL
  BY DEF AlerterInv, WalkerInv, WalkerOK
<1>5. OneLinkInv' /\ ListsOK(Moved(own, StackList, <<"walk", t>>))'
  BY <1>1, <1>2, <1>4, GrabLists DEF AlerterInv
<1>6. Moved(own, StackList, <<"walk", t>>) \in [Threads -> Lists]
  BY <1>1 DEF Moved, Lists, StackList, Alerts!Parkers
<1>7. WalkerOK(t)'
  BY <1>2, <1>3, NoParker DEF AlerterInv, WalkerInv, WalkerOK
<1>8. WalkerInv'
  BY <1>3, <1>7, WalkerFrame DEF AlerterInv
<1>9. QED
  BY <1>5, <1>6, <1>8 DEF AlerterInv

\* Marking the parker that t is at: of the walk, and of AlertParkerList.
LEMMA AlerterMarks ==
  ASSUME AlerterInv, Alerts!TypeOK', NEW t \in Threads, NEW c \in Threads, current[t] = c,
         next' = [next EXCEPT ![c] = c], current' = [current EXCEPT ![t] = next[c]],
         UNCHANGED <<head, state, first, last, resume>>,
         \A s \in Threads \ {t} : pc'[s] = pc[s],
         \/ pc[t] = "walk" /\ pc'[t] = IF next[c] = NULL THEN "merge" ELSE "walk"
         \/ pc[t] = "mark" /\ pc'[t] = IF next[c] = NULL THEN resume[t] ELSE "cancel"
  PROVE  AlerterInv'
<1>1. PICK own \in [Threads -> Lists] : ListsOK(own)
  BY DEF AlerterInv
<1>2. \A s \in Threads : InWait(s)' <=> InWait(s)
  BY DEF InWait, AlerterInv, Alerts!TypeOK
<1>3. /\ current'[t] = next[c] /\ \A s \in Threads \ {t} : current'[s] = current[s]
      /\ next'[c] = c /\ \A s \in Threads \ {c} : next'[s] = next[s]
  BY DEF AlerterInv, Alerts!TypeOK
<1>4. OneLinkInv' /\ ListsOK(own)'
  BY <1>1, <1>2, MarkLists DEF AlerterInv
<1>5. InWait(c) /\ \A s \in Threads : last[s] # c
  BY <1>1 DEF ListsOK, Listed
<1>6. \A s \in Threads \ {t} : pc[s] = "mergeCas" => next'[last[s]] = next[last[s]]
  BY <1>3, <1>5, NoParker DEF AlerterInv, WalkerInv, WalkerOK, Alerts!TypeOK, Alerts!Parkers
<1>7. WalkerOK(t)'
  BY <1>2, <1>3, <1>5, NoParker DEF AlerterInv, WalkerInv, WalkerOK, Alerts!TypeOK
<1>8. WalkerInv'
  BY <1>3, <1>5, <1>6, <1>7, WalkerFrame DEF AlerterInv
<1>9. QED
  BY <1>1, <1>4, <1>8 DEF AlerterInv

\* Keeping the parker that t is at.
LEMMA AlerterKeeps ==
  ASSUME AlerterInv, Alerts!TypeOK', NEW t \in Threads, NEW c \in Threads, current[t] = c,
         UNCHANGED <<head, state, resume>>, last' = [last EXCEPT ![t] = c],
         current' = [current EXCEPT ![t] = next[c]],
         \/ /\ first[t] = NULL /\ first' = [first EXCEPT ![t] = c] /\ UNCHANGED next
         \/ /\ first[t] # NULL /\ next' = [next EXCEPT ![last[t]] = c]
            /\ UNCHANGED first,
         \A s \in Threads \ {t} : pc'[s] = pc[s],
         pc[t] = "walk", pc'[t] = IF next[c] = NULL THEN "merge" ELSE "walk"
  PROVE  AlerterInv'
<1>1. PICK own \in [Threads -> Lists] : ListsOK(own)
  BY DEF AlerterInv
<1>2. \A s \in Threads : InWait(s)' <=> InWait(s)
  BY DEF InWait
<1>3. first[t] = NULL <=> last[t] = NULL
  BY DEF AlerterInv, WalkerInv, WalkerOK
<1>4. /\ current'[t] = next[c] /\ \A s \in Threads \ {t} : current'[s] = current[s]
      /\ last'[t] = c /\ \A s \in Threads \ {t} : last'[s] = last[s]
      /\ first'[t] # NULL /\ \A s \in Threads \ {t} : first'[s] = first[s]
      /\ \A p \in Threads : p # last[t] \/ first[t] = NULL => next'[p] = next[p]
  BY NoParker DEF AlerterInv, Alerts!TypeOK
<1>5. OneLinkInv' /\ ListsOK([own EXCEPT ![c] = <<"kept", t>>])'
  BY <1>1, <1>2, <1>3, KeepLists DEF AlerterInv
<1>6. [own EXCEPT ![c] = <<"kept", t>>] \in [Threads -> Lists]
  BY <1>1 DEF Lists, Alerts!Parkers
<1>7. /\ \A s \in Threads \ {t} : last[s] \in Threads => last[s] # last[t]
      /\ last[t] \in Threads => InWait(last[t])
  BY <1>1 DEF ListsOK, Listed
<1>8. \A s \in Threads \ {t} : pc[s] = "mergeCas" => next'[last[s]] = next[last[s]]
  BY <1>4, <1>7 DEF AlerterInv, WalkerInv, WalkerOK, Alerts!TypeOK, Alerts!Parkers
<1>9. \A s \in Threads : ~InWait(s) => next'[s] = next[s]
  BY <1>4, <1>7
<1>10. WalkerOK(t)'
  BY <1>2, <1>4, <1>9, NoParker DEF AlerterInv, WalkerInv, WalkerOK
<1>11. WalkerInv'
  BY <1>4, <1>8, <1>9, <1>10, WalkerFrame DEF AlerterInv
<1>12. QED
  BY <1>5, <1>6, <1>11 DEF AlerterInv

\* Putting back what was kept: nothing; or it is alerted; or it is linked to the stack.
LEMMA AlerterMerge ==
  ASSUME AlerterInv, Alerts!TypeOK', NEW t \in Threads, Alerts!Merge(t)
  PROVE  AlerterInv'
<1>1. PICK own \in [Threads -> Lists] : ListsOK(own)
  BY DEF AlerterInv
<1>2. /\ pc[t] = "merge" /\ current[t] = NULL /\ (first[t] = NULL <=> last[t] = NULL)
      /\ first[t] \in Threads \cup {NULL} /\ last[t] \in Threads \cup {NULL}
      /\ \A s \in Threads \ {t} : pc'[s] = pc[s] /\ state'[s] = state[s]
  BY DEF AlerterInv, WalkerInv, WalkerOK, Alerts!Merge, Alerts!Step, Alerts!TypeOK, Alerts!Parkers
<1>3. /\ \A s \in Threads \ {t} : last[s] \in Threads => last[s] # last[t]
      /\ last[t] \in Threads => InWait(last[t])
  BY <1>1 DEF ListsOK, Listed
<1>4. CASE first[t] = NULL
  <2>1. UNCHANGED <<head, next, first, last, current, resume>> /\ pc'[t] = "spin"
    BY <1>4 DEF Alerts!Merge, Alerts!Step, Alerts!walkVars, AlerterInv, Alerts!TypeOK
  <2>2. QED
    BY <1>2, <1>4, <2>1, AlerterMove DEF InWaitPoints
<1>5. CASE first[t] # NULL /\ head = ALERTED
  <2>1. /\ pc'[t] = "cancel" /\ resume'[t] = "spin" /\ UNCHANGED head
        /\ next' = [next EXCEPT ![last[t]] = NULL] /\ current' = [current EXCEPT ![t] = first[t]]
        /\ first' = [first EXCEPT ![t] = NULL] /\ last' = [last EXCEPT ![t] = NULL]
        /\ \A s \in Threads \ {t} : resume'[s] = resume[s]
    BY <1>5 DEF Alerts!Merge, Alerts!Step, AlerterInv, Alerts!TypeOK
  <2>2. \A s \in Threads : InWait(s)' <=> InWait(s)
    BY <1>2, <2>1 DEF InWait
  <2>3. OneLinkInv' /\ ListsOK(Moved(own, <<"kept", t>>, <<"walk", t>>))'
    BY <1>1, <1>2, <1>5, <2>1, <2>2, AlertKeptLists DEF AlerterInv
  <2>4. Moved(own, <<"kept", t>>, <<"walk", t>>) \in [Threads -> Lists]
    BY <1>1 DEF Moved, Lists, Alerts!Parkers
  <2>5. /\ current'[t] = first[t] /\ first'[t] = NULL /\ last'[t] = NULL
        /\ \A s \in Threads \ {t} : /\ current'[s] = current[s] /\ first'[s] = first[s]
                                    /\ last'[s] = last[s]
        /\ \A p \in Threads : p # last[t] => next'[p] = next[p]
    BY <2>1 DEF AlerterInv, Alerts!TypeOK
  <2>6. \A s \in Threads \ {t} : pc[s] = "mergeCas" => next'[last[s]] = next[last[s]]
    BY <1>3, <2>5 DEF AlerterInv, WalkerInv, WalkerOK, Alerts!TypeOK, Alerts!Parkers
  <2>7. \A s \in Threads : ~InWait(s) => next'[s] = next[s]
    BY <1>3, <2>5
  <2>8. WalkerOK(t)'
    BY <1>2, <1>5, <2>1, <2>2, <2>5, <2>7 DEF AlerterInv, WalkerInv, WalkerOK
  <2>9. WalkerInv'
    BY <1>2, <2>1, <2>5, <2>6, <2>7, <2>8, WalkerFrame DEF AlerterInv
  <2>10. QED
    BY <2>3, <2>4, <2>9 DEF AlerterInv
<1>6. CASE first[t] # NULL /\ head # ALERTED
  <2>1. /\ pc'[t] = "mergeCas" /\ next' = [next EXCEPT ![last[t]] = head] /\ state'[t] = head
        /\ UNCHANGED <<head, first, last, current, resume>>
    BY <1>6 DEF Alerts!Merge, Alerts!Step, Alerts!walkVars, AlerterInv, Alerts!TypeOK
  <2>2. \A s \in Threads : InWait(s)' <=> InWait(s)
    BY <1>2, <2>1 DEF InWait
  <2>3. OneLinkInv' /\ ListsOK(own)'
    BY <1>1, <1>2, <1>6, <2>1, <2>2, LinkKeptLists DEF AlerterInv
  <2>4. next'[last[t]] = head /\ \A p \in Threads : p # last[t] => next'[p] = next[p]
    BY <1>2, <1>6, <2>1 DEF AlerterInv, Alerts!TypeOK
  <2>5. \A s \in Threads \ {t} : pc[s] = "mergeCas" => next'[last[s]] = next[last[s]]
    BY <1>3, <2>4 DEF AlerterInv, WalkerInv, WalkerOK, Alerts!TypeOK, Alerts!Parkers
  <2>6. \A s \in Threads : ~InWait(s) => next'[s] = next[s]
    BY <1>3, <2>4
  <2>7. head \in Alerts!Parkers
    BY <1>6 DEF AlerterInv, Alerts!TypeOK
  <2>8. WalkerOK(t)'
    BY <1>2, <1>6, <2>1, <2>2, <2>4, <2>6, <2>7 DEF AlerterInv, WalkerInv, WalkerOK
  <2>9. WalkerInv'
    BY <1>2, <2>1, <2>5, <2>6, <2>8, WalkerFrame DEF AlerterInv
  <2>10. QED
    BY <1>1, <2>3, <2>9 DEF AlerterInv
<1>7. QED
  BY <1>4, <1>5, <1>6

\* The swap of the head that puts back what was kept.
LEMMA AlerterMergeCas ==
  ASSUME AlerterInv, Alerts!TypeOK', NEW t \in Threads, Alerts!MergeCas(t)
  PROVE  AlerterInv'
<1>1. PICK own \in [Threads -> Lists] : ListsOK(own)
  BY DEF AlerterInv
<1>2. /\ pc[t] = "mergeCas" /\ current[t] = NULL /\ first[t] \in Threads /\ last[t] \in Threads
      /\ next[last[t]] = state[t]
      /\ \A s \in Threads \ {t} : pc'[s] = pc[s] /\ state'[s] = state[s]
  BY DEF AlerterInv, WalkerInv, WalkerOK, Alerts!MergeCas, Alerts!Step, Alerts!TypeOK,
         Alerts!Parkers
<1>3. CASE head = state[t]
  <2>1. /\ pc'[t] = "spin" /\ head' = first[t] /\ UNCHANGED <<next, current, resume>>
        /\ first' = [first EXCEPT ![t] = NULL] /\ last' = [last EXCEPT ![t] = NULL]
    BY <1>3 DEF Alerts!MergeCas, Alerts!Step, AlerterInv, Alerts!TypeOK
  <2>2. \A s \in Threads : InWait(s)' <=> InWait(s)
    BY <1>2, <2>1 DEF InWait
  <2>3. OneLinkInv' /\ ListsOK(Moved(own, <<"kept", t>>, StackList))'
    BY <1>1, <1>2, <1>3, <2>1, <2>2, MergeLists DEF AlerterInv
  <2>4. Moved(own, <<"kept", t>>, StackList) \in [Threads -> Lists]
    BY <1>1 DEF Moved, Lists, StackList, Alerts!Parkers
  <2>5. /\ first'[t] = NULL /\ last'[t] = NULL
        /\ \A s \in Threads \ {t} : first'[s] = first[s] /\ last'[s] = last[s]
    BY <2>1 DEF AlerterInv, Alerts!TypeOK
  <2>6. WalkerOK(t)'
    BY <1>2, <2>1, <2>2, <2>5 DEF AlerterInv, WalkerInv, WalkerOK
  <2>7. WalkerInv'
    BY <1>2, <2>1, <2>5, <2>6, WalkerFrame DEF AlerterInv
  <2>8. QED
    BY <2>3, <2>4, <2>7 DEF AlerterInv
<1>4. CASE head # state[t]
  <2>1. UNCHANGED <<head, next, first, last, current, resume>> /\ pc'[t] = "merge"
    BY <1>4 DEF Alerts!MergeCas, Alerts!Step, Alerts!walkVars, AlerterInv, Alerts!TypeOK
  <2>2. QED
    BY <1>2, <2>1, AlerterMove DEF InWaitPoints
<1>5. QED
  BY <1>3, <1>4

\* Every step of the alerter keeps the invariant.
LEMMA AlerterStep == ASSUME AlerterInv, Alerts!Next PROVE AlerterInv'
<1>1. PICK t \in Threads :
        \/ Alerts!RegisterParker(t) \/ Alerts!TryLockParker(t) \/ Alerts!SetAlerter(t)
        \/ Alerts!ThreadStep(t)
  BY DEF Alerts!Next
<1>2. Alerts!TypeOK /\ Alerts!TypeOK' /\ WalkerOK(t)
  BY AlerterTypes DEF AlerterInv, WalkerInv
<1>3. CASE Alerts!RegisterParker(t)
  BY <1>2, <1>3, AlerterRegister
<1>4. CASE Alerts!TryLockParker(t) \/ Alerts!AlertCancel(t) \/ Alerts!AlertUnpark(t)
  <2>1. /\ UNCHANGED <<head, next, state, first, last, current, resume>>
        /\ \A s \in Threads \ {t} : pc'[s] = pc[s]
        /\ pc'[t] = pc[t] \/ (pc[t] \in Alerting /\ pc'[t] \in Alerting)
    BY <1>2, <1>4 DEF Alerts!TryLockParker, Alerts!AlertCancel, Alerts!AlertUnpark, Alerts!Step,
                      Alerts!walkVars, Alerts!TypeOK, Alerting
  <2>2. QED
    BY <1>2, <2>1, AlerterMove
<1>5. CASE Alerts!SetAlerter(t)
  <2>1. /\ head # ALERTED /\ head' = ALERTED /\ pc[t] = "out" /\ resume'[t] = "out"
        /\ pc'[t] = IF head = NULL THEN "out" ELSE "cancel"
        /\ current' = [current EXCEPT ![t] = head] /\ UNCHANGED <<next, state, first, last>>
        /\ \A s \in Threads \ {t} : pc'[s] = pc[s] /\ resume'[s] = resume[s]
    BY <1>2, <1>5 DEF Alerts!SetAlerter, Alerts!Step, Alerts!TypeOK
  <2>2. CASE head \in Threads
    BY <1>2, <2>1, <2>2, NoParker, AlerterGrab
  <2>3. CASE head = NULL
    <3>1. UNCHANGED current
      BY <1>2, <2>1, <2>3 DEF WalkerOK, Alerts!TypeOK
    <3>2. \A s \in Threads : InWait(s)' <=> InWait(s)
      BY <2>1, <2>3 DEF InWait
    <3>3. PICK own \in [Threads -> Lists] : ListsOK(own)
      BY DEF AlerterInv
    <3>4. \A p, q \in Threads : (Links(p, q)' <=> Links(p, q)) /\ (Listed(p)' <=> Listed(p))
      BY <2>1, <3>2 DEF Links, Listed, Stale
    <3>5. OneLinkInv'
      BY <2>1, <3>1, <3>4, NoParker DEF AlerterInv, OneLinkInv
    <3>6. ListsOK(own)'
      BY <2>1, <3>1, <3>3, <3>4, NoParker DEF ListsOK
    <3>7. WalkerOK(t)'
      BY <1>2, <2>1, <2>3, <3>1, <3>2 DEF WalkerOK
    <3>8. WalkerInv'
      BY <2>1, <3>1, <3>7, WalkerFrame DEF AlerterInv
    <3>9. QED
      BY <1>2, <3>3, <3>5, <3>6, <3>8 DEF AlerterInv
  <2>4. QED
    BY <1>2, <2>1, <2>2, <2>3 DEF Alerts!TypeOK, Alerts!Parkers
<1>6. CASE Alerts!Woken(t)
  <2>1. /\ UNCHANGED <<head, next, state, first, last, current, resume>>
        /\ pc[t] = "parked" /\ pc'[t] = "deregister" /\ \A s \in Threads \ {t} : pc'[s] = pc[s]
    BY <1>2, <1>6 DEF Alerts!Woken, Alerts!Step, Alerts!walkVars, Alerts!TypeOK
  <2>2. QED
    BY <1>2, <2>1, AlerterMove DEF WalkerOK, InWaitPoints
<1>7. CASE Alerts!DeregisterParker(t) \/ Alerts!DeregisterCas(t)
           \/ Alerts!SpinUntilUnlinkedOrListChange(t)
  <2>1. UNCHANGED <<first, last, current, resume>>
    BY <1>7 DEF Alerts!DeregisterParker, Alerts!DeregisterCas,
                Alerts!SpinUntilUnlinkedOrListChange, Alerts!walkVars
  <2>2. \/ /\ \E from \in {"deregister", "cas", "slow", "spin"} : Alerts!Leave(t, from)
           /\ (next[t] = t /\ UNCHANGED head) \/ (head = t /\ head' = NULL)
        \/ /\ UNCHANGED <<head, next, state>> /\ \A s \in Threads \ {t} : pc'[s] = pc[s]
           /\ pc[t] \in {"deregister", "cas", "spin"} /\ pc'[t] \in {"cas", "slow"}
    BY <1>2, <1>7 DEF Alerts!DeregisterParker, Alerts!DeregisterCas, Alerts!Step,
                      Alerts!SpinUntilUnlinkedOrListChange, Alerts!TypeOK
  <2>3. QED
    BY <1>2, <2>1, <2>2, AlerterLeave, AlerterMove DEF WalkerOK, InWaitPoints
<1>8. CASE Alerts!SlowDeregisterParker(t)
  <2>1. CASE Alerts!Leave(t, "slow")
    <3>1. /\ UNCHANGED <<first, last, current, resume>>
          /\ (next[t] = t /\ UNCHANGED head) \/ (head = t /\ head' = NULL)
      BY <1>2, <1>8, <2>1 DEF Alerts!SlowDeregisterParker, Alerts!walkVars, Alerts!Leave,
                              Alerts!Step, Alerts!TypeOK
    <3>2. QED
      BY <1>2, <2>1, <3>1, AlerterLeave
  <2>2. CASE Alerts!Step(t, "slow", "spin")
    <3>1. /\ UNCHANGED <<head, next, first, last, current, resume>> /\ pc'[t] = "spin"
          /\ pc[t] = "slow" /\ \A s \in Threads \ {t} : pc'[s] = pc[s] /\ state'[s] = state[s]
      BY <1>2, <1>8, <2>2 DEF Alerts!SlowDeregisterParker, Alerts!walkVars, Alerts!Leave,
                              Alerts!Step, Alerts!TypeOK
    <3>2. QED
      BY <1>2, <3>1, AlerterMove DEF WalkerOK, InWaitPoints
  <2>3. CASE Alerts!Step(t, "slow", "walk")
    <3>1. /\ head \in Threads /\ head' = NULL /\ current' = [current EXCEPT ![t] = head]
          /\ UNCHANGED <<next, state, first, last, resume>> /\ pc[t] = "slow" /\ pc'[t] = "walk"
          /\ \A s \in Threads \ {t} : pc'[s] = pc[s]
      BY <1>2, <1>8, <2>3 DEF Alerts!SlowDeregisterParker, Alerts!Leave, Alerts!Step,
                              Alerts!TypeOK
    <3>2. QED
      BY <1>2, <3>1, NoParker, AlerterGrab
  <2>4. QED
    BY <1>8, <2>1, <2>2, <2>3 DEF Alerts!SlowDeregisterParker
<1>9. CASE Alerts!Walk(t) \/ Alerts!AlertMark(t)
  <2>1. PICK c \in Threads : c = current[t]
    BY <1>2, <1>9 DEF Alerts!Walk, Alerts!AlertMark, WalkerOK, Alerts!TypeOK, Alerts!Parkers
  <2>2. /\ current' = [current EXCEPT ![t] = next[c]] /\ UNCHANGED <<head, state, resume>>
        /\ \A s \in Threads \ {t} : pc'[s] = pc[s]
        /\ \/ pc[t] = "walk" /\ pc'[t] = IF next[c] = NULL THEN "merge" ELSE "walk"
           \/ /\ pc[t] = "mark" /\ pc'[t] = IF next[c] = NULL THEN resume[t] ELSE "cancel"
              /\ next' = [next EXCEPT ![c] = c]
    BY <1>2, <1>9, <2>1 DEF Alerts!Walk, Alerts!AlertMark, Alerts!TypeOK
  <2>3. CASE next' = [next EXCEPT ![c] = c] /\ UNCHANGED <<first, last>>
    BY <1>2, <2>1, <2>2, <2>3, AlerterMarks
  <2>4. CASE /\ pc[t] = "walk" /\ last' = [last EXCEPT ![t] = c]
             /\ \/ /\ first[t] = NULL /\ first' = [first EXCEPT ![t] = c] /\ UNCHANGED next
                \/ /\ first[t] # NULL /\ next' = [next EXCEPT ![last[t]] = c]
                   /\ UNCHANGED first
    BY <1>2, <2>1, <2>2, <2>4, AlerterKeeps
  <2>5. QED
    BY <1>9, <2>1, <2>3, <2>4 DEF Alerts!Walk, Alerts!AlertMark
<1>10. CASE Alerts!Merge(t) \/ Alerts!MergeCas(t)
  BY <1>2, <1>10, AlerterMerge, AlerterMergeCas
<1>11. QED
  BY <1>1, <1>3, <1>4, <1>5, <1>6, <1>7, <1>8, <1>9, <1>10 DEF Alerts!ThreadStep

\* At first the stack is empty.
LEMMA AlerterInit == Alerts!Init => AlerterInv
<1> SUFFICES ASSUME Alerts!Init PROVE AlerterInv
  OBVIOUS
<1>1. Alerts!TypeOK
  BY DEF Alerts!Init, Alerts!TypeOK, Alerts!Parkers, Alerts!Pcs
<1>2. \A p, q \in Threads : ~Links(p, q)
  BY NoParker DEF Alerts!Init, Links
<1>3. WalkerInv
  BY DEF Alerts!Init, WalkerInv, WalkerOK
<1>4. PICK own \in [Threads -> Lists] : TRUE
  <2>1. [p \in Threads |-> StackList] \in [Threads -> Lists]
    BY DEF Lists, StackList, Alerts!Parkers
  <2>2. QED
    BY <2>1
<1>5. ListsOK(own)
  BY <1>2, NoParker DEF Alerts!Init, ListsOK
<1>6. QED
  BY <1>1, <1>2, <1>3, <1>5 DEF AlerterInv, OneLinkInv

\* A step of another system leaves the alerter alone.
LEMMA AlerterStutter == ASSUME AlerterInv, UNCHANGED Alerts!vars PROVE AlerterInv'
<1>1. UNCHANGED <<head, next, pc, state, first, last, current, resume>> /\ Alerts!TypeOK'
  BY DEF Alerts!vars, Alerts!walkVars, AlerterInv, Alerts!TypeOK
<1>2. PICK own \in [Threads -> Lists] : ListsOK(own)
  BY DEF AlerterInv
<1>3. \A s \in Threads : InWait(s)' <=> InWait(s)
  BY <1>1 DEF InWait
<1>4. OneLinkInv' /\ ListsOK(own)'
  BY <1>1, <1>2, <1>3, SameAlerterLists DEF AlerterInv
<1>5. WalkerInv'
  BY <1>1, <1>3 DEF AlerterInv, WalkerInv, WalkerOK
<1>6. QED
  BY <1>1, <1>2, <1>4, <1>5 DEF AlerterInv

\* What is reached lies in every set that has the start and is closed under the links.
LEMMA ReachLemma ==
  ASSUME NEW p, NEW stop, NEW S \in SUBSET Threads, p \in Threads => p \in S,
         \A r \in S \ {stop} : next[r] \in Threads => next[r] \in S
  PROVE  Alerts!Reach(p, stop) \subseteq S
  BY DEF Alerts!Reach

\* What is reached from the head of a list is listed.
LEMMA ReachesListed ==
  ASSUME AlerterInv
  PROVE  /\ \A p \in Alerts!Stack : Listed(p)
         /\ \A s \in Threads : \A p \in Alerts!Hands(s) : Listed(p)
<1>1. PICK own \in [Threads -> Lists] : ListsOK(own)
  BY DEF AlerterInv
<1> DEFINE Of(l) == {p \in Threads : own[p] = l /\ Listed(p)}
<1>2. ASSUME NEW l, NEW stop, NEW r \in Of(l) \ {stop}, next[r] \in Threads,
             \A s \in Threads : l = <<"kept", s>> => last[s] = stop
      PROVE  next[r] \in Of(l)
  <2>1. own[r] = l /\ Listed(r) /\ r \in Threads
    OBVIOUS
  <2>2. ~Stale(r)
    BY <1>1, <1>2, <2>1 DEF ListsOK, Stale
  <2>3. Links(r, next[r])
    BY <2>1, <2>2 DEF Links, Listed
  <2>4. QED
    BY <1>1, <1>2, <2>1, <2>3 DEF ListsOK
<1>3. Alerts!Stack \subseteq Of(StackList)
  <2>1. Alerts!Reach(head, NULL) \subseteq Of(StackList)
    <3>1. head \in Threads => head \in Of(StackList)
      BY <1>1 DEF ListsOK
    <3>2. \A r \in Of(StackList) \ {NULL} : next[r] \in Threads => next[r] \in Of(StackList)
      BY <1>2 DEF StackList
    <3>3. Of(StackList) \in SUBSET Threads
      OBVIOUS
    <3> HIDE DEF Of
    <3>4. QED
      BY <3>1, <3>2, <3>3, ReachLemma
  <2>2. QED
    BY <2>1 DEF Alerts!Stack
<1>4. ASSUME NEW s \in Threads
      PROVE  Alerts!Hands(s) \subseteq Of(<<"walk", s>>) \cup Of(<<"kept", s>>)
  <2>1. Alerts!Reach(current[s], NULL) \subseteq Of(<<"walk", s>>)
    <3>1. current[s] \in Threads => current[s] \in Of(<<"walk", s>>)
      BY <1>1 DEF ListsOK
    <3>2. \A r \in Of(<<"walk", s>>) \ {NULL} :
            next[r] \in Threads => next[r] \in Of(<<"walk", s>>)
      BY <1>2
    <3>3. Of(<<"walk", s>>) \in SUBSET Threads
      OBVIOUS
    <3> HIDE DEF Of
    <3>4. QED
      BY <3>1, <3>2, <3>3, ReachLemma
  <2>2. Alerts!Reach(first[s], last[s]) \subseteq Of(<<"kept", s>>)
    <3>1. first[s] \in Threads => first[s] \in Of(<<"kept", s>>)
      BY <1>1 DEF ListsOK
    <3>2. \A r \in Of(<<"kept", s>>) \ {last[s]} :
            next[r] \in Threads => next[r] \in Of(<<"kept", s>>)
      BY <1>2
    <3>3. Of(<<"kept", s>>) \in SUBSET Threads
      OBVIOUS
    <3> HIDE DEF Of
    <3>4. QED
      BY <3>1, <3>2, <3>3, ReachLemma
  <2>3. QED
    BY <2>1, <2>2 DEF Alerts!Hands
<1>5. QED
  BY <1>3, <1>4

\* The parker of a wait that has returned is in no list.
LEMMA ParkersLeaveLemma == AlerterInv => Alerts!ParkersLeave
  BY ReachesListed DEF Alerts!ParkersLeave, Listed, InWait

\* The alerter among the systems of MCWaits.
AlerterOK == which = "alerter" => AlerterInv

\* The invariant of the alerter holds in every behaviour.
LEMMA AlerterKeepsInvariant == MCSpec => []AlerterOK
<1>1. MCInit => AlerterOK
  BY AlerterInit DEF MCInit, AlerterOK
<1>2. AlerterOK /\ [MCNext]_MCVars => AlerterOK'
  <2> SUFFICES ASSUME AlerterOK, [MCNext]_MCVars, which' = "alerter" PROVE AlerterInv'
    BY DEF AlerterOK
  <2>1. CASE MCNext
    BY <2>1, AlerterStep DEF MCNext, AlerterOK
  <2>2. CASE UNCHANGED MCVars
    BY <2>2, AlerterStutter
       DEF MCVars, alerterOnly, AlerterOK, Alerts!vars, Alerts!walkVars
  <2>3. QED
    BY <2>1, <2>2
<1>3. QED
  BY <1>1, <1>2, PTL DEF MCSpec

\* For any number of threads: the parker of a wait that has returned is neither in the
\* alerter's stack nor in the hands of a thread that walks over it, whoever deregisters,
\* alerts or puts parkers back meanwhile: the part of BlocksLeave that is about the alerter.
AlerterParkersLeave == which = "alerter" => Alerts!ParkersLeave

THEOREM AlerterParkersAreRemoved == MCSpec => []AlerterParkersLeave
<1>1. AlerterOK => AlerterParkersLeave
  BY ParkersLeaveLemma DEF AlerterOK, AlerterParkersLeave
<1>2. QED
  BY <1>1, AlerterKeepsInvariant, PTL
=============================================================================
