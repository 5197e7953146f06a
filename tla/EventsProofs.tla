---------------------------- MODULE EventsProofs ----------------------------
(***************************************************************************)
(* Proofs about the systems of MCEvents, for any set of threads.           *)
(*                                                                         *)
(*  - the initialize-once lock: one thread initialises at a time, and      *)
(*    whoever is told that the target is available finds it so;            *)
(*  - the notification event, by itself and under a count-down event:      *)
(*    nobody is forgotten or woken without a set, and no block outlives    *)
(*    its wait; the count-down event is set at zero, once;                 *)
(*  - the barrier: its words count, and nobody leaves a phase early.       *)
(***************************************************************************)
EXTENDS MCEvents, WaitListLemmas, FiniteSetTheorems, TLAPS

-----------------------------------------------------------------------------
(* The initialize-once lock: the inductive invariant. *)

\* Available is final: nobody waits on the word, and only then are waiters
\* released without being told to initialise.
AvailableInv ==
  /\ base = "AVAILABLE" => waiters = <<>>
  /\ release # <<>> => base = "AVAILABLE"
  /\ \A t \in Threads :
       /\ pc[t] \in {"available", "release"} => base = "AVAILABLE"
       /\ wake[t] = "AVAILABLE" /\ pc[t] = "parked" => base = "AVAILABLE"

\* A parker is in one list, once, as long as its owner is parked and has not
\* been released.
WaitingInv ==
  /\ Distinct(waiters) /\ Distinct(release)
  /\ \A t \in Threads :
       In(t, waiters) \/ In(t, release) => pc[t] = "parked" /\ wake[t] = "NONE"

\* What a thread has read before it swaps: never the final state, and no
\* status of an earlier wait is left in its parker.
SeenInv ==
  \A t \in Threads :
    /\ pc[t] = "enqueueCas" => seen[t] = "FREE"
    /\ pc[t] = "push" => seen[t] # "AVAILABLE"
    /\ pc[t] \in {"enqueueCas", "push"} => wake[t] = "NONE"
    /\ pc[t] = "failCas" => seen[t] = "BUSY"
    /\ pc[t] = "failPop" => seen[t] \in {"BUSY"} \cup Threads

IInv == TypeOK /\ AvailableInv /\ WaitingInv /\ SeenInv /\ OneInitialiser

-----------------------------------------------------------------------------
(* Steps. *)

\* The state word is the head of the wait list, or what the empty list ends in.
LEMMA StateLemma ==
  ASSUME TypeOK
  PROVE  /\ State \in States
         /\ waiters = <<>> => State = base
         /\ waiters # <<>> => State = Head(waiters) /\ State \in Threads
         /\ State \in {"FREE", "BUSY", "AVAILABLE"} => waiters = <<>>
BY InitOnceAssumption, PopLemma DEF TypeOK, State, States

\* Initially the lock is free and nobody waits.
LEMMA InitIInv == Init => IInv
BY SmallStacks, InitOnceAssumption
   DEF Init, IInv, TypeOK, AvailableInv, WaitingInv, SeenInv, OneInitialiser,
       Initialising, States, Pcs

\* Every step of a caller, of the initialiser and of a waiter keeps it.
LEMMA NextIInv == ASSUME IInv, [Next]_vars PROVE IInv'
<1> USE InitOnceAssumption DEF Step
<1>0. /\ TypeOK /\ AvailableInv /\ WaitingInv /\ SeenInv /\ OneInitialiser
      /\ State \in States
      /\ waiters = <<>> => State = base
      /\ waiters # <<>> => State = Head(waiters) /\ State \in Threads
      /\ State \in {"FREE", "BUSY", "AVAILABLE"} => waiters = <<>>
  BY StateLemma DEF IInv
<1>1. ASSUME NEW t \in Threads, TryInitTarget(t) PROVE IInv'
  <2> USE <1>0, <1>1 DEF TryInitTarget
  <2>1. TypeOK'
    <3>1. spins' \in [Threads -> 0..MaxSpins]
      BY DEF TypeOK
    <3>2. pc' \in [Threads -> Pcs]
      BY DEF TypeOK, Pcs
    <3>3. QED
      BY <3>1, <3>2 DEF TypeOK
  <2>2. AvailableInv'
    BY DEF TypeOK, AvailableInv
  <2>3. WaitingInv'
    BY DEF TypeOK, WaitingInv
  <2>4. SeenInv'
    BY DEF TypeOK, SeenInv, States
  <2>5. OneInitialiser'
    BY DEF TypeOK, OneInitialiser, Initialising
  <2>6. QED
    BY <2>1, <2>2, <2>3, <2>4, <2>5 DEF IInv
<1>2. ASSUME NEW t \in Threads, Spin(t) PROVE IInv'
  <2> USE <1>0, <1>2 DEF Spin, SpinMore
  <2>1. TypeOK'
    <3>1. spins' \in [Threads -> 0..MaxSpins]
      <4>1. CASE UNCHANGED spins
        BY <4>1 DEF TypeOK
      <4>2. CASE spins[t] # 0 /\ spins' = [spins EXCEPT ![t] = @ - 1]
        BY <4>2 DEF TypeOK
      <4>3. QED
        BY <4>1, <4>2
    <3>2. pc' \in [Threads -> Pcs]
      BY DEF TypeOK, Pcs
    <3>3. QED
      BY <3>1, <3>2 DEF TypeOK
  <2>2. AvailableInv'
    BY DEF TypeOK, AvailableInv
  <2>3. WaitingInv'
    BY DEF TypeOK, WaitingInv
  <2>4. SeenInv'
    BY DEF TypeOK, SeenInv, States
  <2>5. OneInitialiser'
    BY DEF TypeOK, OneInitialiser, Initialising
  <2>6. QED
    BY <2>1, <2>2, <2>3, <2>4, <2>5 DEF IInv
<1>3. ASSUME NEW t \in Threads, SpinCas(t) PROVE IInv'
  <2> USE <1>0, <1>3 DEF SpinCas, SpinMore
  <2>1. TypeOK'
    <3>1. spins' \in [Threads -> 0..MaxSpins]
      BY SMTT(30) DEF TypeOK
    <3>2. pc' \in [Threads -> Pcs]
      BY DEF TypeOK, Pcs
    <3>3. QED
      BY <3>1, <3>2 DEF TypeOK
  <2>2. AvailableInv'
    BY DEF TypeOK, AvailableInv
  <2>3. WaitingInv'
    BY DEF TypeOK, WaitingInv
  <2>4. SeenInv'
    BY DEF TypeOK, SeenInv, States
  <2>5. OneInitialiser'
    BY DEF TypeOK, OneInitialiser, Initialising
  <2>6. QED
    BY <2>1, <2>2, <2>3, <2>4, <2>5 DEF IInv
<1>4. ASSUME NEW t \in Threads, Enqueue(t) PROVE IInv'
  <2> USE <1>0, <1>4 DEF Enqueue
  <2>1. TypeOK'
    BY DEF TypeOK, Pcs
  <2>2. AvailableInv'
    BY DEF TypeOK, AvailableInv
  <2>3. WaitingInv'
    BY DEF TypeOK, WaitingInv
  <2>4. SeenInv'
    BY DEF TypeOK, SeenInv, States
  <2>5. OneInitialiser'
    BY DEF TypeOK, OneInitialiser, Initialising
  <2>6. QED
    BY <2>1, <2>2, <2>3, <2>4, <2>5 DEF IInv
<1>5. ASSUME NEW t \in Threads, EnqueueCas(t) PROVE IInv'
  <2> USE <1>0, <1>5 DEF EnqueueCas
  <2>1. TypeOK'
    BY DEF TypeOK, Pcs
  <2>2. AvailableInv'
    BY DEF TypeOK, AvailableInv
  <2>3. WaitingInv'
    BY DEF TypeOK, WaitingInv
  <2>4. SeenInv'
    BY DEF TypeOK, SeenInv, States
  <2>5. OneInitialiser'
    BY DEF TypeOK, OneInitialiser, Initialising
  <2>6. QED
    BY <2>1, <2>2, <2>3, <2>4, <2>5 DEF IInv
<1>6. ASSUME NEW t \in Threads, Push(t), State # seen[t] PROVE IInv'
  <2> USE <1>0, <1>6 DEF Push
  <2>1. TypeOK'
    BY DEF TypeOK, Pcs
  <2>2. AvailableInv'
    BY DEF TypeOK, AvailableInv
  <2>3. WaitingInv'
    BY DEF TypeOK, WaitingInv
  <2>4. SeenInv'
    BY DEF TypeOK, SeenInv
  <2>5. OneInitialiser'
    BY DEF TypeOK, OneInitialiser, Initialising
  <2>6. QED
    BY <2>1, <2>2, <2>3, <2>4, <2>5 DEF IInv
<1>7. ASSUME NEW t \in Threads, Push(t), State = seen[t] PROVE IInv'
  <2>1. waiters \in Seq(Threads) /\ Distinct(waiters) /\ ~In(t, waiters)
    BY <1>0, <1>7 DEF Push, TypeOK, WaitingInv
  <2>2. waiters' = <<t>> \o waiters
    BY <1>7 DEF Push
  <2>3. /\ waiters' \in Seq(Threads) /\ waiters' # <<>> /\ Distinct(waiters')
        /\ \A x : In(x, waiters') <=> x = t \/ In(x, waiters)
    BY <2>1, <2>2, PushLemma
  <2>4. base # "AVAILABLE" /\ wake[t] = "NONE"
    BY <1>0, <1>7 DEF Push, SeenInv, AvailableInv
  <2>5. /\ pc' = [pc EXCEPT ![t] = "parked"] /\ pc[t] = "push"
        /\ UNCHANGED <<base, seen, spins, wake, release, failures>>
    BY <1>7 DEF Push
  <2> USE <1>0, <2>1, <2>3, <2>4, <2>5
  <2>6. TypeOK'
    BY DEF TypeOK, Pcs
  <2>7. AvailableInv'
    BY DEF TypeOK, AvailableInv
  <2>8. WaitingInv'
    BY DEF TypeOK, WaitingInv
  <2>9. SeenInv'
    BY DEF TypeOK, SeenInv
  <2>10. OneInitialiser'
    BY DEF TypeOK, OneInitialiser, Initialising
  <2>11. QED
    BY <2>6, <2>7, <2>8, <2>9, <2>10 DEF IInv
<1>8. ASSUME NEW t \in Threads, Unparked(t) PROVE IInv'
  <2> USE <1>0, <1>8 DEF Unparked
  <2>1. TypeOK'
    BY DEF TypeOK, Pcs
  <2>2. AvailableInv'
    BY DEF TypeOK, AvailableInv
  <2>3. WaitingInv'
    BY DEF TypeOK, WaitingInv
  <2>4. SeenInv'
    BY DEF TypeOK, SeenInv, States
  <2>5. OneInitialiser'
    BY DEF TypeOK, OneInitialiser, Initialising
  <2>6. QED
    BY <2>1, <2>2, <2>3, <2>4, <2>5 DEF IInv
<1>9. ASSUME NEW t \in Threads, InitTargetCompleted(t) PROVE IInv'
  <2> USE <1>0, <1>9 DEF InitTargetCompleted
  <2>1. TypeOK'
    BY DEF TypeOK, Pcs
  <2>2. AvailableInv'
    BY DEF TypeOK, AvailableInv
  <2>3. WaitingInv'
    BY SmallStacks DEF TypeOK, WaitingInv
  <2>4. SeenInv'
    BY DEF TypeOK, SeenInv
  <2>5. OneInitialiser'
    BY DEF TypeOK, OneInitialiser, Initialising
  <2>6. QED
    BY <2>1, <2>2, <2>3, <2>4, <2>5 DEF IInv
<1>10. ASSUME NEW t \in Threads, ReleaseWaiter(t) PROVE IInv'
  <2> DEFINE s == Head(release)
  <2>1. /\ s \in Threads /\ Tail(release) \in Seq(Threads)
        /\ \A x : In(x, release) <=> x = s \/ In(x, Tail(release))
        /\ Distinct(Tail(release)) /\ ~In(s, Tail(release))
    BY <1>0, <1>10, PopLemma DEF ReleaseWaiter, TypeOK, WaitingInv
  <2>2. base = "AVAILABLE" /\ waiters = <<>> /\ s # t /\ pc[s] = "parked"
    BY <1>0, <1>10, <2>1 DEF ReleaseWaiter, AvailableInv, WaitingInv
  <2>3. \A x : ~In(x, waiters)
    BY <2>2, SmallStacks
  <2>4. wake' = [wake EXCEPT ![s] = "AVAILABLE"] /\ release' = Tail(release)
    BY <1>10 DEF ReleaseWaiter
  <2> HIDE DEF s
  <2> USE <1>0, <1>10, <2>1, <2>2, <2>3, <2>4 DEF ReleaseWaiter
  <2>5. TypeOK'
    BY DEF TypeOK, Pcs
  <2>6. AvailableInv'
    BY DEF TypeOK, AvailableInv
  <2>7. WaitingInv'
    BY DEF TypeOK, WaitingInv
  <2>8. SeenInv'
    BY SMTT(30) DEF TypeOK, SeenInv
  <2>9. OneInitialiser'
    BY DEF TypeOK, OneInitialiser, Initialising
  <2>10. QED
    BY <2>5, <2>6, <2>7, <2>8, <2>9 DEF IInv
<1>11. ASSUME NEW t \in Threads, InitTargetFailed(t) PROVE IInv'
  <2> USE <1>0, <1>11 DEF InitTargetFailed
  <2>1. TypeOK'
    BY DEF TypeOK, Pcs
  <2>2. AvailableInv'
    BY DEF TypeOK, AvailableInv
  <2>3. WaitingInv'
    BY DEF TypeOK, WaitingInv
  <2>4. SeenInv'
    BY DEF TypeOK, SeenInv, States
  <2>5. OneInitialiser'
    BY DEF TypeOK, OneInitialiser, Initialising
  <2>6. QED
    BY <2>1, <2>2, <2>3, <2>4, <2>5 DEF IInv
<1>12. ASSUME NEW t \in Threads, FailRead(t) PROVE IInv'
  <2> USE <1>0, <1>12 DEF FailRead
  <2>1. TypeOK'
    BY DEF TypeOK, Pcs
  <2>2. AvailableInv'
    BY DEF TypeOK, AvailableInv
  <2>3. WaitingInv'
    BY DEF TypeOK, WaitingInv
  <2>4. SeenInv'
    BY DEF TypeOK, SeenInv, States, OneInitialiser, Initialising
  <2>5. OneInitialiser'
    BY DEF TypeOK, OneInitialiser, Initialising
  <2>6. QED
    BY <2>1, <2>2, <2>3, <2>4, <2>5 DEF IInv
<1>13. ASSUME NEW t \in Threads, FailCas(t) PROVE IInv'
  <2> USE <1>0, <1>13 DEF FailCas
  <2>1. TypeOK'
    BY DEF TypeOK, Pcs
  <2>2. AvailableInv'
    BY DEF TypeOK, AvailableInv
  <2>3. WaitingInv'
    BY DEF TypeOK, WaitingInv
  <2>4. SeenInv'
    BY DEF TypeOK, SeenInv, States
  <2>5. OneInitialiser'
    BY ZenonT(30) DEF TypeOK, OneInitialiser, Initialising
  <2>6. QED
    BY <2>1, <2>2, <2>3, <2>4, <2>5 DEF IInv
<1>14. ASSUME NEW t \in Threads, FailPop(t),
              seen[t] = "BUSY" \/ State # seen[t]
       PROVE  IInv'
  <2> USE <1>0, <1>14 DEF FailPop
  <2>1. TypeOK'
    BY DEF TypeOK, Pcs
  <2>2. AvailableInv'
    BY DEF TypeOK, AvailableInv
  <2>3. WaitingInv'
    BY DEF TypeOK, WaitingInv
  <2>4. SeenInv'
    BY DEF TypeOK, SeenInv
  <2>5. OneInitialiser'
    BY SMTT(30) DEF TypeOK, OneInitialiser, Initialising
  <2>6. QED
    BY <2>1, <2>2, <2>3, <2>4, <2>5 DEF IInv
<1>15. ASSUME NEW t \in Threads, FailPop(t), seen[t] # "BUSY", State = seen[t]
       PROVE  IInv'
  <2> DEFINE s == Head(waiters)
  <2>1. waiters # <<>> /\ seen[t] = s
    BY <1>0, <1>15 DEF FailPop, SeenInv, TypeOK
  <2>2. /\ s \in Threads /\ Tail(waiters) \in Seq(Threads)
        /\ \A x : In(x, waiters) <=> x = s \/ In(x, Tail(waiters))
        /\ Distinct(Tail(waiters)) /\ ~In(s, Tail(waiters))
    BY <1>0, <2>1, PopLemma DEF TypeOK, WaitingInv
  <2>3. /\ base = "BUSY" /\ release = <<>> /\ s # t
        /\ pc[s] = "parked" /\ wake[s] = "NONE"
    BY <1>0, <1>15, <2>2
       DEF FailPop, OneInitialiser, Initialising, AvailableInv, WaitingInv
  <2>4. \A x : ~In(x, release)
    BY <2>3, SmallStacks
  <2>5. /\ pc' = [pc EXCEPT ![t] = "idle"] /\ waiters' = Tail(waiters)
        /\ wake' = [wake EXCEPT ![s] = "INIT"] /\ pc[t] = "failPop"
        /\ UNCHANGED <<base, seen, spins, release, failures>>
    BY <1>15, <2>1 DEF FailPop
  <2> HIDE DEF s
  <2> USE <1>0, <2>1, <2>2, <2>3, <2>4, <2>5
  <2>6. TypeOK'
    BY DEF TypeOK, Pcs
  <2>7. AvailableInv'
    BY DEF TypeOK, AvailableInv
  <2>8. WaitingInv'
    BY DEF TypeOK, WaitingInv
  <2>9. SeenInv'
    BY DEF TypeOK, SeenInv
  <2>10. OneInitialiser'
    BY DEF TypeOK, OneInitialiser, Initialising
  <2>11. QED
    BY <2>6, <2>7, <2>8, <2>9, <2>10 DEF IInv
<1>16. CASE UNCHANGED vars
  BY <1>0, <1>16
     DEF vars, IInv, TypeOK, AvailableInv, WaitingInv, SeenInv, OneInitialiser,
         Initialising
<1>17. QED
  BY <1>1, <1>2, <1>3, <1>4, <1>5, <1>6, <1>7, <1>8, <1>9, <1>10, <1>11,
     <1>12, <1>13, <1>14, <1>15, <1>16 DEF Next, ThreadStep, Finish

\* The invariant holds in every behaviour.
THEOREM Invariance == Spec => []IInv
<1>1. IInv /\ [Next]_vars => IInv'
  BY NextIInv
<1>2. QED
  BY <1>1, InitIInv, PTL DEF Spec

\* Variables keep their types.
THEOREM TypeCorrect == Spec => []TypeOK
<1>1. IInv => TypeOK
  BY DEF IInv
<1>2. QED
  BY <1>1, Invariance, PTL

\* However many initialisations fail, and whoever takes over, no two threads
\* are initialising the target, and nobody once it is available.
THEOREM InitialisedByOne == Spec => []OneInitialiser
<1>1. IInv => OneInitialiser
  BY DEF IInv
<1>2. QED
  BY <1>1, Invariance, PTL

\* TryInitTarget returns false only when the target is available.
THEOREM FalseIsAvailable == Spec => []FalseMeansAvailable
<1>1. IInv => FalseMeansAvailable
  BY DEF IInv, AvailableInv, FalseMeansAvailable, State
<1>2. QED
  BY <1>1, Invariance, PTL

-----------------------------------------------------------------------------
(* The notification event: its inductive invariant. *)

\* The thread s has the wait block of t in its hands.
Hand(t, s) == In(t, grabbed[s]) \/ In(t, kept[s]) \/ In(t, waking[s])

\* A block is in one place, once.
HandsInv ==
  /\ Distinct(list)
  /\ \A s \in Threads : Distinct(grabbed[s]) /\ Distinct(kept[s])
  /\ \A s \in Threads : waking[s] # <<>> => \E e \in Threads : waking[s] = <<e>>
  /\ \A s, t \in Threads :
       /\ In(t, grabbed[s]) => ~In(t, kept[s]) /\ ~In(t, waking[s])
       /\ In(t, list) => ~Hand(t, s)
  /\ \A r, s, t \in Threads : Hand(t, r) /\ Hand(t, s) => r = s

\* What a thread can have in its hands where it is.
HoldingInv ==
  \A s \in Threads :
    /\ kept[s] # <<>> => pc[s] = "filter"
    /\ grabbed[s] # <<>> => pc[s] \in {"filter", "unparkList", "unparkSpin"}
    /\ waking[s] # <<>> => pc[s] \in {"unparkList", "unparkSpin"}

\* One thread holds the lock bit, and only while it does can an event that is set have
\* blocks.
LockBitInv ==
  /\ \A s \in Threads : pc[s] = "filter" => lock = 1
  /\ lock = 1 => \E s \in Threads : pc[s] = "filter"
  /\ \A r, s \in Threads : pc[r] = "filter" /\ pc[s] = "filter" => r = s
  /\ set = 1 /\ lock = 0 => list = <<>>

\* The block of t can be reached; some thread is about to unpark t.
Listed(t) == In(t, list) \/ \E s \in Threads : Hand(t, s)
Waking(t) == \E s \in Threads : In(t, waking[s])

\* The owner of a block that can be reached has not returned, and a parked
\* thread's block is reachable until it is unparked.
BlockInv ==
  \A t \in Threads :
    /\ Listed(t) =>
         /\ unlinked[t] = 0 /\ unparked[t] = 0
         /\ pc[t] \in {"parked", "unlink", "slow", "filter", "spinUnlinked", "unparkSpin"}
    /\ Waking(t) => pc[t] = "parked" /\ count[t] = 0
    /\ pc[t] = "parked" /\ unparked[t] = 0 => Listed(t) /\ (count[t] = 0 => Waking(t))
    /\ pc[t] \in {"unlink", "slow", "filter", "spinUnlinked", "unparkSpin"} => count[t] = 0
    /\ pc[t] = "tail" => count[t] = 1 /\ unparked[t] = 0 /\ unlinked[t] = 0

Unparking(s) == pc[s] \in {"unparkList", "unparkSpin"}

\* Whoever is being unparked parked before the event was set.
PromiseInv ==
  \A t \in Threads : pc[t] = "parked" =>
    /\ set = 1 \/ unparked[t] = 1 => promised[t] = 1
    /\ \A s \in Threads : Unparking(s) /\ Hand(t, s) => promised[t] = 1

EventTypes == Events!TypeOK

EventInv == EventTypes /\ HandsInv /\ HoldingInv /\ LockBitInv /\ BlockInv /\ PromiseInv

\* The steps of a thread in the event, and of one that sets it.
EventStep(t) ==
  \/ Events!WaitEx(t) \/ Events!Cancelled(t) \/ Events!Reset(t) \/ Events!ThreadStep(t)
  \/ pc[t] \in {"out", "action"} /\ Events!SetAt(t, "out")

\* UnparkWaitList visits the blocks of the list it was given.
LEMMA WalkOrderLemma ==
  ASSUME NEW s \in Seq(Threads)
  PROVE  /\ Events!WalkOrder(s) \in Seq(Threads)
         /\ \A x : In(x, Events!WalkOrder(s)) <=> In(x, s)
         /\ Distinct(s) => Distinct(Events!WalkOrder(s))
<1>1. CASE spinCount = 0 \/ Len(s) < 2
  BY <1>1 DEF Events!WalkOrder
<1>2. CASE ~(spinCount = 0 \/ Len(s) < 2)
  <2>1. Len(s) >= 2
    BY <1>2
  <2>2. Events!WalkOrder(s) = <<s[Len(s)]>> \o SubSeq(s, 1, Len(s) - 1)
    BY <1>2 DEF Events!WalkOrder
  <2>3. QED
    BY <2>1, <2>2, LastFirstLemma
<1>3. QED
  BY <1>1, <1>2

\* What the threads have in their hands does not change.
SameHands == UNCHANGED <<list, grabbed, kept, waking>>

\* Then the blocks are where they were.
LEMMA SameHandsLemma ==
  ASSUME EventInv, SameHands
  PROVE  /\ HandsInv'
         /\ \A x \in Threads : (Listed(x)' <=> Listed(x)) /\ (Waking(x)' <=> Waking(x))
         /\ \A x, s \in Threads : Hand(x, s)' <=> Hand(x, s)
<1>1. \A x, s \in Threads : Hand(x, s)' <=> Hand(x, s)
  BY DEF SameHands, Hand
<1>2. HandsInv'
  BY <1>1 DEF SameHands, EventInv, HandsInv
<1>3. \A x \in Threads : (Listed(x)' <=> Listed(x)) /\ (Waking(x)' <=> Waking(x))
  BY <1>1 DEF SameHands, Listed, Waking
<1>4. QED
  BY <1>1, <1>2, <1>3

\* One thread's hands and the stack change, and nothing gets into them from elsewhere.
LEMMA HandsLemma ==
  ASSUME EventInv, NEW t \in Threads,
         \A s \in Threads \ {t} :
           grabbed'[s] = grabbed[s] /\ kept'[s] = kept[s] /\ waking'[s] = waking[s],
         Distinct(list'), Distinct(grabbed'[t]), Distinct(kept'[t]),
         waking'[t] # <<>> => \E d \in Threads : waking'[t] = <<d>>,
         \A x \in Threads :
           /\ In(x, grabbed'[t]) => ~In(x, kept'[t]) /\ ~In(x, waking'[t])
           /\ In(x, list') => ~Hand(x, t)'
           /\ In(x, list') \/ Hand(x, t)' => In(x, list) \/ Hand(x, t)
  PROVE  /\ HandsInv'
         /\ \A x, s \in Threads : s # t => (Hand(x, s)' <=> Hand(x, s))
         /\ \A x \in Threads : Listed(x)' => Listed(x)
         /\ \A x \in Threads : Listed(x) =>
              Listed(x)' \/ ((In(x, list) \/ Hand(x, t)) /\ ~In(x, list') /\ ~Hand(x, t)')
         /\ \A x \in Threads : Waking(x)' <=>
              In(x, waking'[t]) \/ (Waking(x) /\ ~In(x, waking[t]))
<1>1. HandsInv
  BY DEF EventInv
<1>2. \A x, s \in Threads : s # t => (Hand(x, s)' <=> Hand(x, s))
  BY DEF Hand
<1>3. \A x, s \in Threads : s # t /\ Hand(x, s) => ~In(x, list) /\ ~Hand(x, t)
  BY <1>1 DEF HandsInv
<1>4. \A s, x \in Threads : In(x, list') => ~Hand(x, s)'
  BY <1>2, <1>3
<1>5. \A r, s, x \in Threads : Hand(x, r)' /\ Hand(x, s)' => r = s
  <2> SUFFICES ASSUME NEW r \in Threads, NEW s \in Threads, NEW x \in Threads,
                      Hand(x, r)', Hand(x, s)', r # s
               PROVE  FALSE
    OBVIOUS
  <2>1. CASE r # t /\ s # t
    BY <1>1, <1>2, <2>1 DEF HandsInv
  <2>2. CASE r = t
    BY <1>2, <1>3, <2>2
  <2>3. CASE s = t
    BY <1>2, <1>3, <2>3
  <2>4. QED
    BY <2>1, <2>2, <2>3
<1>6. \A s \in Threads :
        /\ Distinct(grabbed'[s]) /\ Distinct(kept'[s])
        /\ waking'[s] # <<>> => \E e \in Threads : waking'[s] = <<e>>
  BY <1>1 DEF HandsInv
<1>7. \A s, x \in Threads : In(x, grabbed'[s]) => ~In(x, kept'[s]) /\ ~In(x, waking'[s])
  BY <1>1 DEF HandsInv
<1>8. HandsInv'
  BY <1>4, <1>5, <1>6, <1>7 DEF HandsInv
<1>9. \A x \in Threads : Listed(x)' => Listed(x)
  BY <1>2 DEF Listed
<1>10. \A x \in Threads : Listed(x) =>
         Listed(x)' \/ ((In(x, list) \/ Hand(x, t)) /\ ~In(x, list') /\ ~Hand(x, t)')
  BY <1>2 DEF Listed
<1>11. \A x, s \in Threads : s # t /\ In(x, waking[s]) => ~In(x, waking[t])
  BY <1>3 DEF Hand
<1>12. \A x \in Threads : Waking(x)' <=>
         In(x, waking'[t]) \/ (Waking(x) /\ ~In(x, waking[t]))
  BY <1>11 DEF Waking
<1>13. QED
  BY <1>2, <1>8, <1>9, <1>10, <1>12

\* The next block of a walk: what the walker may conclude about its owner.
LEMMA GrabbedLemma ==
  ASSUME EventInv, NEW t \in Threads, grabbed[t] # <<>>
  PROVE  \E e \in Threads :
           /\ e = Head(grabbed[t]) /\ Tail(grabbed[t]) \in Seq(Threads)
           /\ \A x : In(x, grabbed[t]) <=> x = e \/ In(x, Tail(grabbed[t]))
           /\ Distinct(Tail(grabbed[t])) /\ ~In(e, Tail(grabbed[t]))
           /\ Hand(e, t) /\ ~In(e, list) /\ ~In(e, kept[t]) /\ ~In(e, waking[t])
           /\ Listed(e) /\ ~Waking(e) /\ (count[e] = 0 => pc[e] # "parked")
<1>1. grabbed[t] \in Seq(Threads) /\ Distinct(grabbed[t])
  BY DEF EventInv, EventTypes, Events!TypeOK, HandsInv
<1>2. /\ Head(grabbed[t]) \in Threads /\ Tail(grabbed[t]) \in Seq(Threads)
      /\ \A x : In(x, grabbed[t]) <=> x = Head(grabbed[t]) \/ In(x, Tail(grabbed[t]))
      /\ Distinct(Tail(grabbed[t])) /\ ~In(Head(grabbed[t]), Tail(grabbed[t]))
  BY <1>1, PopLemma
<1>3. PICK e \in Threads : e = Head(grabbed[t])
  BY <1>2
<1>4. In(e, grabbed[t]) /\ Hand(e, t)
  BY <1>2, <1>3 DEF Hand
<1>5. ~In(e, list) /\ ~In(e, kept[t]) /\ ~In(e, waking[t])
  BY <1>4 DEF EventInv, HandsInv
<1>6. ~Waking(e)
  BY <1>4, <1>5 DEF EventInv, HandsInv, Waking, Hand
<1>7. Listed(e)
  BY <1>4 DEF Listed
<1>8. count[e] = 0 => pc[e] # "parked"
  BY <1>6, <1>7 DEF EventInv, BlockInv, EventTypes, Events!TypeOK
<1>9. QED
  BY <1>2, <1>3, <1>4, <1>5, <1>6, <1>7, <1>8

\* Every step of a waiter, of a thread that filters the stack and of one that sets or
\* resets the event keeps the invariant.
LEMMA EventNext == ASSUME EventInv, NEW t \in Threads, EventStep(t) PROVE EventInv'
<1> USE DEF Events!Step, Events!listVars, Events!waitVars
<1>0. EventTypes /\ HandsInv /\ HoldingInv /\ LockBitInv /\ BlockInv /\ PromiseInv
  BY DEF EventInv
<1>1. CASE Events!WaitEx(t)
  <2> USE <1>1 DEF Events!WaitEx
  <2>1. EventTypes'
    BY <1>0 DEF EventTypes, Events!TypeOK, Events!Pcs
  <2>2. /\ HandsInv'
        /\ \A x \in Threads : (Listed(x)' <=> Listed(x)) /\ (Waking(x)' <=> Waking(x))
        /\ \A x, s \in Threads : Hand(x, s)' <=> Hand(x, s)
    BY SameHandsLemma DEF SameHands
  <2>3. HoldingInv'
    BY <1>0 DEF EventTypes, Events!TypeOK, HoldingInv
  <2>4. LockBitInv'
    BY <1>0 DEF EventTypes, Events!TypeOK, LockBitInv
  <2>5. BlockInv'
    BY <1>0, <2>2 DEF EventTypes, Events!TypeOK, BlockInv
  <2>6. PromiseInv'
    BY <1>0, <2>2 DEF EventTypes, Events!TypeOK, PromiseInv, Unparking
  <2>7. QED
    BY <2>1, <2>2, <2>3, <2>4, <2>5, <2>6 DEF EventInv
<1>2. CASE Events!WaitTail(t)
  <2>1. CASE set = 1
    <3>1. /\ pc[t] = "tail" /\ pc' = [pc EXCEPT ![t] = "out"] /\ SameHands
          /\ UNCHANGED <<set, lock, spinCount, count, promised, unparked, unlinked>>
      BY <1>2, <2>1 DEF Events!WaitTail, SameHands
    <3>2. EventTypes'
      BY <1>0, <3>1 DEF EventTypes, Events!TypeOK, Events!Pcs, SameHands
    <3>3. /\ HandsInv'
          /\ \A x \in Threads : (Listed(x)' <=> Listed(x)) /\ (Waking(x)' <=> Waking(x))
          /\ \A x, s \in Threads : Hand(x, s)' <=> Hand(x, s)
      BY <3>1, SameHandsLemma
    <3>4. HoldingInv'
      BY <1>0, <3>1 DEF EventTypes, Events!TypeOK, HoldingInv, SameHands
    <3>5. LockBitInv'
      BY <1>0, <3>1 DEF EventTypes, Events!TypeOK, LockBitInv, SameHands
    <3>6. BlockInv' /\ PromiseInv'
      BY <1>0, <3>1, <3>3 DEF EventTypes, Events!TypeOK, BlockInv, PromiseInv, Unparking
    <3>7. QED
      BY <3>2, <3>3, <3>4, <3>5, <3>6 DEF EventInv
  <2>2. CASE set = 0
    <3>1. /\ pc[t] = "tail" /\ pc' = [pc EXCEPT ![t] = "parked"] /\ list' = <<t>> \o list
          /\ UNCHANGED <<set, lock, spinCount, count, promised, unparked, unlinked>>
          /\ UNCHANGED <<grabbed, kept, waking>>
      BY <1>2, <2>2 DEF Events!WaitTail
    <3>2. /\ <<t>> \o list \in Seq(Threads) /\ \A x : In(x, list') <=> x = t \/ In(x, list)
          /\ ~In(t, list) => Distinct(list')
      BY <1>0, <3>1, PushLemma DEF EventTypes, Events!TypeOK, HandsInv
    <3>3. EventTypes'
      BY <1>0, <3>1, <3>2 DEF EventTypes, Events!TypeOK, Events!Pcs
    <3>4. ~Listed(t) /\ ~Waking(t)
      BY <1>0, <3>1 DEF BlockInv
    <3>5. /\ \A x \in Threads : (Listed(x)' <=> x = t \/ Listed(x)) /\ (Waking(x)' <=> Waking(x))
          /\ \A x, s \in Threads : Hand(x, s)' <=> Hand(x, s)
      BY <3>1, <3>2 DEF Listed, Waking, Hand
    <3>6. HandsInv'
      BY <1>0, <3>1, <3>2, <3>4, <3>5 DEF HandsInv, Listed
    <3>7. HoldingInv'
      BY <1>0, <3>1 DEF EventTypes, Events!TypeOK, HoldingInv
    <3>8. LockBitInv'
      BY <1>0, <2>2, <3>1 DEF EventTypes, Events!TypeOK, LockBitInv
    <3>9. BlockInv'
      BY <1>0, <3>1, <3>4, <3>5 DEF EventTypes, Events!TypeOK, BlockInv
    <3>10. PromiseInv'
      BY <1>0, <2>2, <3>1, <3>4, <3>5
         DEF EventTypes, Events!TypeOK, BlockInv, PromiseInv, Unparking, Listed
    <3>11. QED
      BY <3>3, <3>6, <3>7, <3>8, <3>9, <3>10 DEF EventInv
  <2>3. QED
    BY <1>0, <2>1, <2>2 DEF EventTypes, Events!TypeOK
<1>3. CASE Events!Unparked(t)
  <2> USE <1>3 DEF Events!Unparked
  <2>1. EventTypes'
    BY <1>0 DEF EventTypes, Events!TypeOK, Events!Pcs
  <2>2. /\ HandsInv'
        /\ \A x \in Threads : (Listed(x)' <=> Listed(x)) /\ (Waking(x)' <=> Waking(x))
        /\ \A x, s \in Threads : Hand(x, s)' <=> Hand(x, s)
    BY SameHandsLemma DEF SameHands
  <2>3. HoldingInv'
    BY <1>0 DEF EventTypes, Events!TypeOK, HoldingInv
  <2>4. LockBitInv'
    BY <1>0 DEF EventTypes, Events!TypeOK, LockBitInv
  <2>a. ~Listed(t) /\ ~Waking(t)
    BY <1>0 DEF BlockInv, Listed, Waking, Hand
  <2>5. BlockInv'
    BY <1>0, <2>2, <2>a DEF EventTypes, Events!TypeOK, BlockInv
  <2>6. PromiseInv'
    BY <1>0, <2>2 DEF EventTypes, Events!TypeOK, PromiseInv, Unparking
  <2>7. QED
    BY <2>1, <2>2, <2>3, <2>4, <2>5, <2>6 DEF EventInv
<1>4. CASE Events!Cancelled(t)
  <2> USE <1>4 DEF Events!Cancelled
  <2>1. EventTypes'
    BY <1>0 DEF EventTypes, Events!TypeOK, Events!Pcs
  <2>2. /\ HandsInv'
        /\ \A x \in Threads : (Listed(x)' <=> Listed(x)) /\ (Waking(x)' <=> Waking(x))
        /\ \A x, s \in Threads : Hand(x, s)' <=> Hand(x, s)
    BY SameHandsLemma DEF SameHands
  <2>3. HoldingInv'
    BY <1>0 DEF EventTypes, Events!TypeOK, HoldingInv
  <2>4. LockBitInv'
    BY <1>0 DEF EventTypes, Events!TypeOK, LockBitInv
  <2>a. ~Waking(t) /\ pc[t] = "parked"
    BY <1>0 DEF BlockInv
  <2>5. BlockInv'
    BY <1>0, <2>2, <2>a DEF EventTypes, Events!TypeOK, BlockInv
  <2>6. PromiseInv'
    BY <1>0, <2>2 DEF EventTypes, Events!TypeOK, PromiseInv, Unparking
  <2>7. QED
    BY <2>1, <2>2, <2>3, <2>4, <2>5, <2>6 DEF EventInv
<1>5. CASE Events!UnlinkListEntry(t)
  <2> USE <1>5 DEF Events!UnlinkListEntry
  <2>1. CASE SameHands /\ UNCHANGED lock
    <3>1. EventTypes'
      BY <1>0, <2>1 DEF EventTypes, Events!TypeOK, Events!Pcs, SameHands
    <3>2. /\ HandsInv'
          /\ \A x \in Threads : (Listed(x)' <=> Listed(x)) /\ (Waking(x)' <=> Waking(x))
          /\ \A x, s \in Threads : Hand(x, s)' <=> Hand(x, s)
      BY <2>1, SameHandsLemma
    <3>3. HoldingInv'
      BY <1>0, <2>1 DEF EventTypes, Events!TypeOK, HoldingInv, SameHands
    <3>a. /\ pc[t] = "unlink"
          /\ \/ unlinked[t] = 1 /\ pc' = [pc EXCEPT ![t] = "out"]
             \/ pc' = [pc EXCEPT ![t] = "slow"]
      BY <2>1 DEF SameHands, Events!Alone
    <3>4. LockBitInv'
      BY <1>0, <2>1, <3>a, ZenonT(30) DEF EventTypes, Events!TypeOK, LockBitInv, SameHands
    <3>5. BlockInv'
      BY <1>0, <2>1, <3>2, <3>a DEF EventTypes, Events!TypeOK, BlockInv
    <3>6. PromiseInv'
      BY <1>0, <2>1, <3>2 DEF EventTypes, Events!TypeOK, PromiseInv, Unparking
    <3>7. QED
      BY <3>1, <3>2, <3>3, <3>4, <3>5, <3>6 DEF EventInv
  <2>2. CASE Events!Alone(t) /\ list' = <<>> /\ pc' = [pc EXCEPT ![t] = "out"]
    <3>1. /\ pc[t] = "unlink" /\ set = 0 /\ lock = 0 /\ list = <<t>>
          /\ UNCHANGED <<set, lock, spinCount, count, promised, unparked, unlinked>>
          /\ UNCHANGED <<grabbed, kept, waking>>
      BY <2>2 DEF Events!Alone
    <3>2. /\ \A x : (In(x, list) <=> x = t) /\ ~In(x, list')
          /\ Distinct(list') /\ list' \in Seq(Threads)
      BY <2>2, <3>1, SmallStacks
    <3>3. EventTypes'
      BY <1>0, <2>2, <3>1, <3>2 DEF EventTypes, Events!TypeOK, Events!Pcs
    <3>4. /\ \A x, s \in Threads : Hand(x, s)' <=> Hand(x, s)
          /\ \A x \in Threads : Waking(x)' <=> Waking(x)
          /\ \A s \in Threads : ~Hand(t, s)
      BY <1>0, <3>1, <3>2 DEF Waking, Hand, HandsInv
    <3>5. \A x \in Threads : Listed(x)' <=> Listed(x) /\ x # t
      BY <3>2, <3>4 DEF Listed
    <3>6. HandsInv'
      BY <1>0, <3>1, <3>2, <3>4 DEF HandsInv
    <3>7. HoldingInv'
      BY <1>0, <2>2, <3>1 DEF EventTypes, Events!TypeOK, HoldingInv
    <3>8. LockBitInv'
      BY <1>0, <2>2, <3>1 DEF EventTypes, Events!TypeOK, LockBitInv
    <3>9. BlockInv'
      BY <1>0, <2>2, <3>1, <3>4, <3>5 DEF EventTypes, Events!TypeOK, BlockInv
    <3>10. PromiseInv'
      BY <1>0, <2>2, <3>1, <3>4 DEF EventTypes, Events!TypeOK, PromiseInv, Unparking
    <3>11. QED
      BY <3>3, <3>6, <3>7, <3>8, <3>9, <3>10 DEF EventInv
  <2>3. QED
    BY <2>1, <2>2 DEF SameHands
<1>6. CASE Events!SlowUnlinkListEntry(t)
  <2> USE <1>6 DEF Events!SlowUnlinkListEntry
  <2>1. CASE SameHands /\ UNCHANGED lock
    <3>1. EventTypes'
      BY <1>0, <2>1 DEF EventTypes, Events!TypeOK, Events!Pcs, SameHands
    <3>2. /\ HandsInv'
          /\ \A x \in Threads : (Listed(x)' <=> Listed(x)) /\ (Waking(x)' <=> Waking(x))
          /\ \A x, s \in Threads : Hand(x, s)' <=> Hand(x, s)
      BY <2>1, SameHandsLemma
    <3>3. HoldingInv'
      BY <1>0, <2>1 DEF EventTypes, Events!TypeOK, HoldingInv, SameHands
    <3>a. /\ pc[t] = "slow"
          /\ \/ unlinked[t] = 1 /\ pc' = [pc EXCEPT ![t] = "out"]
             \/ pc' = [pc EXCEPT ![t] = "slow"]
      BY <2>1 DEF SameHands, Events!Alone
    <3>4. LockBitInv'
      BY <1>0, <2>1, <3>a, ZenonT(30) DEF EventTypes, Events!TypeOK, LockBitInv, SameHands
    <3>5. BlockInv'
      BY <1>0, <2>1, <3>2, <3>a, SMTT(30) DEF EventTypes, Events!TypeOK, BlockInv
    <3>6. PromiseInv'
      BY <1>0, <2>1, <3>2 DEF EventTypes, Events!TypeOK, PromiseInv, Unparking
    <3>7. QED
      BY <3>1, <3>2, <3>3, <3>4, <3>5, <3>6 DEF EventInv
  <2>2. CASE Events!Alone(t) /\ list' = <<>> /\ pc' = [pc EXCEPT ![t] = "out"]
    <3>1. /\ pc[t] = "slow" /\ set = 0 /\ lock = 0 /\ list = <<t>>
          /\ UNCHANGED <<set, lock, spinCount, count, promised, unparked, unlinked>>
          /\ UNCHANGED <<grabbed, kept, waking>>
      BY <2>2 DEF Events!Alone
    <3>2. /\ \A x : (In(x, list) <=> x = t) /\ ~In(x, list')
          /\ Distinct(list') /\ list' \in Seq(Threads)
      BY <2>2, <3>1, SmallStacks
    <3>3. EventTypes'
      BY <1>0, <2>2, <3>1, <3>2 DEF EventTypes, Events!TypeOK, Events!Pcs
    <3>4. /\ \A x, s \in Threads : Hand(x, s)' <=> Hand(x, s)
          /\ \A x \in Threads : Waking(x)' <=> Waking(x)
          /\ \A s \in Threads : ~Hand(t, s)
      BY <1>0, <3>1, <3>2 DEF Waking, Hand, HandsInv
    <3>5. \A x \in Threads : Listed(x)' <=> Listed(x) /\ x # t
      BY <3>2, <3>4 DEF Listed
    <3>6. HandsInv'
      BY <1>0, <3>1, <3>2, <3>4 DEF HandsInv
    <3>7. HoldingInv'
      BY <1>0, <2>2, <3>1 DEF EventTypes, Events!TypeOK, HoldingInv
    <3>8. LockBitInv'
      BY <1>0, <2>2, <3>1 DEF EventTypes, Events!TypeOK, LockBitInv
    <3>9. BlockInv'
      BY <1>0, <2>2, <3>1, <3>4, <3>5 DEF EventTypes, Events!TypeOK, BlockInv
    <3>10. PromiseInv'
      BY <1>0, <2>2, <3>1, <3>4 DEF EventTypes, Events!TypeOK, PromiseInv, Unparking
    <3>11. QED
      BY <3>3, <3>6, <3>7, <3>8, <3>9, <3>10 DEF EventInv
  <2>3. CASE /\ set = 0 /\ lock = 0 /\ pc' = [pc EXCEPT ![t] = "filter"]
             /\ lock' = 1 /\ list' = <<>> /\ grabbed' = [grabbed EXCEPT ![t] = list]
    <3>1. /\ pc[t] = "slow"
          /\ UNCHANGED <<set, spinCount, count, promised, unparked, unlinked, kept, waking>>
      BY <2>3
    <3>2. /\ \A x : ~In(x, list') /\ (In(x, grabbed'[t]) <=> In(x, list))
          /\ Distinct(list') /\ list' \in Seq(Threads) /\ Distinct(grabbed'[t])
      BY <1>0, <2>3, SmallStacks DEF EventTypes, Events!TypeOK, HandsInv
    <3>3. EventTypes'
      BY <1>0, <2>3, <3>1, <3>2 DEF EventTypes, Events!TypeOK, Events!Pcs
    <3>4. \A x : ~In(x, grabbed[t]) /\ ~In(x, kept[t]) /\ ~In(x, waking[t])
      BY <1>0, <3>1, SmallStacks DEF HoldingInv
    <3>5. \A x \in Threads : Waking(x)' <=> Waking(x)
      BY <3>1 DEF Waking
    <3>6. /\ \A x \in Threads : Hand(x, t)' <=> In(x, list)
          /\ \A x, s \in Threads : s # t => (Hand(x, s)' <=> Hand(x, s))
          /\ \A x \in Threads : ~Hand(x, t)
      BY <1>0, <2>3, <3>1, <3>2, <3>4 DEF Hand, EventTypes, Events!TypeOK
    <3>7. \A x \in Threads : Listed(x)' <=> Listed(x)
      BY <3>2, <3>6 DEF Listed
    <3>8. HandsInv'
      <4>1. \A x, s \in Threads : Hand(x, s) => ~In(x, list)
        BY <1>0 DEF HandsInv
      <4>2. \A r, s, x \in Threads : Hand(x, r)' /\ Hand(x, s)' => r = s
        BY <1>0, <3>6, <4>1 DEF HandsInv
      <4>3. \A s \in Threads : /\ Distinct(grabbed'[s]) /\ Distinct(kept'[s])
                               /\ waking'[s] # <<>> => \E e \in Threads : waking'[s] = <<e>>
        BY <1>0, <2>3, <3>1, <3>2 DEF HandsInv, EventTypes, Events!TypeOK
      <4>4. \A s, x \in Threads : In(x, grabbed'[s]) => ~In(x, kept'[s]) /\ ~In(x, waking'[s])
        BY <1>0, <2>3, <3>1, <3>4 DEF HandsInv, EventTypes, Events!TypeOK
      <4>5. QED
        BY <3>2, <4>2, <4>3, <4>4 DEF HandsInv
    <3>9. HoldingInv'
      BY <1>0, <2>3, <3>1 DEF EventTypes, Events!TypeOK, HoldingInv
    <3>10. LockBitInv'
      BY <1>0, <2>3, <3>1 DEF EventTypes, Events!TypeOK, LockBitInv
    <3>11. BlockInv'
      BY <1>0, <2>3, <3>1, <3>5, <3>7 DEF EventTypes, Events!TypeOK, BlockInv
    <3>12. PromiseInv'
      BY <1>0, <2>3, <3>1, <3>6 DEF EventTypes, Events!TypeOK, PromiseInv, Unparking
    <3>13. QED
      BY <3>3, <3>8, <3>9, <3>10, <3>11, <3>12 DEF EventInv
  <2>4. QED
    BY <2>1, <2>2, <2>3 DEF SameHands
<1>7. CASE Events!Filter(t)
  <2> USE <1>7 DEF Events!Filter
  <2>1. PICK e \in Threads :
          /\ e = Head(grabbed[t]) /\ Tail(grabbed[t]) \in Seq(Threads)
          /\ \A x : In(x, grabbed[t]) <=> x = e \/ In(x, Tail(grabbed[t]))
          /\ Distinct(Tail(grabbed[t])) /\ ~In(e, Tail(grabbed[t]))
          /\ Hand(e, t) /\ ~In(e, list) /\ ~In(e, kept[t]) /\ ~In(e, waking[t])
          /\ Listed(e) /\ ~Waking(e) /\ (count[e] = 0 => pc[e] # "parked")
    BY GrabbedLemma
  <2>2. CASE count[e] = 0 /\ unlinked' = [unlinked EXCEPT ![e] = 1]
    <3>1. /\ grabbed' = [grabbed EXCEPT ![t] = Tail(grabbed[t])]
          /\ UNCHANGED <<set, lock, list, spinCount, pc, count, promised, unparked>>
          /\ UNCHANGED <<kept, waking>> /\ pc[t] = "filter" /\ grabbed[t] # <<>>
      BY <1>0, <2>1, <2>2
    <3> HIDE <1>7 DEF Events!Filter
    <3>2. EventTypes'
      BY <1>0, <2>1, <2>2, <3>1 DEF EventTypes, Events!TypeOK
    <3>3. grabbed'[t] = Tail(grabbed[t]) /\ \A s \in Threads \ {t} : grabbed'[s] = grabbed[s]
      BY <1>0, <3>1 DEF EventTypes, Events!TypeOK
    <3>4. \A x \in Threads : Hand(x, t)' <=> Hand(x, t) /\ x # e
      BY <2>1, <3>1, <3>3 DEF Hand
    <3>5. /\ HandsInv'
          /\ \A x, s \in Threads : s # t => (Hand(x, s)' <=> Hand(x, s))
          /\ \A x \in Threads : Listed(x)' => Listed(x)
          /\ \A x \in Threads : Listed(x) => Listed(x)' \/ x = e
          /\ \A x \in Threads : Waking(x)' <=> Waking(x)
      <4>1. /\ Distinct(list) /\ Distinct(kept[t])
            /\ waking[t] # <<>> => \E d \in Threads : waking[t] = <<d>>
        BY <1>0 DEF HandsInv
      <4>2. \A x \in Threads :
              /\ In(x, grabbed'[t]) => ~In(x, kept[t]) /\ ~In(x, waking[t])
              /\ In(x, list) => ~Hand(x, t)
        BY <1>0, <2>1, <3>3 DEF HandsInv
      <4>3. /\ HandsInv'
            /\ \A x, s \in Threads : s # t => (Hand(x, s)' <=> Hand(x, s))
            /\ \A x \in Threads : Listed(x)' => Listed(x)
            /\ \A x \in Threads : Listed(x) =>
                 Listed(x)' \/ ((In(x, list) \/ Hand(x, t)) /\ ~In(x, list') /\ ~Hand(x, t)')
        BY <2>1, <3>1, <3>3, <3>4, <4>1, <4>2, HandsLemma
      <4>4. \A x \in Threads : Waking(x)' <=> Waking(x)
        BY <3>1 DEF Waking
      <4>5. QED
        BY <3>1, <3>4, <4>3, <4>4
    <3>6. ~Listed(e)'
      BY <1>0, <2>1, <3>1, <3>4, <3>5 DEF HandsInv, Listed
    <3>7. HoldingInv' /\ LockBitInv'
      BY <1>0, <2>1, <3>1, <3>3 DEF EventTypes, Events!TypeOK, HoldingInv, LockBitInv
    <3>8. BlockInv'
      <4>1. \A s \in Threads : s # e => unlinked'[s] = unlinked[s]
        BY <1>0, <2>2 DEF EventTypes, Events!TypeOK
      <4>2. pc[e] # "parked" /\ pc[e] # "tail"
        BY <1>0, <2>1, <2>2 DEF BlockInv
      <4>3. \A s \in Threads : /\ Listed(s)' => Listed(s) /\ s # e
                               /\ Listed(s) => Listed(s)' \/ s = e
        BY <3>5, <3>6
      <4>4. QED
        BY <1>0, <3>1, <3>5, <4>1, <4>2, <4>3 DEF BlockInv
    <3>9. PromiseInv'
      BY <1>0, <3>1, <3>4, <3>5 DEF PromiseInv, Unparking
    <3>10. QED
      BY <3>2, <3>5, <3>7, <3>8, <3>9 DEF EventInv
  <2>3. CASE count[e] = 1 /\ kept' = [kept EXCEPT ![t] = Append(@, e)]
    <3>1. /\ grabbed' = [grabbed EXCEPT ![t] = Tail(grabbed[t])] /\ pc[t] = "filter"
          /\ UNCHANGED <<set, lock, list, spinCount, pc, count, promised, unparked>>
          /\ UNCHANGED <<unlinked, waking>>
      BY <1>0, <2>1, <2>3
    <3> HIDE <1>7 DEF Events!Filter
    <3>2. /\ Append(kept[t], e) \in Seq(Threads) /\ Distinct(Append(kept[t], e))
          /\ \A x : In(x, Append(kept[t], e)) <=> x = e \/ In(x, kept[t])
      BY <1>0, <2>1, AppendLemma DEF EventTypes, Events!TypeOK, HandsInv
    <3>3. EventTypes'
      BY <1>0, <2>1, <2>3, <3>1, <3>2 DEF EventTypes, Events!TypeOK
    <3>4. /\ grabbed'[t] = Tail(grabbed[t]) /\ kept'[t] = Append(kept[t], e)
          /\ \A s \in Threads \ {t} : grabbed'[s] = grabbed[s] /\ kept'[s] = kept[s]
      BY <1>0, <2>3, <3>1 DEF EventTypes, Events!TypeOK
    <3>5. \A x \in Threads : Hand(x, t)' <=> Hand(x, t)
      BY <2>1, <3>1, <3>2, <3>4 DEF Hand
    <3>6. /\ HandsInv'
          /\ \A x, s \in Threads : s # t => (Hand(x, s)' <=> Hand(x, s))
          /\ \A x \in Threads : Listed(x)' <=> Listed(x)
          /\ \A x \in Threads : Waking(x)' <=> Waking(x)
      <4>1. Distinct(list) /\ (waking[t] # <<>> => \E d \in Threads : waking[t] = <<d>>)
        BY <1>0 DEF HandsInv
      <4>2. \A x \in Threads :
              /\ In(x, grabbed'[t]) => ~In(x, kept'[t]) /\ ~In(x, waking[t])
              /\ In(x, list) => ~Hand(x, t)
        BY <1>0, <2>1, <3>2, <3>4 DEF HandsInv
      <4>a. /\ Distinct(list') /\ Distinct(grabbed'[t]) /\ Distinct(kept'[t])
            /\ waking'[t] # <<>> => \E d \in Threads : waking'[t] = <<d>>
        BY <2>1, <3>1, <3>2, <3>4, <4>1
      <4>b. \A s \in Threads \ {t} :
              grabbed'[s] = grabbed[s] /\ kept'[s] = kept[s] /\ waking'[s] = waking[s]
        BY <3>1, <3>4
      <4>c. \A x \in Threads :
              /\ In(x, list') => ~Hand(x, t)'
              /\ In(x, list') \/ Hand(x, t)' => In(x, list) \/ Hand(x, t)
        BY <3>1, <3>5, <4>2
      <4>d. \A x \in Threads : In(x, grabbed'[t]) => ~In(x, kept'[t]) /\ ~In(x, waking'[t])
        BY <3>1, <4>2
      <4>3. /\ HandsInv'
            /\ \A x, s \in Threads : s # t => (Hand(x, s)' <=> Hand(x, s))
            /\ \A x \in Threads : Listed(x)' => Listed(x)
            /\ \A x \in Threads : Listed(x) =>
                 Listed(x)' \/ ((In(x, list) \/ Hand(x, t)) /\ ~In(x, list') /\ ~Hand(x, t)')
        BY <4>a, <4>b, <4>c, <4>d, HandsLemma
      <4>4. \A x \in Threads : Waking(x)' <=> Waking(x)
        BY <3>1 DEF Waking
      <4>5. QED
        BY <3>1, <3>5, <4>3, <4>4
    <3>7. HoldingInv' /\ LockBitInv'
      <4>1. LockBitInv'
        BY <1>0, <3>1 DEF LockBitInv
      <4>2. \A s \in Threads : pc'[s] = pc[s]
        BY <3>1
      <4>3. /\ kept'[t] # <<>> => pc[t] = "filter"
            /\ waking'[t] # <<>> => pc[t] \in {"unparkList", "unparkSpin"}
            /\ grabbed'[t] # <<>> => pc[t] \in {"filter", "unparkList", "unparkSpin"}
        BY <1>0, <3>1, <3>4 DEF HoldingInv
      <4>4. \A s \in Threads \ {t} :
              grabbed'[s] = grabbed[s] /\ kept'[s] = kept[s] /\ waking'[s] = waking[s]
        BY <3>1, <3>4
      <4>5. HoldingInv'
        BY <1>0, <4>2, <4>3, <4>4 DEF HoldingInv
      <4>6. QED
        BY <4>1, <4>5
    <3>8. BlockInv'
      BY <1>0, <3>1, <3>6 DEF BlockInv
    <3>9. PromiseInv'
      BY <1>0, <3>1, <3>5, <3>6 DEF PromiseInv, Unparking
    <3>10. QED
      BY <3>3, <3>6, <3>7, <3>8, <3>9 DEF EventInv
  <2>4. QED
    BY <2>1, <2>2, <2>3
<1>8. CASE Events!PutBack(t)
  <2> USE <1>8 DEF Events!PutBack
  <2> DEFINE all == kept[t] \o list
  <2>1. /\ pc[t] = "filter" /\ grabbed[t] = <<>> /\ lock' = 0 /\ waking[t] = <<>>
        /\ kept' = [kept EXCEPT ![t] = <<>>]
        /\ UNCHANGED <<set, spinCount, count, promised, unparked, unlinked, waking>>
    BY <1>0 DEF HoldingInv
  <2>2. \A x \in Threads : Hand(x, t) <=> In(x, kept[t])
    BY <2>1, SmallStacks DEF Hand
  <2>3. /\ all \in Seq(Threads) /\ Distinct(all)
        /\ \A x : In(x, all) <=> In(x, kept[t]) \/ In(x, list)
    <3>1. kept[t] \in Seq(Threads) /\ list \in Seq(Threads) /\ Distinct(kept[t]) /\ Distinct(list)
      BY <1>0 DEF EventTypes, Events!TypeOK, HandsInv
    <3>2. \A x : In(x, list) => x \in Threads
      BY <3>1 DEF In
    <3>3. \A x : ~(In(x, kept[t]) /\ In(x, list))
      BY <1>0, <2>2, <3>2 DEF HandsInv
    <3>4. QED
      BY <3>1, <3>3, ConcatLemma
  <2>4. /\ kept'[t] = <<>> /\ waking'[t] = <<>>
        /\ \A s \in Threads \ {t} : kept'[s] = kept[s] /\ waking'[s] = waking[s]
        /\ \A x : ~In(x, <<>>)
        /\ Distinct(<<>>) /\ <<>> \in Seq(Threads)
    BY <1>0, <2>1, SmallStacks DEF EventTypes, Events!TypeOK
  <2>5. CASE /\ set = 0 /\ pc' = [pc EXCEPT ![t] = "spinUnlinked"]
             /\ list' = all /\ UNCHANGED grabbed
    <3> HIDE DEF all
    <3>1. EventTypes'
      BY <1>0, <2>1, <2>3, <2>4, <2>5 DEF EventTypes, Events!TypeOK, Events!Pcs
    <3>2. \A x \in Threads : ~Hand(x, t)' /\ (In(x, list') <=> In(x, list) \/ Hand(x, t))
      BY <2>1, <2>2, <2>3, <2>4, <2>5 DEF Hand
    <3>3. /\ HandsInv'
          /\ \A x, s \in Threads : s # t => (Hand(x, s)' <=> Hand(x, s))
          /\ \A x \in Threads : Listed(x)' <=> Listed(x)
          /\ \A x \in Threads : Waking(x)' <=> Waking(x)
      <4>1. /\ HandsInv'
            /\ \A x, s \in Threads : s # t => (Hand(x, s)' <=> Hand(x, s))
            /\ \A x \in Threads : Listed(x)' => Listed(x)
            /\ \A x \in Threads : Listed(x) =>
                 Listed(x)' \/ ((In(x, list) \/ Hand(x, t)) /\ ~In(x, list') /\ ~Hand(x, t)')
            /\ \A x \in Threads : Waking(x)' <=>
                 In(x, waking'[t]) \/ (Waking(x) /\ ~In(x, waking[t]))
        BY <2>1, <2>3, <2>4, <2>5, <3>2, HandsLemma
      <4>2. QED
        BY <2>1, <2>4, <3>2, <4>1
    <3>4. HoldingInv'
      BY <1>0, <2>1, <2>4, <2>5 DEF EventTypes, Events!TypeOK, HoldingInv
    <3>5. LockBitInv'
      BY <1>0, <2>1, <2>5 DEF EventTypes, Events!TypeOK, LockBitInv
    <3>6. BlockInv'
      BY <1>0, <2>1, <2>5, <3>3 DEF EventTypes, Events!TypeOK, BlockInv
    <3>7. PromiseInv'
      BY <1>0, <2>1, <2>5, <3>2, <3>3 DEF EventTypes, Events!TypeOK, PromiseInv, Unparking
    <3>8. QED
      BY <3>1, <3>3, <3>4, <3>5, <3>6, <3>7 DEF EventInv
  <2>6. CASE /\ set = 1 /\ pc' = [pc EXCEPT ![t] = "unparkSpin"] /\ list' = <<>>
             /\ grabbed' = [grabbed EXCEPT ![t] = Events!WalkOrder(all)]
    <3> HIDE DEF all
    <3> DEFINE w == Events!WalkOrder(all)
    <3>1. w \in Seq(Threads) /\ Distinct(w) /\ \A x : In(x, w) <=> In(x, all)
      BY <2>3, WalkOrderLemma
    <3> HIDE DEF w
    <3>2. grabbed'[t] = w /\ grabbed' = [grabbed EXCEPT ![t] = w]
          /\ \A s \in Threads \ {t} : grabbed'[s] = grabbed[s]
      BY <1>0, <2>6 DEF EventTypes, Events!TypeOK, w
    <3>3. EventTypes'
      BY <1>0, <2>1, <2>4, <2>6, <3>1, <3>2 DEF EventTypes, Events!TypeOK, Events!Pcs
    <3>4. \A x \in Threads : (Hand(x, t)' <=> In(x, list) \/ Hand(x, t)) /\ ~In(x, list')
      BY <2>1, <2>2, <2>3, <2>4, <2>6, <3>1, <3>2 DEF Hand
    <3>5. /\ HandsInv'
          /\ \A x, s \in Threads : s # t => (Hand(x, s)' <=> Hand(x, s))
          /\ \A x \in Threads : Listed(x)' <=> Listed(x)
          /\ \A x \in Threads : Waking(x)' <=> Waking(x)
      <4>1. /\ HandsInv'
            /\ \A x, s \in Threads : s # t => (Hand(x, s)' <=> Hand(x, s))
            /\ \A x \in Threads : Listed(x)' => Listed(x)
            /\ \A x \in Threads : Listed(x) =>
                 Listed(x)' \/ ((In(x, list) \/ Hand(x, t)) /\ ~In(x, list') /\ ~Hand(x, t)')
            /\ \A x \in Threads : Waking(x)' <=>
                 In(x, waking'[t]) \/ (Waking(x) /\ ~In(x, waking[t]))
        BY <2>1, <2>4, <2>6, <3>1, <3>2, <3>4, HandsLemma
      <4>2. QED
        BY <2>1, <2>4, <3>4, <4>1
    <3>6. HoldingInv'
      BY <1>0, <2>1, <2>4, <2>6, <3>2 DEF EventTypes, Events!TypeOK, HoldingInv
    <3>7. LockBitInv'
      BY <1>0, <2>1, <2>6, SMTT(30) DEF EventTypes, Events!TypeOK, LockBitInv
    <3>8. BlockInv'
      BY <1>0, <2>1, <2>6, <3>5 DEF EventTypes, Events!TypeOK, BlockInv
    <3>9. PromiseInv'
      BY <1>0, <2>1, <2>6 DEF EventTypes, Events!TypeOK, PromiseInv
    <3>10. QED
      BY <3>3, <3>5, <3>6, <3>7, <3>8, <3>9 DEF EventInv
  <2>7. QED
    BY <2>5, <2>6
<1>9. CASE Events!SpinUntilUnlinked(t)
  <2> USE <1>9 DEF Events!SpinUntilUnlinked
  <2>1. EventTypes'
    BY <1>0 DEF EventTypes, Events!TypeOK, Events!Pcs
  <2>2. /\ HandsInv'
        /\ \A x \in Threads : (Listed(x)' <=> Listed(x)) /\ (Waking(x)' <=> Waking(x))
        /\ \A x, s \in Threads : Hand(x, s)' <=> Hand(x, s)
    BY SameHandsLemma DEF SameHands
  <2>3. HoldingInv'
    BY <1>0 DEF EventTypes, Events!TypeOK, HoldingInv
  <2>4. LockBitInv'
    BY <1>0 DEF EventTypes, Events!TypeOK, LockBitInv
  <2>5. BlockInv'
    BY <1>0, <2>2 DEF EventTypes, Events!TypeOK, BlockInv
  <2>6. PromiseInv'
    BY <1>0, <2>2 DEF EventTypes, Events!TypeOK, PromiseInv, Unparking
  <2>7. QED
    BY <2>1, <2>2, <2>3, <2>4, <2>5, <2>6 DEF EventInv
<1>10. CASE Events!UnparkListEntry(t)
  <2> USE <1>10 DEF Events!UnparkListEntry
  <2>1. PICK e \in Threads :
          /\ e = Head(grabbed[t]) /\ Tail(grabbed[t]) \in Seq(Threads)
          /\ \A x : In(x, grabbed[t]) <=> x = e \/ In(x, Tail(grabbed[t]))
          /\ Distinct(Tail(grabbed[t])) /\ ~In(e, Tail(grabbed[t]))
          /\ Hand(e, t) /\ ~In(e, list) /\ ~In(e, kept[t]) /\ ~In(e, waking[t])
          /\ Listed(e) /\ ~Waking(e) /\ (count[e] = 0 => pc[e] # "parked")
    BY GrabbedLemma
  <2>2. CASE count[e] = 0 /\ unlinked' = [unlinked EXCEPT ![e] = 1]
    <3>1. /\ grabbed' = [grabbed EXCEPT ![t] = Tail(grabbed[t])]
          /\ UNCHANGED <<set, lock, list, spinCount, pc, count, promised, unparked>>
          /\ UNCHANGED <<kept, waking>>
          /\ pc[t] \in {"unparkList", "unparkSpin"} /\ grabbed[t] # <<>>
      BY <1>0, <2>1, <2>2
    <3> HIDE <1>10 DEF Events!UnparkListEntry
    <3>2. EventTypes'
      BY <1>0, <2>1, <2>2, <3>1 DEF EventTypes, Events!TypeOK
    <3>3. grabbed'[t] = Tail(grabbed[t]) /\ \A s \in Threads \ {t} : grabbed'[s] = grabbed[s]
      BY <1>0, <3>1 DEF EventTypes, Events!TypeOK
    <3>4. \A x \in Threads : Hand(x, t)' <=> Hand(x, t) /\ x # e
      BY <2>1, <3>1, <3>3 DEF Hand
    <3>5. /\ HandsInv'
          /\ \A x, s \in Threads : s # t => (Hand(x, s)' <=> Hand(x, s))
          /\ \A x \in Threads : Listed(x)' => Listed(x)
          /\ \A x \in Threads : Listed(x) => Listed(x)' \/ x = e
          /\ \A x \in Threads : Waking(x)' <=> Waking(x)
      <4>1. /\ Distinct(list) /\ Distinct(kept[t])
            /\ waking[t] # <<>> => \E d \in Threads : waking[t] = <<d>>
        BY <1>0 DEF HandsInv
      <4>2. \A x \in Threads :
              /\ In(x, grabbed'[t]) => ~In(x, kept[t]) /\ ~In(x, waking[t])
              /\ In(x, list) => ~Hand(x, t)
        BY <1>0, <2>1, <3>3 DEF HandsInv
      <4>3. /\ HandsInv'
            /\ \A x, s \in Threads : s # t => (Hand(x, s)' <=> Hand(x, s))
            /\ \A x \in Threads : Listed(x)' => Listed(x)
            /\ \A x \in Threads : Listed(x) =>
                 Listed(x)' \/ ((In(x, list) \/ Hand(x, t)) /\ ~In(x, list') /\ ~Hand(x, t)')
        BY <2>1, <3>1, <3>3, <3>4, <4>1, <4>2, HandsLemma
      <4>4. \A x \in Threads : Waking(x)' <=> Waking(x)
        BY <3>1 DEF Waking
      <4>5. QED
        BY <3>1, <3>4, <4>3, <4>4
    <3>6. ~Listed(e)'
      BY <1>0, <2>1, <3>1, <3>4, <3>5 DEF HandsInv, Listed
    <3>7. HoldingInv' /\ LockBitInv'
      BY <1>0, <2>1, <3>1, <3>3 DEF EventTypes, Events!TypeOK, HoldingInv, LockBitInv
    <3>8. BlockInv'
      <4>1. \A s \in Threads : s # e => unlinked'[s] = unlinked[s]
        BY <1>0, <2>2 DEF EventTypes, Events!TypeOK
      <4>2. pc[e] # "parked" /\ pc[e] # "tail"
        BY <1>0, <2>1, <2>2 DEF BlockInv
      <4>3. \A s \in Threads : /\ Listed(s)' => Listed(s) /\ s # e
                               /\ Listed(s) => Listed(s)' \/ s = e
        BY <3>5, <3>6
      <4>4. QED
        BY <1>0, <3>1, <3>5, <4>1, <4>2, <4>3 DEF BlockInv
    <3>9. PromiseInv'
      BY <1>0, <3>1, <3>4, <3>5 DEF PromiseInv, Unparking
    <3>10. QED
      BY <3>2, <3>5, <3>7, <3>8, <3>9 DEF EventInv
  <2>3. CASE /\ count[e] = 1 /\ count' = [count EXCEPT ![e] = 0]
             /\ waking' = [waking EXCEPT ![t] = <<e>>]
    <3>1. /\ grabbed' = [grabbed EXCEPT ![t] = Tail(grabbed[t])]
          /\ pc[t] \in {"unparkList", "unparkSpin"} /\ waking[t] = <<>>
          /\ UNCHANGED <<set, lock, list, spinCount, pc, promised, unparked>>
          /\ UNCHANGED <<unlinked, kept>>
      BY <1>0, <2>1, <2>3
    <3> HIDE <1>10 DEF Events!UnparkListEntry
    <3>2. /\ <<e>> \in Seq(Threads) /\ \A x : (In(x, <<e>>) <=> x = e) /\ ~In(x, waking[t])
      BY <3>1, SmallStacks
    <3>3. EventTypes'
      BY <1>0, <2>1, <2>3, <3>1, <3>2 DEF EventTypes, Events!TypeOK
    <3>4. /\ grabbed'[t] = Tail(grabbed[t]) /\ waking'[t] = <<e>>
          /\ \A s \in Threads \ {t} : grabbed'[s] = grabbed[s] /\ waking'[s] = waking[s]
      BY <1>0, <2>3, <3>1 DEF EventTypes, Events!TypeOK
    <3>5. \A x \in Threads : Hand(x, t)' <=> Hand(x, t)
      BY <2>1, <3>1, <3>2, <3>4 DEF Hand
    <3>6. /\ HandsInv'
          /\ \A x, s \in Threads : s # t => (Hand(x, s)' <=> Hand(x, s))
          /\ \A x \in Threads : Listed(x)' <=> Listed(x)
          /\ \A x \in Threads : Waking(x)' <=> Waking(x) \/ x = e
      <4>1. Distinct(list) /\ Distinct(kept[t])
        BY <1>0 DEF HandsInv
      <4>2. \A x \in Threads :
              /\ In(x, grabbed'[t]) => ~In(x, kept[t]) /\ ~In(x, waking'[t])
              /\ In(x, list) => ~Hand(x, t)
        BY <1>0, <2>1, <3>2, <3>4 DEF HandsInv
      <4>3. /\ HandsInv'
            /\ \A x, s \in Threads : s # t => (Hand(x, s)' <=> Hand(x, s))
            /\ \A x \in Threads : Listed(x)' => Listed(x)
            /\ \A x \in Threads : Listed(x) =>
                 Listed(x)' \/ ((In(x, list) \/ Hand(x, t)) /\ ~In(x, list') /\ ~Hand(x, t)')
            /\ \A x \in Threads : Waking(x)' <=>
                 In(x, waking'[t]) \/ (Waking(x) /\ ~In(x, waking[t]))
        BY <2>1, <3>1, <3>2, <3>4, <3>5, <4>1, <4>2, HandsLemma
      <4>4. QED
        BY <3>1, <3>2, <3>4, <3>5, <4>3
    <3>7. HoldingInv' /\ LockBitInv'
      <4>1. LockBitInv'
        BY <1>0, <3>1 DEF LockBitInv
      <4>2. \A s \in Threads : pc'[s] = pc[s]
        BY <3>1
      <4>3. /\ kept'[t] # <<>> => pc[t] = "filter"
            /\ waking'[t] # <<>> => pc[t] \in {"unparkList", "unparkSpin"}
            /\ grabbed'[t] # <<>> => pc[t] \in {"filter", "unparkList", "unparkSpin"}
        BY <1>0, <3>1, <3>4 DEF HoldingInv
      <4>4. \A s \in Threads \ {t} :
              grabbed'[s] = grabbed[s] /\ kept'[s] = kept[s] /\ waking'[s] = waking[s]
        BY <3>1, <3>4
      <4>5. HoldingInv'
        BY <1>0, <4>2, <4>3, <4>4 DEF HoldingInv
      <4>6. QED
        BY <4>1, <4>5
    <3>8. pc[e] = "parked"
      BY <1>0, <2>1, <2>3 DEF BlockInv
    <3>9. BlockInv'
      BY <1>0, <2>1, <2>3, <3>1, <3>6, <3>8 DEF EventTypes, Events!TypeOK, BlockInv
    <3>10. PromiseInv'
      BY <1>0, <3>1, <3>5, <3>6 DEF PromiseInv, Unparking
    <3>11. QED
      BY <3>3, <3>6, <3>7, <3>9, <3>10 DEF EventInv
  <2>4. QED
    BY <2>1, <2>2, <2>3
<1>11. CASE Events!UnparkThread(t)
  <2> USE <1>11 DEF Events!UnparkThread
  <2>1. PICK e \in Threads : waking[t] = <<e>> /\ Head(waking[t]) = e
    BY <1>0 DEF HandsInv
  <2>2. /\ unparked' = [unparked EXCEPT ![e] = 1] /\ waking' = [waking EXCEPT ![t] = <<>>]
        /\ UNCHANGED <<set, lock, list, spinCount, pc, count, promised, unlinked>>
        /\ UNCHANGED <<grabbed, kept>>
    BY <2>1
  <2>3. /\ <<>> \in Seq(Threads)
        /\ \A x : (In(x, waking[t]) <=> x = e) /\ ~In(x, <<>>)
    BY <2>1, SmallStacks
  <2>4. EventTypes'
    BY <1>0, <2>2, <2>3, SMTT(30) DEF EventTypes, Events!TypeOK
  <2>5. /\ waking'[t] = <<>> /\ \A s \in Threads \ {t} : waking'[s] = waking[s]
    BY <1>0, <2>2 DEF EventTypes, Events!TypeOK
  <2>6. Hand(e, t) /\ Waking(e) /\ Listed(e) /\ Unparking(t)
    BY <1>0, <2>1, <2>3 DEF Hand, Waking, Listed, Unparking, HoldingInv
  <2>7. ~In(e, grabbed[t]) /\ ~In(e, kept[t]) /\ kept[t] = <<>>
    <3>1. kept[t] = <<>>
      BY <1>0, <2>6 DEF Unparking, HoldingInv
    <3>2. QED
      BY <1>0, <2>3, <3>1, SmallStacks DEF HandsInv
  <2>8. \A x \in Threads : Hand(x, t)' <=> Hand(x, t) /\ x # e
    BY <2>2, <2>3, <2>5, <2>7 DEF Hand
  <2>9. /\ HandsInv'
        /\ \A x, s \in Threads : s # t => (Hand(x, s)' <=> Hand(x, s))
        /\ \A x \in Threads : Listed(x)' => Listed(x)
        /\ \A x \in Threads : Listed(x) => Listed(x)' \/ x = e
        /\ \A x \in Threads : Waking(x)' <=> Waking(x) /\ x # e
    <3>1. Distinct(list) /\ Distinct(kept[t]) /\ Distinct(grabbed[t])
      BY <1>0 DEF HandsInv
    <3>2. \A x \in Threads :
            /\ In(x, grabbed[t]) => ~In(x, kept[t]) /\ ~In(x, waking'[t])
            /\ In(x, list) => ~Hand(x, t)
      BY <1>0, <2>3, <2>5 DEF HandsInv
    <3>3. /\ HandsInv'
          /\ \A x, s \in Threads : s # t => (Hand(x, s)' <=> Hand(x, s))
          /\ \A x \in Threads : Listed(x)' => Listed(x)
          /\ \A x \in Threads : Listed(x) =>
               Listed(x)' \/ ((In(x, list) \/ Hand(x, t)) /\ ~In(x, list') /\ ~Hand(x, t)')
          /\ \A x \in Threads : Waking(x)' <=>
               In(x, waking'[t]) \/ (Waking(x) /\ ~In(x, waking[t]))
      BY <2>2, <2>5, <2>8, <3>1, <3>2, HandsLemma
    <3>4. QED
      BY <2>2, <2>3, <2>5, <2>8, <3>3
  <2>10. ~Listed(e)'
    BY <1>0, <2>2, <2>6, <2>8, <2>9 DEF HandsInv, Listed
  <2>11. HoldingInv' /\ LockBitInv'
    BY <1>0, <2>2, <2>5 DEF HoldingInv, LockBitInv
  <2>12. BlockInv'
    BY <1>0, <2>2, <2>6, <2>9, <2>10, SMTT(30) DEF EventTypes, Events!TypeOK, BlockInv
  <2>13. PromiseInv'
    BY <1>0, <2>2, <2>6, <2>8, <2>9, SMTT(30) DEF EventTypes, Events!TypeOK, PromiseInv, Unparking
  <2>14. QED
    BY <2>4, <2>9, <2>11, <2>12, <2>13 DEF EventInv
<1>12. CASE Events!UnparkDone(t)
  <2> USE <1>12 DEF Events!UnparkDone
  <2>1. EventTypes'
    BY <1>0 DEF EventTypes, Events!TypeOK, Events!Pcs
  <2>2. /\ HandsInv'
        /\ \A x \in Threads : (Listed(x)' <=> Listed(x)) /\ (Waking(x)' <=> Waking(x))
        /\ \A x, s \in Threads : Hand(x, s)' <=> Hand(x, s)
    BY SameHandsLemma DEF SameHands
  <2>3. HoldingInv'
    BY <1>0 DEF EventTypes, Events!TypeOK, HoldingInv
  <2>4. LockBitInv'
    BY <1>0, ZenonT(30) DEF EventTypes, Events!TypeOK, LockBitInv
  <2>5. BlockInv'
    BY <1>0, <2>2 DEF EventTypes, Events!TypeOK, BlockInv
  <2>6. PromiseInv'
    BY <1>0, <2>2 DEF EventTypes, Events!TypeOK, PromiseInv, Unparking
  <2>7. QED
    BY <2>1, <2>2, <2>3, <2>4, <2>5, <2>6 DEF EventInv
<1>13. CASE Events!Reset(t)
  <2> USE <1>13 DEF Events!Reset
  <2>1. EventTypes'
    BY <1>0 DEF EventTypes, Events!TypeOK, Events!Pcs
  <2>2. /\ HandsInv'
        /\ \A x \in Threads : (Listed(x)' <=> Listed(x)) /\ (Waking(x)' <=> Waking(x))
        /\ \A x, s \in Threads : Hand(x, s)' <=> Hand(x, s)
    BY SameHandsLemma DEF SameHands
  <2>3. HoldingInv'
    BY <1>0 DEF EventTypes, Events!TypeOK, HoldingInv
  <2>4. LockBitInv'
    BY <1>0, ZenonT(30) DEF EventTypes, Events!TypeOK, LockBitInv
  <2>5. BlockInv'
    BY <1>0, <2>2 DEF EventTypes, Events!TypeOK, BlockInv
  <2>6. PromiseInv'
    BY <1>0, <2>2 DEF EventTypes, Events!TypeOK, PromiseInv, Unparking
  <2>7. QED
    BY <2>1, <2>2, <2>3, <2>4, <2>5, <2>6 DEF EventInv
<1>14. CASE pc[t] \in {"out", "action"} /\ Events!SetAt(t, "out")
  <2> USE <1>14 DEF Events!SetAt
  <2>1. /\ set = 0 /\ set' = 1
        /\ promised' = [s \in Threads |-> IF pc[s] = "parked" THEN 1 ELSE 0]
        /\ UNCHANGED <<lock, spinCount, count, unparked, unlinked, kept, waking>>
    OBVIOUS
  <2>2. CASE lock = 1 /\ SameHands /\ pc' = [pc EXCEPT ![t] = "out"]
    <3>1. EventTypes'
      BY <1>0, <2>1, <2>2 DEF EventTypes, Events!TypeOK, Events!Pcs, SameHands
    <3>2. /\ HandsInv'
          /\ \A x \in Threads : (Listed(x)' <=> Listed(x)) /\ (Waking(x)' <=> Waking(x))
          /\ \A x, s \in Threads : Hand(x, s)' <=> Hand(x, s)
      BY <2>2, SameHandsLemma
    <3>3. HoldingInv'
      BY <1>0, <2>2 DEF EventTypes, Events!TypeOK, HoldingInv, SameHands
    <3>4. LockBitInv'
      BY <1>0, <2>1, <2>2 DEF EventTypes, Events!TypeOK, LockBitInv, SameHands
    <3>5. BlockInv'
      BY <1>0, <2>1, <2>2, <3>2 DEF EventTypes, Events!TypeOK, BlockInv
    <3>6. PromiseInv'
      BY <1>0, <2>1, <2>2 DEF EventTypes, Events!TypeOK, PromiseInv
    <3>7. QED
      BY <3>1, <3>2, <3>3, <3>4, <3>5, <3>6 DEF EventInv
  <2>3. CASE /\ lock = 0 /\ list' = <<>> /\ pc' = [pc EXCEPT ![t] = "unparkList"]
             /\ grabbed' = [grabbed EXCEPT ![t] = Events!WalkOrder(list)]
    <3> DEFINE w == Events!WalkOrder(list)
    <3>1. w \in Seq(Threads) /\ Distinct(w) /\ \A x : In(x, w) <=> In(x, list)
      BY <1>0, WalkOrderLemma DEF EventTypes, Events!TypeOK, HandsInv
    <3> HIDE DEF w
    <3>2. grabbed'[t] = w /\ grabbed' = [grabbed EXCEPT ![t] = w]
          /\ \A s \in Threads \ {t} : grabbed'[s] = grabbed[s]
      BY <1>0, <2>3 DEF EventTypes, Events!TypeOK, w
    <3>3. /\ \A x : ~In(x, <<>>)
          /\ Distinct(<<>>) /\ <<>> \in Seq(Threads)
          /\ kept[t] = <<>> /\ waking[t] = <<>>
          /\ \A x \in Threads : ~Hand(x, t)
      BY <1>0, SmallStacks DEF HoldingInv, Hand
    <3>4. EventTypes'
      BY <1>0, <2>1, <2>3, <3>1, <3>2, <3>3 DEF EventTypes, Events!TypeOK, Events!Pcs
    <3>5. \A x \in Threads : (Hand(x, t)' <=> In(x, list)) /\ ~In(x, list')
      BY <2>1, <2>3, <3>1, <3>2, <3>3 DEF Hand
    <3>6. /\ HandsInv'
          /\ \A x, s \in Threads : s # t => (Hand(x, s)' <=> Hand(x, s))
          /\ \A x \in Threads : Listed(x)' <=> Listed(x)
          /\ \A x \in Threads : Waking(x)' <=> Waking(x)
      <4>1. /\ HandsInv'
            /\ \A x, s \in Threads : s # t => (Hand(x, s)' <=> Hand(x, s))
            /\ \A x \in Threads : Listed(x)' => Listed(x)
            /\ \A x \in Threads : Listed(x) =>
                 Listed(x)' \/ ((In(x, list) \/ Hand(x, t)) /\ ~In(x, list') /\ ~Hand(x, t)')
            /\ \A x \in Threads : Waking(x)' <=>
                 In(x, waking'[t]) \/ (Waking(x) /\ ~In(x, waking[t]))
        BY <2>1, <2>3, <3>1, <3>2, <3>3, <3>5, HandsLemma
      <4>2. QED
        BY <2>1, <3>3, <3>5, <4>1
    <3>7. HoldingInv'
      BY <1>0, <2>1, <2>3, <3>2, <3>3 DEF EventTypes, Events!TypeOK, HoldingInv
    <3>8. LockBitInv'
      BY <1>0, <2>1, <2>3 DEF EventTypes, Events!TypeOK, LockBitInv
    <3>9. BlockInv'
      BY <1>0, <2>1, <2>3, <3>6 DEF EventTypes, Events!TypeOK, BlockInv
    <3>10. PromiseInv'
      BY <1>0, <2>1, <2>3 DEF EventTypes, Events!TypeOK, PromiseInv
    <3>11. QED
      BY <3>4, <3>6, <3>7, <3>8, <3>9, <3>10 DEF EventInv
  <2>4. QED
    BY <2>2, <2>3 DEF SameHands
<1>15. QED
  BY <1>1, <1>2, <1>3, <1>4, <1>5, <1>6, <1>7, <1>8, <1>9, <1>10, <1>11, <1>12, <1>13,
     <1>14 DEF EventStep, Events!ThreadStep

\* Initially no block is anywhere.
LEMMA EventInit == ASSUME NEW s \in {0, 1}, Events!InitSet(s) PROVE EventInv
<1> USE DEF Events!InitSet
<1>1. EventTypes
  BY DEF EventTypes, Events!TypeOK, Events!Pcs
<1>2. \A x, s_1 \in Threads : ~Hand(x, s_1) /\ ~In(x, list)
  BY SmallStacks DEF Hand
<1>3. HandsInv
  BY <1>2, SmallStacks DEF HandsInv
<1>4. HoldingInv /\ LockBitInv
  BY DEF HoldingInv, LockBitInv
<1>5. BlockInv /\ PromiseInv
  BY <1>2 DEF BlockInv, PromiseInv, Listed, Waking, Hand
<1>6. QED
  BY <1>1, <1>3, <1>4, <1>5 DEF EventInv

\* Steps that move a thread between "out" and "action", and steps of another system.
LEMMA EventStutter ==
  ASSUME EventInv,
         UNCHANGED <<set, lock, list, spinCount, promised, unparked, unlinked, grabbed,
                     kept, waking, count>>,
         \/ UNCHANGED pc
         \/ \E t \in Threads, to \in {"out", "action"} :
              pc[t] = "out" /\ pc' = [pc EXCEPT ![t] = to]
  PROVE  EventInv'
<1>0. EventTypes /\ HandsInv /\ HoldingInv /\ LockBitInv /\ BlockInv /\ PromiseInv
  BY DEF EventInv
<1>1. SameHands
  BY DEF SameHands
<1>2. \A s \in Threads : pc'[s] # pc[s] => pc[s] = "out" /\ pc'[s] = "action"
  BY <1>0 DEF EventTypes, Events!TypeOK
<1>3. EventTypes'
  BY <1>0 DEF EventTypes, Events!TypeOK, Events!Pcs
<1>4. /\ HandsInv'
      /\ \A x \in Threads : (Listed(x)' <=> Listed(x)) /\ (Waking(x)' <=> Waking(x))
      /\ \A x, s \in Threads : Hand(x, s)' <=> Hand(x, s)
  BY <1>1, SameHandsLemma
<1>5. HoldingInv'
  BY <1>0, <1>2 DEF HoldingInv
<1>6. LockBitInv'
  BY <1>0, <1>2 DEF LockBitInv
<1>7. BlockInv'
  BY <1>0, <1>2, <1>4 DEF BlockInv
<1>8. PromiseInv'
  BY <1>0, <1>2, <1>4 DEF PromiseInv, Unparking
<1>9. QED
  BY <1>3, <1>4, <1>5, <1>6, <1>7, <1>8 DEF EventInv

\* The count-down event uses the event through an instance of its own.
LEMMA InnerEvent ==
  ASSUME NEW t \in Threads
  PROVE  /\ CountDown!Event!WaitEx(t) => EventStep(t)
         /\ CountDown!Event!ThreadStep(t) => EventStep(t)
         /\ CountDown!Event!Cancelled(t) => EventStep(t)
         /\ pc[t] = "action" /\ CountDown!Event!SetAt(t, "out") => EventStep(t)
<1> USE DEF CountDown!Event!listVars, CountDown!Event!waitVars, CountDown!Event!Step,
            Events!listVars, Events!waitVars, Events!Step
<1>1. CountDown!Event!WaitEx(t) => Events!WaitEx(t)
  BY DEF CountDown!Event!WaitEx, Events!WaitEx
<1>2. CountDown!Event!Cancelled(t) => Events!Cancelled(t)
  BY DEF CountDown!Event!Cancelled, Events!Cancelled
<1>3. \A s : CountDown!Event!WalkOrder(s) = Events!WalkOrder(s)
  BY DEF CountDown!Event!WalkOrder, Events!WalkOrder
<1>4. CountDown!Event!SetAt(t, "out") => Events!SetAt(t, "out")
  BY <1>3 DEF CountDown!Event!SetAt, Events!SetAt
<1>5. CountDown!Event!WaitTail(t) => Events!WaitTail(t)
  BY DEF CountDown!Event!WaitTail, Events!WaitTail
<1>6. CountDown!Event!Unparked(t) => Events!Unparked(t)
  BY DEF CountDown!Event!Unparked, Events!Unparked
<1>7. CountDown!Event!UnlinkListEntry(t) => Events!UnlinkListEntry(t)
  BY DEF CountDown!Event!UnlinkListEntry, Events!UnlinkListEntry,
         CountDown!Event!Alone, Events!Alone
<1>8. CountDown!Event!SlowUnlinkListEntry(t) => Events!SlowUnlinkListEntry(t)
  BY DEF CountDown!Event!SlowUnlinkListEntry, Events!SlowUnlinkListEntry,
         CountDown!Event!Alone, Events!Alone
<1>9. CountDown!Event!Filter(t) => Events!Filter(t)
  BY DEF CountDown!Event!Filter, Events!Filter
<1>10. CountDown!Event!PutBack(t) => Events!PutBack(t)
  BY <1>3 DEF CountDown!Event!PutBack, Events!PutBack
<1>11. CountDown!Event!SpinUntilUnlinked(t) => Events!SpinUntilUnlinked(t)
  BY DEF CountDown!Event!SpinUntilUnlinked, Events!SpinUntilUnlinked
<1>12. CountDown!Event!UnparkListEntry(t) => Events!UnparkListEntry(t)
  BY DEF CountDown!Event!UnparkListEntry, Events!UnparkListEntry
<1>13. CountDown!Event!UnparkThread(t) => Events!UnparkThread(t)
  BY DEF CountDown!Event!UnparkThread, Events!UnparkThread
<1>14. CountDown!Event!UnparkDone(t) => Events!UnparkDone(t)
  BY DEF CountDown!Event!UnparkDone, Events!UnparkDone
<1>15. CountDown!Event!Reset(t) => Events!Reset(t)
  BY DEF CountDown!Event!Reset, Events!Reset
<1>16. CountDown!Event!ThreadStep(t) => Events!ThreadStep(t)
  BY <1>5, <1>6, <1>7, <1>8, <1>9, <1>10, <1>11, <1>12, <1>13, <1>14, <1>15
     DEF CountDown!Event!ThreadStep, Events!ThreadStep
<1>17. QED
  BY <1>1, <1>2, <1>4, <1>16 DEF EventStep

\* What a step inside the event does to what the counter promises.
LEMMA EventStepFrame ==
  ASSUME EventInv, NEW t \in Threads,
         CountDown!Event!WaitEx(t) \/ CountDown!Event!ThreadStep(t)
           \/ CountDown!Event!Cancelled(t)
  PROVE  /\ set' = 1 => set = 1
         /\ \A s \in Threads : pc'[s] = "action" => pc[s] = "action"
<1> USE DEF CountDown!Event!Step, CountDown!Event!listVars, CountDown!Event!waitVars
<1>1. pc \in [Threads -> Events!Pcs] /\ set \in {0, 1}
  BY DEF EventInv, EventTypes, Events!TypeOK
<1>2. CASE CountDown!Event!WaitEx(t) \/ CountDown!Event!Cancelled(t)
  BY <1>1, <1>2 DEF CountDown!Event!WaitEx, CountDown!Event!Cancelled
<1>3. CASE CountDown!Event!ThreadStep(t)
  <2>1. CASE CountDown!Event!WaitTail(t)
    BY <1>1, <2>1 DEF CountDown!Event!WaitTail
  <2>2. CASE CountDown!Event!Unparked(t)
    BY <1>1, <2>2 DEF CountDown!Event!Unparked
  <2>3. CASE CountDown!Event!UnlinkListEntry(t)
    BY <1>1, <2>3 DEF CountDown!Event!UnlinkListEntry
  <2>4. CASE CountDown!Event!SlowUnlinkListEntry(t)
    BY <1>1, <2>4 DEF CountDown!Event!SlowUnlinkListEntry
  <2>5. CASE CountDown!Event!Filter(t)
    BY <1>1, <2>5 DEF CountDown!Event!Filter
  <2>6. CASE CountDown!Event!PutBack(t)
    BY <1>1, <2>6 DEF CountDown!Event!PutBack
  <2>7. CASE CountDown!Event!SpinUntilUnlinked(t)
    BY <1>1, <2>7 DEF CountDown!Event!SpinUntilUnlinked
  <2>8. CASE CountDown!Event!UnparkListEntry(t)
    BY <1>1, <2>8 DEF CountDown!Event!UnparkListEntry
  <2>9. CASE CountDown!Event!UnparkThread(t)
    BY <1>1, <2>9 DEF CountDown!Event!UnparkThread
  <2>10. CASE CountDown!Event!UnparkDone(t)
    BY <1>1, <2>10 DEF CountDown!Event!UnparkDone
  <2>11. CASE CountDown!Event!Reset(t)
    BY <1>1, <2>11 DEF CountDown!Event!Reset
  <2>12. QED
    BY <1>3, <2>1, <2>2, <2>3, <2>4, <2>5, <2>6, <2>7, <2>8, <2>9, <2>10, <2>11
       DEF CountDown!Event!ThreadStep
<1>4. QED
  BY <1>2, <1>3

\* The counter, and what the count-down event promises.
CounterInv == state \in Nat /\ CountDown!ReleasedAtZero

EventsOK ==
  /\ InEvents => EventInv
  /\ which = "countdown" => CounterInv

\* Initially.
LEMMA EventsInit == ASSUME MCInit PROVE EventsOK
<1>1. CASE which = "event" /\ Events!Init
  BY <1>1, EventInit DEF Events!Init, EventsOK
<1>2. CASE which = "countdown" /\ CountDown!Init
  <2>1. CountDown!Event!InitSet(IF state = 0 THEN 1 ELSE 0) /\ state \in Nat
    BY <1>2, EventsAssumption DEF CountDown!Init, CountDown!CountDownAssumption
  <2>2. CountDown!Event!InitSet(set) /\ set = (IF state = 0 THEN 1 ELSE 0)
    BY <2>1 DEF CountDown!Event!InitSet
  <2>3. Events!InitSet(set) /\ set \in {0, 1}
    BY <2>2 DEF CountDown!Event!InitSet, Events!InitSet
  <2>4. EventInv
    BY <2>3, EventInit
  <2>5. \A t \in Threads : pc[t] = "out"
    BY <2>3 DEF Events!InitSet
  <2>6. CountDown!ReleasedAtZero
    BY <2>2, <2>5 DEF CountDown!ReleasedAtZero
  <2>7. QED
    BY <1>2, <2>1, <2>4, <2>6 DEF EventsOK, CounterInv
<1>3. CASE which \notin {"event", "countdown"}
  BY <1>3 DEF EventsOK, InEvents
<1>4. QED
  BY <1>1, <1>2, <1>3 DEF MCInit

\* Every step.
LEMMA EventsNext == ASSUME EventsOK, [MCNext]_mcVars PROVE EventsOK'
<1> USE DEF InEvents
<1>0. CASE UNCHANGED mcVars
  <2>1. UNCHANGED <<which, state>> /\ UNCHANGED eventVars /\ UNCHANGED sharedVars
    BY <1>0 DEF mcVars
  <2>2. InEvents => EventInv'
    BY <2>1, EventStutter DEF EventsOK, eventVars, sharedVars
  <2>3. which = "countdown" => CounterInv'
    BY <2>1 DEF EventsOK, CounterInv, CountDown!ReleasedAtZero, eventVars, sharedVars
  <2>4. QED
    BY <2>1, <2>2, <2>3 DEF EventsOK
<1>1. CASE MCNext /\ which = "event" /\ Events!Next
  <2>1. which' = which /\ EventInv
    BY <1>1 DEF MCNext, Others, EventsOK
  <2>2. PICK t \in Threads : EventStep(t)
    BY <1>1 DEF Events!Next, Events!Set, EventStep
  <2>3. QED
    BY <1>1, <2>1, <2>2, EventNext DEF EventsOK
<1>2. CASE MCNext /\ which = "countdown" /\ CountDown!Next
  <2>1. which' = which /\ EventInv /\ CounterInv
    BY <1>2 DEF MCNext, Others, EventsOK
  <2>2. PICK t \in Threads : \/ CountDown!Signal(t) \/ CountDown!TryAdd(t)
                             \/ CountDown!WaitEx(t) \/ CountDown!ActionDone(t)
                             \/ CountDown!InEvent(t)
    BY <1>2 DEF CountDown!Next
  <2>3. /\ pc \in [Threads -> Events!Pcs] /\ set \in {0, 1} /\ state \in Nat
        /\ set = 1 \/ (\E s \in Threads : pc[s] = "action") => state = 0
        /\ \A r, s \in Threads : pc[r] = "action" /\ pc[s] = "action" => r = s
    BY <2>1 DEF EventInv, EventTypes, Events!TypeOK, CounterInv, CountDown!ReleasedAtZero
  <2>4. CASE CountDown!Signal(t)
    <3>1. PICK n \in Amounts : /\ state >= n /\ state' = state - n
                               /\ pc' = [pc EXCEPT ![t] = IF state = n THEN "action" ELSE "out"]
      BY <2>4 DEF CountDown!Signal
    <3>2. n \in Nat /\ n > 0
      BY EventsAssumption DEF CountDown!CountDownAssumption
    <3>3. pc[t] = "out" /\ UNCHANGED <<set, lock, list, spinCount, count, unparked, unlinked,
                                       grabbed, kept, waking, promised>>
      BY <2>4 DEF CountDown!Signal
    <3>4. EventInv'
      <4>1. \E s \in Threads, to \in {"out", "action"} :
              pc[s] = "out" /\ pc' = [pc EXCEPT ![s] = to]
        BY <3>1, <3>3
      <4>2. QED
        BY <2>1, <3>3, <4>1, EventStutter
    <3>5. state # 0 /\ state' \in Nat /\ (state' = 0 <=> state = n)
      BY <2>3, <3>1, <3>2
    <3>6. set = 0 /\ \A s \in Threads : pc[s] # "action"
      BY <2>3, <3>5
    <3>7. CounterInv'
      BY <2>3, <3>1, <3>3, <3>5, <3>6 DEF CounterInv, CountDown!ReleasedAtZero
    <3>8. QED
      BY <1>2, <2>1, <3>4, <3>7 DEF EventsOK
  <2>5. CASE CountDown!TryAdd(t)
    <3>1. PICK n \in Amounts : state' = state + n
      BY <2>5 DEF CountDown!TryAdd
    <3>2. n \in Nat /\ state # 0
      BY <2>5, EventsAssumption DEF CountDown!CountDownAssumption, CountDown!TryAdd
    <3>3. UNCHANGED <<set, lock, list, spinCount, promised, unparked, unlinked, grabbed,
                      kept, waking, count, pc>>
      BY <2>5 DEF CountDown!TryAdd, CountDown!eventVars
    <3>4. EventInv'
      BY <2>1, <3>3, EventStutter
    <3>5. CounterInv'
      BY <2>3, <3>1, <3>2, <3>3 DEF CounterInv, CountDown!ReleasedAtZero
    <3>6. QED
      BY <1>2, <2>1, <3>4, <3>5 DEF EventsOK
  <2>6. CASE CountDown!ActionDone(t)
    <3>1. EventInv'
      BY <2>1, <2>6, InnerEvent, EventNext DEF CountDown!ActionDone
    <3>2. /\ pc[t] = "action" /\ state' = state /\ set' = 1
          /\ \A s \in Threads : pc'[s] = "action" => pc[s] = "action"
      BY <2>3, <2>6 DEF CountDown!ActionDone, CountDown!Event!SetAt
    <3>3. CounterInv'
      BY <2>3, <3>2 DEF CounterInv, CountDown!ReleasedAtZero
    <3>4. QED
      BY <1>2, <2>1, <3>1, <3>3 DEF EventsOK
  <2>7. CASE CountDown!WaitEx(t) \/ CountDown!InEvent(t)
    <3>1. /\ state' = state
          /\ \/ CountDown!Event!WaitEx(t) \/ CountDown!Event!ThreadStep(t)
             \/ CountDown!Event!Cancelled(t)
      BY <2>7 DEF CountDown!WaitEx, CountDown!InEvent
    <3>2. EventInv'
      BY <2>1, <3>1, InnerEvent, EventNext
    <3>3. /\ set' = 1 => set = 1
          /\ \A s \in Threads : pc'[s] = "action" => pc[s] = "action"
      BY <2>1, <3>1, EventStepFrame
    <3>4. CounterInv'
      BY <2>3, <3>1, <3>3 DEF CounterInv, CountDown!ReleasedAtZero
    <3>5. QED
      BY <1>2, <2>1, <3>2, <3>4 DEF EventsOK
  <2>8. QED
    BY <2>2, <2>4, <2>5, <2>6, <2>7
<1>3. CASE MCNext /\ ~InEvents
  BY <1>3 DEF MCNext, Others, EventsOK
<1>4. QED
  BY <1>0, <1>1, <1>2, <1>3 DEF MCNext

\* Every state of the notification event, by itself or under the count-down event,
\* satisfies its invariant.
THEOREM EventKeepsInvariant == MCSpec => []EventsOK
<1>1. MCInit => EventsOK
  BY EventsInit
<1>2. EventsOK /\ [MCNext]_mcVars => EventsOK'
  BY EventsNext
<1>3. QED
  BY <1>1, <1>2, PTL DEF MCSpec

\* StNotificationEvent_Set and SlowUnlinkListEntry: a thread that waits is in the stack or
\* in the hands of a thread that will unpark it, it is unparked only if the event was set
\* after it parked, and nobody can reach the block of a wait that has returned.
THEOREM EventPromisesKept == MCSpec => []EventPromises
<1>1. EventsOK => EventPromises
  <2> SUFFICES ASSUME EventInv
               PROVE  Events!NobodyForgotten /\ Events!SuccessMeansSet /\ Events!NoDanglingBlock
    BY DEF EventsOK, EventPromises
  <2>0. EventTypes /\ HandsInv /\ HoldingInv /\ LockBitInv /\ BlockInv /\ PromiseInv
    BY DEF EventInv
  <2>1. \A x, s : Events!In(x, s) <=> In(x, s)
    BY DEF Events!In, In
  <2>2. \A t \in Threads : Listed(t) <=> Events!In(t, list) \/ Events!HeldBySomeone(t)
    BY <2>1 DEF Listed, Hand, Events!HeldBySomeone
  <2>3. Events!SuccessMeansSet
    BY <2>0 DEF PromiseInv, Events!SuccessMeansSet
  <2>4. Events!NoDanglingBlock
    BY <2>0, <2>2 DEF BlockInv, Events!NoDanglingBlock
  <2>5. \A t \in Threads : Events!In(t, list) => (set = 1 => lock = 1)
    BY <2>0, <2>1, SmallStacks DEF LockBitInv, EventTypes, Events!TypeOK
  <2>6. Events!NobodyForgotten
    BY <2>0, <2>2, <2>5 DEF BlockInv, Events!NobodyForgotten
  <2>7. QED
    BY <2>3, <2>4, <2>6
<1>2. QED
  BY <1>1, EventKeepsInvariant, PTL

\* The event of a count-down event is set only when the counter is zero for good, by the
\* one thread that brought it there (StCountDownEvent_Signal and TryAdd).
THEOREM CountDownReleasesAtZero == MCSpec => []ReleasedAtZero
<1>1. EventsOK => ReleasedAtZero
  BY DEF EventsOK, CounterInv, ReleasedAtZero
<1>2. QED
  BY <1>1, EventKeepsInvariant, PTL

-----------------------------------------------------------------------------
(* The barrier: its inductive invariant. *)

BarrierPcs == {"out", "signal", "wait", "undo", "waitOver", "finish", "nextState",
               "initEvent", "publish", "setEvent", "add", "addWait", "remove"}

OldState  == Phases!Other(phaseState)
Removing  == mode = {"remove"}
Renewing  == \E f \in Threads : pc[f] \in {"initEvent", "publish"}
Finished  == \E f \in Threads : pc[f] \in {"nextState", "initEvent", "publish"}
Arrivals  == {t \in Threads : pc[t] \in {"wait", "undo"} /\ my[t] = phaseState}
Ending(f) == Phases!Finishing(f) \/ pc[f] = "setEvent"

\* A state word that expects n partners of which a have arrived.
Word(n, a) == n * Wide + a

BarrierTypes ==
  /\ mode \in MCModes /\ members \in SUBSET Threads
  /\ phaseState \in {0, 1} /\ number \in Nat
  /\ states \in [{0, 1} -> Nat] /\ event \in [{0, 1} -> {0, 1}]
  /\ pc \in [Threads -> BarrierPcs] /\ my \in [Threads -> {0, 1}]
  /\ arrivedAt \in [Threads -> Nat]

\* Who is where: partners signal, wait and remove themselves, others add
\* themselves, and only then do waits time out.
PlacesInv ==
  \A t \in Threads :
    /\ pc[t] \in {"signal", "wait", "undo", "waitOver", "remove"} => t \in members
    /\ pc[t] \in {"add", "addWait"} => t \notin members
    /\ pc[t] \in {"add", "addWait", "undo", "waitOver"} => ~Removing
    /\ pc[t] = "remove" => Removing

\* Which phase state a thread works on: the current one, unless its phase is over.
PhaseInv ==
  /\ \A t \in Threads :
       /\ pc[t] = "remove" \/ Phases!Finishing(t) => my[t] = phaseState
       /\ pc[t] = "setEvent" => my[t] = OldState
       /\ pc[t] = "signal" =>
            my[t] = phaseState \/ (~Removing /\ Phases!Full(states[OldState]))
  /\ event[phaseState] = 0
  /\ \A f \in Threads : pc[f] \in {"publish", "setEvent"} => event[OldState] = 0

\* One partner ends a phase, and as long as it does, somebody of that phase is
\* still a partner.
EndingInv ==
  \A f \in Threads : Ending(f) =>
    /\ \A s \in Threads : Ending(s) => s = f
    /\ \/ f \in members
       \/ Removing /\ \E t \in Threads : Phases!Waiting(t) /\ my[t] = my[f]

\* Outside of FinishPhase the word counts.
CountingInv ==
  (\A t \in Threads : ~Phases!Finishing(t)) =>
    /\ states[phaseState] = Word(Cardinality(members), Cardinality(Arrivals))
    /\ Cardinality(Arrivals) < Cardinality(members)
    /\ \A t \in Threads : pc[t] = "waitOver" => my[t] = OldState

\* Within it every partner has arrived, and the next phase state is made of this
\* one.
FinishingInv ==
  \A f \in Threads : Phases!Finishing(f) =>
    /\ \A t \in Threads : Phases!Waiting(t) => my[t] = phaseState
    /\ Removing \/ pc[f] \in {"finish", "nextState"} =>
         \A t \in members : t = f \/ Phases!Waiting(t)
    /\ pc[f] \in {"finish", "nextState"} =>
         Phases!Partners(states[phaseState]) = Cardinality(members)
    /\ pc[f] \in {"initEvent", "publish"} =>
         states[OldState] = Word(Cardinality(members), 0)
    /\ ~Removing => Phases!Full(states[phaseState])

\* The word of a phase that is over does not change before it is renewed.
OldInv == ~Removing => Phases!Full(states[OldState]) \/ Renewing

\* Whoever waits for a phase that is over arrived in an earlier one.
ArrivedInv ==
  \A t \in Threads :
    /\ arrivedAt[t] <= number
    /\ Phases!Waiting(t) /\ (my[t] = OldState \/ Finished) => arrivedAt[t] < number

BarrierInv ==
  /\ BarrierTypes /\ PlacesInv /\ PhaseInv /\ EndingInv /\ CountingInv
  /\ FinishingInv /\ OldInv /\ ArrivedInv

\* A state word gives back the two counts that it packs, if they fit.
LEMMA WordLemma ==
  ASSUME NEW n \in Nat, NEW a \in Nat, a < Wide
  PROVE  /\ Word(n, a) \in Nat
         /\ Phases!Partners(Word(n, a)) = n /\ Phases!Arrived(Word(n, a)) = a
         /\ Phases!Full(Word(n, a)) <=> a = n
<1>1. Wide \in Nat
  BY EventsAssumption DEF Phases!BarrierAssumption
<1>2. (n * Wide + a) \div Wide = n /\ (n * Wide + a) % Wide = a
  BY <1>1
<1>3. n * Wide + a \in Nat
  BY <1>1
<1>4. QED
  BY <1>2, <1>3 DEF Word, Phases!Partners, Phases!Arrived, Phases!Full

\* Arriving adds one to the word, joining adds a partner.
LEMMA WordSteps ==
  ASSUME NEW n \in Nat, NEW a \in Nat
  PROVE  /\ Word(n, a) + 1 = Word(n, a + 1) /\ Word(n, a) + Wide = Word(n + 1, a)
         /\ Word(n, a + 1) - 1 = Word(n, a) /\ n * Wide = Word(n, 0)
         /\ n * Wide + a = Word(n, a)
<1>1. Wide \in Nat
  BY EventsAssumption DEF Phases!BarrierAssumption
<1>2. n * Wide \in Nat /\ (n + 1) * Wide = n * Wide + Wide
  BY <1>1
<1>3. QED
  BY <1>1, <1>2 DEF Word

\* Instances of FiniteSets count alike.
LEMMA CardinalityLemma ==
  \A S : Phases!Cardinality(S) = Cardinality(S) /\ Phases!IsFiniteSet(S) = IsFiniteSet(S)
BY DEF Phases!Cardinality, Cardinality, Phases!IsFiniteSet, IsFiniteSet

\* The cardinalities of sets of threads.
LEMMA SubsetLemma ==
  \A S \in SUBSET Threads :
    /\ IsFiniteSet(S) /\ Cardinality(S) \in Nat /\ Cardinality(S) < Wide
    /\ Cardinality(S) = 0 <=> S = {}
    /\ \A t \in Threads \ S : Cardinality(S \cup {t}) = Cardinality(S) + 1
    /\ \A t \in S : Cardinality(S \ {t}) = Cardinality(S) - 1
    /\ \A T \in SUBSET S :
         Cardinality(T) <= Cardinality(S) /\ (Cardinality(T) = Cardinality(S) => T = S)
<1>1. IsFiniteSet(Threads) /\ Wide \in Nat /\ Cardinality(Threads) < Wide
  BY EventsAssumption, CardinalityLemma DEF Phases!BarrierAssumption
<1> SUFFICES ASSUME NEW S \in SUBSET Threads
             PROVE  /\ IsFiniteSet(S) /\ Cardinality(S) \in Nat /\ Cardinality(S) < Wide
                    /\ Cardinality(S) = 0 <=> S = {}
                    /\ \A t \in Threads \ S : Cardinality(S \cup {t}) = Cardinality(S) + 1
                    /\ \A t \in S : Cardinality(S \ {t}) = Cardinality(S) - 1
                    /\ \A T \in SUBSET S :
                         /\ Cardinality(T) <= Cardinality(S)
                         /\ Cardinality(T) = Cardinality(S) => T = S
  OBVIOUS
<1>2. IsFiniteSet(S) /\ Cardinality(S) <= Cardinality(Threads)
  BY <1>1, FS_Subset
<1>3. Cardinality(S) \in Nat /\ Cardinality(Threads) \in Nat
  BY <1>1, <1>2, FS_CardinalityType
<1>4. Cardinality(S) < Wide
  BY <1>1, <1>2, <1>3
<1>5. Cardinality(S) = 0 <=> S = {}
  BY <1>2, FS_EmptySet
<1>6. \A t \in Threads \ S : Cardinality(S \cup {t}) = Cardinality(S) + 1
  BY <1>2, FS_AddElement
<1>7. \A t \in S : Cardinality(S \ {t}) = Cardinality(S) - 1
  BY <1>2, FS_RemoveElement
<1>8. \A T \in SUBSET S :
        Cardinality(T) <= Cardinality(S) /\ (Cardinality(T) = Cardinality(S) => T = S)
  BY <1>2, FS_Subset
<1>9. QED
  BY <1>2, <1>3, <1>4, <1>5, <1>6, <1>7, <1>8

\* Between phases the current word counts the partners and the arrivals.
LEMMA CountLemma ==
  ASSUME BarrierInv, \A f \in Threads : ~Phases!Finishing(f)
  PROVE  /\ Cardinality(members) \in Nat /\ Cardinality(Arrivals) \in Nat
         /\ Cardinality(Arrivals) < Cardinality(members) /\ Cardinality(members) < Wide
         /\ states[phaseState] = Word(Cardinality(members), Cardinality(Arrivals))
         /\ Phases!Partners(states[phaseState]) = Cardinality(members)
         /\ Phases!Arrived(states[phaseState]) = Cardinality(Arrivals)
         /\ ~Phases!Full(states[phaseState]) /\ Arrivals \subseteq members
<1>1. Arrivals \subseteq members /\ members \subseteq Threads
  BY DEF BarrierInv, BarrierTypes, PlacesInv, Arrivals
<1>2. /\ Cardinality(members) \in Nat /\ Cardinality(Arrivals) \in Nat
      /\ Cardinality(members) < Wide
  BY <1>1, SubsetLemma
<1>3. /\ states[phaseState] = Word(Cardinality(members), Cardinality(Arrivals))
      /\ Cardinality(Arrivals) < Cardinality(members)
  BY DEF BarrierInv, CountingInv
<1>4. Wide \in Nat /\ Cardinality(Arrivals) < Wide
  BY <1>2, <1>3, EventsAssumption DEF Phases!BarrierAssumption
<1>5. QED
  BY <1>1, <1>2, <1>3, <1>4, WordLemma

\* Every step of a partner and of a thread that joins keeps the invariant.
LEMMA BarrierNext == ASSUME BarrierInv, Phases!Next PROVE BarrierInv'
<1> USE DEF Phases!Step
<1>0. /\ BarrierTypes /\ PlacesInv /\ PhaseInv /\ EndingInv /\ CountingInv
      /\ FinishingInv /\ OldInv /\ ArrivedInv
  BY DEF BarrierInv
<1>1. ASSUME NEW t \in Threads, Phases!SignalAndWaitEx(t) PROVE BarrierInv'
  <2> USE <1>0, <1>1 DEF Phases!SignalAndWaitEx, Phases!Begin
  <2>1. BarrierTypes'
    BY DEF BarrierTypes, BarrierPcs
  <2>2. PlacesInv'
    BY DEF BarrierTypes, BarrierPcs, PlacesInv, Removing
  <2>3. PhaseInv'
    BY DEF BarrierTypes, BarrierPcs, PlacesInv, PhaseInv, OldState, Removing, Phases!Finishing,
           Phases!Other
  <2>4. EndingInv'
    BY DEF BarrierTypes, BarrierPcs, PlacesInv, PhaseInv, EndingInv, Ending, Removing,
           Phases!Finishing, Phases!Waiting
  <2>5. CountingInv'
    BY DEF BarrierTypes, BarrierPcs, PlacesInv, PhaseInv, CountingInv, Arrivals, OldState,
           Phases!Finishing, Phases!Other
  <2>6. FinishingInv'
    BY DEF BarrierTypes, BarrierPcs, PlacesInv, PhaseInv, FinishingInv, Removing, OldState,
           Phases!Finishing, Phases!Waiting, Phases!Other
  <2>7. OldInv'
    BY DEF BarrierTypes, BarrierPcs, PhaseInv, OldInv, Renewing, Removing, OldState,
           Phases!Other
  <2>8. ArrivedInv'
    BY DEF BarrierTypes, BarrierPcs, PhaseInv, FinishingInv, ArrivedInv, Finished, OldState,
           Phases!Finishing, Phases!Waiting, Phases!Other
  <2>9. QED
    BY <2>1, <2>2, <2>3, <2>4, <2>5, <2>6, <2>7, <2>8 DEF BarrierInv
<1>2. ASSUME NEW t \in Threads, Phases!AddPartner(t) PROVE BarrierInv'
  <2> USE <1>0, <1>2 DEF Phases!AddPartner, Phases!Begin
  <2>1. BarrierTypes'
    BY DEF BarrierTypes, BarrierPcs
  <2>2. PlacesInv'
    BY DEF BarrierTypes, BarrierPcs, PlacesInv, Removing
  <2>3. PhaseInv'
    BY DEF BarrierTypes, BarrierPcs, PlacesInv, PhaseInv, OldState, Removing, Phases!Finishing,
           Phases!Other
  <2>4. EndingInv'
    BY DEF BarrierTypes, BarrierPcs, PlacesInv, PhaseInv, EndingInv, Ending, Removing,
           Phases!Finishing, Phases!Waiting
  <2>5. CountingInv'
    BY DEF BarrierTypes, BarrierPcs, PlacesInv, PhaseInv, CountingInv, Arrivals, OldState,
           Phases!Finishing, Phases!Other
  <2>6. FinishingInv'
    BY DEF BarrierTypes, BarrierPcs, PlacesInv, PhaseInv, FinishingInv, Removing, OldState,
           Phases!Finishing, Phases!Waiting, Phases!Other
  <2>7. OldInv'
    BY DEF BarrierTypes, BarrierPcs, PhaseInv, OldInv, Renewing, Removing, OldState,
           Phases!Other
  <2>8. ArrivedInv'
    BY DEF BarrierTypes, BarrierPcs, PhaseInv, FinishingInv, ArrivedInv, Finished, OldState,
           Phases!Finishing, Phases!Waiting, Phases!Other
  <2>9. QED
    BY <2>1, <2>2, <2>3, <2>4, <2>5, <2>6, <2>7, <2>8 DEF BarrierInv
<1>3. ASSUME NEW t \in Threads, Phases!RemovePartner(t) PROVE BarrierInv'
  <2> USE <1>0, <1>3 DEF Phases!RemovePartner, Phases!Begin
  <2>1. BarrierTypes'
    BY DEF BarrierTypes, BarrierPcs
  <2>2. PlacesInv'
    BY DEF BarrierTypes, BarrierPcs, MCModes, PlacesInv, Removing
  <2>3. PhaseInv'
    BY DEF BarrierTypes, BarrierPcs, PlacesInv, PhaseInv, OldState, Removing, Phases!Finishing,
           Phases!Other
  <2>4. EndingInv'
    BY DEF BarrierTypes, BarrierPcs, PlacesInv, PhaseInv, EndingInv, Ending, Removing,
           Phases!Finishing, Phases!Waiting
  <2>5. CountingInv'
    BY DEF BarrierTypes, BarrierPcs, PlacesInv, PhaseInv, CountingInv, Arrivals, OldState,
           Phases!Finishing, Phases!Other
  <2>6. FinishingInv'
    BY DEF BarrierTypes, BarrierPcs, PlacesInv, PhaseInv, FinishingInv, Removing, OldState,
           Phases!Finishing, Phases!Waiting, Phases!Other
  <2>7. OldInv'
    BY DEF BarrierTypes, BarrierPcs, PhaseInv, OldInv, Renewing, Removing, OldState,
           Phases!Other
  <2>8. ArrivedInv'
    BY DEF BarrierTypes, BarrierPcs, PhaseInv, FinishingInv, ArrivedInv, Finished, OldState,
           Phases!Finishing, Phases!Waiting, Phases!Other
  <2>9. QED
    BY <2>1, <2>2, <2>3, <2>4, <2>5, <2>6, <2>7, <2>8 DEF BarrierInv
<1>4. ASSUME NEW t \in Threads, Phases!Cancelled(t) PROVE BarrierInv'
  <2> USE <1>0, <1>4 DEF Phases!Cancelled
  <2>1. BarrierTypes'
    BY DEF BarrierTypes, BarrierPcs
  <2>2. PlacesInv'
    BY DEF BarrierTypes, BarrierPcs, PlacesInv, Removing
  <2>3. PhaseInv'
    BY DEF BarrierTypes, BarrierPcs, PlacesInv, PhaseInv, OldState, Removing, Phases!Finishing,
           Phases!Other
  <2>4. EndingInv'
    BY DEF BarrierTypes, BarrierPcs, PlacesInv, PhaseInv, EndingInv, Ending, Removing,
           Phases!Finishing, Phases!Waiting
  <2>5. CountingInv'
    BY DEF BarrierTypes, BarrierPcs, PlacesInv, PhaseInv, CountingInv, Arrivals, OldState,
           Phases!Finishing, Phases!Other
  <2>6. FinishingInv'
    BY DEF BarrierTypes, BarrierPcs, PlacesInv, PhaseInv, FinishingInv, Removing, OldState,
           Phases!Finishing, Phases!Waiting, Phases!Other
  <2>7. OldInv'
    BY DEF BarrierTypes, BarrierPcs, PhaseInv, OldInv, Renewing, Removing, OldState,
           Phases!Other
  <2>8. ArrivedInv'
    BY DEF BarrierTypes, BarrierPcs, PhaseInv, FinishingInv, ArrivedInv, Finished, OldState,
           Phases!Finishing, Phases!Waiting, Phases!Other
  <2>9. QED
    BY <2>1, <2>2, <2>3, <2>4, <2>5, <2>6, <2>7, <2>8 DEF BarrierInv
<1>5. ASSUME NEW t \in Threads, Phases!Signal(t) PROVE BarrierInv'
  <2> USE <1>0, <1>5 DEF Phases!Signal, Phases!Swap
  <2>1. CASE Phases!Full(states[my[t]])
    <3>1. UNCHANGED <<states, arrivedAt>> /\ pc[t] = "signal" /\ pc' = [pc EXCEPT ![t] = "out"]
      BY <2>1
    <3>2. BarrierTypes' /\ PlacesInv'
      BY <3>1 DEF BarrierTypes, BarrierPcs, PlacesInv, Removing
    <3>3. PhaseInv' /\ OldInv'
      BY <3>1 DEF BarrierTypes, PhaseInv, OldInv, OldState, Removing, Renewing,
                  Phases!Finishing, Phases!Other
    <3>4. EndingInv'
      BY <3>1 DEF BarrierTypes, EndingInv, Ending, Removing, Phases!Finishing, Phases!Waiting
    <3>5. CountingInv'
      <4>1. Arrivals' = Arrivals
        BY <3>1 DEF BarrierTypes, Arrivals
      <4>2. QED
        BY <3>1, <4>1 DEF BarrierTypes, CountingInv, OldState, Phases!Finishing, Phases!Other
    <3>6. FinishingInv'
      BY <3>1 DEF BarrierTypes, FinishingInv, Removing, OldState, Phases!Finishing,
                  Phases!Waiting, Phases!Other
    <3>7. ArrivedInv'
      BY <3>1 DEF BarrierTypes, ArrivedInv, Finished, OldState, Phases!Waiting, Phases!Other
    <3>8. QED
      BY <3>2, <3>3, <3>4, <3>5, <3>6, <3>7 DEF BarrierInv
  <2>2. CASE ~Phases!Full(states[my[t]])
    <3> DEFINE w == states[phaseState]
               isLast == Phases!Full(w + 1)
               n == Cardinality(members)
               a == Cardinality(Arrivals)
    <3>1. pc[t] = "signal" /\ t \in members /\ my[t] = phaseState
      BY <2>2 DEF BarrierTypes, PlacesInv, PhaseInv, OldState, Phases!Other
    <3>2. \A f \in Threads : ~Phases!Finishing(f)
      BY <2>2, <3>1 DEF FinishingInv, Phases!Finishing, Phases!Waiting
    <3>3. /\ states' = [states EXCEPT ![phaseState] = w + 1]
          /\ pc' = [pc EXCEPT ![t] = IF isLast THEN "finish" ELSE "wait"]
          /\ arrivedAt' = [arrivedAt EXCEPT ![t] = number]
          /\ UNCHANGED <<mode, members, phaseState, number, event, my>>
      BY <2>2, <3>1
    <3>4. /\ n \in Nat /\ a \in Nat /\ a < n /\ n < Wide /\ w = Word(n, a)
          /\ Arrivals \subseteq members /\ t \notin Arrivals
      BY <1>0, <3>1, <3>2, CountLemma DEF BarrierInv, Arrivals
    <3>5. w + 1 = Word(n, a + 1) /\ w + 1 \in Nat /\ Phases!Partners(w + 1) = n
          /\ (isLast <=> a + 1 = n)
      <4> HIDE DEF n, a
      <4>1. a + 1 \in Nat /\ a + 1 < Wide
        BY <3>4, EventsAssumption DEF Phases!BarrierAssumption
      <4>2. w + 1 = Word(n, a + 1)
        BY <3>4, WordSteps
      <4>3. /\ Word(n, a + 1) \in Nat /\ Phases!Partners(Word(n, a + 1)) = n
            /\ Phases!Full(Word(n, a + 1)) <=> a + 1 = n
        BY <3>4, <4>1, WordLemma
      <4>4. QED
        BY <4>2, <4>3
    <3>6. /\ Arrivals \cup {t} \subseteq members /\ Cardinality(Arrivals \cup {t}) = a + 1
          /\ isLast => members = Arrivals \cup {t}
      <4>1. Arrivals \cup {t} \subseteq members /\ members \subseteq Threads
        BY <3>1, <3>4 DEF BarrierTypes
      <4>2. Cardinality(Arrivals \cup {t}) = a + 1
        BY <3>4, <4>1, SubsetLemma
      <4>3. QED
        BY <3>5, <4>1, <4>2, SubsetLemma
    <3> HIDE DEF w, isLast, n, a
    <3>7. BarrierTypes' /\ PlacesInv'
      BY <3>1, <3>3, <3>5 DEF BarrierTypes, BarrierPcs, PlacesInv, Removing
    <3>8. PhaseInv' /\ OldInv'
      BY <3>1, <3>3 DEF BarrierTypes, PhaseInv, OldInv, OldState, Removing, Renewing,
                        Phases!Finishing, Phases!Other
    <3>9. isLast => \A s \in Threads : ~Ending(s)
      BY <3>1, <3>2, <3>6
         DEF BarrierTypes, PlacesInv, PhaseInv, EndingInv, Ending, Arrivals, OldState,
             Phases!Waiting, Phases!Other
    <3>10. EndingInv'
      BY <3>1, <3>3, <3>9
         DEF BarrierTypes, EndingInv, Ending, Removing, Phases!Finishing, Phases!Waiting
    <3>11. CountingInv'
      <4>1. CASE isLast
        BY <3>3, <4>1 DEF BarrierTypes, CountingInv, Phases!Finishing
      <4>2. CASE ~isLast
        <5>1. Arrivals' = Arrivals \cup {t}
          BY <3>1, <3>3, <4>2 DEF BarrierTypes, Arrivals
        <5>2. Cardinality(Arrivals') = a + 1 /\ a + 1 < n
          BY <3>4, <3>5, <3>6, <4>2, <5>1
        <5>3. states'[phaseState'] = Word(Cardinality(members'), Cardinality(Arrivals'))
          BY <3>3, <3>5, <5>2 DEF BarrierTypes, n
        <5>4. QED
          BY <3>2, <3>3, <4>2, <5>2, <5>3
             DEF BarrierTypes, CountingInv, OldState, Phases!Finishing, Phases!Other, n
      <4>3. QED
        BY <4>1, <4>2
    <3>12. FinishingInv'
      <4>1. CASE isLast
        BY <3>1, <3>2, <3>3, <3>5, <3>6, <3>9, <4>1
           DEF BarrierTypes, PlacesInv, FinishingInv, Arrivals, Removing, OldState, Ending,
               Phases!Finishing, Phases!Waiting, Phases!Other, isLast, n
      <4>2. CASE ~isLast
        BY <3>2, <3>3, <4>2 DEF BarrierTypes, FinishingInv, Phases!Finishing
      <4>3. QED
        BY <4>1, <4>2
    <3>13. ArrivedInv'
      BY <3>1, <3>2, <3>3
         DEF BarrierTypes, ArrivedInv, Finished, OldState, Phases!Finishing, Phases!Waiting,
             Phases!Other
    <3>14. QED
      BY <3>7, <3>8, <3>10, <3>11, <3>12, <3>13 DEF BarrierInv
  <2>3. QED
    BY <2>1, <2>2
<1>6. ASSUME NEW t \in Threads, Phases!Released(t) PROVE BarrierInv'
  <2> USE <1>0, <1>6 DEF Phases!Released
  <2>1. BarrierTypes'
    BY DEF BarrierTypes, BarrierPcs
  <2>2. PlacesInv'
    BY DEF BarrierTypes, BarrierPcs, PlacesInv, Removing
  <2>3. PhaseInv'
    BY DEF BarrierTypes, BarrierPcs, PlacesInv, PhaseInv, OldState, Removing, Phases!Finishing,
           Phases!Other
  <2>4. EndingInv'
    BY DEF BarrierTypes, BarrierPcs, PlacesInv, PhaseInv, EndingInv, Ending, Removing,
           Phases!Finishing, Phases!Waiting
  <2>5. CountingInv'
    <3>1. Arrivals' = Arrivals
      BY DEF BarrierTypes, PhaseInv, Arrivals
    <3>2. QED
      BY <3>1 DEF BarrierTypes, BarrierPcs, CountingInv, OldState, Phases!Finishing,
             Phases!Other
  <2>6. FinishingInv'
    BY DEF BarrierTypes, BarrierPcs, PlacesInv, PhaseInv, FinishingInv, Removing, OldState,
           Phases!Finishing, Phases!Waiting, Phases!Other
  <2>7. OldInv'
    BY DEF BarrierTypes, BarrierPcs, PhaseInv, OldInv, Renewing, Removing, OldState,
           Phases!Other
  <2>8. ArrivedInv'
    BY DEF BarrierTypes, BarrierPcs, PhaseInv, FinishingInv, ArrivedInv, Finished, OldState,
           Phases!Finishing, Phases!Waiting, Phases!Other
  <2>9. QED
    BY <2>1, <2>2, <2>3, <2>4, <2>5, <2>6, <2>7, <2>8 DEF BarrierInv
<1>7. ASSUME NEW t \in Threads, Phases!UndoArrival(t) PROVE BarrierInv'
  <2> USE <1>0, <1>7 DEF Phases!UndoArrival, Phases!Swap
  <2>1. CASE Phases!Full(states[my[t]])
    <3>1. pc[t] = "undo" /\ pc' = [pc EXCEPT ![t] = "waitOver"] /\ UNCHANGED states
      BY <2>1
    <3>2. BarrierTypes' /\ PlacesInv'
      BY <3>1 DEF BarrierTypes, BarrierPcs, PlacesInv, Removing
    <3>3. PhaseInv' /\ OldInv'
      BY <3>1 DEF BarrierTypes, PhaseInv, OldInv, OldState, Removing, Renewing,
                  Phases!Finishing, Phases!Other
    <3>4. EndingInv'
      BY <3>1 DEF BarrierTypes, EndingInv, Ending, Removing, Phases!Finishing, Phases!Waiting
    <3>5. CountingInv'
      <4> SUFFICES ASSUME \A f \in Threads : ~Phases!Finishing(f)' PROVE CountingInv'
        BY DEF CountingInv
      <4>1. \A f \in Threads : ~Phases!Finishing(f)
        BY <3>1 DEF BarrierTypes, Phases!Finishing
      <4>2. my[t] # phaseState
        BY <1>0, <2>1, <4>1, CountLemma DEF BarrierInv
      <4>3. Arrivals' = Arrivals
        BY <3>1, <4>2 DEF BarrierTypes, Arrivals
      <4>4. QED
        BY <3>1, <4>1, <4>2, <4>3 DEF BarrierTypes, CountingInv, OldState, Phases!Other
    <3>6. FinishingInv'
      BY <3>1 DEF BarrierTypes, FinishingInv, Removing, OldState, Phases!Finishing,
                  Phases!Waiting, Phases!Other
    <3>7. ArrivedInv'
      BY <3>1 DEF BarrierTypes, ArrivedInv, Finished, OldState, Phases!Waiting, Phases!Other
    <3>8. QED
      BY <3>2, <3>3, <3>4, <3>5, <3>6, <3>7 DEF BarrierInv
  <2>2. CASE ~Phases!Full(states[my[t]])
    <3> DEFINE n == Cardinality(members)
               a == Cardinality(Arrivals)
    <3>1. pc[t] = "undo" /\ t \in members /\ ~Removing
      BY DEF PlacesInv
    <3>2. \A f \in Threads : ~Phases!Finishing(f)
      BY <2>2, <3>1 DEF FinishingInv, Phases!Finishing, Phases!Waiting
    <3>3. my[t] = phaseState
      BY <2>2, <3>1, <3>2
         DEF BarrierTypes, OldInv, Renewing, OldState, Phases!Finishing, Phases!Other
    <3>4. /\ n \in Nat /\ a \in Nat /\ a < n /\ n < Wide /\ states[phaseState] = Word(n, a)
          /\ Arrivals \subseteq members /\ t \in Arrivals
      BY <1>0, <3>1, <3>2, <3>3, CountLemma DEF BarrierInv, Arrivals
    <3>5. /\ Arrivals' = Arrivals \ {t}
          /\ UNCHANGED <<mode, members, phaseState, number, event, my, arrivedAt>>
          /\ pc' = [pc EXCEPT ![t] = "out"]
      BY <2>2, <3>1, <3>3 DEF BarrierTypes, Arrivals
    <3>6. Cardinality(Arrivals') = a - 1 /\ a - 1 \in Nat
      BY <3>4, <3>5, SubsetLemma DEF BarrierTypes
    <3>7. states[phaseState] - 1 = Word(n, a - 1) /\ Word(n, a - 1) \in Nat
      <4> HIDE DEF n, a
      <4>1. a - 1 < Wide /\ a - 1 + 1 = a
        BY <3>4, <3>6, EventsAssumption DEF Phases!BarrierAssumption
      <4>2. QED
        BY <3>4, <3>6, <4>1, WordSteps, WordLemma
    <3>8. states' = [states EXCEPT ![phaseState] = Word(n, a - 1)]
      BY <2>2, <3>3, <3>7
    <3> HIDE DEF n, a
    <3>9. BarrierTypes' /\ PlacesInv'
      BY <3>1, <3>5, <3>7, <3>8 DEF BarrierTypes, BarrierPcs, PlacesInv, Removing
    <3>10. PhaseInv' /\ OldInv'
      BY <3>1, <3>2, <3>5, <3>8
         DEF BarrierTypes, PhaseInv, OldInv, OldState, Removing, Renewing, Phases!Finishing,
             Phases!Other
    <3>11. EndingInv'
      BY <3>1, <3>5 DEF BarrierTypes, EndingInv, Ending, Removing, Phases!Finishing,
                        Phases!Waiting
    <3>12. CountingInv'
      BY <3>2, <3>4, <3>5, <3>6, <3>8
         DEF BarrierTypes, CountingInv, OldState, Phases!Finishing, Phases!Other, n
    <3>13. FinishingInv'
      BY <3>2, <3>5 DEF BarrierTypes, FinishingInv, Phases!Finishing
    <3>14. ArrivedInv'
      BY <3>5 DEF BarrierTypes, ArrivedInv, Finished, OldState, Phases!Waiting, Phases!Other
    <3>15. QED
      BY <3>9, <3>10, <3>11, <3>12, <3>13, <3>14 DEF BarrierInv
  <2>3. QED
    BY <2>1, <2>2
<1>8. ASSUME NEW t \in Threads, Phases!CountPhase(t) PROVE BarrierInv'
  <2> USE <1>0, <1>8 DEF Phases!CountPhase
  <2>1. BarrierTypes'
    BY DEF BarrierTypes, BarrierPcs
  <2>2. PlacesInv'
    BY DEF BarrierTypes, BarrierPcs, PlacesInv, Removing
  <2>3. PhaseInv'
    BY DEF BarrierTypes, BarrierPcs, PlacesInv, PhaseInv, OldState, Removing, Phases!Finishing,
           Phases!Other
  <2>4. EndingInv'
    BY DEF BarrierTypes, BarrierPcs, PlacesInv, PhaseInv, EndingInv, Ending, Removing,
           Phases!Finishing, Phases!Waiting
  <2>5. CountingInv'
    BY DEF BarrierTypes, BarrierPcs, PlacesInv, PhaseInv, CountingInv, Arrivals, OldState,
           Phases!Finishing, Phases!Other
  <2>6. FinishingInv'
    BY DEF BarrierTypes, BarrierPcs, PlacesInv, PhaseInv, FinishingInv, Removing, OldState,
           Phases!Finishing, Phases!Waiting, Phases!Other
  <2>7. OldInv'
    BY DEF BarrierTypes, BarrierPcs, PhaseInv, OldInv, Renewing, Removing, OldState,
           Phases!Other
  <2>8. ArrivedInv'
    BY DEF BarrierTypes, BarrierPcs, PhaseInv, FinishingInv, ArrivedInv, Finished, OldState,
           Phases!Finishing, Phases!Waiting, Phases!Other
  <2>9. QED
    BY <2>1, <2>2, <2>3, <2>4, <2>5, <2>6, <2>7, <2>8 DEF BarrierInv
<1>9. ASSUME NEW t \in Threads, Phases!NextState(t) PROVE BarrierInv'
  <2> USE <1>0, <1>9 DEF Phases!NextState
  <2>0. /\ Phases!Partners(states[phaseState]) * Wide = Word(Cardinality(members), 0)
        /\ Word(Cardinality(members), 0) \in Nat
    <3>1. Cardinality(members) \in Nat /\ 0 < Wide
      BY SubsetLemma DEF BarrierTypes
    <3>2. Phases!Partners(states[phaseState]) = Cardinality(members)
      BY DEF FinishingInv, Phases!Finishing
    <3>3. QED
      BY <3>1, <3>2, WordLemma, WordSteps
  <2>1. BarrierTypes'
    BY <2>0 DEF BarrierTypes, BarrierPcs, Phases!Other
  <2>2. PlacesInv'
    BY DEF BarrierTypes, BarrierPcs, PlacesInv, Removing
  <2>3. PhaseInv'
    BY DEF BarrierTypes, BarrierPcs, PlacesInv, PhaseInv, FinishingInv, OldState, Removing,
           Phases!Finishing, Phases!Waiting, Phases!Other
  <2>4. EndingInv'
    BY DEF BarrierTypes, BarrierPcs, PlacesInv, PhaseInv, EndingInv, Ending, Removing,
           Phases!Finishing, Phases!Waiting
  <2>5. CountingInv'
    BY DEF BarrierTypes, BarrierPcs, PlacesInv, PhaseInv, CountingInv, Arrivals, OldState,
           Phases!Finishing, Phases!Other
  <2>6. FinishingInv'
    BY <2>0 DEF BarrierTypes, PlacesInv, PhaseInv, FinishingInv, EndingInv, Ending, Removing,
           OldState, Phases!Finishing, Phases!Waiting, Phases!Other
  <2>7. OldInv'
    BY DEF BarrierTypes, BarrierPcs, PhaseInv, OldInv, Renewing, Removing, OldState,
           Phases!Other
  <2>8. ArrivedInv'
    BY DEF BarrierTypes, BarrierPcs, PhaseInv, FinishingInv, ArrivedInv, Finished, OldState,
           Phases!Finishing, Phases!Waiting, Phases!Other
  <2>9. QED
    BY <2>1, <2>2, <2>3, <2>4, <2>5, <2>6, <2>7, <2>8 DEF BarrierInv
<1>10. ASSUME NEW t \in Threads, Phases!InitEvent(t) PROVE BarrierInv'
  <2> USE <1>0, <1>10 DEF Phases!InitEvent
  <2>1. BarrierTypes'
    BY DEF BarrierTypes, BarrierPcs
  <2>2. PlacesInv'
    BY DEF BarrierTypes, BarrierPcs, PlacesInv, Removing
  <2>3. PhaseInv'
    BY DEF BarrierTypes, BarrierPcs, PlacesInv, PhaseInv, OldState, Removing, Phases!Finishing,
           Phases!Other
  <2>4. EndingInv'
    BY DEF BarrierTypes, BarrierPcs, PlacesInv, PhaseInv, EndingInv, Ending, Removing,
           Phases!Finishing, Phases!Waiting
  <2>5. CountingInv'
    BY DEF BarrierTypes, BarrierPcs, PlacesInv, PhaseInv, CountingInv, Arrivals, OldState,
           Phases!Finishing, Phases!Other
  <2>6. FinishingInv'
    BY DEF BarrierTypes, BarrierPcs, PlacesInv, PhaseInv, FinishingInv, Removing, OldState,
           Phases!Finishing, Phases!Waiting, Phases!Other
  <2>7. OldInv'
    BY DEF BarrierTypes, BarrierPcs, PhaseInv, OldInv, Renewing, Removing, OldState,
           Phases!Other
  <2>8. ArrivedInv'
    BY DEF BarrierTypes, BarrierPcs, PhaseInv, FinishingInv, ArrivedInv, Finished, OldState,
           Phases!Finishing, Phases!Waiting, Phases!Other
  <2>9. QED
    BY <2>1, <2>2, <2>3, <2>4, <2>5, <2>6, <2>7, <2>8 DEF BarrierInv
<1>11. ASSUME NEW t \in Threads, Phases!Publish(t) PROVE BarrierInv'
  <2> USE <1>0, <1>11 DEF Phases!Publish
  <2>1. BarrierTypes'
    BY DEF BarrierTypes, BarrierPcs, Phases!Other
  <2>2. PlacesInv'
    BY DEF BarrierTypes, BarrierPcs, PlacesInv, Removing
  <2>3. PhaseInv'
    BY DEF BarrierTypes, PlacesInv, PhaseInv, FinishingInv, EndingInv, Ending, Removing,
           OldState,
           Phases!Finishing, Phases!Waiting, Phases!Other
  <2>4. EndingInv'
    BY DEF BarrierTypes, BarrierPcs, PlacesInv, PhaseInv, EndingInv, Ending, Removing,
           Phases!Finishing, Phases!Waiting
  <2>5. CountingInv'
    <3>1. \A s \in Threads : Phases!Waiting(s) => s # t /\ my[s] = phaseState /\ my'[s] = OldState'
      BY DEF BarrierTypes, FinishingInv, OldState, Phases!Finishing, Phases!Waiting,
             Phases!Other
    <3>2. Arrivals' = {}
      BY <3>1 DEF BarrierTypes, Arrivals, OldState, Phases!Waiting, Phases!Other
    <3>3. Cardinality(Arrivals') = 0 /\ Cardinality(members) > 0
      BY <3>2, SubsetLemma, FS_EmptySet
         DEF BarrierTypes, PlacesInv, EndingInv, Ending, Phases!Finishing, Phases!Waiting
    <3>4. states'[phaseState'] = Word(Cardinality(members'), 0)
      BY DEF FinishingInv, OldState, Phases!Finishing
    <3>5. \A s \in Threads : pc'[s] = "waitOver" => my'[s] = OldState'
      BY <3>1 DEF BarrierTypes, Phases!Waiting
    <3>6. QED
      BY <3>3, <3>4, <3>5 DEF CountingInv
  <2>6. FinishingInv'
    BY DEF BarrierTypes, FinishingInv, EndingInv, Ending, Phases!Finishing
  <2>7. OldInv'
    BY DEF BarrierTypes, FinishingInv, OldInv, OldState, Removing, Phases!Finishing,
           Phases!Other
  <2>8. ArrivedInv'
    BY DEF BarrierTypes, BarrierPcs, PhaseInv, FinishingInv, ArrivedInv, Finished, OldState,
           Phases!Finishing, Phases!Waiting, Phases!Other
  <2>9. QED
    BY <2>1, <2>2, <2>3, <2>4, <2>5, <2>6, <2>7, <2>8 DEF BarrierInv
<1>12. ASSUME NEW t \in Threads, Phases!SetEvent(t) PROVE BarrierInv'
  <2> USE <1>0, <1>12 DEF Phases!SetEvent
  <2>1. BarrierTypes'
    BY DEF BarrierTypes, BarrierPcs
  <2>2. PlacesInv'
    BY DEF BarrierTypes, BarrierPcs, PlacesInv, Removing
  <2>3. PhaseInv'
    BY DEF BarrierTypes, BarrierPcs, PlacesInv, PhaseInv, EndingInv, Ending, OldState, Removing,
           Phases!Finishing, Phases!Other
  <2>4. EndingInv'
    BY DEF BarrierTypes, BarrierPcs, PlacesInv, PhaseInv, EndingInv, Ending, Removing,
           Phases!Finishing, Phases!Waiting
  <2>5. CountingInv'
    BY DEF BarrierTypes, BarrierPcs, PlacesInv, PhaseInv, CountingInv, Arrivals, OldState,
           Phases!Finishing, Phases!Other
  <2>6. FinishingInv'
    BY DEF BarrierTypes, BarrierPcs, PlacesInv, PhaseInv, FinishingInv, Removing, OldState,
           Phases!Finishing, Phases!Waiting, Phases!Other
  <2>7. OldInv'
    BY DEF BarrierTypes, BarrierPcs, PhaseInv, OldInv, Renewing, Removing, OldState,
           Phases!Other
  <2>8. ArrivedInv'
    BY DEF BarrierTypes, BarrierPcs, PhaseInv, FinishingInv, ArrivedInv, Finished, OldState,
           Phases!Finishing, Phases!Waiting, Phases!Other
  <2>9. QED
    BY <2>1, <2>2, <2>3, <2>4, <2>5, <2>6, <2>7, <2>8 DEF BarrierInv
<1>13. ASSUME NEW t \in Threads, Phases!Add(t) PROVE BarrierInv'
  <2> USE <1>0, <1>13 DEF Phases!Add, Phases!Swap
  <2>1. CASE Phases!Full(states[my[t]])
    <3>1. /\ pc[t] = "add" /\ pc' = [pc EXCEPT ![t] = "addWait"]
          /\ UNCHANGED <<states, members>>
      BY <2>1
    <3>2. BarrierTypes' /\ PlacesInv'
      BY <3>1 DEF BarrierTypes, BarrierPcs, PlacesInv, Removing
    <3>3. PhaseInv' /\ OldInv'
      BY <3>1 DEF BarrierTypes, PhaseInv, OldInv, OldState, Removing, Renewing,
                  Phases!Finishing, Phases!Other
    <3>4. EndingInv'
      BY <3>1 DEF BarrierTypes, EndingInv, Ending, Removing, Phases!Finishing, Phases!Waiting
    <3>5. CountingInv'
      <4>1. Arrivals' = Arrivals
        BY <3>1 DEF BarrierTypes, Arrivals
      <4>2. QED
        BY <3>1, <4>1 DEF BarrierTypes, CountingInv, OldState, Phases!Finishing, Phases!Other
    <3>6. FinishingInv'
      BY <3>1 DEF BarrierTypes, FinishingInv, Removing, OldState, Phases!Finishing,
                  Phases!Waiting, Phases!Other
    <3>7. ArrivedInv'
      BY <3>1 DEF BarrierTypes, ArrivedInv, Finished, OldState, Phases!Waiting, Phases!Other
    <3>8. QED
      BY <3>2, <3>3, <3>4, <3>5, <3>6, <3>7 DEF BarrierInv
  <2>2. CASE ~Phases!Full(states[my[t]])
    <3> DEFINE n == Cardinality(members)
               a == Cardinality(Arrivals)
               w == states[my[t]] + Wide
    <3>1. pc[t] = "add" /\ t \notin members /\ ~Removing
      BY DEF PlacesInv
    <3>2. /\ states' = [states EXCEPT ![my[t]] = w] /\ members' = members \cup {t}
          /\ pc' = [pc EXCEPT ![t] = "out"]
          /\ UNCHANGED <<mode, phaseState, number, event, my, arrivedAt>>
      BY <2>2
    <3>3. w \in Nat
      BY EventsAssumption DEF BarrierTypes, Phases!BarrierAssumption
    <3>4. n \in Nat /\ a \in Nat /\ Cardinality(members') = n + 1 /\ Arrivals' = Arrivals
      BY <3>1, <3>2, SubsetLemma DEF BarrierTypes, Arrivals
    <3>5. CASE my[t] = phaseState
      <4>1. \A f \in Threads : ~Phases!Finishing(f)
        BY <2>2, <3>1, <3>5 DEF FinishingInv
      <4>2. a < n /\ w = Word(n + 1, a)
        BY <1>0, <3>4, <3>5, <4>1, CountLemma, WordSteps DEF BarrierInv
      <4> HIDE DEF n, a, w
      <4>3. BarrierTypes' /\ PlacesInv'
        BY <3>1, <3>2, <3>3 DEF BarrierTypes, BarrierPcs, PlacesInv, Removing
      <4>4. PhaseInv' /\ OldInv'
        BY <3>1, <3>2, <3>5 DEF BarrierTypes, PhaseInv, OldInv, OldState, Removing, Renewing,
                                Phases!Finishing, Phases!Other
      <4>5. EndingInv'
        BY <3>1, <3>2 DEF BarrierTypes, EndingInv, Ending, Removing, Phases!Finishing,
                          Phases!Waiting
      <4>6. CountingInv'
        <5>1. states'[phaseState'] = Word(Cardinality(members'), Cardinality(Arrivals'))
          BY <3>2, <3>4, <3>5, <4>2 DEF BarrierTypes, a
        <5>2. Cardinality(Arrivals') < Cardinality(members')
          BY <3>4, <4>2 DEF a
        <5>3. QED
          BY <3>2, <4>1, <5>1, <5>2
             DEF BarrierTypes, CountingInv, OldState, Phases!Finishing, Phases!Other
      <4>7. FinishingInv'
        BY <3>2, <4>1 DEF BarrierTypes, FinishingInv, Phases!Finishing
      <4>8. ArrivedInv'
        BY <3>2 DEF BarrierTypes, ArrivedInv, Finished, OldState, Phases!Waiting, Phases!Other
      <4>9. QED
        BY <4>3, <4>4, <4>5, <4>6, <4>7, <4>8 DEF BarrierInv
    <3>6. CASE my[t] # phaseState
      <4>1. my[t] = OldState /\ OldState # phaseState
        BY <3>6 DEF BarrierTypes, OldState, Phases!Other
      <4>2. PICK f \in Threads : pc[f] \in {"initEvent", "publish"}
        BY <2>2, <3>1, <4>1 DEF OldInv, Renewing
      <4>3. \A s \in Threads : Phases!Finishing(s) => s = f
        BY <4>2 DEF EndingInv, Ending, Phases!Finishing
      <4>4. w = Word(n + 1, 0)
        BY <3>4, <4>1, <4>2, WordSteps DEF FinishingInv, Phases!Finishing
      <4> HIDE DEF n, a, w
      <4>5. BarrierTypes' /\ PlacesInv'
        BY <3>1, <3>2, <3>3 DEF BarrierTypes, BarrierPcs, PlacesInv, Removing
      <4>6. \A s \in Threads : pc[s] = "signal" => my[s] = phaseState
        <5>1. ~Phases!Full(states[OldState])
          BY <2>2, <4>1
        <5>2. QED
          BY <5>1 DEF PhaseInv
      <4>7. PhaseInv'
        BY <3>1, <3>2, <4>6
           DEF BarrierTypes, PhaseInv, OldState, Removing, Phases!Finishing, Phases!Other
      <4>8. EndingInv'
        BY <3>1, <3>2 DEF BarrierTypes, EndingInv, Ending, Removing, Phases!Finishing,
                          Phases!Waiting
      <4>9. CountingInv' /\ OldInv'
        BY <3>1, <3>2, <4>2 DEF BarrierTypes, CountingInv, OldInv, Renewing, Phases!Finishing
      <4>10. FinishingInv'
        BY <3>1, <3>2, <3>4, <4>1, <4>2, <4>3, <4>4
           DEF BarrierTypes, FinishingInv, Removing, OldState, Phases!Finishing,
               Phases!Waiting, Phases!Other
      <4>11. ArrivedInv'
        BY <3>2 DEF BarrierTypes, ArrivedInv, Finished, OldState, Phases!Waiting, Phases!Other
      <4>12. QED
        BY <4>5, <4>7, <4>8, <4>9, <4>10, <4>11 DEF BarrierInv
    <3>7. QED
      BY <3>5, <3>6
  <2>3. QED
    BY <2>1, <2>2
<1>14. ASSUME NEW t \in Threads, Phases!AddRetry(t) PROVE BarrierInv'
  <2> USE <1>0, <1>14 DEF Phases!AddRetry
  <2>1. BarrierTypes'
    BY DEF BarrierTypes, BarrierPcs
  <2>2. PlacesInv'
    BY DEF BarrierTypes, BarrierPcs, PlacesInv, Removing
  <2>3. PhaseInv'
    BY DEF BarrierTypes, BarrierPcs, PlacesInv, PhaseInv, OldState, Removing, Phases!Finishing,
           Phases!Other
  <2>4. EndingInv'
    BY DEF BarrierTypes, BarrierPcs, PlacesInv, PhaseInv, EndingInv, Ending, Removing,
           Phases!Finishing, Phases!Waiting
  <2>5. CountingInv'
    BY DEF BarrierTypes, BarrierPcs, PlacesInv, PhaseInv, CountingInv, Arrivals, OldState,
           Phases!Finishing, Phases!Other
  <2>6. FinishingInv'
    BY DEF BarrierTypes, BarrierPcs, PlacesInv, PhaseInv, FinishingInv, Removing, OldState,
           Phases!Finishing, Phases!Waiting, Phases!Other
  <2>7. OldInv'
    BY DEF BarrierTypes, BarrierPcs, PhaseInv, OldInv, Renewing, Removing, OldState,
           Phases!Other
  <2>8. ArrivedInv'
    BY DEF BarrierTypes, BarrierPcs, PhaseInv, FinishingInv, ArrivedInv, Finished, OldState,
           Phases!Finishing, Phases!Waiting, Phases!Other
  <2>9. QED
    BY <2>1, <2>2, <2>3, <2>4, <2>5, <2>6, <2>7, <2>8 DEF BarrierInv
<1>15. ASSUME NEW t \in Threads, Phases!Remove(t) PROVE BarrierInv'
  <2> USE <1>0, <1>15 DEF Phases!Remove, Phases!Swap
  <2> DEFINE n == Cardinality(members)
             a == Cardinality(Arrivals)
  <2>1. pc[t] = "remove" /\ t \in members /\ my[t] = phaseState /\ Removing
    BY DEF PlacesInv, PhaseInv
  <2>2. \A f \in Threads : ~Phases!Finishing(f)
    BY <2>1 DEF FinishingInv, Phases!Finishing, Phases!Waiting
  <2>3. /\ n \in Nat /\ a \in Nat /\ a < n /\ n < Wide /\ states[phaseState] = Word(n, a)
        /\ Phases!Partners(states[phaseState]) = n /\ Phases!Arrived(states[phaseState]) = a
        /\ Arrivals \subseteq members \ {t}
    BY <1>0, <2>1, <2>2, CountLemma DEF BarrierInv, Arrivals
  <2>4. Arrivals' = Arrivals /\ UNCHANGED <<mode, phaseState, number, event, my, arrivedAt>>
    BY <2>1 DEF BarrierTypes, Arrivals
  <2>5. Cardinality(members \ {t}) = n - 1
    BY <2>1, SubsetLemma DEF BarrierTypes
  <2>6. CASE n - 1 <= 0
    <3>1. pc' = [pc EXCEPT ![t] = "out"] /\ UNCHANGED <<states, members>>
      BY <2>1, <2>3, <2>6
    <3>2. BarrierTypes' /\ PlacesInv'
      BY <2>1, <2>4, <3>1 DEF BarrierTypes, BarrierPcs, PlacesInv, Removing
    <3>3. PhaseInv' /\ OldInv'
      BY <2>1, <2>4, <3>1 DEF BarrierTypes, PhaseInv, OldInv, OldState, Removing, Renewing,
                              Phases!Finishing, Phases!Other
    <3>4. EndingInv'
      BY <2>1, <2>4, <3>1 DEF BarrierTypes, EndingInv, Ending, Removing, Phases!Finishing,
                              Phases!Waiting
    <3>5. CountingInv' /\ FinishingInv'
      BY <2>1, <2>2, <2>4, <3>1 DEF BarrierTypes, CountingInv, FinishingInv, OldState,
                                    Phases!Finishing, Phases!Other
    <3>6. ArrivedInv'
      BY <2>1, <2>4, <3>1 DEF BarrierTypes, ArrivedInv, Finished, OldState, Phases!Waiting,
                              Phases!Other
    <3>7. QED
      BY <3>2, <3>3, <3>4, <3>5, <3>6 DEF BarrierInv
  <2>7. CASE n - 1 > 0
    <3> DEFINE isLast == a = n - 1
    <3>1. (n - 1) * Wide + a = Word(n - 1, a) /\ Word(n - 1, a) \in Nat
          /\ (n - 1) * Wide = Word(n - 1, 0) /\ Word(n - 1, 0) \in Nat
          /\ Phases!Partners(Word(n - 1, 0)) = n - 1
      <4> HIDE DEF n, a
      <4>1. n - 1 \in Nat /\ a < Wide /\ 0 < Wide
        BY <2>3, <2>7, EventsAssumption DEF Phases!BarrierAssumption
      <4>2. (n - 1) * Wide + a = Word(n - 1, a) /\ (n - 1) * Wide = Word(n - 1, 0)
        BY <2>3, <4>1, WordSteps
      <4>3. /\ Word(n - 1, a) \in Nat /\ Word(n - 1, 0) \in Nat
            /\ Phases!Partners(Word(n - 1, 0)) = n - 1
        BY <2>3, <4>1, WordLemma
      <4>4. QED
        BY <4>2, <4>3
    <3>2. /\ members' = members \ {t}
          /\ states' = [states EXCEPT ![phaseState] = Word(n - 1, IF isLast THEN 0 ELSE a)]
          /\ pc' = [pc EXCEPT ![t] = IF isLast THEN "finish" ELSE "out"]
      BY <2>1, <2>3, <2>7, <3>1
    <3>3. isLast => members \ {t} = Arrivals
      BY <2>3, <2>5, SubsetLemma DEF BarrierTypes
    <3>4. BarrierTypes'
      BY <2>3, <2>4, <3>1, <3>2 DEF BarrierTypes, BarrierPcs
    <3> HIDE DEF n, a, isLast
    <3>5. PlacesInv'
      BY <2>1, <2>4, <3>2 DEF BarrierTypes, PlacesInv, Removing
    <3>6. PhaseInv' /\ OldInv'
      BY <2>1, <2>4, <3>2 DEF BarrierTypes, PhaseInv, OldInv, OldState, Removing, Renewing,
                              Phases!Finishing, Phases!Other
    <3>7. isLast => \A s \in Threads : ~Ending(s)
      BY <2>1, <2>2, <3>3
         DEF BarrierTypes, PlacesInv, PhaseInv, EndingInv, Ending, Arrivals, OldState,
             Phases!Waiting, Phases!Other
    <3>8. isLast => \E s \in Threads : Phases!Waiting(s) /\ s # t /\ my[s] = phaseState
      <4>1. isLast => Arrivals # {}
        BY <2>3, <2>7, SubsetLemma DEF BarrierTypes, isLast, a
      <4>2. QED
        BY <4>1, <2>1 DEF Arrivals, Phases!Waiting
    <3>9. EndingInv'
      BY <2>1, <2>4, <3>2, <3>7, <3>8
         DEF BarrierTypes, PlacesInv, EndingInv, Ending, Removing, Phases!Finishing,
             Phases!Waiting
    <3>10. CountingInv'
      <4>1. CASE isLast
        BY <3>2, <4>1 DEF BarrierTypes, CountingInv, Phases!Finishing
      <4>2. CASE ~isLast
        <5>1. states'[phaseState'] = Word(Cardinality(members'), Cardinality(Arrivals'))
          BY <2>4, <2>5, <3>2, <4>2 DEF BarrierTypes, a
        <5>2. Cardinality(Arrivals') < Cardinality(members')
          BY <2>3, <2>4, <2>5, <3>2, <4>2 DEF isLast, a
        <5>3. QED
          BY <2>1, <2>2, <2>4, <3>2, <5>1, <5>2
             DEF BarrierTypes, CountingInv, OldState, Phases!Finishing, Phases!Other
      <4>3. QED
        BY <4>1, <4>2
    <3>11. FinishingInv'
      <4>1. CASE isLast
        BY <2>1, <2>2, <2>4, <2>5, <3>1, <3>2, <3>3, <3>7, <4>1
           DEF BarrierTypes, PlacesInv, FinishingInv, Arrivals, Removing, OldState, Ending,
               Phases!Finishing, Phases!Waiting, Phases!Other
      <4>2. CASE ~isLast
        BY <2>2, <3>2, <4>2 DEF BarrierTypes, FinishingInv, Phases!Finishing
      <4>3. QED
        BY <4>1, <4>2
    <3>12. ArrivedInv'
      BY <2>1, <2>2, <2>4, <3>2
         DEF BarrierTypes, ArrivedInv, Finished, OldState, Phases!Finishing, Phases!Waiting,
             Phases!Other
    <3>13. QED
      BY <3>4, <3>5, <3>6, <3>9, <3>10, <3>11, <3>12 DEF BarrierInv
  <2>8. QED
    BY <2>3, <2>6, <2>7
<1>16. QED
  BY <1>1, <1>2, <1>3, <1>4, <1>5, <1>6, <1>7, <1>8, <1>9, <1>10, <1>11, <1>12, <1>13, <1>14,
         <1>15
     DEF Phases!Next, Phases!ThreadStep

\* StBarrier_Init.
LEMMA BarrierInit == Phases!Init => BarrierInv
<1> SUFFICES ASSUME Phases!Init PROVE BarrierInv
  OBVIOUS
<1> USE DEF Phases!Init
<1>1. /\ Cardinality(members) \in Nat /\ Cardinality(members) > 0
      /\ Word(0, 0) = 0 /\ Phases!Full(0)
  <2>1. members \in SUBSET Threads /\ members # {}
    OBVIOUS
  <2>2. Wide \in Nat /\ 0 < Wide
    BY <2>1, SubsetLemma, EventsAssumption DEF Phases!BarrierAssumption
  <2>3. Word(0, 0) = 0
    BY <2>2 DEF Word
  <2>4. QED
    BY <2>1, <2>2, <2>3, SubsetLemma, WordLemma
<1>2. states[0] = Word(Cardinality(members), 0) /\ states[1] = 0 /\ states[0] \in Nat
  <2>1. 0 < Wide
    BY SubsetLemma
  <2>2. Phases!Cardinality(members) = Cardinality(members)
    BY CardinalityLemma
  <2>3. QED
    BY <1>1, <2>1, <2>2, WordSteps, WordLemma
<1>3. Arrivals = {} /\ Cardinality(Arrivals) = 0
  BY FS_EmptySet DEF Arrivals
<1>4. BarrierTypes
  BY <1>2 DEF BarrierTypes, BarrierPcs
<1>5. PlacesInv /\ PhaseInv /\ EndingInv /\ FinishingInv
  BY DEF PlacesInv, PhaseInv, EndingInv, Ending, FinishingInv, OldState, Phases!Finishing,
         Phases!Waiting, Phases!Other
<1>6. CountingInv
  BY <1>1, <1>2, <1>3 DEF CountingInv
<1>7. OldInv
  BY <1>1, <1>2 DEF OldInv, OldState, Phases!Other
<1>8. ArrivedInv
  <2>1. number = 0 /\ 0 <= number /\ \A t \in Threads : arrivedAt[t] = 0
    BY <1>4 DEF BarrierTypes
  <2>2. \A t \in Threads : arrivedAt[t] <= number /\ ~Phases!Waiting(t)
    BY <2>1 DEF Phases!Waiting
  <2>3. QED
    BY <2>2 DEF ArrivedInv
<1>9. QED
  BY <1>4, <1>5, <1>6, <1>7, <1>8 DEF BarrierInv

\* The barrier among the systems of MCEvents.
BarrierOK == which = "barrier" => BarrierInv

\* A step that leaves the barrier alone keeps it too.
LEMMA BarrierStutter ==
  ASSUME BarrierInv, UNCHANGED <<barrierVars, pc>> PROVE BarrierInv'
BY DEF BarrierInv, BarrierTypes, PlacesInv, PhaseInv, EndingInv, CountingInv, FinishingInv,
       OldInv, ArrivedInv, barrierVars, Removing, Renewing, Finished, Arrivals, OldState,
       Ending, Phases!Finishing, Phases!Waiting, Phases!Other

\* The invariant of the barrier holds in every behaviour.
THEOREM BarrierKeepsInvariant == MCSpec => []BarrierOK
<1>1. MCInit => BarrierOK
  BY BarrierInit DEF MCInit, BarrierOK
<1>2. BarrierOK /\ [MCNext]_mcVars => BarrierOK'
  <2> SUFFICES ASSUME BarrierOK, [MCNext]_mcVars, which' = "barrier" PROVE BarrierInv'
    BY DEF BarrierOK
  <2>1. CASE MCNext
    BY <2>1, BarrierNext DEF MCNext, Others, BarrierOK
  <2>2. CASE UNCHANGED mcVars
    BY <2>2, BarrierStutter DEF mcVars, sharedVars, BarrierOK
  <2>3. QED
    BY <2>1, <2>2
<1>3. QED
  BY <1>1, <1>2, PTL DEF MCSpec

\* Outside of FinishPhase the word of the current phase counts the partners and those who
\* have arrived: no arrival, addition or removal is lost.
THEOREM BarrierWordsCount == MCSpec => []WordCounts
<1>1. BarrierOK => WordCounts
  BY CountLemma, CardinalityLemma
     DEF BarrierOK, WordCounts, Phases!WordCounts, Arrivals
<1>2. QED
  BY <1>1, BarrierKeepsInvariant, PTL

\* A partner leaves a phase only when the phase is over, although the last one to arrive
\* reuses the phase state before the one (StBarrier_SignalAndWaitEx, FinishPhase).
THEOREM NobodyPassesEarly == MCSpec => []NobodyEarly
<1>1. BarrierInv => Phases!NobodyEarly
  BY DEF BarrierInv, BarrierTypes, PhaseInv, FinishingInv, ArrivedInv, Finished, OldState,
         Phases!NobodyEarly, Phases!Finishing, Phases!Waiting, Phases!Other
<1>2. BarrierOK => NobodyEarly
  BY <1>1 DEF BarrierOK, NobodyEarly
<1>3. QED
  BY <1>2, BarrierKeepsInvariant, PTL
=============================================================================
