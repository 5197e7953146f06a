-------------------------- MODULE NotificationEvent --------------------------
(***************************************************************************)
(* The notification (manual-reset) event: StNotificationEvent_WaitEx, Wait,*)
(* Set and Reset, and the private UnparkWaitList and UnlinkListEntry.      *)
(*                                                                         *)
(* Event->State packs three things: the Set bit (set), the Lock bit (lock) *)
(* and the head of a stack of wait blocks (list).  Set swaps the whole     *)
(* word and unparks the stack it took, unless the lock bit is set: then it *)
(* only adds the Set bit, and the thread that holds the lock bit, because  *)
(* it is filtering cancelled wait blocks out of the stack, unparks.        *)
(*                                                                         *)
(* A wait block and its parker live in the frame of the waiting call; the  *)
(* parker follows the contract of Parker.  A read and the compare-and-swap *)
(* that succeeds on it are one step.                                       *)
(***************************************************************************)
EXTENDS WaitLists

CONSTANT Threads

VARIABLES
  set, lock, list,   \* the three parts of Event->State
  spinCount,         \* Event->SpinCount (0, or not)
  pc,                \* control state of each thread ("action": see CountDownEvent)
  count, unparked,   \* the parker of each thread
  unlinked,          \* 1 when Entry->Flink = Entry
  grabbed,           \* what is left of the stack the thread walks
  kept,              \* the list First..Last that SlowUnlinkListEntry builds
  waking,            \* the entry whose parker the thread has locked, in a <<>>
  promised           \* ghost: the event was set since the thread parked

listVars == <<set, lock, list>>
waitVars == <<count, promised>>
vars == <<listVars, spinCount, pc, waitVars, unparked, unlinked, grabbed, kept,
          waking>>

Pcs == {"out", "tail", "parked", "unlink", "slow", "filter", "spinUnlinked",
        "unparkList", "unparkSpin", "reset", "action"}

InitSet(s) ==
  /\ set = s /\ lock = 0 /\ list = <<>> /\ spinCount \in {0, 1}
  /\ pc = [t \in Threads |-> "out"]
  /\ count = [t \in Threads |-> 0] /\ unparked = [t \in Threads |-> 0]
  /\ unlinked = [t \in Threads |-> 0] /\ grabbed = [t \in Threads |-> <<>>]
  /\ kept = [t \in Threads |-> <<>>] /\ waking = [t \in Threads |-> <<>>]
  /\ promised = [t \in Threads |-> 0]

\* StNotificationEvent_Init
Init == \E s \in {0, 1} : InitSet(s)

Step(t, from, to) == pc[t] = from /\ pc' = [pc EXCEPT ![t] = to]

-----------------------------------------------------------------------------
(* Waiting *)

\* StNotificationEvent_WaitEx and Wait: an event that is set, or a null
\* timeout, returns at once and changes nothing.
WaitEx(t) ==
  /\ set = 0 /\ Step(t, "out", "tail")
  /\ count' = [count EXCEPT ![t] = 1] /\ promised' = [promised EXCEPT ![t] = 0]
  /\ unparked' = [unparked EXCEPT ![t] = 0]
  /\ unlinked' = [unlinked EXCEPT ![t] = 0]
  /\ UNCHANGED <<listVars, spinCount, grabbed, kept, waking>>

\* WaitTail: push the wait block, keeping the lock bit, unless the event was
\* set meanwhile.
WaitTail(t) ==
  /\ \/ set = 1 /\ Step(t, "tail", "out") /\ UNCHANGED list
     \/ set = 0 /\ Step(t, "tail", "parked") /\ list' = <<t>> \o list
  /\ UNCHANGED <<set, lock, spinCount, waitVars, unparked, unlinked, grabbed, kept,
                 waking>>

\* ParkThreadEx returns WAIT_SUCCESS ...
Unparked(t) ==
  /\ unparked[t] = 1 /\ Step(t, "parked", "out")
  /\ UNCHANGED <<listVars, spinCount, waitVars, unparked, unlinked, grabbed, kept,
                 waking>>

\* Mutant: a cancelled wait returns without unlinking its block.
Cancelled_NoUnlink(t) ==
  /\ count[t] = 1 /\ Step(t, "parked", "out")
  /\ count' = [count EXCEPT ![t] = 0]
  /\ UNCHANGED <<listVars, spinCount, promised, unparked, unlinked, grabbed,
                 kept, waking>>

\* ... or a canceller wins the parker: the timeout expired, the alerter was set,
\* or there is no park spot.
Cancelled(t) ==
  /\ count[t] = 1 /\ Step(t, "parked", "unlink")
  /\ count' = [count EXCEPT ![t] = 0]
  /\ UNCHANGED <<listVars, spinCount, promised, unparked, unlinked, grabbed,
                 kept, waking>>

\* The state is the entry alone, with no bit set.
Alone(t) == set = 0 /\ lock = 0 /\ list = <<t>>

\* UnlinkListEntry, the inlined part.  A test that read an older state goes on
\* to the slow path too.
UnlinkListEntry(t) ==
  /\ \/ unlinked[t] = 1 /\ Step(t, "unlink", "out") /\ UNCHANGED list
     \/ Alone(t) /\ list' = <<>> /\ Step(t, "unlink", "out")
     \/ Step(t, "unlink", "slow") /\ UNCHANGED list
  /\ UNCHANGED <<set, lock, spinCount, waitVars, unparked, unlinked, grabbed, kept,
                 waking>>

\* Mutant: the stack is taken while another thread holds the lock bit.
SlowUnlinkListEntry_IgnoreLock(t) ==
  /\ \/ unlinked[t] = 1 /\ Step(t, "slow", "out") /\ UNCHANGED <<lock, list, grabbed>>
     \/ /\ set = 0 /\ list # <<>> /\ Step(t, "slow", "filter")
        /\ lock' = 1 /\ list' = <<>> /\ grabbed' = [grabbed EXCEPT ![t] = list]
  /\ UNCHANGED <<set, spinCount, waitVars, unparked, unlinked, kept, waking>>

\* SlowUnlinkListEntry, first loop: return when the entry is unlinked, or take
\* the stack and the lock bit.
SlowUnlinkListEntry(t) ==
  /\ \/ unlinked[t] = 1 /\ Step(t, "slow", "out") /\ UNCHANGED <<lock, list, grabbed>>
     \/ Alone(t) /\ list' = <<>> /\ Step(t, "slow", "out") /\ UNCHANGED <<lock, grabbed>>
     \/ /\ set = 0 /\ lock = 0 /\ list \notin {<<>>, <<t>>}
        /\ Step(t, "slow", "filter")
        /\ lock' = 1 /\ list' = <<>> /\ grabbed' = [grabbed EXCEPT ![t] = list]
  /\ UNCHANGED <<set, spinCount, waitVars, unparked, unlinked, kept, waking>>

\* Second loop: mark the entries whose parkers are locked, keep the others.
Filter(t) ==
  /\ pc[t] = "filter" /\ grabbed[t] # <<>>
  /\ LET e == Head(grabbed[t]) IN
       \/ /\ count[e] = 0 /\ unlinked' = [unlinked EXCEPT ![e] = 1]
          /\ UNCHANGED kept
       \/ /\ count[e] = 1 /\ kept' = [kept EXCEPT ![t] = Append(@, e)]
          /\ UNCHANGED unlinked
  /\ grabbed' = [grabbed EXCEPT ![t] = Tail(@)]
  /\ UNCHANGED <<listVars, spinCount, pc, waitVars, unparked, waking>>

\* UnparkWaitList visits the last entry first when the event spins.
WalkOrder(s) ==
  IF spinCount = 0 \/ Len(s) < 2 THEN s
  ELSE <<s[Len(s)]>> \o SubSeq(s, 1, Len(s) - 1)

\* Mutant: a Set bit that was added meanwhile is not seen.
PutBack_IgnoreSet(t) ==
  /\ grabbed[t] = <<>> /\ Step(t, "filter", "spinUnlinked")
  /\ lock' = 0 /\ list' = kept[t] \o list /\ kept' = [kept EXCEPT ![t] = <<>>]
  /\ UNCHANGED <<set, spinCount, waitVars, unparked, unlinked, grabbed, waking>>

\* Third loop: clear the lock bit and put the kept entries back; or, when the
\* event was set meanwhile, store SET_STATE and unpark them all.
PutBack(t) ==
  /\ grabbed[t] = <<>>
  /\ \/ /\ set = 0 /\ Step(t, "filter", "spinUnlinked")
        /\ list' = kept[t] \o list /\ UNCHANGED grabbed
     \/ /\ set = 1 /\ Step(t, "filter", "unparkSpin") /\ list' = <<>>
        /\ grabbed' = [grabbed EXCEPT ![t] = WalkOrder(kept[t] \o list)]
  /\ lock' = 0 /\ kept' = [kept EXCEPT ![t] = <<>>]
  /\ UNCHANGED <<set, spinCount, waitVars, unparked, unlinked, waking>>

SpinUntilUnlinked(t) ==
  /\ unlinked[t] = 1 /\ Step(t, "spinUnlinked", "out")
  /\ UNCHANGED <<listVars, spinCount, waitVars, unparked, unlinked, grabbed, kept,
                 waking>>

-----------------------------------------------------------------------------
(* Setting and resetting *)

\* StNotificationEvent_Set by thread t, which then goes on at pc "next" (a call
\* on an event that is already set changes nothing).
SetAt(t, next) ==
  /\ set = 0 /\ set' = 1
  /\ \/ /\ lock = 1 /\ UNCHANGED <<list, grabbed>> /\ pc' = [pc EXCEPT ![t] = next]
     \/ /\ lock = 0 /\ list' = <<>> /\ pc' = [pc EXCEPT ![t] = "unparkList"]
        /\ grabbed' = [grabbed EXCEPT ![t] = WalkOrder(list)]
  /\ promised' = [s \in Threads |-> IF pc[s] = "parked" THEN 1 ELSE 0]
  /\ UNCHANGED <<lock, spinCount, count, unparked, unlinked, kept, waking>>

Set(t) == pc[t] = "out" /\ SetAt(t, "out")

\* UnparkListEntry: lock the parker of the next entry, or mark the entry of a
\* wait that was cancelled.
UnparkListEntry(t) ==
  /\ pc[t] \in {"unparkList", "unparkSpin"} /\ waking[t] = <<>> /\ grabbed[t] # <<>>
  /\ grabbed' = [grabbed EXCEPT ![t] = Tail(@)]
  /\ LET e == Head(grabbed[t]) IN
       \/ /\ count[e] = 1 /\ count' = [count EXCEPT ![e] = 0]
          /\ waking' = [waking EXCEPT ![t] = <<e>>] /\ UNCHANGED unlinked
       \/ /\ count[e] = 0 /\ unlinked' = [unlinked EXCEPT ![e] = 1]
          /\ UNCHANGED <<count, waking>>
  /\ UNCHANGED <<listVars, spinCount, pc, promised, unparked, kept>>

UnparkThread(t) ==
  /\ waking[t] # <<>> /\ unparked' = [unparked EXCEPT ![Head(waking[t])] = 1]
  /\ waking' = [waking EXCEPT ![t] = <<>>]
  /\ UNCHANGED <<listVars, spinCount, pc, waitVars, unlinked, grabbed, kept>>

UnparkDone(t) ==
  /\ waking[t] = <<>> /\ grabbed[t] = <<>>
  /\ Step(t, "unparkList", "out") \/ Step(t, "unparkSpin", "spinUnlinked")
  /\ UNCHANGED <<listVars, spinCount, waitVars, unparked, unlinked, grabbed, kept,
                 waking>>

\* StNotificationEvent_Reset: spin while the lock bit is set.
Reset(t) ==
  /\ \/ pc[t] = "out" /\ set = 1 /\ lock = 1 /\ Step(t, "out", "reset")
        /\ UNCHANGED set
     \/ pc[t] \in {"out", "reset"} /\ set = 1 /\ lock = 0 /\ set' = 0
        /\ Step(t, pc[t], "out")
     \/ set = 0 /\ Step(t, "reset", "out") /\ UNCHANGED set
  /\ UNCHANGED <<lock, list, spinCount, waitVars, unparked, unlinked, grabbed,
                 kept, waking>>

\* The steps inside an operation that a thread has begun.
ThreadStep(t) ==
  \/ WaitTail(t) \/ Unparked(t) \/ UnlinkListEntry(t) \/ SlowUnlinkListEntry(t)
  \/ Filter(t) \/ PutBack(t) \/ SpinUntilUnlinked(t) \/ UnparkListEntry(t)
  \/ UnparkThread(t) \/ UnparkDone(t) \/ (pc[t] = "reset" /\ Reset(t))

Next == \E t \in Threads :
          WaitEx(t) \/ Cancelled(t) \/ Set(t) \/ Reset(t) \/ ThreadStep(t)

Spec == Init /\ [][Next]_vars

-----------------------------------------------------------------------------
(* Properties *)

TypeOK ==
  /\ set \in {0, 1} /\ lock \in {0, 1} /\ list \in Seq(Threads)
  /\ spinCount \in {0, 1} /\ pc \in [Threads -> Pcs]
  /\ count \in [Threads -> {0, 1}]
  /\ unparked \in [Threads -> {0, 1}] /\ unlinked \in [Threads -> {0, 1}]
  /\ grabbed \in [Threads -> Seq(Threads)] /\ kept \in [Threads -> Seq(Threads)]
  /\ waking \in [Threads -> Seq(Threads)] /\ promised \in [Threads -> {0, 1}]

\* A thread that holds the wait block of t.
HeldBySomeone(t) ==
  \E s \in Threads : In(t, grabbed[s]) \/ In(t, kept[s]) \/ In(t, waking[s])

\* A wait succeeds only if the event was set after the thread parked: threads that
\* walk the stack to remove a cancelled block wake nobody.
SuccessMeansSet ==
  \A t \in Threads : pc[t] = "parked" /\ unparked[t] = 1 => promised[t] = 1

\* Nobody is forgotten: a parked thread was unparked, or is in the stack of an
\* event whose Set bit, if it is set, the holder of the lock bit will find; or
\* some thread has its block in its hands.
NobodyForgotten ==
  \A t \in Threads : pc[t] = "parked" /\ unparked[t] = 0 =>
    (In(t, list) /\ (set = 1 => lock = 1)) \/ HeldBySomeone(t)

\* The lock bit is set exactly while one thread filters the stack.
LockBitOwned ==
  lock = 1 <=> \E t \in Threads : pc[t] = "filter"

\* When a wait has returned, nobody can reach its block or its parker.
NoDanglingBlock ==
  \A t \in Threads : pc[t] \in {"out", "tail", "unparkList", "reset"} =>
    ~In(t, list) /\ ~HeldBySomeone(t)

=============================================================================
