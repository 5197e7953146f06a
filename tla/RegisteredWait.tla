--------------------------- MODULE RegisteredWait ---------------------------
(***************************************************************************)
(* A wait registered with a waitable (ST_REGISTERED_WAIT, RegisteredWait.c):*)
(* the wait block of a callback parker is in the queue of the waitable,    *)
(* and whoever locks that parker runs the callback: the releaser, the      *)
(* timer thread, or the thread that registers.  Unless it is to run only   *)
(* once the callback's thread registers the wait again.  Another thread    *)
(* may unregister at any moment; so may the user's callback.               *)
(*                                                                         *)
(* The waitable is a semaphore of which this wait is the only waiter:      *)
(* permits, a queue with or without the wait block, and the thread that    *)
(* holds the queue's lock, which it keeps while it unparks the waiter and  *)
(* so while it runs the callback.  Modules Semaphore and LockedQueue check *)
(* that protocol itself.  A raw timer that is in the list may expire.      *)
(***************************************************************************)
EXTENDS Naturals

CONSTANTS Users, TimerThread, MaxPosts, NoThread

Threads == Users \cup {TimerThread}

RegisteredWaitAssumption == TimerThread \notin Users /\ NoThread \notin Threads

VARIABLES
  state,       \* RegisteredWait->State
  once,        \* RegisteredWait->ExecuteOnlyOnce
  limit,       \* RegisteredWait->Timeout
  count,       \* the lock count of the callback parker
  inProgress,  \* its wait-in-progress bit
  waitStatus,  \* its WaitStatus
  rawTimer,    \* its RawTimer: 1 when it is not NULL
  inserted,    \* 1 when the raw timer is in the timer list
  linked,      \* 1 when the wait block is in the queue of the semaphore
  permits,     \* the State of the semaphore
  holder,      \* the thread that holds the queue's lock
  posts,       \* how many permits were released
  calls,       \* how many callbacks with WAIT_SUCCESS began
  pc,
  old,         \* local OldState of UnparkCallback
  status,      \* its WaitStatus argument and local
  unparked     \* 1 when the local Parker of Unregister was unparked

cbParker  == <<count, inProgress, waitStatus, rawTimer, inserted>>
semaphore == <<linked, permits, holder, posts>>
wait      == <<state, once, limit>>
locals    == <<old, status, unparked>>
vars == <<wait, cbParker, semaphore, calls, pc, locals>>

UNUSED    == <<"UNUSED">>
INACTIVE  == <<"INACTIVE">>
ACTIVE    == <<"ACTIVE">>
BUSY(t)   == <<"BUSY", t>>
Parker(t) == <<"PARKER", t>>

StateIsParker(s) == s[1] = "PARKER"

Init ==
  /\ state = UNUSED /\ once = 0 /\ limit = "infinite"
  /\ count = 1 /\ inProgress = 1 /\ waitStatus = "none" /\ rawTimer = 0
  /\ inserted = 0 /\ linked = 0 /\ permits = 0 /\ holder = NoThread
  /\ posts = 0 /\ calls = 0
  /\ pc = [t \in Threads |-> "out"] /\ old = [t \in Threads |-> UNUSED]
  /\ status = [t \in Threads |-> "none"]
  /\ unparked = [t \in Threads |-> 0]

Goto(t, to)       == pc' = [pc EXCEPT ![t] = to]
Step(t, from, to) == pc[t] = from /\ Goto(t, to)
SetStatus(t, s)   == status' = [status EXCEPT ![t] = s]

InCallback(t)  == old[t] # UNUSED
Registering(t) ==
  pc[t] \in {"prologue", "activate", "enable", "enableRaw", "enableClear"}
    /\ ~InCallback(t)
Unregistering(t) == pc[t] \in {"loop", "tryCancel", "parked", "cancelWait", "cancelled"}

\* A thread leaves the operation it is in; a releaser goes on with its loop.
Leave(t) ==
  /\ Goto(t, IF holder = t THEN "serve" ELSE "out")
  /\ old' = [old EXCEPT ![t] = UNUSED] /\ SetStatus(t, "none")

-----------------------------------------------------------------------------
(* The semaphore *)

\* StSemaphore_Release: add a permit; when a waiter can be released, lock the
\* queue, unless its holder will look again.
Release(t) ==
  /\ posts < MaxPosts /\ posts' = posts + 1 /\ permits' = permits + 1
  /\ IF linked = 1 /\ holder = NoThread THEN holder' = t /\ Step(t, "out", "serve")
                                        ELSE UNCHANGED holder /\ Step(t, "out", "out")
  /\ UNCHANGED <<wait, cbParker, linked, calls, locals>>

\* ReleaseWaitersAndUnlockQueue: take a permit on behalf of the waiter, or
\* unlock the queue when there is no more to do.
Serve(t) ==
  /\ pc[t] = "serve"
  /\ IF linked = 1 /\ permits > 0
       THEN Goto(t, "lockParker") /\ permits' = permits - 1 /\ UNCHANGED holder
       ELSE Goto(t, "out") /\ holder' = NoThread /\ UNCHANGED permits
  /\ UNCHANGED <<wait, cbParker, linked, posts, calls, locals>>

\* Mutant: the acquire for a wait that has been cancelled is not undone.
TryLockParker_NoUndo(t) ==
  /\ linked' = 0
  /\ \/ /\ count = 1 /\ count' = 0 /\ Step(t, "lockParker", "unpark")
        /\ SetStatus(t, "success")
     \/ count = 0 /\ Step(t, "lockParker", "serve") /\ UNCHANGED <<count, status>>
  /\ UNCHANGED <<wait, inProgress, waitStatus, rawTimer, inserted, permits, holder,
                 posts, calls, old, unparked>>

\* TryLockParker: the waiter gets the permit, or the acquire is undone.
TryLockParker(t) ==
  /\ linked' = 0
  /\ \/ /\ count = 1 /\ count' = 0 /\ Step(t, "lockParker", "unpark")
        /\ SetStatus(t, "success") /\ UNCHANGED permits
     \/ /\ count = 0 /\ permits' = permits + 1 /\ Step(t, "lockParker", "serve")
        /\ UNCHANGED <<count, status>>
  /\ UNCHANGED <<wait, inProgress, waitStatus, rawTimer, inserted, holder, posts,
                 calls, old, unparked>>

-----------------------------------------------------------------------------
(* StWaitable_RegisterWait *)

\* The object is registered when it is not in use.
RegisterWait(t) ==
  /\ state \in {UNUSED, INACTIVE} /\ \A u \in Users : ~Registering(u) /\ ~Unregistering(u)
  /\ Step(t, "out", "prologue")
  /\ once' \in {0, 1} /\ limit' \in {"finite", "infinite"}
  /\ count' = 1 /\ inProgress' = 1
  /\ UNCHANGED <<state, waitStatus, rawTimer, inserted, semaphore, calls, locals>>

\* WAIT_ANY_PROLOGUE: take a permit and lock and unpark the own parker, or
\* insert the wait block in the queue.
WaitAnyPrologue(t) ==
  /\ Step(t, "prologue", IF InCallback(t) THEN "enable" ELSE "activate")
  /\ IF permits > 0 /\ linked = 0
       THEN /\ permits' = permits - 1 /\ count' = 0 /\ inProgress' = 0
            /\ waitStatus' = "success" /\ UNCHANGED linked
       ELSE linked' = 1 /\ UNCHANGED <<permits, count, inProgress, waitStatus>>
  /\ UNCHANGED <<wait, rawTimer, inserted, holder, posts, calls, locals>>

Activate(t) ==
  /\ Step(t, "activate", "enable") /\ state' = ACTIVE
  /\ UNCHANGED <<once, limit, cbParker, semaphore, calls, locals>>

-----------------------------------------------------------------------------
(* EnableUnparkCallback, called by StWaitable_RegisterWait and UnparkCallback *)

\* It was unparked: run the callback inline, or run its loop again.
AlreadyUnparked(t) ==
  /\ Goto(t, IF InCallback(t) THEN "cancelAcquire" ELSE "callback")
  /\ SetStatus(t, waitStatus) /\ UNCHANGED <<old, unparked>>

EnableUnparkCallback(t) ==
  /\ pc[t] = "enable"
  /\ IF inProgress = 0
       THEN AlreadyUnparked(t) /\ UNCHANGED rawTimer
       ELSE /\ rawTimer' = IF limit = "finite" THEN 1 ELSE 0
            /\ Goto(t, IF limit = "finite" THEN "enableRaw" ELSE "enableClear")
            /\ UNCHANGED locals
  /\ UNCHANGED <<wait, count, inProgress, waitStatus, inserted, semaphore, calls>>

SetRawTimer(t) ==
  /\ Step(t, "enableRaw", "enableClear") /\ inserted' = 1
  /\ UNCHANGED <<wait, count, inProgress, waitStatus, rawTimer, semaphore, calls, locals>>

\* Clear the wait-in-progress bit; if it was clear, unlink the raw timer.
EnableClear(t) ==
  /\ pc[t] = "enableClear" /\ inProgress' = 0
  /\ IF inProgress = 1
       THEN IF InCallback(t) THEN Goto(t, "reactivate") /\ UNCHANGED <<inserted, locals>>
                             ELSE Leave(t) /\ UNCHANGED <<inserted, unparked>>
       ELSE /\ AlreadyUnparked(t)
            /\ inserted' = IF rawTimer = 1 /\ waitStatus # "timeout" THEN 0 ELSE inserted
  /\ UNCHANGED <<wait, count, waitStatus, rawTimer, semaphore, calls>>

-----------------------------------------------------------------------------
(* The unpark of the callback parker, and UnparkCallback *)

\* The raw timer expires: it leaves the list and its parker is locked, if
\* nobody else has locked it.
Expire(t) ==
  /\ t = TimerThread /\ pc[t] = "out" /\ inserted = 1 /\ inserted' = 0
  /\ IF count = 1 THEN count' = 0 /\ Goto(t, "unpark") /\ SetStatus(t, "timeout")
                  ELSE UNCHANGED <<count, pc, status>>
  /\ UNCHANGED <<wait, inProgress, waitStatus, rawTimer, semaphore, calls, old, unparked>>

\* UnparkThread: leave the callback to the thread that is still inside
\* EnableUnparkCallback, or unlink the raw timer and run it.
UnparkThread(t) ==
  /\ pc[t] = "unpark" /\ waitStatus' = status[t] /\ inProgress' = 0
  /\ IF inProgress = 1
       THEN Leave(t) /\ UNCHANGED <<inserted, unparked>>
       ELSE /\ Goto(t, "callback") /\ UNCHANGED locals
            /\ inserted' = IF rawTimer = 1 /\ status[t] # "timeout" THEN 0 ELSE inserted
  /\ UNCHANGED <<wait, count, rawTimer, semaphore, calls>>

\* UnparkCallback: an unregistered wait only cancels its acquire; otherwise
\* the state is swapped for the own busy mark.
UnparkCallback(t) ==
  /\ pc[t] = "callback"
  /\ IF status[t] = "unregistered"
       THEN Goto(t, "cancelWait") /\ UNCHANGED <<state, old>>
       ELSE /\ Goto(t, "cancelAcquire")
            /\ state' = BUSY(t) /\ old' = [old EXCEPT ![t] = state]
  /\ UNCHANGED <<once, limit, cbParker, semaphore, calls, status, unparked>>

\* CANCEL_ACQUIRE: remove the wait block from the queue, under its lock.
CancelAcquire ==
  IF linked = 1 THEN holder = NoThread /\ linked' = 0 ELSE UNCHANGED linked

\* The loop of UnparkCallback: after a timeout the acquire is cancelled.
CancelTimedOut(t) ==
  /\ Step(t, "cancelAcquire", "user")
  /\ IF status[t] # "success" THEN CancelAcquire ELSE UNCHANGED linked
  /\ UNCHANGED <<wait, cbParker, permits, holder, posts, calls, locals>>

\* The user's callback, which may unregister the wait.
UserCallback(t) ==
  /\ Step(t, "user", "after") /\ (once' = once \/ once' = 1)
  /\ calls' = IF status[t] = "success" THEN calls + 1 ELSE calls
  /\ UNCHANGED <<state, limit, cbParker, semaphore, locals>>

\* The wait is over or is being unregistered: unpark the thread that waits
\* for the end of the callback, or make the wait inactive.
CallbackEnds(t) ==
  /\ pc[t] = "after" /\ (once = 1 \/ StateIsParker(old[t])) /\ Leave(t)
  /\ IF StateIsParker(old[t])
       THEN unparked' = [unparked EXCEPT ![old[t][2]] = 1] /\ UNCHANGED state
       ELSE state' = INACTIVE /\ UNCHANGED unparked
  /\ UNCHANGED <<once, limit, cbParker, semaphore, calls>>

\* Otherwise it is registered again.
RegisterAgain(t) ==
  /\ once = 0 /\ ~StateIsParker(old[t]) /\ Step(t, "after", "prologue")
  /\ count' = 1 /\ inProgress' = 1
  /\ UNCHANGED <<wait, waitStatus, rawTimer, inserted, semaphore, calls, locals>>

\* Mutant: State is stored, not swapped for the own busy mark.
Reactivate_Store(t) ==
  /\ pc[t] = "reactivate" /\ Leave(t) /\ state' = ACTIVE
  /\ UNCHANGED <<once, limit, cbParker, semaphore, calls, unparked>>

\* The wait is active, unless the next callback has begun.
Reactivate(t) ==
  /\ pc[t] = "reactivate" /\ Leave(t)
  /\ state' = IF state = BUSY(t) THEN ACTIVE ELSE state
  /\ UNCHANGED <<once, limit, cbParker, semaphore, calls, unparked>>

-----------------------------------------------------------------------------
(* StRegisteredWait_Unregister, outside the callback *)

Unregister(t) ==
  /\ state # UNUSED /\ (\A u \in Users : ~Registering(u)) /\ Step(t, "out", "loop")
  /\ UNCHANGED <<wait, cbParker, semaphore, calls, locals>>

\* Put the own parker into an active state; leave when the wait is inactive or
\* another thread unregisters; spin while the wait is busy.
Loop(t) ==
  /\ pc[t] = "loop"
  /\ \/ state = ACTIVE /\ state' = Parker(t) /\ Goto(t, "tryCancel")
     \/ (state = INACTIVE \/ StateIsParker(state)) /\ Goto(t, "out") /\ UNCHANGED state
  /\ UNCHANGED <<once, limit, cbParker, semaphore, calls, locals>>

\* Lock the callback parker and unpark it, or wait for the end of the callback.
TryCancelParker(t) ==
  /\ \/ count = 1 /\ count' = 0 /\ Step(t, "tryCancel", "unpark") /\ SetStatus(t, "unregistered")
     \/ count = 0 /\ Step(t, "tryCancel", "parked") /\ UNCHANGED <<count, status>>
  /\ UNCHANGED <<wait, inProgress, waitStatus, rawTimer, inserted, semaphore, calls, old,
                 unparked>>

\* Mutant: the wait block of an unregistered wait stays in the queue.
CancelWait_Keep(t) ==
  /\ Step(t, "cancelWait", "cancelled")
  /\ UNCHANGED <<linked, wait, cbParker, permits, holder, posts, calls, locals>>

\* UnparkCallback with WAIT_UNREGISTERED: CANCEL_ACQUIRE.
CancelWait(t) ==
  /\ Step(t, "cancelWait", "cancelled") /\ CancelAcquire
  /\ UNCHANGED <<wait, cbParker, permits, holder, posts, calls, locals>>

\* ParkThreadEx returns after the callback.
ParkThreadEx(t) ==
  /\ unparked[t] = 1 /\ Step(t, "parked", "cancelled")
  /\ unparked' = [unparked EXCEPT ![t] = 0]
  /\ UNCHANGED <<wait, cbParker, semaphore, calls, old, status>>

Unregistered(t) ==
  /\ pc[t] = "cancelled" /\ Leave(t) /\ state' = INACTIVE
  /\ UNCHANGED <<once, limit, cbParker, semaphore, calls, unparked>>

-----------------------------------------------------------------------------

\* The steps of a thread that is inside an operation or a callback.
Run(t) ==
  \/ Serve(t) \/ TryLockParker(t) \/ WaitAnyPrologue(t) \/ Activate(t)
  \/ EnableUnparkCallback(t) \/ SetRawTimer(t) \/ EnableClear(t)
  \/ UnparkThread(t) \/ UnparkCallback(t) \/ CancelTimedOut(t) \/ UserCallback(t)
  \/ CallbackEnds(t) \/ RegisterAgain(t) \/ Reactivate(t)
  \/ Loop(t) \/ TryCancelParker(t) \/ CancelWait(t) \/ ParkThreadEx(t) \/ Unregistered(t)

Next ==
  \/ \E t \in Users : RegisterWait(t) \/ Unregister(t) \/ Release(t)
  \/ \E t \in Threads : Run(t) \/ Expire(t)

Spec == Init /\ [][Next]_vars

-----------------------------------------------------------------------------
(* Properties *)

Calling(t) == pc[t] \in {"cancelAcquire", "user", "after"}

\* The callback does not run twice at the same time.
OneCallback == \A t, u \in Threads : Calling(t) /\ Calling(u) => t = u

\* An inactive wait is quiet: after Unregister, or the end of a callback that was the last, no
\* callback runs or is about to, and neither the wait block nor the raw timer is
\* left behind, until the object is registered again.
InactiveIsQuiet ==
  state = INACTIVE /\ (\A t \in Users : ~Registering(t)) =>
    /\ \A t \in Threads : ~Calling(t) /\ pc[t] \notin {"unpark", "callback"}
    /\ linked = 0 /\ inserted = 0

\* Nobody works on the wait or the semaphore.
AtRest == \A t \in Threads : pc[t] \in {"out", "loop"}

\* An active wait at rest will be called: its block is in the queue, its
\* parker can be locked and runs the callback, its timer is set, and no permit
\* is left beside it.
ActiveIsArmed ==
  state = ACTIVE /\ AtRest =>
    /\ count = 1 /\ inProgress = 0 /\ linked = 1 /\ permits = 0
    /\ limit = "finite" => inserted = 1

\* No permit is lost between a release, a timeout and Unregister: it is
\* in the semaphore or it was delivered to the callback.
PermitsCalled == AtRest => posts = permits + calls

\* "If the acquire operation was cancelled, cancel the acquire attempt on the
\* waitable": the thread that is to cancel does not hold the lock that it
\* needs for it.  Does not hold in a releaser that registers the wait again; see
\* the README.
CancelCanLock ==
  \A t \in Threads :
    pc[t] = "cancelAcquire" /\ status[t] # "success" /\ linked = 1 => holder # t
=============================================================================
