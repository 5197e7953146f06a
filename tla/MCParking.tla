------------------------------ MODULE MCParking ------------------------------
(***************************************************************************)
(* The park protocol and what rests on it alone, side by side: the parker  *)
(* of a waiting thread; on callback parkers the timer, the registered      *)
(* wait, and the raw timers of the timer list without periods; and the     *)
(* lock, the spin lock and the fair lock.  The initial state chooses one.  *)
(* They share the variables that have the same name; those that the chosen *)
(* one does not have keep a value that nobody looks at.  Both              *)
(* specifications have liveness properties, and so there is no symmetry.   *)
(***************************************************************************)
EXTENDS Parker, TLC

CONSTANTS
  u1, u2, apc,
  Users, ClockThread, Dues, Periods, SetAlone, MaxPosts, NoThread,
  Timers, LimitTimer, Wide, MaximumSleepTime, Delays, MaxLag,
  LockUsers, MaxCancels

MCUnparkers == {u1, u2, apc}
MCApcs      == {apc}

VARIABLES
  which,
  state, inProgress, waitStatus, rawTimer, inserted, pc, old, unparked,
  period, due, withDue, signaled, call, timeout,
  once, limit, permits, holder, posts, calls, linked,
  now, lag, baseTime, list, fired, fireTime, span, cpc, tpc, firing, delay,
  tcount, tunparked,
  busy, unlinked, grabbed, wakeStack,
  locked, pending, queue, frontRequest, privateQueue, force, moved, oldLen, request,
  qpc, released, lockGranted, wakeQueue, seen, entry, taken, cancels

Timer     == INSTANCE Timer WITH TimerThread <- ClockThread
Wait      == INSTANCE RegisteredWait WITH TimerThread <- ClockThread
Raw       == INSTANCE TimerList WITH Periods <- {}
Locks     == INSTANCE Lock WITH Threads <- LockUsers
SpinLocks == INSTANCE SpinLock WITH Threads <- LockUsers
FairLocks == INSTANCE FairLock WITH Threads <- LockUsers, pc <- qpc, list <- queue,
                                    grabbed <- moved, unparked <- released

ASSUME CallbacksAssumption == Timer!TimerAssumption /\ Wait!RegisteredWaitAssumption
ASSUME Raw!TimerListAssumption
ASSUME FairAssumption == FairLocks!FairLockAssumption

\* The variables that one of the systems has, or those of one kind, and the shared ones.
parkerOnly == <<wip, handle, next, spotVars, alerter, opc, wpc, args, registered,
                result, winner>>
callbackOnly == <<inProgress, waitStatus, rawTimer, inserted, old>>
timerOnly == <<period, due, withDue, signaled, call>>
waitOnly  == <<once, limit, permits, holder, posts, calls>>
rawOnly   == <<now, lag, baseTime, fired, fireTime, span, cpc, tpc, firing, delay,
               tcount, tunparked>>
stackOnly == <<busy, wakeStack>>
fairOnly  == <<locked, pending, queue, frontRequest, privateQueue, force, moved, oldLen,
               request, qpc, released, lockGranted, wakeQueue, seen, entry, taken,
               cancels>>
shared    == <<count, status, ret, state, pc, unparked, timeout, list, linked, unlinked>>
MCVars == <<which, parkerOnly, callbackOnly, timerOnly, waitOnly, rawOnly, stackOnly,
            grabbed, fairOnly, shared>>

Callbacks == {"timer", "wait"}
Stacks    == {"lock", "spin"}

NoParker ==
  /\ wip = 0 /\ handle = 0 /\ next = "NULL" /\ event = 0 /\ spotState = 0
  /\ alerter = "NULL" /\ opc = "idle" /\ wpc = [w \in Wakers |-> "done"]
  /\ args = [timeout |-> "none", useAlerter |-> 0] /\ registered = 0
  /\ result = "NONE" /\ winner = "none"
NoCallback ==
  inProgress = 0 /\ waitStatus = 0 /\ rawTimer = 0 /\ inserted = 0 /\ old = 0
NoTimer == period = 0 /\ due = 0 /\ withDue = 0 /\ signaled = 0 /\ call = 0
NoWait  == once = 0 /\ limit = 0 /\ permits = 0 /\ holder = 0 /\ posts = 0 /\ calls = 0
NoRaw ==
  /\ now = 0 /\ lag = 0 /\ baseTime = 0 /\ fired = 0 /\ fireTime = 0 /\ span = 0
  /\ cpc = 0 /\ tpc = 0 /\ firing = 0 /\ delay = 0 /\ tcount = 0 /\ tunparked = 0
NoStack == busy = 0 /\ wakeStack = 0
NoFair ==
  /\ locked = 0 /\ pending = 0 /\ queue = 0 /\ frontRequest = 0 /\ privateQueue = 0
  /\ force = 0 /\ moved = 0 /\ oldLen = 0 /\ request = 0 /\ qpc = [t \in LockUsers |-> "out"]
  /\ released = 0 /\ lockGranted = 0 /\ wakeQueue = 0 /\ seen = 0 /\ entry = 0
  /\ taken = 0 /\ cancels = 0
NoShared ==
  /\ which = "spin" => count = 0
  /\ which \notin {"parker", "wait"} => status = 0
  /\ which \notin {"parker", "fair"} => ret = "NONE"
  /\ which \notin Callbacks \cup {"fair"} => state = 0
  /\ which \notin Callbacks \cup Stacks => pc = [t \in LockUsers |-> "out"] /\ unparked = 0
  /\ which \notin {"timer", "lock"} => timeout = 0
  /\ which \notin Stacks \cup {"raw"} => list = 0
  /\ which \notin {"wait", "raw"} => linked = 0
  /\ which \notin {"lock", "fair"} => unlinked = 0

MCInit(systems) ==
  /\ which \in systems
  /\ IF which = "parker" THEN Init ELSE NoParker
  /\ IF which = "timer" THEN Timer!Init ELSE NoTimer
  /\ IF which = "wait" THEN Wait!Init ELSE NoWait
  /\ which \notin Callbacks => NoCallback
  /\ IF which = "raw" THEN Raw!Init ELSE NoRaw
  /\ IF which = "lock" THEN Locks!Init ELSE grabbed = 0
  /\ which = "spin" => SpinLocks!Init
  /\ which \notin Stacks => NoStack
  /\ IF which = "fair" THEN FairLocks!Init ELSE NoFair
  /\ NoShared

\* The variables that the chosen one does not have.
Others ==
  /\ UNCHANGED which
  /\ which = "parker" => UNCHANGED <<callbackOnly, timerOnly, waitOnly, rawOnly, stackOnly,
       grabbed, fairOnly, state, pc, unparked, timeout, list, linked, unlinked>>
  /\ which = "timer" => UNCHANGED <<parkerOnly, waitOnly, rawOnly, stackOnly, grabbed,
       fairOnly, status, ret, list, linked, unlinked>>
  /\ which = "wait" => UNCHANGED <<parkerOnly, timerOnly, rawOnly, stackOnly, grabbed,
       fairOnly, ret, timeout, list, unlinked>>
  /\ which = "raw" => UNCHANGED <<parkerOnly, callbackOnly, timerOnly, waitOnly, stackOnly,
       grabbed, fairOnly, status, ret, state, pc, unparked, timeout, unlinked>>
  /\ which = "lock" => UNCHANGED <<parkerOnly, callbackOnly, timerOnly, waitOnly, rawOnly,
       fairOnly, status, ret, state, linked>>
  /\ which = "spin" => UNCHANGED <<parkerOnly, callbackOnly, timerOnly, waitOnly, rawOnly,
       grabbed, fairOnly, count, status, ret, state, timeout, linked, unlinked>>
  /\ which = "fair" => UNCHANGED <<parkerOnly, callbackOnly, timerOnly, waitOnly, rawOnly,
       stackOnly, grabbed, status, pc, unparked, timeout, list, linked>>

MCNext ==
  /\ \/ which = "parker" /\ Next
     \/ which = "timer" /\ Timer!Next
     \/ which = "wait" /\ Wait!Next
     \/ which = "raw" /\ Raw!Next
     \/ which = "lock" /\ Locks!Next
     \/ which = "spin" /\ SpinLocks!Next
     \/ which = "fair" /\ FairLocks!Next
  /\ Others

\* Threads that are inside an operation or a callback run, and time passes.
FairMain ==
  /\ \/ which = "parker" /\ OwnerStep
     \/ which = "raw" /\ Raw!Thread
  /\ Others
FairWaker(w) ==
  /\ which = "parker"
  /\ \/ UnparkThread(w)
     \/ w = "alerter" /\ (AlertCancel \/ AlertUnlink)
  /\ Others
FairThread(t) ==
  /\ \/ which = "timer" /\ Timer!Run(t)
     \/ which = "wait" /\ Wait!Run(t)
  /\ Others
FairUser(r) == which = "raw" /\ Raw!User(r) /\ Others
FairTick    == which = "raw" /\ Raw!Tick /\ Others

CallbacksSpec ==
  /\ MCInit({"parker", "raw"} \cup Callbacks) /\ [][MCNext]_MCVars
  /\ WF_MCVars(FairMain) /\ WF_MCVars(FairTick)
  /\ \A w \in Wakers : WF_MCVars(FairWaker(w))
  /\ \A t \in Users \cup {ClockThread} : WF_MCVars(FairThread(t))
  /\ \A r \in Timers : WF_MCVars(FairUser(r))

\* Threads run, holders of a lock leave, and finite timeouts expire.  A thread is at
\* one of these steps at a time.
LockStep(t) ==
  which = "lock" /\ (Locks!ThreadStep(t) \/ Locks!Exit(t) \/ Locks!Expires(t))
SpinStep(t) ==
  which = "spin" /\ (SpinLocks!ThreadStep(t) \/ SpinLocks!ReleaseSpinLock(t))
FairStep(t) ==
  which = "fair" /\ (FairLocks!SyncStep(t) \/ FairLocks!Exit(t))

LocksSpec ==
  /\ MCInit({"fair"} \cup Stacks) /\ [][MCNext]_MCVars
  /\ \A t \in LockUsers : /\ WF_(Locks!vars)(LockStep(t))
                          /\ WF_(SpinLocks!vars)(SpinStep(t))
                          /\ WF_(FairLocks!vars)(FairStep(t))

-----------------------------------------------------------------------------
(* Properties of CallbacksSpec.  StatusIsWinners, SpotClean, NoStaleAccess *)
(* and NeverCallback of Parker are checked as they are.                    *)

\* A timer or a registered wait that is inactive is quiet: no callback runs or
\* is about to, and no raw timer or wait block is left behind.
InactiveIsQuiet ==
  /\ which = "timer" => Timer!InactiveIsQuiet
  /\ which = "wait" => Wait!InactiveIsQuiet

\* One that is active and at rest will be called.
ActiveIsArmed ==
  /\ which = "timer" => Timer!ActiveIsArmed
  /\ which = "wait" => Wait!ActiveIsArmed

\* Its callback does not run twice at the same time.
OneCallback ==
  /\ which = "timer" => Timer!OneCallback
  /\ which = "wait" => Wait!OneCallback

\* No permit is lost between a release, a timeout and an unregister.
PermitsCalled == which = "wait" => Wait!PermitsCalled

\* A thread waits on a parker that is locked, or with a finite timeout, or with
\* an alerter that is set; it waits for the end of a callback or
\* for the lock of a queue; or a raw timer is set.  Users, and raw timers, are
\* alike: one of them stands for all.
Waits ==
  LET u == CHOOSE u \in Users : TRUE
      r == CHOOSE r \in Timers : TRUE IN
  \/ /\ which = "parker" /\ opc \notin {"idle", "returned"}
     /\ \/ winner # "none"
        \/ args.timeout \in {"ZERO", "FINITE"}
        \/ args.useAlerter = 1 /\ alerter = "ALERTED"
  \/ which = "timer" /\ pc[u] = "parked"
  \/ which = "wait" /\ pc[u] \in {"parked", "cancelWait"}
  \/ which = "raw" /\ cpc[r] = "set"

\* The wait ends; the raw timer fires or is cancelled.
WaitsEnd == Waits ~> ~Waits

-----------------------------------------------------------------------------
(* Properties of LocksSpec. *)

\* The lock and the spin lock implement the mutex.
Exclusive == Locks!Exclusive

\* The fair lock implements the mutex, though it is handed over to a waiter that
\* may have given up.
FairExclusive == FairLocks!FairExclusive

\* No thread that parks on the lock or the spin lock is forgotten.
NoLostWakeup ==
  /\ which = "lock" => Locks!NoLostWakeup
  /\ which = "spin" => SpinLocks!NoLostWakeup

\* The wait block, or the parker, of a thread whose call has returned or goes on is in
\* nobody's hands.
NoDanglingBlock ==
  /\ which = "lock" => Locks!NoDanglingBlock
  /\ which = "spin" => SpinLocks!ParkersLeave

\* A thread waits for the lock with a timeout or has given up; or it waits for the
\* spin lock or the fair lock.
LockWaits(t) ==
  \/ which = "lock" /\ Locks!TimedWait(t)
  \/ which = "spin" /\ pc[t] = "parked"
  \/ which = "fair" /\ qpc[t] = "parked"

\* Such a wait ends: the thread returns or looks at the lock again.  Threads are
\* alike: one of them stands for all.  And a lock on which threads park does not
\* stay free: one of them enters, or they all leave.
LockWaitsEnd ==
  LET t == CHOOSE t \in LockUsers : TRUE IN
    (LockWaits(t) ~> ~LockWaits(t)) /\ Locks!FreeLockIsTaken
=============================================================================
