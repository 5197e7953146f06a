-------------------------- MODULE MCSynchronizers ---------------------------
(***************************************************************************)
(* The semaphore, the reader/writer lock and the synchronization event,    *)
(* and the timer list, side by side: the initial state chooses one.        *)
(* Threads are interchangeable, and so are timers.                         *)
(***************************************************************************)
EXTENDS Semaphore, TLC

CONSTANTS WRITING, MaxSets, MaxEventCancels, MaxLockCancels,
          Timers, LimitTimer, Wide, MaximumSleepTime, Delays, Periods, MaxLag

VARIABLES which, trySet, trySetUsed, sets,
  now, lag, baseTime, fired, fireTime, span, linked, cpc, tpc, firing, delay, tcount,
  tunparked

Event == INSTANCE SynchronizationEvent WITH MaxCancels <- MaxEventCancels
RWLock == INSTANCE ReadWriteLock WITH Readers <- Threads, Writers <- Threads,
                                        MaxCancels <- MaxLockCancels

RawTimers == INSTANCE TimerList

ASSUME InstancesAssumption == RWLock!ReadWriteLockAssumption /\ RawTimers!TimerListAssumption

\* A reader enters once: the threads, and a grant on its way to one that has given up,
\* are fewer than the readers that the lock can count.
ASSUME ReadersFit == IsFiniteSet(Threads) /\ Cardinality(Threads) + 1 < RWLock!MAX_READERS

eventLocals == <<trySet, trySetUsed, sets>>
timersOnly  == <<now, lag, baseTime, fired, fireTime, span, linked, cpc, tpc, firing,
                 delay, tcount, tunparked>>
queueOnly   == <<locked, pending, frontRequest, privateQueue, force, grabbed, oldLen,
                 pc, request, unparked, unlinked, lockGranted, wakeQueue, state, seen,
                 entry, taken, ret, cancels, issued, posts>>

NoQueue ==
  /\ locked = 0 /\ pending = 0 /\ frontRequest = 0 /\ privateQueue = 0 /\ force = 0
  /\ grabbed = 0 /\ oldLen = 0 /\ pc = 0 /\ request = 0 /\ unparked = 0
  /\ unlinked = 0 /\ lockGranted = 0 /\ wakeQueue = 0 /\ state = 0 /\ seen = 0
  /\ entry = 0 /\ taken = 0 /\ ret = 0 /\ cancels = 0 /\ issued = 0 /\ posts = 0
NoTimers ==
  /\ now = 0 /\ lag = 0 /\ baseTime = 0 /\ fired = 0 /\ fireTime = 0 /\ span = 0
  /\ linked = 0 /\ cpc = 0 /\ tpc = 0 /\ firing = 0 /\ delay = 0 /\ tcount = 0
  /\ tunparked = 0

MCInit ==
  /\ which \in {"semaphore", "rwlock", "event", "timers"}
  /\ which = "semaphore" => Init
  /\ which = "rwlock" => RWLock!Init /\ issued = 0 /\ posts = 0
  /\ which = "event" => Event!Init /\ posts = 0
  /\ which # "event" => trySet = <<>> /\ trySetUsed = <<>> /\ sets = 0
  /\ IF which = "timers" THEN RawTimers!Init /\ NoQueue ELSE NoTimers

MCNext ==
  /\ UNCHANGED which /\ (which # "timers" => UNCHANGED timersOnly)
  /\ \/ which = "semaphore" /\ Next /\ UNCHANGED eventLocals
     \/ which = "rwlock" /\ RWLock!Next /\ UNCHANGED <<issued, posts, eventLocals>>
     \/ which = "event" /\ Event!Next /\ UNCHANGED posts
     \/ which = "timers" /\ RawTimers!Next /\ UNCHANGED <<queueOnly, eventLocals>>

MCSpec == MCInit /\ [][MCNext]_<<vars, which, eventLocals, timersOnly>>

MCSymmetry == Permutations(Threads) \cup Permutations(Timers)

-----------------------------------------------------------------------------
(* Properties *)

\* Permits, or signals, are neither lost nor made.
NothingLost ==
  IF which = "semaphore" THEN PermitsConserved
                         ELSE which = "event" => Event!SignalsConserved

\* No waiter at the front of a queue is left beside what it waits for.
FrontServed ==
  CASE which = "semaphore" -> NoStarvedFront
    [] which = "rwlock"    -> RWLock!NoStarvedFront
    [] which = "event"     -> Event!NoMissedSignal
    [] which = "timers"    -> TRUE

\* The lock of the queue is exclusive, and the blocks that it protects live as
\* long as they are reachable.
QueueSound ==
  /\ which # "timers" => QueueLockExclusive /\ BlockLifetime
  /\ which \in {"semaphore", "rwlock"} => RemoveListed

\* The state word of the reader/writer lock agrees with its owners.
StateCounts == which = "rwlock" => RWLock!StateCounts

\* The reader/writer lock implements the shared mutex.
Holding(r) == IF which = "rwlock" THEN RWLock!Holding(r) ELSE {}
RWMutex == INSTANCE SharedMutex WITH readers <- Holding(1), writers <- Holding(2)
ReadersOrWriter == RWMutex!Spec

\* Types; of the timer list, that no delay has wrapped around.
TypesOK == which = "timers" => RawTimers!TypeOK

\* The delays of the timer list add up to the fire times.
DelaysMeetFireTimes == which = "timers" => RawTimers!DelaysMeetFireTimes

\* No timer fires before its time.
NeverEarly == which = "timers" => RawTimers!NeverEarly

\* A raw timer is in one list at a time.
OnePlace == which = "timers" => RawTimers!OnePlace
=============================================================================
