------------------------------ MODULE MCWaits --------------------------------
(***************************************************************************)
(* Waits on several semaphores, a monitor with its condition variable,     *)
(* waits with an alerter, and the reentrant locks with what they do for    *)
(* condition variables, side by side: the initial state chooses one.       *)
(* Threads are interchangeable.                                            *)
(***************************************************************************)
EXTENDS Waitables, TLC

CONSTANTS x, y, NULL, ALERTED, Locks, NoLock, WRITING, MaxDepth

VARIABLES
  which,
  busy, list, timeout, unparked, unlinked, grabbed, wakeStack,
  waitList, phase, notified, marked,
  head, next, state, first, last, current, resume,
  innerHolder, Owner, Count, at, saved, depth,
  word, firstReader, firstReaderCount, writer, writerCount, table, where, using,
  savedCount, reading, writing

Monitors == INSTANCE ConditionVariable
Alerts == INSTANCE Alerter
RLock == INSTANCE ReentrantLock WITH holder <- innerHolder
RRWLock == INSTANCE ReentrantReadWriteLock

ASSUME WaitsAssumption ==
  /\ WaitablesAssumption /\ RLock!ReentrantLockAssumption
  /\ RRWLock!ReentrantReadWriteLockAssumption /\ Alerts!AlerterAssumption

MCWaitables == {x, y}
MCAnyArrays == {<<x, y>>}
MCAllArrays == {<<x, y>>}

waitsOnly   == <<semaphores, op, array, index, visited, got, key, linked, serving, front, total>>
monitorOnly == <<busy, list, timeout, unparked, unlinked, grabbed, wakeStack, waitList,
                 phase, notified, marked>>
alerterOnly == <<head, next, state, first, last, current, resume>>

reentrantOnly == <<innerHolder, Owner, Count, at, saved, depth>>
reentrantRWOnly == <<word, firstReader, firstReaderCount, writer, writerCount, table,
                     where, using, savedCount, reading, writing>>

NoWaits ==
  /\ permits = 0 /\ queue = 0 /\ holder = 0 /\ op = 0 /\ array = 0 /\ index = 0
  /\ visited = 0 /\ got = 0 /\ key = 0 /\ linked = 0 /\ serving = 0 /\ front = 0 /\ total = 0
NoMonitor ==
  /\ busy = 0 /\ list = 0 /\ timeout = 0 /\ unparked = 0 /\ unlinked = 0 /\ grabbed = 0
  /\ wakeStack = 0 /\ waitList = 0 /\ phase = 0 /\ notified = 0 /\ marked = 0

NoAlerter ==
  /\ head = 0 /\ next = 0 /\ state = 0 /\ first = 0 /\ last = 0 /\ current = 0
  /\ resume = 0

NoReentrant ==
  /\ innerHolder = 0 /\ Owner = 0 /\ Count = 0 /\ at = 0 /\ saved = 0 /\ depth = 0
NoReentrantRW ==
  /\ word = 0 /\ firstReader = 0 /\ firstReaderCount = 0 /\ writer = 0
  /\ writerCount = 0 /\ table = 0 /\ where = 0 /\ using = 0 /\ savedCount = 0
  /\ reading = 0 /\ writing = 0

MCInit ==
  /\ which \in {"waits", "monitor", "alerter", "reentrant", "reentrantRW"}
  /\ which = "waits" => Init
  /\ which # "waits" => NoWaits
  /\ IF which = "monitor" THEN Monitors!InitForLock ELSE NoMonitor
  /\ IF which = "alerter" THEN Alerts!Init ELSE NoAlerter
  /\ IF which = "reentrant" THEN RLock!Init ELSE NoReentrant
  /\ IF which = "reentrantRW" THEN RRWLock!Init ELSE NoReentrantRW
  /\ which \in {"reentrant", "reentrantRW"} => pc = 0 /\ count = 0

MCNext ==
  /\ UNCHANGED which
  /\ which # "waits" => UNCHANGED waitsOnly
  /\ which # "monitor" => UNCHANGED monitorOnly
  /\ which # "alerter" => UNCHANGED alerterOnly
  /\ which # "reentrant" => UNCHANGED reentrantOnly
  /\ which # "reentrantRW" => UNCHANGED reentrantRWOnly
  /\ which \in {"reentrant", "reentrantRW"} => UNCHANGED <<pc, count>>
  /\ \/ which = "waits" /\ Next
     \/ which = "monitor" /\ Monitors!MonitorNext
     \/ which = "alerter" /\ Alerts!Next
     \/ which = "reentrant" /\ RLock!Next
     \/ which = "reentrantRW" /\ RRWLock!Next

MCVars == <<which, pc, count, waitsOnly, monitorOnly, alerterOnly, reentrantOnly,
            reentrantRWOnly>>

MCSpec == MCInit /\ [][MCNext]_MCVars

MCSymmetry == Permutations(Threads)

-----------------------------------------------------------------------------
(* Properties: those of each module, when it is the chosen one.            *)

\* Permits are neither lost nor made, and neither are recursive acquisitions: each
\* owner of a reentrant lock is recorded once, with the right count, and once in the
\* state word.
NothingLost ==
  /\ which = "waits" => PermitsKept
  /\ which = "reentrant" => RLock!CountsRight /\ RLock!NobodyOwns
  /\ which = "reentrantRW" => RRWLock!CountsRight /\ RRWLock!WordCountsOwners

\* The count of a parked wait-all is what its releasers have still to do.
WaitAllCounts == which = "waits" => CountsAgree

\* At rest nobody waits for what is there.
NobodyStuckBeside == which = "waits" => NobodyStuck

\* No wait block, or parker in an alerter's list, outlives its call.
BlocksLeave ==
  /\ which = "waits" => WaitBlocksLeave
  /\ which = "monitor" => Monitors!BlocksRemoved
  /\ which = "alerter" => Alerts!ParkersLeave

\* No notification is lost between the condition and the lock.
NobodyForgotten == which = "monitor" => Monitors!NobodyForgotten
=============================================================================
