# SlimThreading for Windows: a verification project

SlimThreading is a C library of synchronizers for Windows. Every blocking
operation of the library goes through one protocol, the *parker*, and most
synchronizers are a state word, a queue of wait blocks that live in the stack
frames of the waiting threads, and a race between the thread that releases a
waiter and the waiter that gives up. The hard part of the code is what these
races may leave behind: a wake-up that is lost, a wait block that is walked
after its frame is gone, a permit that disappears, a park spot that is signalled
for the wrong wait. The modules in this directory model those protocols; TLC
checks them on small instances, and TLAPS proves the properties of the
protocols on which the others rest (the parker, the locks without a queue, the initialize-once lock,
the synchronizers on the locked queue), of the events, the barrier, the timer and the registered wait, of the
condition variable and the reentrant locks, of the waits on several objects, and of the channels and queues, for any number of threads.

Paths below are relative to `src/src/SlimThreading/`.

## 1. Inventory

| Component | State it keeps | Operations | Works with |
|---|---|---|---|
| Parker and park spots (`Parker.c`, `ParkSpot.c`, `StInternal.h`) | `State` (wait-in-progress bit and lock count), `WaitStatus`, park spot handle; park spot: auto-reset event, `State` | `ParkThreadEx`, `ParkThread`, `TryLockParker`, `TryCancelParker`, `UnparkThread`, `UnparkSelf` | everything that blocks |
| Alerter (`Alerter.c`) | `State`: `NULL`, `ALERTED` or a list of parkers | `Set`, register and deregister a parker | cancels waits |
| Callback parker and timer (`Parker.c`, `Timer.c`) | `State` (`INACTIVE`, `ACTIVE`, `SETTING`, a busy mark, or a waiting parker), period, due time, an event | `Set`, `Cancel`, timer callback, `EnableUnparkCallback` | timer list, parker |
| Timer list (`TimerList.c`) | `BaseTime`, a list of raw timers with relative delays, the fired list, the limit timer, the timer thread's parker | `SetRawTimer`, `SetPeriodicRawTimer`, `TryCancelRawTimer`, `UnlinkRawTimer`, the timer thread | timer, registered wait |
| Initialize-once lock (`InitOnceLock.c`, `StInternal.h`) | one word: free, busy, available or a stack of parkers | `TryInitTarget`, `InitTargetCompleted`, `InitTargetFailed` | parker; used by `InitOnce.c`, `Future.c` |
| Lock (`Lock.c`) | one word: free, busy, or a stack of wait blocks | `TryEnter`, `TryEnterEx`, `Enter`, `Exit`, unlinking of a cancelled waiter | parker; condition variable |
| Locked queue (`LockedQueue.c`) | `LockState` (free, busy, or a stack of blocks), the queue, `FrontRequest`, a private list | lock, enqueue, unlock | semaphore, fair lock, reader/writer lock |
| Semaphore (`Semaphore.c`) | count, maximum, a locked queue | `Wait`, `WaitEx`, `Release`, virtual functions for wait-any and wait-all | locked queue, parker |
| Fair lock (`FairLock.c`) | free or busy, a locked queue | `TryEnter`, `TryEnterEx`, `Enter`, `Exit`, virtual functions | locked queue, parker |
| Reader/writer lock (`ReadWriteLock.c`) | number of readers or a writer, a locked queue | enter and exit in both modes, virtual functions | locked queue, parker |
| Reader/upgrader/writer lock (`ReadUpgradeWriteLock.c`) | owner, upgrader, readers, four wait lists under a spin lock | enter, exit and upgrade in three modes | spin lock, resource table |
| Reentrant locks (`ReentrantLock.c`, `ReentrantFairLock.c`, `ReentrantReadWriteLock.c`) | owner, recursion count over a lock | enter, exit, condition variable support | lock, fair lock, reader/writer lock |
| Resource table (`ResourceTable.c`) | a table per thread of what it holds | look up, allocate, free | reader locks |
| Notification event (`NotificationEvent.c`) | one word: set, reset, or a list of wait blocks with a lock bit | `Set`, `Reset`, `Wait` | barrier, count-down event, future, timer |
| Synchronization event (`SynchonizationEvent.c`) | one word, a list of wait blocks with a lock bit | `Set`, `Reset`, `Wait` | timer |
| Waitable (`Waitaible.c`) | wait blocks of one parker in several synchronizers | `WaitAny`, `WaitAll`, `SignalAndWait` | all waitables |
| Registered wait and take (`RegisteredWait.c`, `RegisteredTake.c`) | a state word like the timer's, a callback parker | register, unregister, callback | waitables, blocking queues |
| Condition variable (`ConditionVariable.c`) | a list of wait blocks, protected by the lock it is used with | `Wait`, `Notify`, `NotifyAll` | lock, fair lock, reader/writer lock |
| Barrier (`Barrier.c`) | two phase states: partners and arrivals in one word, an event each | `SignalAndWait`, add and remove partners | notification event |
| Count-down event (`CountDownEvent.c`) | a count, an event | `Signal`, `TryAdd`, `Wait` | notification event |
| Exchanger, rendezvous channel (`Exchanger.c`, `RendezvousChannel.c`) | a word or two lists of waiting partners | exchange; send, receive, reply | parker, spin lock |
| Blocking queues (`BlockingQueue.c`, `BoundedBlockingQueue.c`, `LinkedBlockingQueue.c`, `StreamBlockingQueue.c`) | a buffer, lists of waiting producers and consumers | add, take, take-any | parker, spin lock |
| Future, initialize-once (`Future.c`, `InitOnce.c`) | a value and an event; an initialize-once lock | set and get; begin and complete | event, initialize-once lock |
| Spin lock, spin wait (`SpinLock.c`, `SpinWait.c`) | one word, a stack of parkers | acquire, release | everything with a short critical section |
| UMS scheduler (`UmsScheduler.c`) | worker threads of Windows' user-mode scheduling | scheduling loop | park spots of UMS threads |
| Platform and declarations (`Platform.c`, `St.h`, `StBase.h`) | processor count; types and C++ wrappers | none | |

**How components interact.** A blocking operation puts a parker (and usually a
wait block that points to it) in its stack frame, links it in a synchronizer,
and calls `ParkThreadEx`. A releaser takes a wait block from the synchronizer,
*locks* its parker (decrements the lock count to zero), and calls
`UnparkThread`. A timeout and an alerter compete for the same lock count through
`TryCancelParker`. Whoever wins is the only one to store the wait status. A
waiter that was cancelled must then take its wait block out of the
synchronizer before its frame goes away, and must make up for what the
synchronizer may have done for it meanwhile.

**What is hard.** No lock protects most of this. The races are between
releasers, new arrivals and waiters that give up; between the clearing of the
wait-in-progress bit and the unparking; between two users of a timer and the
timer thread. What must hold, by component:

- *Parker*: one winner; the status is the winner's; a park spot is clean when
  it goes back to the thread; nobody touches the frame afterwards; a wait
  returns when it is due.
- *Locks, semaphore*: exclusion, conserved permits; no lost wake-up; no waiter
  at the front that could be served and is not; no wait block in a list after
  its owner has left.
- *Initialize-once lock*: at most one initialiser; false means available.
- *Timers*: relative delays add up to the fire times; nothing fires early; a
  cancelled timer is quiet when `Cancel` returns; one callback at a time. The
  same of registered waits, and no permit of the waitable is lost.
- *Alerter*: a parker whose wait is over is in nobody's hands; whoever waits when
  the alerter is set is alerted.
- *Events, barrier, count-down event, condition variable*: every release reaches
  every waiter that it is for, and nobody is released without one; the words
  that count partners and arrivals agree with the threads.
- *Waits on several objects*: nothing is taken from an object that the wait does
  not report; a wait that fails gives back what it took; no wait block stays
  in a queue.
- *Blocking queues, exchanger, channel*: each item is delivered once, to whom it is for,
  in order; nobody waits beside what it waits for.

`PROJECT.json` lists the hazards line by line, those of the components that
are not modelled included.

## 2. Modules

| Module | What it is | Code |
|---|---|---|
| `Parker` | one parker, its owner, unparkers, APCs, an alerter, a reused park spot | `Parker.c`, `ParkSpot.c`, `StInternal.h` |
| `ParkingProofs` | theorems about `Parker`, and about the timer, the registered wait, the lock, the spin lock and the fair lock in `MCParking` | |
| `Alerter` | the alerter with several parkers | `Alerter.c`, `StInternal.h` |
| `InitOnceLock` | the initialize-once lock | `InitOnceLock.c`, `StInternal.h` |
| `WaitLists`, `WaitListLemmas` | wait lists as sequences; what pushing, popping, appending, joining and picking keep; sums over finite sets | |
| `Mutex` | abstract: what an exclusive lock promises | |
| `Lock` | the lock, with timed waits; implements `Mutex` | `Lock.c` |
| `SpinLock` | the spin lock; implements `Mutex` | `SpinLock.c` |
| `ConditionVariable` | a monitor: extends `Lock` | `ConditionVariable.c`, `Lock.c` |
| `LockedQueue` | a queue with a lock whose waiters push themselves on the lock | `LockedQueue.c` |
| `QueuedSynchronizer` | acquire, release and cancel over `LockedQueue`, parameterised by what the state word allows | the common shape of the next four |
| `Semaphore` | instance: permits | `Semaphore.c` |
| `FairLock` | instance: free or busy; implements `Mutex` | `FairLock.c` |
| `QueuedSynchronizerProofs` | lemmas about `LockedQueue` and `QueuedSynchronizer`, for any state word | |
| `SynchronizerProofs` | theorems about the semaphore, the reader/writer lock and the synchronization event, in `MCSynchronizers` | |
| `SharedMutex` | abstract: what a reader/writer lock promises | |
| `ReadWriteLock` | instance: readers or a writer; implements `SharedMutex` | `ReadWriteLock.c` |
| `ReentrantLock` | owner and count over a mutex; implements `Mutex` | `ReentrantLock.c`, `ReentrantFairLock.c` |
| `ReentrantReadWriteLock` | owners, counts and resource tables over a reader/writer word | `ReentrantReadWriteLock.c`, `ResourceTable.c` |
| `SynchronizationEvent` | instance: an auto-reset event, with a release loop of its own | `SynchonizationEvent.c` |
| `NotificationEvent` | the manual-reset event, its word with a lock bit | `NotificationEvent.c` |
| `CountDownEvent` | a counter over an instance of `NotificationEvent` | `CountDownEvent.c` |
| `Barrier` | the two phase states, over what the event promises | `Barrier.c` |
| `EventsProofs` | theorems about `InitOnceLock`, and about the events and the barrier in `MCEvents` | |
| `Waitables` | `WaitAny`, `WaitAll`, `Signal`, `SignalAndWait` over semaphores | `Waitaible.c`, `Semaphore.c` |
| `WaitsProofs` | theorems about the reentrant locks, the condition variable and the alerter, in `MCWaits` | |
| `WaitablesProofs` | theorems about `Waitables`, in `MCWaits` | |
| `ListedWaiters` | waiting in lists that a spin lock protects | shared by the next modules |
| `BoundedBlockingQueue` | a bounded buffer, adders and takers that wait | `BoundedBlockingQueue.c` |
| `BlockingQueue` | takes from several linked queues | `BlockingQueue.c`, `LinkedBlockingQueue.c` |
| `StreamBlockingQueue` | a byte stream with partial transfers | `StreamBlockingQueue.c` |
| `RendezvousChannel` | senders, receivers and replies | `RendezvousChannel.c` |
| `Exchanger` | a slot in which two threads meet | `Exchanger.c` |
| `InitOnce` | one-time initialisation of a target, over the promise of the initialize-once lock | `InitOnce.c` |
| `Future` | a value that is set once, over the promise of the notification event | `Future.c` |
| `ChannelsProofs` | theorems about all systems of `MCChannels` | |
| `TimerList` | the delta list, the limit timer, the tick count, the timer thread | `TimerList.c` |
| `Timer` | the timer on a callback parker | `Timer.c`, `Parker.c` |
| `RegisteredWait` | a wait on a semaphore whose continuation is a callback | `RegisteredWait.c`, `Parker.c`, `Semaphore.c` |
| `MC...` | the instances that TLC checks | |

The modules that compose others: `CountDownEvent` runs the steps of the
event it contains; `ConditionVariable` runs those of the lock;
`QueuedSynchronizer` those of the locked queue; `BlockingQueue`,
`BoundedBlockingQueue`, `StreamBlockingQueue` and `RendezvousChannel` those of
`ListedWaiters`.

**Correspondence.** A thread has a program counter; a labelled point is placed
before every read or write of memory that another thread may change. A
compare-and-swap is one action with a success and a failure branch where the
code uses the value it has read before (the failure branch goes where the code
goes); a loop that reads the word again is one action, taken when the swap
succeeds. A wait block and a parker in a frame are fields indexed by the
thread, and `ForgetBlock`, or the return of the call, ends their life.
Mutated forms of definitions (`..._NoTest`, `..._Skip`, and so on) stand before
the definition they mutate: each is a plausible mistake in that code, and each
breaks the property that `PROJECT.json` pairs it with. `PROJECT.json` maps every
definition to its lines.

- `Parker`. `wip` and `count` are the two fields of `Parker->State`. The owner's
  control state follows `ParkThreadEx` and, inside it, `WaitForParkSpot`: the
  spin phase, the allocation of the park spot, the clearing of the bit, the
  registration with the alerter, the wait, the cancellation, the freeing. A
  waker sets the status, tests the bit, exchanges the word and sets the spot in
  four actions, as `UnparkInProgressThread` and `UnparkThread` do. An APC is a
  waker that runs on the owner's own thread: the owner is at `inApc` until it
  ends, and it sets the spot's `State` in place of the event. `ComWaitFails` is
  the failure of `CoWaitForMultipleHandles`, with which STA threads wait. The
  owner waits again and again with the same park spot, because the hazard is a
  signal that a wait leaves to the next.
- `Alerter`. `head` is the state, `next` the links, explicit because the code
  decides by them (`Parker->Next == NULL`, or equal to the parker itself). The
  fast path of a deregistration is two steps, its test and its swap; the slow
  path takes the list, sorts it into locked and other parkers, and puts the others
  back; `AlertCancel`, `AlertUnpark` and `AlertMark` are `AlertParkerList`, run by the setter
  or by a thread that finds the alerter set when it puts its list back.
- `InitOnceLock`. `base` and `waiters` are the one word. `FailRead`, `FailCas`
  and `FailPop` are the steps of `InitTargetFailed`, which uses what it read.
- `Lock`, `SpinLock`. `busy` and `list` are the one word. `Exit` takes the list and walks
  it; `UnlinkGrab` is a waiter that timed out taking the whole list from under
  the holder, after which it must put the lock, or a waiter, back to work. The
  spin lock has no cancellation.
- `ConditionVariable`. `waitList` is the condition's list, which the lock
  protects. `Notify` does not unpark: it locks the waiter's parker and pushes its
  wait block, marked as locked, on the lock's list, where the steps of `Lock` find
  it. A waiter that gives up enters the lock and removes its block then.
- `ReentrantLock`, `ReentrantReadWriteLock`. The lock below is reduced to what its own
  module is checked to promise: one atomic acquisition, or a cancelled wait. What is
  modelled step by step is what these files add: the owner, the count and the
  table entry are written before or after that atomic step, and other threads
  read the owner in between. `table` is the sequence of entries of each thread, in
  the order of the array, because a freed entry is replaced by the last one.
  `depth`, `reading` and `writing` are ghosts: what the callers have entered and not left.
- `LockedQueue` and `QueuedSynchronizer`. `stack` is `LockState`, and the lock of the
  queue is its being busy. `release`, `lockParker`, `unpark` and `undo` are the
  steps of `ReleaseWaitersAndUnlockQueue`, which acquires for a waiter first and
  locks its parker afterwards, so that it may have to undo. The
  synchronizers instantiate the operators `Available`, `Take`, `Undo`,
  `Exhausted`, `ForceUnlock` and `StopAfter` from their source file. The
  synchronization event waits and cancels in the same way; its releaser
  carries a signal (`trySet`) that it may hand on or put back.
- `NotificationEvent`. `set`, `lock` and `list` are the parts of the word. `slow` and
  `filter` are `SlowUnlinkListEntry`: a cancelled waiter takes the list with the
  lock bit set, drops the cancelled blocks, and puts the rest back or, if the event was set
  meanwhile, releases it.
- `CountDownEvent`, `Barrier`. A counter and its event; the barrier's two phase
  states with the word `partners * Wide + arrived`. The model's clients keep
  the barrier's rules: only partners signal, once a phase. Its event is reduced
  to what `NotificationEvent` checks, the count-down event runs the real one.
- `Waitables`. A waiting call has one parker, a wait block per object, and a
  program counter that follows the two passes over the array: take what is
  there, else run the prologues, park, cancel what is left. In a wait-all each prologue
  or releaser lowers the parker's count; the waiter that is unparked takes all
  objects one by one and undoes them if one fails. The queue of a
  semaphore is coarser than in `LockedQueue`: see the module's head.
- `ListedWaiters` and the channels. What runs under the spin lock is one action.
  Unparking happens outside, and so does the unlinking of a waiter that gave up:
  those are separate steps. Items are numbered, so that a property can say where
  each one is.
- `Exchanger`. No lock: The tests of the slot and its swaps are steps of their own.
- `InitOnce`, `Future`. Objects and values are numbered. A constructor may fail. The lock and
  the event below are one word each; a thread that would wait cannot step. All
  callers initialise in the same mode (`Modes`), synchronous or asynchronous.
- `TimerList`. What runs under the spin lock of the list is one action; the
  timer thread reads the clock, moves the base time, picks the timers that
  expired, runs their callbacks outside the lock, and parks. The tick count has
  `Wide` values, so it wraps around during the run, which starts just below
  the wrap.
- `Timer`, `RegisteredWait`. `state` is the state word with its busy marks and waiting parkers;
  the callback parker is a count and a bit; `TryCancelParker`, the expiry and, in
  the registered wait, the releaser of the semaphore
  compete for it. `SetAlone` says whether another call may overlap with the
  start of `StTimer_Set` (below, deviations). The semaphore of the registered
  wait is its permits, its wait block and who holds its queue's lock,
  because callbacks run with that lock held.

The wait inside the other modules is the contest that
`Parker` checks in detail, reduced to its result: one of the releaser and the
canceller takes the lock count to zero. In the same way `Parker` has one parker
in its alerter, and `Alerter` has the others.

## 3. Runs

Systems that share no state are checked by one run where their questions are
the same: an `MC` module puts them side by side, a variable `which` chooses one
of them in the initial state, and the others' variables keep a value that
nobody looks at. The state space is the sum of theirs, not the product. A
property of such a module says which system it is about, and names the
property of that system's module. `MCParking` has two specifications: `CallbacksSpec`, of
the run `callbacks`, starts with the parker, a timer, a registered wait or raw timers, and
`LocksSpec`, of the run `locks`, with one of the three locks.

| Run | Checks | Instance |
|---|---|---|
| `locks` | lock, spin lock, fair lock. All three implement `Mutex`; no wake-up is lost and no wait block dangles (lock, spin lock); timed waits on the lock and all waits on the spin lock and the fair lock end; a free lock with parked threads is taken | 3 threads, 1 cancellation in the fair lock, any number in the lock |
| `synchronizers` | semaphore, reader/writer lock, synchronization event, timer list. Permits and signals conserved; no front waiter left beside what it waits for; queue lock exclusive, wait blocks do not outlive their frames; the reader/writer word counts its owners, and the lock implements `SharedMutex`. Delays add up to fire times, nothing fires early, one place per timer | 3 threads, requests of 1 and 2, maximum 2, 1 post, 2 sets, 1 cancellation; 2 periodic or one-shot timers, 12 tick values, sleep limit 1, delay 3, lag 2 |
| `callbacks` | parker, timer, registered wait, timer list without periods. One winner, its status, a clean spot, no access to a dead frame, no parker mistaken for a callback parker; what is inactive is quiet, what is active is armed, one callback at a time, no permit lost to the callback; a locked parker, an expired timeout or a set alerter ends a wait, waits for a callback end, a raw timer fires or is cancelled | 2 unparkers, 1 APC, an alerter, lock counts to 2; 2 users and the timer thread, all due times, 2 permits; 2 timers, 9 tick values, delay 2 |
| `events` | initialize-once lock, notification event, count-down event, barrier, alerter. One initialiser, and false means available. Nobody forgotten, nobody woken without a set; no block or parker reachable after its wait; a wait on the count returns at zero; the barrier's word counts partners and arrivals, nobody passes a phase early; a set, a finished phase, a set alerter let their waiters leave, and a call for a target whose initialisation does not fail returns | 3 threads, 1 spin, 2 failures, amounts 1 and 2, 3 phases with partners added and waits timed out, or with partners removed; alerter: 2 threads that wait, 1 that sets |
| `waits` | waits on two semaphores, a monitor, the alerter, the reentrant locks. No permit lost; owners, counts, table entries and state words agree with who has entered; a wait-all's count is what is missing; nobody stuck beside what it waits for; no wait block or parker outlives its call; no notification lost; no deadlock | 3 threads, 2 semaphores with maximum 1; 3 threads in the monitor; 3 threads that wait with an alerter and set it; 3 threads and a reentrant lock, or two reentrant reader/writer locks, depth 2 |
| `channels` | bounded queue, take-any over linked queues, stream, exchanger, rendezvous channel, one-time initialisation, future. All get the one target and the one value, and objects that lost the race are destroyed; each item is in one place and got once by whom it is for; first in, first out; nobody stuck beside what it waits for; no wait block outlives its call | 3 threads, capacity 1 and 2, 4 items, 2 queued items per run of take-any, one queue disposable, transfers of 1 and 3 bytes up to 4, 4 exchanges, 3 messages; 4 constructed objects; 3 offered values |
| `registered_cancel` | a deviation: cancelling under the queue's lock | 2 users, 1 permit |
| `barrier_remove` | a deviation: removal against a timeout | 3 threads, 4 phases |
| `take_any_offset` | a deviation: an item lost by `TakeAnyEx` | 2 threads, offset 1, count 1 |
| `rendezvous_send_only` | a deviation: the sender that expects no reply | 2 threads |
| `notify_all` | a deviation: `NotifyAll` notifies nobody | 2 threads |
| `alerter_lost` | a deviation: a parker dropped from the alerter | 3 threads |

**Bounds, and why they are enough.** Three threads are the least with a
releaser, a waiter that gives up and a third party (a barging acquirer, a waiter
behind, a second releaser), and every mutant of these protocols is already
found with three. `MaxCancels`, `MaxEventCancels` and `MaxLockCancels` bound how many waits end by a timeout or an
alert, `MaxPosts` and `MaxSets` the releases that no acquire precedes, `MaxFailures` failed
initialisations, `MaxSpins` the spinning, which only repeats a read. Requests of 1 and 2 with two permits give a
front waiter that is not satisfiable and one behind it that is. In the timer list
a sleep limit of one tick makes the limit timer appear, two timers give
insertions before, between and behind; `MaxLag` bounds by how many ticks the
timer thread can be late, which the code needs too (a timer that is late by
half the range of the tick count cannot be told from one in the future), and
`TimerListAssumption` states it as `4 * MaxLag < Wide`. `MaxPhases` counts more phases than
there are phase states, so that each is reused. `Wide = 16` in the barrier stands for
2^16 and exceeds any number of partners of the instance. `MaxItems`,
`MaxQueued`, `MaxBytes`, `MaxExchanges` and `MaxMessages` allow more items than the
buffers hold and than there are threads, `MaxBuilt` more objects than threads, `MaxValues` a
value for each thread; a buffer of one or two slots is full and
empty often, a stream buffer of two bytes under transfers of three wraps around and transfers
in parts. `MaxDepth` is how often a thread enters the same reentrant lock: with 2, some exits
release and others do not, and with two locks a table has an entry that is not the last.
`MaxState` lets the counter of the count-down event rise and fall.
Symmetry is used in
runs without liveness only, for threads or timers that are interchangeable.

Where a property about one thread is checked for all by symmetry of the
instance though the run has no `SYMMETRY` (`WaitsEnd`, `LockWaitsEnd`, `WaitersLeave`), the property names one
thread: they are interchangeable in the specification.

Deadlock is checked in `waits`, `registered_cancel` and `notify_all`. The other configurations set
`CHECK_DEADLOCK FALSE`, because a system there may stop: permits are all
taken, the target is available, items or phases are used up, nobody is obliged to set
an event.

**Fairness.** A thread that is inside an operation keeps running: weak fairness
of its steps, which is what the operating system's scheduler gives. A finite
timeout expires (`Lock`; in `Parker` the expiry is a step of the owner); nothing
promises it in the events, whose waiters must leave because of the set. The
holder of a lock releases it and an initialisation ends: assumptions about callers, stated where they are
used. Nobody is obliged to call anything: `TryEnter`, `Set`, `Cancel`, a post, the
locking of a parker, an alert and the failure of a COM wait have no fairness.
Time passes in the timer list. The lock does not promise that a given waiter gets
it (arrivals may barge), so only the release of timed waits, and that a free lock is
taken, are claimed; the fair lock hands over in FIFO order, and every waiter
is claimed to be served. The spin lock lets arrivals barge too: a parked thread is
claimed to look at the lock again. A raw timer is claimed to fire or be cancelled in
`callbacks`, without periods; the larger instance with periods, in `synchronizers`,
checks safety.

The synchronizers on the locked queue, the waits on several objects and the
channels are checked for lost wake-ups by safety properties of states at rest
(`FrontServed`, `NobodyStuckBeside`): no thread is inside an operation, and somebody
waits for what is there.

## 4. Proofs

`ChannelsProofs`, `EventsProofs`, `ParkingProofs`, `QueuedSynchronizerProofs`,
`SynchronizerProofs`, `WaitsProofs` and `WaitablesProofs` hold machine-checked proofs for
every value of the constants. The assumptions are the named ones on constants only
(`ParkerAssumption`: APCs are unparkers, the lock count is at least one, and
unparkers differ from the model's own names; `InitOnceAssumption`: threads differ
from the values of a free, a busy and an available lock); `Lock` and `SpinLock` need none on their
set of threads, the fair lock that the absence of a thread is none (`FairLockAssumption`), and `ReentrantLock` that the invalid thread identifier is no thread's.
`ReentrantReadWriteLockAssumption` says that the threads are finitely many, that the invalid thread and the absence of a
lock are none of them, and that the writer's part of the word and the depth of recursion are positive.
`SemaphoreAssumption` is about the counts. `ReadersFit` says that the threads that use a reader/writer
lock are finitely many and fewer than the readers that its word can count (2^31 - 2): `TryEnterRead` fails at
the maximum, so nothing overflows, but what the lock then promises to a waiting reader
is another matter, and a process does not have so many threads.
`BarrierAssumption` says that the threads are finitely many and fewer than `Wide`, the
2^16 of a state word: `AddPartners` refuses a partner beyond `MAX_PARTNERS`
(`Barrier.c:25,115`), a test that the model therefore leaves out. `CountDownAssumption`
says that counts are positive numbers, which `Signal` and `TryAdd` test
(`CountDownEvent.c:52`). `CallbacksAssumption` says that the timer thread is none of the users, and
what the due times and periods are. `AlerterAssumption` says that the null pointer and the alerted state are
no parkers. `WaitablesAssumption` says that the threads are finitely many, that arrays are of semaphores and
not empty (`WaitAny` and `WaitAll` refuse an array in which they find no object, `Defined` and `Count` in
`Waitaible.c`), and that those of a wait-all have no object twice, which `WaitAll` finds by sorting them.
`ChannelsAssumption` says that the threads are finitely many, that the absence of one is none of them, that sizes are numbers, and that the bounded and
the stream queue have room for something (`StStreamBlockingQueue_Init` refuses a capacity of zero,
`StreamBlockingQueue.c:676`); and that the array of linked queues has two entries: of the calls of
`TakeAnyEx` that `MCChannels` makes, one then visits both queues, the second one first, and the other the first one alone. A call that leaves out
queues in front of those it visits loses items, for any number of queues (`take_any_offset`, section 5).

Two hypotheses are not assumptions but conditions on how the objects are called, stated in the theorems: `SetAlone`, and
`NoDuplicates`, that `WaitAny` is called with no object twice. `WaitAny` does not test for
it; section 5 says what happens then.

- **Parker.** `TypeCorrect`, `WaitStatusCorrect`, `ParkSpotReusable`,
  `FrameLifetime` and `NoFalseCallback`. The properties speak
  of the end of a wait and are not inductive: that the spot is clean on return
  depends on who was about to signal it. The inductive invariant `IInv` says,
  by phase of the wait, what the winner may still be doing: before the wait
  (`BeforeInv`) a cleared bit means a winner that has finished, and no event;
  during it (`WaitingInv`) the spot is signalled exactly when the winner has
  finished, in the event or, from an APC, in the spot's state; afterwards
  (`AfterInv`) the event is clear and the status is the winner's; `CountInv`
  ties the winner to the lock count, and `AlerterInv` says which side holds a
  registered parker. `NextIInv` has one step per action.
- **Timer and registered wait.** `QuietWhenInactive` (`InactiveIsQuiet`), `ArmedWhenActive`
  (`ActiveIsArmed`), `CallbackIsAlone` (`OneCallback`) and `PermitsReachCallback` (`PermitsCalled`), for any
  users and any number of permits. Those about the timer assume `SetAlone`: that no call of `StTimer_Set`
  overlaps the start of another, without which section 5 shows them to fail. Both objects are a
  state word, a lock count, a wait-in-progress bit, and (for the wait) a queue and its lock, each changed by
  steps of their own, so `TimerInv` and `WaitInv` say how they go together. One thread holds the lock
  of the callback parker (`WinnerInv`, `LockerInv`); while another is inside `EnableUnparkCallback` the
  two overlap, and then the bit is still set and the holder is about to leave the callback to that thread.
  The raw timer and the wait block are in their lists as long as the parker can be locked, or until the thread that
  locked it takes them out (`RawInv`, `ExpiryInv`, `LinkedInv`). One thread cancels or
  unregisters; its parker is in the state word, or in the hands of the callback that swapped
  it out, or released, and then the state is still the busy mark of a callback that is over
  (`CancelInv`, `WithdrawInv`): that nobody acts on that mark is what keeps a cancelled object quiet.
  `StateInv` and `WaitStateInv` say what the state word tells, and when it is armed.
  `PermitInv` adds to the permits and the callbacks the one permit in the releaser's hands and the one on its way to the
  callback.
- **Initialize-once lock.** `TypeCorrect`, `InitialisedByOne` (`OneInitialiser`) and
  `FalseIsAvailable` (`FalseMeansAvailable`), through any number of failures and
  in spite of the deviations of section 5. `OneInitialiser` is not inductive: a popped
  parker becomes the initialiser, so `WaitingInv` says that a parker is in one
  list, once, and its owner is parked with no status yet; `SeenInv` says what a stale read can be
  when it is compared again (a failing initialiser has seen a parker or the
  sentinel, never a free lock), and `AvailableInv` that the available state is
  final.
- **Notification event and count-down event.** `EventPromisesKept` (`EventPromises`: nobody is
  forgotten, nobody is woken without a set, no block outlives its wait) and
  `CountDownReleasesAtZero` (`ReleasedAtZero`). Two kinds of threads take the stack as a
  whole: those that set the event, and those whose wait was cancelled and
  that filter the stack under the lock bit, while others push, time out, set and
  reset. `EventInv` says that a block is in one place, once (`HandsInv`): the stack, or
  what one thread walks over, has kept, or is about to unpark; what a thread may hold where it
  is (`HoldingInv`); that the lock bit has one owner, and that an event that is set has
  blocks only while the bit is set, so its owner will find them
  (`LockBitInv`); that the owner of a block that can be reached has not returned, and that a
  parked thread's block is reachable until it is unparked (`BlockInv`);
  and that whoever is being unparked was parked when the event was set (`PromiseInv`), which
  has to be said of the walker and not of the event, for the event may have been reset
  since. `HandsLemma` reduces each step to one thread's hands. The count-down event runs the
  same steps (`InnerEvent`); that it never sets the event while somebody may still add to the
  counter needs that at most one thread is between the counter's reaching zero and the set.
- **Barrier.** `BarrierWordsCount` (`WordCounts`) and `NobodyPassesEarly` (`NobodyEarly`), for partners
  that come, go and time out. Between phases the word of the current phase is
  `Word(partners, arrivals)` (`CountingInv`); while a partner is in
  `FinishPhase` it is not, and what holds instead follows the order in which the code renews
  the two phase states (`FinishingInv`, `PhaseInv`). `EndingInv` is the heart: a phase has one thread that ends it,
  and no other phase can end before it has set the event of its own,
  although it has published the next phase by then, because as long as
  it has not left, it is a partner of the next phase that has not arrived or, when it removes itself, another
thread of its phase is. `OldInv` says that the word of a phase
  that is over is full until it is renewed, by which a late waiter knows not to take back its arrival.
- **Lock.** `LockTypeCorrect`, `WakeupsKept` (`NoLostWakeup`), `BlocksUnlinked`
  (`NoDanglingBlock`) and `ImplementsMutex` (`Exclusive`: the lock implements `Mutex` under
  the mapping of its holders); the last three are about the spin lock too. The wait list moves as a whole from the lock word
  into the hands of the releaser or of a canceller. `LockInv` says that a wait
  block is in exactly one place (`PlaceInv`), that each block found in a
  place belongs to a thread whose call has not returned (`OwnerInv`), that
  only a thread inside the walk holds blocks (`WalkInv`), and that the busy
  word has one holder (`HolderInv`). `PushLemma`, `PopLemma` and `SmallStacks` of
  `WaitListLemmas` state what the stacks of wait blocks keep.
- **Spin lock.** `SpinWakeupsKept` (`NoLostWakeup`), `ParkersUnlinked` (no parker of a
  thread that has gone on is in a stack) and `SpinImplementsMutex`. The release frees
  the lock before it walks the stack, so `SpinPlaceInv` says that a parker is in one place
  while its thread is parked and not unparked, and `SpinHolderInv` that only a thread
  that is leaving has a stack in its hands. `ReverseLemma` is about the reversal of the stack.
- **Reentrant lock.** `ReentrantCountsAreRight` (`CountsRight`, and `NobodyOwns`: the assertions of the
  source) and `ReentrantImplementsMutex`, over an atomic lock below. `RecordInv` ties the owner to the places where it
  is not yet, or no longer, recorded although the lock below is held; `SavedInv` carries the count across
  a wait on a condition.
- **Reentrant reader/writer lock.** `ReentrantRWCountsAreRight` (`CountsRight`) and `ReentrantRWWordIsRight`
  (`WordCountsOwners`). The first reader of a lock is recorded in the lock, all others in the
  resource table of their thread; a thread that has become the first reader, or a writer, has
  changed the state word and not yet recorded itself, and one that leaves does so in several steps, the order of
  which differs between readers and writers. `ReadInv`, `FirstInv` and `WriteInv` say, for each of these
  places, what is recorded of the thread; `TableInv` that a table has one entry for a lock; `WordInv` that the word counts the threads that read, once each, and a writer excludes them.
  `LookupLemma` and the lemmas next to it say what the search of a table, an insertion and a removal do to every entry.
- **Condition variable.** `NoNotificationLost` (`NobodyForgotten`) and `MonitorBlocksAreRemoved`, with the steps of the
  lock below. A notified waiter's block goes from the list of the condition to the list of the
  lock, and one that gives up leaves whichever list it is in, while the holder of the lock may pass
  blocks from list to hand. `CondInv` says who is in the condition's list and with which parker,
  `NotifiedInv` that the block of a notified waiter which was not unparked is in the lock's list while somebody holds the
  lock, or in the hands of a releaser; the other parts are those of the lock, restated for the threads that were not notified.
- **Waits on several objects.** `NothingIsLost` (`NothingLost`), `BlocksAreRemoved` (`BlocksLeave`), `WaitAllCountsAgree`
  (`WaitAllCounts`) and `NoWaiterStuck` (`NobodyStuckBeside`), for any finite set of threads, any semaphores and any
  arrays; the first two speak of all systems of `MCWaits` and use the theorems about the others. A call has a
  block in every queue and one parker, a thread may serve other queues in the middle of its own
  call, and a releaser may find the waiter it serves acquired, cancelled or gone. `WaitsInv` has one part per such relation.
  `ReleaserInv` says which lock a thread that serves holds and which block it has in its hands, `CallInv` and
  `IndexInv` where its own call is then and which indices have been visited, inserted and acquired there.
  Blocks: whatever is in a queue or in a releaser's hands belongs to a call that has not returned and to an index
  that was inserted and not acquired (`QueueInv`, `FrontInv`), and conversely such an index has its block in one of the two (`LinkedInv`). Parkers: `ParkerInv`
  says of a wait-any that the parker is locked once, by the thread itself or by one releaser, which is on its
  way to unpark it; of a wait-all `CountInv` says that the count of its parker is the number of blocks that nobody has acted on yet
  plus the prologues that are left, so that the last releaser or the last prologue, and no other, ends the wait. `PermitInv`: beside a permit and a
  waiter somebody holds the lock of the queue and will look. `TotalInv` counts permits: free, used by calls, and at most one in the
  hands of each releaser and of each call that locks its own parker.
- **Channels.** `NothingIsLostOrTwice` (`NothingLostOrTwice`), `FirstInIsFirstOut` (`InOrder`), `NobodyIsStuckBeside`
  (`NobodyStuckBeside`) and `WaitBlocksLeave` (`BlocksLeave`), for any finite set of threads and any
  capacities. `ChannelsInv` has one invariant for each system of `MCChannels`.
  All but the linked queues and the exchanger wait in the same way, and `WaitersOK` says of each waiter where its
  entry, its parker and its status are: a parker that is not locked has its entry in the list, and one that was locked by another thread has its
  status and is on the way to be unparked.
  *Bounded queue* (`BoundedInv`): items are numbered as they are offered, and an adder that waits keeps its own; `LiveOK` says that
  adders who can be served wait behind a full buffer in the order of their numbers, takers beside an empty one. That the order
  survives adders that give up is why `AcceptedInOrder` compares all that was accepted and not only neighbours.
  *Linked queues* (`LkInv`): a take has entries only in the lists that its loops have visited (`LkEntries`, `LkCalls`); once an adder has
  served it, the item is in its hands although its code has not looked yet (`LkResults`, `LkItems`), and the clean-up
  has to remove the other entry. `Serve` goes through a list that mixes calls that can be served with calls that cannot; `RankLemma` and
  `PickedLemma` say which positions it serves, in which order, and that each item of the list is given to one of them.
  *Stream queue* (`StreamInv`): the buffer is a ring whose bytes are the ones written and not yet delivered, by number (`BufferHolds`), and
  `AroundLemma` is the arithmetic of the ring. A thread that transfers serves the waiters of the other side in parts, inside the spin lock, with one of them in hand
  (`OwnerOK`, `OwnerFits`); `WaitersFit` says beside what a waiter may be found, outside of the loops and inside. That what was reported and what
  is under way add up to what was moved is a sum over the threads (`SumChange`).
  *Rendezvous channel* (`RvInv`): a message is in a sender's block, or received, or failed, once (`RvMessages`); the block of a sender that
  waits for its reply is in the hands of one receiver (`RvHolds`), and senders and receivers never wait side by side (`RvOneSide`).
  *Exchanger* (`ExchangerInv`): the block of a thread is in the slot or in the hands of one other (`ExchangerBlocks`).
  *One-time initialisation and future* (`OnceInv`, `FutureInv`): every object that was constructed is the target, destroyed, or in the
  hands of a thread that is about to do one or the other.
- **Alerter.** `AlerterParkersAreRemoved` (the alerter's part of `BlocksLeave`: `ParkersLeave`). Several threads may each walk
  over a stack of parkers that they took from the alerter, keep some, alert others, and put the rest back.
  `AlerterInv` says that there is an owner of every parker (the alerter's stack, what a thread walks over, or what it has
  kept), with which heads and links agree and which lead only to parkers in use (`ListsOK`); that one link at most leads
  to a parker (`OneLinkInv`); and what the locals of a walk are (`WalkerInv`). The link of the last parker that a walk
  has kept does not count: it is stale until the merge sets it. What can be reached through links is defined as what is in every
  closed set (`Reach`), so no induction is needed: the set of the parkers of one owner is closed (`ReachesListed`).

- **Queue family.** `QueuedSynchronizerProofs` proves the protocol once, for any `Available`, `Take` and `Undo`;
  `SynchronizerProofs` and, for the fair lock, `ParkingProofs` instantiate its lemmas four times and add what each state word counts.
  `QInv` is the inductive invariant of the protocol. The lock of the queue has one holder (`LockInv`); a wait block
  is in at most one of the queue, the lock's stack, the chain that the holder moves to the queue, and the hands of a
  releaser (`PlaceInv`), and so are the blocks of threads that want the lock (`LockerInv`); who is
  in such a place still has its frame, and who has been unlinked, granted or is taking its block
  out is where its call says (`OwnerInv`, `GrantInv`); `FrontRequest` is 0 or the request in front
  (`FrontInv`). All parts are needed at once: that a canceller finds its block in
  the list (`RemoveListed`) rests on the releaser's marking it unlinked, which rests on the
  releaser's having it in no other place. `QueuesAreSound` (`QueueSound`) follows.
  `StarveInv` strengthens `NoStarvedFront`, which is not inductive because a
  thread may be about to look with a stale `FrontRequest`: when the queue's lock is free
  and the front waiter can be satisfied, somebody is about to look who will find
  that out. `FrontsAreServed` (`FrontServed`) follows for the semaphore and the reader/writer lock from
  that more permits never make a waiter unsatisfiable (`Available(Take(s, r), q) => Available(s, q)`), and for
  the event, whose release loop is its own, from `CarryInv`: a releaser that has found the queue empty or a
  front that has given up carries the signal with it.
  `TakenInv` says what a releaser has taken on behalf of the front waiter; `EffectLemma` that every step inside an
  operation is quiet, takes, takes for the front, grants, or gives back, so that the conservation of permits and signals
  (`PermitsAndSignalsAreKept`, `NothingLost`), the count of the reader/writer word (`StateCountsOwners`,
  `StateCounts`), `SharedMutex` (`LockSharesOrExcludes`, `ReadersOrWriter`) and `Mutex` for the fair lock
  (`FairLockIsExclusive`, `FairExclusive`) are arguments about five cases. The conservation laws are sums over the threads; the library
  has no theorem about its sums, so `SumUnique`, `SumExists`, `SumChange` and
  `SumZero` of `WaitListLemmas` derive from the definition of `SumFunction`, by minimal counterexamples among the subsets of
  a finite set, that a sum changes by as much as its one changed summand.
  `FairLockIsSound` proves of the fair lock's queue what `QueueSound` and `FrontServed` say of the others.

The runs `callbacks`, `channels`, `events`, `locks`, `synchronizers` and `waits` check the same properties on their instances. Only model-checked: all liveness (fairness and `ENABLED` are beyond the
prover); of the alerter, that nobody
registered is left unalerted, which fails in general (section 5) and holds for the roles of run `events` (`AlerterPromises`);
and the timer list (`TypesOK`, `DelaysMeetFireTimes`, `NeverEarly`, `OnePlace`), whose invariant is about
sums over the sequence of timers and would need induction over data.

## 5. Deviations

Found while modelling. Six have a run that shows the trace:

- `RegisteredWait.c:81` (`registered_cancel`): the releaser of a semaphore or of an event
  unparks a callback parker, and so runs `UnparkCallback`, with the queue's lock held
  (`Semaphore.c:169`). If the wait that the callback registers again times out before it is
  enabled, the loop cancels the acquire in the same thread, which spins for the lock it holds.
- `Barrier.c:207` (`barrier_remove`): when a removal completes the phase, the word has the new number of partners and no
  arrivals; a waiter whose wait is cancelled at that moment finds the phase incomplete and decrements
  (`Barrier.c:342`), which takes one from the number of partners.
- `BlockingQueue.c:220` (`take_any_offset`): `TakeAnyEx` passes the index of a queue as wait key and
  compares it with `Count`, although it starts at `Offset`: an item may be lost.
- `RendezvousChannel.c:309` (`rendezvous_send_only`): the receiver tests `WaitType` for
  `SEND_ONLY`, which the sender stores in `Request`.
- `ConditionVariable.c:270` (`notify_all`): `Entry = ListHead` for `ListHead->Flink`: nobody is notified.
- `StInternal.h:269` (`alerter_lost`): between the test of `Parker->Next` and the swap of the alerter's
  state, another thread that holds the list may put this parker back with others behind it; the
  swap drops them, and they are not alerted.

Stated in a module, and left out of the runs because they do not hold; listing the
statement under `INVARIANTS` in a configuration of its module shows the trace:

- `StInternal.h:1000` (`FailSeesWaiter` of `InitOnceLock`): when the swap of `IOL_BUSY` for
  `IOL_FREE` in `InitTargetFailed` fails because a waiter has just been pushed, the
  code falls through with `State = IOL_BUSY` and dereferences the sentinel.
- `TimerList.c:327` (`WithinSpan` of `TimerList`): the next delay of a periodic timer is
  computed in `ULONG` without a test. When the callback returns two ticks or more after
  the next period has passed, the delay wraps around to almost 2^32.
- `Timer.c:234` (`NobodyElseSetting` of `Timer`, with `SetAlone = FALSE`): `StTimer_Set` stores `ACTIVE` before it enables the
  callback parker; a second `Set` or `Cancel` that comes in between takes the
  timer over while the first is still arming it. The run `callbacks` and the theorems about the timer therefore assume `SetAlone`.
- `Semaphore.c:84` (`WithinMaximum` of `Semaphore`): `UndoAcquire` adds permits without the test against
  `MaximumCount`.
- `Timer.c:212` (`StateIsOwnParker` of `Timer`): the assertion does not hold after a wait for the callback, when
  `State` is the callback's busy mark.

The modules have these steps, without a statement:

- `InitOnceLock.c:83`: after a failed swap of `IOL_FREE` the loop goes on with the
  stale state, so a parker may be pushed on a free lock, with nobody to release
  it. `WaitersLeave` is therefore claimed of initialisations that do not fail.
- `TimerList.c:392`: the limit timer's delay is subtracted from the limit timer
  itself; a timer that is set in the same tick goes behind it and does not wake the
  timer thread in time.
- `Waitaible.c:246`: the clean-up of `WaitAny` skips every entry of the object it acquired. With the
  same object twice in the array the second wait block stays in the queue
  (`BlocksLeave` fails in `waits` with the array `<<x, x>>`, which the instance
  leaves out).
- `Semaphore.c:169`: callbacks of registered waits run under the queue's lock.
- `InitOnce.c:195`: an asynchronous initialisation publishes its target and leaves the lock free, so a
  synchronous one that comes later constructs again and overwrites the target
  (`OneTarget` of `InitOnce` fails with `Modes = {{"sync", "async"}}`).
- `Future.c:105`: `GetValue` compares the result of `StNotificationEvent_Wait`, `TRUE` after a wait,
  with `WAIT_SUCCESS`, and fails when it has waited.
- `CountDownEvent.c:114`: a waiter that finds zero may return before the action of
  `SignalEx` has run.
- `RegisteredWait.c:127`: the state is read once more after the registration may have been
  unregistered and freed by its owner.
- `BoundedBlockingQueue.c:232`: a take with a null timeout on a disposed queue returns
  `WAIT_TIMEOUT` rather than the disposed status.

Read in the source of parts that are not modelled, or of wrappers:

- `ReadUpgradeWriteLock.c:158-180`: the loop over waiting readers does not remove the
  reader it has served, and does not end, with the spin lock held. Line 507: the test of
  the look-up is inverted. Lines 427-440: the last exit of a reader does not free its
  resource table entry, and the next enter takes it for a recursive one and does not count the reader.
- `ReentrantReadWriteLock.c:526`: `_AllowsAcquire` has `&&` where `ReentrantFairLock.c:317` has
  `||`: the prologue of a `WaitAll` on a lock that the caller has already entered for writing
  waits for the lock below, which only the caller can leave.
- `ReentrantReadWriteLock.c:716`: `SignalAndWait` runs the epilogue also when the prologue has entered
  the lock once more, and the epilogue sets the count to 1: the first exit releases the lock.
- `StInternal.h:757`: the index of a table entry is computed with the wrong sign, so the last entry
  is copied over itself; the outcome is right.
- Some wrappers mix `BOOL` results and wait statuses, of which success is 0:
  `StConditionVariable_Wait` and `StStreamBlockingQueue_Read` return the status;
  `StNotificationEvent_Wait` returns `WAIT_SUCCESS` when the event is set already
  (`NotificationEvent.c:367`), which `StCountDownEvent_Wait` passes on.
- `RegisteredTake.c:90`: when the queue is disposed and the take is not to run only once, it registers
  again, is satisfied at once, and calls back again, in a loop.
- `Alerter.c:190`: a thread that deregisters spins while the head of the list is the one it has
  seen; with three threads or more that head may be a parker that was registered again, and
  the spinning lasts until that wait ends.
- `FairLock.c:126`: the release loop passes `State != FLOCK_BUSY` where the other synchronizers
  force the unlock when nothing is left to hand out. `FairLock` models it as it is; the outcome
  is the same.

## 6. What is not modelled, and why

- Memory reordering: every action is atomic and in program order. The code uses
  interlocked operations and volatile fields, on x86 and x64.
- The C library underneath: allocation failures other than the park spot's, the
  creation of the timer list and of the TEB extension.
- UMS park spots and the UMS scheduler: what they do is decided by Windows.
- The reader/upgrader/writer lock: with the loop of section 5 it stops as soon as a
  reader waits, and a model of the rest would be a model of another program.
- The wait-all prologues and the epilogues of the reentrant locks (two of them are in section 5), the growth of
  the resource table, and the failure to allocate it.
- The registered take: the state word of `RegisteredWait` over a blocking queue.
- The virtual functions (waits on several objects, condition variables) of the fair lock, the reader/writer
  lock and the events: `Waitables` has those of the semaphore, `ConditionVariable` those of the
  lock; the others repeat them over another state word.
- Waits on several objects over the fine-grained locked queue: `Waitables` makes the
  insertion in a queue one step.
- Spinning beyond its reads, wording, logging.
- The spin lock of the timer list and of the channels is a critical section: one action. `SpinLock` is its justification.

## 7. What could be added

1. Proofs of the conservation laws of the channels and of the waits on several objects.
2. The other virtual functions as instances of `Waitables`, parameterised by the state word
   as `QueuedSynchronizer` is.
3. The registered take over `BoundedBlockingQueue`.
4. `ReentrantReadWriteLock` over `ReadWriteLock` itself in place of its promise, and its virtual functions.
