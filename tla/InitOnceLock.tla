---------------------------- MODULE InitOnceLock ----------------------------
(***************************************************************************)
(* The one-time initialisation lock (ST_INIT_ONCE_LOCK): SlowTryInitTarget *)
(* and its fast path, InitTargetCompleted and InitTargetFailed.            *)
(*                                                                         *)
(* Lock->State is a pointer: IOL_FREE, IOL_BUSY, IOL_AVAILABLE, or the     *)
(* first parker of a wait list whose last Next is the state under it.  The *)
(* model keeps the list (waiters, first = last pushed) and what is at the  *)
(* end of it (base); State, as the code reads and compares it, is their    *)
(* head.  Every shared read and every compare-and-swap is a step.          *)
(*                                                                         *)
(* ParkThreadEx and UnparkThread are the park contract of Parker: a parked *)
(* thread leaves with the status it was unparked with.                     *)
(***************************************************************************)
EXTENDS Naturals, Sequences

CONSTANTS
  Threads,
  MaxSpins,      \* SpinCount argument
  MaxFailures    \* bound on the initialisations that fail

ASSUME InitOnceAssumption ==
  /\ MaxSpins \in Nat /\ MaxFailures \in Nat
  /\ Threads \cap {"FREE", "BUSY", "AVAILABLE"} = {}

VARIABLES
  base,      \* what the wait list ends in
  waiters,   \* the wait list
  pc,        \* control state of each thread
  seen,      \* the local State (or Entry) of each thread
  spins,     \* what is left of SpinCount
  wake,      \* the status a parked thread was released with
  release,   \* the parkers that InitTargetCompleted has still to unpark
  failures   \* how many initialisations failed

vars == <<base, waiters, pc, seen, spins, wake, release, failures>>

States == {"FREE", "BUSY", "AVAILABLE"} \cup Threads
Pcs    == {"idle", "spin", "spinCas", "enqueue", "enqueueCas", "push", "parked",
           "init", "release", "fail", "failCas", "failPop", "crashed",
           "available"}

State == IF waiters = <<>> THEN base ELSE Head(waiters)

Init ==
  /\ base = "FREE" /\ waiters = <<>>
  /\ pc = [t \in Threads |-> "idle"]
  /\ seen = [t \in Threads |-> "FREE"]
  /\ spins = [t \in Threads |-> 0]
  /\ wake = [t \in Threads |-> "NONE"]
  /\ release = <<>> /\ failures = 0

Step(t, from, to) == pc[t] = from /\ pc' = [pc EXCEPT ![t] = to]

\* TryInitOnce / TryInitTarget: the fast path's test.
TryInitTarget(t) ==
  /\ \/ State = "AVAILABLE" /\ Step(t, "idle", "available") /\ UNCHANGED spins
     \/ /\ State # "AVAILABLE" /\ Step(t, "idle", "spin")
        /\ \E n \in 0..MaxSpins : spins' = [spins EXCEPT ![t] = n]
  /\ UNCHANGED <<base, waiters, seen, wake, release, failures>>

\* The end of one iteration of the spin loop.
SpinMore(t, from) ==
  IF spins[t] = 0
  THEN Step(t, from, "enqueue") /\ UNCHANGED spins
  ELSE Step(t, from, "spin") /\ spins' = [spins EXCEPT ![t] = @ - 1]

\* The spin loop reads the state.
Spin(t) ==
  /\ seen' = [seen EXCEPT ![t] = State]
  /\ \/ State = "FREE" /\ Step(t, "spin", "spinCas") /\ UNCHANGED spins
     \/ State = "AVAILABLE" /\ Step(t, "spin", "available") /\ UNCHANGED spins
     \/ State \notin {"FREE", "AVAILABLE"} /\ SpinMore(t, "spin")
  /\ UNCHANGED <<base, waiters, wake, release, failures>>

\* It tries to take the lock it has seen free.
SpinCas(t) ==
  /\ \/ /\ State = "FREE" /\ base' = "BUSY"
        /\ Step(t, "spinCas", "init") /\ UNCHANGED spins
     \/ State # "FREE" /\ UNCHANGED base /\ SpinMore(t, "spinCas")
  /\ UNCHANGED <<waiters, seen, wake, release, failures>>

\* The enqueue loop reads the state; the parker is initialised as locked.
Enqueue(t) ==
  /\ seen' = [seen EXCEPT ![t] = State]
  /\ wake' = [wake EXCEPT ![t] = "NONE"]
  /\ Step(t, "enqueue", CASE State = "AVAILABLE" -> "available"
                          [] State = "FREE"      -> "enqueueCas"
                          [] OTHER               -> "push")
  /\ UNCHANGED <<base, waiters, spins, release, failures>>

\* A failed compare-and-swap falls through to the insertion below it.
EnqueueCas(t) ==
  /\ \/ State = "FREE" /\ base' = "BUSY" /\ Step(t, "enqueueCas", "init")
     \/ State # "FREE" /\ UNCHANGED base /\ Step(t, "enqueueCas", "push")
  /\ UNCHANGED <<waiters, seen, spins, wake, release, failures>>

\* Parker.Next = State, and the parker becomes the head if State is unchanged.
Push(t) ==
  /\ \/ State = seen[t] /\ Step(t, "push", "parked") /\ waiters' = <<t>> \o waiters
     \/ State # seen[t] /\ Step(t, "push", "enqueue") /\ UNCHANGED waiters
  /\ UNCHANGED <<base, seen, spins, wake, release, failures>>

\* ParkThreadEx returns.
Unparked(t) ==
  /\ wake[t] # "NONE"
  /\ Step(t, "parked", IF wake[t] = "INIT" THEN "init" ELSE "available")
  /\ UNCHANGED <<base, waiters, seen, spins, wake, release, failures>>

\* Mutant: the waiters are told to initialise and the state is left busy.
InitTargetCompleted_NotPublished(t) ==
  /\ Step(t, "init", "release")
  /\ waiters' = <<>> /\ release' = waiters
  /\ UNCHANGED <<base, seen, spins, wake, failures>>

\* InitTargetCompleted swaps the state ...
InitTargetCompleted(t) ==
  /\ Step(t, "init", IF waiters = <<>> THEN "available" ELSE "release")
  /\ base' = "AVAILABLE" /\ waiters' = <<>> /\ release' = waiters
  /\ UNCHANGED <<seen, spins, wake, failures>>

\* ... and releases the waiters one by one.
ReleaseWaiter(t) ==
  /\ release # <<>>
  /\ Step(t, "release", IF Len(release) = 1 THEN "available" ELSE "release")
  /\ wake' = [wake EXCEPT ![Head(release)] = "AVAILABLE"]
  /\ release' = Tail(release)
  /\ UNCHANGED <<base, waiters, seen, spins, failures>>

\* InitTargetFailed starts ...
InitTargetFailed(t) ==
  /\ failures < MaxFailures /\ failures' = failures + 1
  /\ Step(t, "init", "fail")
  /\ UNCHANGED <<base, waiters, seen, spins, wake, release>>

\* ... reads the state ...
FailRead(t) ==
  /\ seen' = [seen EXCEPT ![t] = State]
  /\ Step(t, "fail", IF State = "BUSY" THEN "failCas" ELSE "failPop")
  /\ UNCHANGED <<base, waiters, spins, wake, release, failures>>

\* ... frees the lock when it saw no waiters ...
FailCas(t) ==
  /\ \/ State = "BUSY" /\ base' = "FREE" /\ Step(t, "failCas", "idle")
     \/ State # "BUSY" /\ UNCHANGED base /\ Step(t, "failCas", "failPop")
  /\ UNCHANGED <<waiters, seen, spins, wake, release, failures>>

\* Mutant: the popped waiter is released but the lock is freed as well.
FailPop_Free(t) ==
  /\ seen[t] # "BUSY" /\ State = seen[t]
  /\ Step(t, "failPop", "idle")
  /\ base' = "FREE" /\ waiters' = Tail(waiters)
  /\ wake' = [wake EXCEPT ![seen[t]] = "INIT"]
  /\ UNCHANGED <<seen, spins, release, failures>>

\* ... or hands it to the first waiter.  Reached with State = IOL_BUSY, the
\* read of State->Next is an access violation.
FailPop(t) ==
  /\ \/ /\ seen[t] # "BUSY" /\ State = seen[t]
        /\ Step(t, "failPop", "idle") /\ waiters' = Tail(waiters)
        /\ wake' = [wake EXCEPT ![seen[t]] = "INIT"]
     \/ /\ seen[t] # "BUSY" /\ State # seen[t]
        /\ Step(t, "failPop", "fail") /\ UNCHANGED <<waiters, wake>>
     \/ /\ seen[t] = "BUSY"
        /\ Step(t, "failPop", "crashed") /\ UNCHANGED <<waiters, wake>>
  /\ UNCHANGED <<base, seen, spins, release, failures>>

\* The steps a thread takes on its own once it has called the lock.
ThreadStep(t) ==
  \/ Spin(t) \/ SpinCas(t) \/ Enqueue(t) \/ EnqueueCas(t) \/ Push(t)
  \/ Unparked(t) \/ ReleaseWaiter(t) \/ FailRead(t) \/ FailCas(t) \/ FailPop(t)

\* The initialisation ends, one way or the other.
Finish(t) == InitTargetCompleted(t) \/ InitTargetFailed(t)

Next == \E t \in Threads : TryInitTarget(t) \/ ThreadStep(t) \/ Finish(t)

Spec == Init /\ [][Next]_vars

-----------------------------------------------------------------------------
(* Properties. *)

TypeOK ==
  /\ base \in {"FREE", "BUSY", "AVAILABLE"} /\ waiters \in Seq(Threads)
  /\ pc \in [Threads -> Pcs] /\ seen \in [Threads -> States]
  /\ spins \in [Threads -> 0..MaxSpins]
  /\ wake \in [Threads -> {"NONE", "INIT", "AVAILABLE"}]
  /\ release \in Seq(Threads) /\ failures \in 0..MaxFailures

\* The thread has been told to initialise and has not finished.
Initialising(t) ==
  \/ pc[t] \in {"init", "fail", "failCas", "failPop", "crashed"}
  \/ pc[t] = "parked" /\ wake[t] = "INIT"

\* At most one thread is told to initialise the target, and none once the
\* target is available.
OneInitialiser ==
  \A t \in Threads : Initialising(t) =>
    base = "BUSY" /\ \A s \in Threads : Initialising(s) => s = t

\* TryInitTarget returns false only when the target is available, for good.
FalseMeansAvailable ==
  \A t \in Threads : pc[t] = "available" => State = "AVAILABLE"

\* "There are waiter threads. So, try to release one of them": InitTargetFailed
\* takes the state it has read for a parker only if it is one.  Does not hold; see
\* the README.
FailSeesWaiter ==
  \A t \in Threads : pc[t] = "failPop" => seen[t] \in Threads

=============================================================================
