------------------------------- MODULE Parker -------------------------------
(***************************************************************************)
(* The park/unpark protocol of SlimThreading: one parker (ST_PARKER), the  *)
(* thread that waits on it (ParkThreadEx, ParkThread and the Windows park  *)
(* spot underneath), the threads and APCs that release it (TryLockParker,  *)
(* UnparkThread), and an alerter with which the parker is registered.      *)
(*                                                                         *)
(* The parker's State word packs the wait-in-progress bit (wip) and the    *)
(* lock count (count).  A compare-and-swap loop is one step, taken when    *)
(* the swap succeeds: a failed attempt only repeats the read.  Every other *)
(* shared read or write is a step of its own.                              *)
(*                                                                         *)
(* The owner waits again and again with the same park spot (Start), and    *)
(* each wait chooses its arguments and gets a fresh alerter.               *)
(***************************************************************************)
EXTENDS Naturals

CONSTANTS
  Unparkers,   \* actors that may try to lock and unpark the parker
  Apcs,        \* the unparkers that run as APCs on the waiting thread itself
  MaxCount,    \* bound on the lock count given to InitializeParker
  MaxSpins     \* bound on the SpinCount argument of ParkThreadEx

ASSUME ParkerAssumption ==
  /\ Apcs \subseteq Unparkers
  /\ MaxCount \in Nat \ {0}
  /\ MaxSpins \in Nat
  /\ Unparkers \cap {"alerter", "owner", "none", "TIMEOUT", "ALERTED",
                     "FAILED", "NONE"} = {}

VARIABLES
  wip,         \* the wait-in-progress bit of Parker->State
  count,       \* the lock count of Parker->State
  status,      \* Parker->WaitStatus
  handle,      \* Parker->ParkSpotHandle: 1 when it is a park spot
  next,        \* Parker->Next, as the alerter's list uses it
  event,       \* the auto-reset event of the park spot
  spotState,   \* ParkSpot->State, set by a self-unpark from an APC
  alerter,     \* Alerter->State
  opc,         \* control state of the owner thread
  wpc,         \* control state of each waker
  args,        \* the arguments of the current wait
  registered,  \* the local Registered of ParkThreadEx
  result,      \* the local Result of WaitForParkSpot
  ret,         \* what the current wait returned
  winner       \* history: who locked or cancelled the parker ("owner": itself)

vars == <<wip, count, status, handle, next, event, spotState, alerter,
          opc, wpc, args, registered, result, ret, winner>>

parkerVars == <<wip, count, status, handle, next>>
spotVars   == <<event, spotState>>
localVars  == <<args, registered, result, ret>>

Wakers   == Unparkers \cup {"alerter"}
Statuses == Unparkers \cup {"TIMEOUT", "ALERTED", "FAILED", "NONE"}

OwnerPcs == {"idle", "spin", "spinAlert", "alloc", "allocFailed", "spinUnpark",
             "clearWip", "register", "registerFailed", "wait", "blocked",
             "inApc", "apcDone", "waitFailed", "waitInfinite", "woken",
             "deregister", "freeSpot", "freeAlerted", "readStatus", "returned"}
WakerPcs == {"idle", "setStatus", "testWip", "exchange", "setSpot", "cancel",
             "unlink", "callback", "done"}

\* spins and timeout are consumed by the wait; useAlerter is Alerter != NULL,
\* kind tells ParkThread ("plain") from ParkThreadEx ("ex").
Args == [kind : {"plain", "ex"}, spins : 0..MaxSpins,
         timeout : {"ZERO", "FINITE", "INFINITE"}, useAlerter : {0, 1}]

\* ParkThread has no cancellers and does not spin.
ValidArgs(a) == a.kind = "plain" =>
                  a.spins = 0 /\ a.timeout = "INFINITE" /\ a.useAlerter = 0

Init ==
  /\ wip = 0 /\ count = 0 /\ status = "NONE" /\ handle = 0 /\ next = "NULL"
  /\ event = 0 /\ spotState = 0 /\ alerter = "NULL"
  /\ opc = "idle"
  /\ wpc = [w \in Wakers |-> "done"]
  /\ args = [kind |-> "ex", spins |-> 0, timeout |-> "INFINITE",
             useAlerter |-> 0]
  /\ registered = 0 /\ result = "NONE" /\ ret = "NONE" /\ winner = "none"

-----------------------------------------------------------------------------
(* The owner thread. *)

Goto(l) == opc' = l

\* Mutant: cancels a parker that is already locked.
TryCancelParker_AnyState(who) == count' = 0 /\ winner' = who

\* TryCancelParker succeeds: the lock count is cleared, the bit is kept.
TryCancelParker(who) == count > 0 /\ count' = 0 /\ winner' = who

\* TryCancelParker fails: someone already locked the parker.
AlreadyLocked == count = 0 /\ UNCHANGED <<count, winner>>

\* A new wait: InitializeParker on a fresh stack frame, published to the wakers.
Start ==
  /\ opc = "idle"
  /\ \E a \in {b \in Args : ValidArgs(b)}, c \in 0..MaxCount,
        s \in {"NULL", "ALERTED"} :
       /\ args' = a /\ wip' = 1 /\ count' = c /\ alerter' = s
       \* A parker initialised as locked is handed to one waker for release.
       /\ \/ /\ c > 0
             /\ wpc' = [w \in Wakers |-> "idle"] /\ winner' = "none"
          \/ /\ c = 0 /\ a.timeout = "INFINITE" /\ a.useAlerter = 0
             /\ \E u \in Unparkers \ Apcs :
                  /\ winner' = u
                  /\ wpc' = [w \in Wakers |-> IF w = u THEN "setStatus" ELSE "done"]
  /\ status' = "NONE" /\ handle' = 0 /\ next' = "NULL"
  /\ registered' = 0 /\ result' = "NONE" /\ ret' = "NONE"
  /\ Goto("spin")
  /\ UNCHANGED spotVars

\* The spin loop's test of the State word.
SpinTest ==
  /\ opc = "spin"
  /\ \/ wip = 0 /\ Goto("readStatus") /\ UNCHANGED args
     \/ wip = 1 /\ args.spins = 0 /\ Goto("alloc") /\ UNCHANGED args
     \/ /\ wip = 1 /\ args.spins > 0 /\ Goto("spinAlert")
        /\ args' = [args EXCEPT !.spins = @ - 1]
  /\ UNCHANGED <<parkerVars, spotVars, alerter, wpc, registered, result, ret, winner>>

\* The spin loop's test of the alerter.
SpinAlert ==
  /\ opc = "spinAlert"
  /\ \/ /\ args.useAlerter = 1 /\ alerter = "ALERTED" /\ TryCancelParker("owner")
        /\ ret' = "ALERTED" /\ Goto("returned")
     \/ /\ ~(args.useAlerter = 1 /\ alerter = "ALERTED" /\ count > 0)
        /\ Goto("spin") /\ UNCHANGED <<count, winner, ret>>
  /\ UNCHANGED <<wip, status, handle, next, spotVars, alerter, wpc, args,
                 registered, result>>

\* Mutant: the park spot is not stored in the parker.
AllocParkSpot_NotStored ==
  /\ opc = "alloc"
  /\ handle' = 0 /\ spotState' = 0 /\ Goto("clearWip")
  /\ UNCHANGED <<wip, count, status, next, event, alerter, wpc, localVars, winner>>

\* AllocParkSpot: the thread's free spot is reused, or there is no memory.
AllocParkSpot ==
  /\ opc = "alloc"
  /\ \/ handle' = 1 /\ spotState' = 0 /\ Goto("clearWip")
     \/ handle' = 0 /\ UNCHANGED spotState /\ Goto("allocFailed")
  /\ UNCHANGED <<wip, count, status, next, event, alerter, wpc, localVars, winner>>

\* No park spot: ParkThreadEx tries to cancel, ParkThread only spins.
AllocFailed ==
  /\ opc = "allocFailed"
  /\ \/ /\ args.kind = "ex" /\ TryCancelParker("owner")
        /\ ret' = "FAILED" /\ Goto("returned")
     \/ /\ args.kind = "plain" \/ count = 0
        /\ Goto("spinUnpark") /\ UNCHANGED <<count, winner, ret>>
  /\ UNCHANGED <<wip, status, handle, next, spotVars, alerter, wpc, args,
                 registered, result>>

SpinUntilUnparked ==
  /\ opc = "spinUnpark" /\ wip = 0
  /\ Goto("readStatus")
  /\ UNCHANGED <<parkerVars, spotVars, alerter, wpc, localVars, winner>>

\* InterlockedBitTestAndReset of the wait-in-progress bit.
ClearWaitInProgress ==
  /\ opc = "clearWip"
  /\ \/ wip = 0 /\ UNCHANGED wip /\ Goto("freeSpot")
     \/ /\ wip = 1 /\ wip' = 0
        /\ Goto(IF args.useAlerter = 1 THEN "register" ELSE "wait")
  /\ UNCHANGED <<count, status, handle, next, spotVars, alerter, wpc, localVars, winner>>

\* RegisterParker: push the parker on the alerter's list unless it is set.
RegisterParker ==
  /\ opc = "register"
  /\ \/ /\ alerter = "ALERTED" /\ Goto("registerFailed")
        /\ UNCHANGED <<alerter, next, registered>>
     \/ /\ alerter = "NULL" /\ alerter' = "PARKER" /\ next' = "NULL"
        /\ registered' = 1 /\ Goto("wait")
  /\ UNCHANGED <<wip, count, status, handle, spotVars, wpc, args, result, ret, winner>>

\* The alerter is set: cancel the parker, or wait unconditionally for the
\* thread that locked it.
RegisterFailed ==
  /\ opc = "registerFailed"
  /\ \/ TryCancelParker("owner") /\ Goto("freeAlerted") /\ UNCHANGED args
     \/ /\ AlreadyLocked /\ Goto("wait")
        /\ args' = [args EXCEPT !.timeout = "INFINITE"]
  /\ UNCHANGED <<wip, status, handle, next, spotVars, alerter, wpc, registered,
                 result, ret>>

\* The head of the wait loop of WaitForParkSpot.
WaitTest ==
  /\ opc = "wait"
  /\ \/ spotState = 1 /\ Goto("woken") /\ UNCHANGED result
     \/ /\ spotState = 0 /\ args.timeout = "ZERO"
        /\ result' = "TIMEOUT" /\ Goto("waitFailed")
     \/ spotState = 0 /\ args.timeout # "ZERO" /\ Goto("blocked") /\ UNCHANGED result
  /\ UNCHANGED <<parkerVars, spotVars, alerter, wpc, args, registered, ret, winner>>

\* WaitForSingleObjectEx / CoWaitForMultipleHandles returns without an APC.
BlockedReturns ==
  /\ opc = "blocked"
  /\ \/ event = 1 /\ event' = 0 /\ Goto("woken") /\ UNCHANGED result
     \/ /\ args.timeout = "FINITE" /\ result' = "TIMEOUT"
        /\ Goto("waitFailed") /\ UNCHANGED event
  /\ UNCHANGED <<parkerVars, spotState, alerter, wpc, args, registered, ret, winner>>

\* CoWaitForMultipleHandles, with which STA threads wait, may fail instead.
ComWaitFails ==
  /\ opc = "blocked"
  /\ result' = "FAILED" /\ Goto("waitFailed")
  /\ UNCHANGED <<parkerVars, spotVars, alerter, wpc, args, registered, ret, winner>>

\* WAIT_IO_COMPLETION: adjust what is left of the timeout and loop.
ApcReturns ==
  /\ opc = "apcDone"
  /\ \/ UNCHANGED args
     \/ /\ spotState = 0 /\ args.timeout = "FINITE"
        /\ args' = [args EXCEPT !.timeout = "ZERO"]
  /\ Goto("wait")
  /\ UNCHANGED <<parkerVars, spotVars, alerter, wpc, registered, result, ret, winner>>

\* Mutant: a timeout that lost the race returns without taking the signal.
WaitFailed_NoWait ==
  /\ opc = "waitFailed"
  /\ \/ TryCancelParker("owner") /\ status' = result /\ wip' = 0
     \/ AlreadyLocked /\ UNCHANGED <<status, wip>>
  /\ Goto("woken")
  /\ UNCHANGED <<handle, next, spotVars, alerter, wpc, localVars>>

\* Timeout or failure: cancel and self-unpark, or wait for whoever locked us.
WaitFailed ==
  /\ opc = "waitFailed"
  /\ \/ /\ TryCancelParker("owner")
        /\ status' = result /\ wip' = 0            \* UnparkSelf
        /\ Goto("woken")
     \/ AlreadyLocked /\ UNCHANGED <<status, wip>> /\ Goto("waitInfinite")
  /\ UNCHANGED <<handle, next, spotVars, alerter, wpc, localVars>>

WaitInfinite ==
  /\ opc = "waitInfinite" /\ event = 1
  /\ event' = 0 /\ Goto("woken")
  /\ UNCHANGED <<parkerVars, spotState, alerter, wpc, localVars, winner>>

Woken ==
  /\ opc = "woken"
  /\ Goto(IF registered = 1 THEN "deregister" ELSE "freeSpot")
  /\ UNCHANGED <<parkerVars, spotVars, alerter, wpc, localVars, winner>>

\* Mutant: the owner does not wait for the setter that holds the list.
DeregisterParker_NoWait ==
  /\ opc = "deregister"
  /\ alerter' = IF alerter = "PARKER" THEN "NULL" ELSE alerter
  /\ Goto("freeSpot")
  /\ UNCHANGED <<parkerVars, spotVars, wpc, localVars, winner>>

\* DeregisterParker: already unlinked, or unlinked by swapping the only entry
\* out; otherwise the setter owns the list and the owner spins until the
\* setter marks the parker as unlinked.
DeregisterParker ==
  /\ opc = "deregister"
  /\ \/ next = "SELF" /\ UNCHANGED alerter
     \/ next = "NULL" /\ alerter = "PARKER" /\ alerter' = "NULL"
  /\ Goto("freeSpot")
  /\ UNCHANGED <<parkerVars, spotVars, wpc, localVars, winner>>

FreeParkSpot ==
  /\ \/ opc = "freeSpot" /\ Goto("readStatus") /\ UNCHANGED ret
     \/ opc = "freeAlerted" /\ Goto("returned") /\ ret' = "ALERTED"
  /\ UNCHANGED <<parkerVars, spotVars, alerter, wpc, args, registered, result, winner>>

\* return Parker->WaitStatus
ReadWaitStatus ==
  /\ opc = "readStatus"
  /\ ret' = status /\ Goto("returned")
  /\ UNCHANGED <<parkerVars, spotVars, alerter, wpc, args, registered, result, winner>>

\* The caller unlinks its wait block, so that no waker holds the parker any
\* more, and its frame goes away.
LeaveFrame ==
  /\ opc = "returned"
  /\ \A u \in Unparkers : wpc[u] \in {"idle", "done"}
  /\ Goto("idle")
  /\ wpc' = [w \in Wakers |-> IF w \in Unparkers THEN "done" ELSE wpc[w]]
  /\ UNCHANGED <<parkerVars, spotVars, alerter, localVars, winner>>

OwnerStep ==
  \/ SpinTest \/ SpinAlert \/ AllocParkSpot \/ AllocFailed \/ SpinUntilUnparked
  \/ ClearWaitInProgress \/ RegisterParker \/ RegisterFailed \/ WaitTest
  \/ BlockedReturns \/ ApcReturns \/ WaitFailed \/ WaitInfinite \/ Woken
  \/ DeregisterParker \/ FreeParkSpot \/ ReadWaitStatus \/ LeaveFrame

-----------------------------------------------------------------------------
(* The wakers. *)

WakeKey(w)  == IF w = "alerter" THEN "ALERTED" ELSE w
AfterWake(w) == IF w = "alerter" THEN "unlink" ELSE "done"

\* An APC starts only inside the owner's alertable wait and suspends the owner;
\* when it is done the wait returns WAIT_IO_COMPLETION.
ApcControl(w, from, to) ==
  IF w \in Apcs
  THEN /\ from = "idle" => opc = "blocked"
       /\ opc' = IF to = "done" THEN "apcDone" ELSE "inApc"
  ELSE UNCHANGED opc

Step(w, from, to) ==
  /\ wpc[w] = from
  /\ wpc' = [wpc EXCEPT ![w] = to]
  /\ ApcControl(w, from, to)

\* TryLockParker: decrement the lock count; the caller that takes it to zero
\* has locked the parker.
TryLockParker(u) ==
  /\ opc # "idle"
  /\ \/ AlreadyLocked /\ Step(u, "idle", "done")
     \/ /\ count > 0 /\ count' = count - 1
        /\ winner' = IF count = 1 THEN u ELSE winner
        /\ Step(u, "idle", IF count = 1 THEN "setStatus" ELSE "done")
  /\ UNCHANGED <<wip, status, handle, next, spotVars, alerter, localVars>>

\* UnparkInProgressThread: publish the wait status ...
SetWaitStatus(w) ==
  /\ Step(w, "setStatus", "testWip")
  /\ status' = WakeKey(w)
  /\ UNCHANGED <<wip, count, handle, next, spotVars, alerter, localVars, winner>>

\* ... test the wait-in-progress bit ...
TestWaitInProgress(w) ==
  /\ Step(w, "testWip", IF wip = 1 THEN "exchange" ELSE "setSpot")
  /\ UNCHANGED <<parkerVars, spotVars, alerter, localVars, winner>>

\* ... and clear it with an exchange, which may find that the owner did.
ExchangeState(w) ==
  /\ Step(w, "exchange", IF wip = 1 THEN AfterWake(w) ELSE "setSpot")
  /\ wip' = 0 /\ count' = 0
  /\ UNCHANGED <<status, handle, next, spotVars, alerter, localVars, winner>>

\* SetParkSpot: an APC marks the spot, another thread signals its event.  With
\* no park spot UnparkThread takes the parker for a callback parker.
SetParkSpot(w) ==
  /\ Step(w, "setSpot", IF handle = 1 THEN AfterWake(w) ELSE "callback")
  /\ event' = IF handle = 1 /\ w \notin Apcs THEN 1 ELSE event
  /\ spotState' = IF handle = 1 /\ w \in Apcs THEN 1 ELSE spotState
  /\ UNCHANGED <<parkerVars, alerter, localVars, winner>>

\* SetAlerter: swap the list out; AlertParkerList then visits the parker.
SetAlerter ==
  /\ Step("alerter", "idle", IF alerter = "PARKER" THEN "cancel" ELSE "done")
  /\ alerter' = "ALERTED"
  /\ UNCHANGED <<parkerVars, spotVars, localVars, winner>>

AlertCancel ==
  /\ \/ TryCancelParker("alerter") /\ Step("alerter", "cancel", "setStatus")
     \/ AlreadyLocked /\ Step("alerter", "cancel", "unlink")
  /\ UNCHANGED <<wip, status, handle, next, spotVars, alerter, localVars>>

\* First->Next = First
AlertUnlink ==
  /\ Step("alerter", "unlink", "done")
  /\ next' = "SELF"
  /\ UNCHANGED <<wip, count, status, handle, spotVars, alerter, localVars, winner>>

UnparkThread(w) ==
  SetWaitStatus(w) \/ TestWaitInProgress(w) \/ ExchangeState(w) \/ SetParkSpot(w)

WakerStep(w) ==
  \/ w \in Unparkers /\ TryLockParker(w)
  \/ w = "alerter" /\ (SetAlerter \/ AlertCancel \/ AlertUnlink)
  \/ UnparkThread(w)

Next == Start \/ OwnerStep \/ ComWaitFails \/ \E w \in Wakers : WakerStep(w)

Spec == Init /\ [][Next]_vars

-----------------------------------------------------------------------------
(* Properties. *)

TypeOK ==
  /\ wip \in {0, 1} /\ count \in 0..MaxCount /\ status \in Statuses
  /\ handle \in {0, 1} /\ next \in {"NULL", "SELF"}
  /\ event \in {0, 1} /\ spotState \in {0, 1}
  /\ alerter \in {"NULL", "PARKER", "ALERTED"}
  /\ opc \in OwnerPcs /\ wpc \in [Wakers -> WakerPcs] /\ args \in Args
  /\ registered \in {0, 1} /\ result \in Statuses /\ ret \in Statuses
  /\ winner \in Wakers \cup {"owner", "none"}

\* A wait returns only after exactly one party took the parker's lock to zero,
\* and it returns that party's status: the key of the unparker, WAIT_ALERTED
\* from the alerter, or the owner's own reason to give up.
StatusIsWinners ==
  opc = "returned" =>
    /\ winner \in Wakers => ret = WakeKey(winner)
    /\ winner = "owner" => ret \in {"TIMEOUT", "ALERTED", "FAILED"}
    /\ winner # "none"

\* The thread keeps a park spot in its free list for the next wait, so a wait
\* must not leave a signal behind, nor a waker that is still to signal it.
SpotClean ==
  opc \in {"idle", "spin", "spinAlert", "alloc", "allocFailed", "spinUnpark",
          "freeSpot", "freeAlerted", "readStatus", "returned"} =>
    event = 0 /\ \A w \in Wakers : wpc[w] # "setSpot"

\* The parker lives in the frame of the waiting function: once the wait has
\* returned, nobody is between locking the parker and its last access to it
\* and the alerter does not hold it any more.
NoStaleAccess ==
  opc \in {"idle", "returned"} =>
    /\ \A w \in Wakers : wpc[w] \in {"idle", "done"}
    /\ alerter # "PARKER"

\* UnparkThread tells a callback parker by its null park spot handle: it never
\* finds that handle null in a parker whose owner blocks.
NeverCallback == \A w \in Wakers : wpc[w] # "callback"

=============================================================================
