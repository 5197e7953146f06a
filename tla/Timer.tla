------------------------------- MODULE Timer --------------------------------
(***************************************************************************)
(* The timer (ST_TIMER, Timer.c) on a callback parker (CB_PARKER): threads *)
(* set and cancel it while the timer thread, or a thread that finds the    *)
(* timer already expired, runs its callback.                               *)
(*                                                                         *)
(* The callback parker has no thread: EnableUnparkCallback clears its      *)
(* wait-in-progress bit, and who locks it later runs the callback, with    *)
(* status WAIT_TIMEOUT or WAIT_TIMER_CANCELLED.  The State word holds who  *)
(* works on the timer.  Time is left to module TimerList: a raw timer that *)
(* is in the list may expire at any moment.                                *)
(***************************************************************************)
EXTENDS Naturals

CONSTANTS
  Users,         \* the threads that set and cancel the timer
  TimerThread,   \* the thread of the timer list
  Dues,          \* the due times they set: "zero", "finite", "infinite"
  Periods,       \* the periods they set: 0 and 1
  SetAlone       \* TRUE when no call overlaps the start of StTimer_Set

Threads == Users \cup {TimerThread}

TimerAssumption ==
  /\ TimerThread \notin Users /\ SetAlone \in BOOLEAN
  /\ Dues \subseteq {"zero", "finite", "infinite"} /\ Periods \subseteq {0, 1}

VARIABLES
  state,       \* Timer->State
  period,      \* Timer->Period
  due,         \* Timer->DueTime
  withDue,     \* Timer->SetWithDueTime
  signaled,    \* the timer's event
  count,       \* the lock count of the callback parker
  inProgress,  \* its wait-in-progress bit
  waitStatus,  \* its WaitStatus
  rawTimer,    \* its RawTimer: 1 when it is not NULL
  inserted,    \* how often the raw timer is in the timer list
  pc,
  call,        \* what a thread was called for: the operation and its arguments
  old,         \* local OldState of TimerCallback
  timeout,     \* the Timeout argument of EnableUnparkCallback
  unparked     \* 1 when the local Parker of StTimer_Set / Cancel was unparked

settings  == <<period, due, withDue, signaled>>
cbParker  == <<count, inProgress, waitStatus, rawTimer, inserted>>
locals    == <<call, old, timeout, unparked>>
vars == <<state, settings, cbParker, pc, locals>>

INACTIVE  == <<"INACTIVE">>
ACTIVE    == <<"ACTIVE">>
SETTING   == <<"SETTING">>
BUSY(t)   == <<"BUSY", t>>
Parker(t) == <<"PARKER", t>>

StateIsParker(s) == s[1] = "PARKER"
StateIsBusy(s)   == s[1] \in {"BUSY", "SETTING"}

NoCall == [op |-> "none", due |-> "infinite", period |-> 0]

Init ==
  /\ state = INACTIVE /\ period = 0 /\ due = "infinite" /\ withDue = 0
  /\ signaled = 0 /\ count = 1 /\ inProgress = 1 /\ waitStatus = "none"
  /\ rawTimer = 0 /\ inserted = 0
  /\ pc = [t \in Threads |-> "out"] /\ call = [t \in Threads |-> NoCall]
  /\ old = [t \in Threads |-> INACTIVE]
  /\ timeout = [t \in Threads |-> "infinite"]
  /\ unparked = [t \in Threads |-> 0]

Goto(t, to)       == pc' = [pc EXCEPT ![t] = to]
Step(t, from, to) == pc[t] = from /\ Goto(t, to)

\* A thread leaves the operation or the callback; its locals are dead.
Return(t) ==
  /\ Goto(t, "out") /\ call' = [call EXCEPT ![t] = NoCall]
  /\ old' = [old EXCEPT ![t] = INACTIVE]
  /\ timeout' = [timeout EXCEPT ![t] = "infinite"] /\ UNCHANGED unparked

-----------------------------------------------------------------------------
(* StTimer_Set and StTimer_Cancel *)

Call(t, c) ==
  /\ Step(t, "out", "loop") /\ call' = [call EXCEPT ![t] = c]
  /\ UNCHANGED <<state, settings, cbParker, old, timeout, unparked>>

StTimer_Set(t) ==
  /\ SetAlone => \A u \in Users : pc[u] = "out"
  /\ \E d \in Dues, p \in Periods :
       Call(t, [op |-> "set", due |-> d, period |-> p])

StTimer_Cancel(t) == Call(t, [NoCall EXCEPT !.op = "cancel"])

\* The loop on State: take over an inactive timer or leave it alone, put the
\* own parker into an active one, give up when another thread's parker is
\* there, and spin while the timer is busy.
Loop(t) ==
  /\ pc[t] = "loop"
  /\ \/ /\ state = INACTIVE /\ call[t].op = "set"
        /\ state' = SETTING /\ Goto(t, "setTimer") /\ UNCHANGED locals
     \/ /\ state = INACTIVE /\ call[t].op = "cancel"
        /\ Return(t) /\ UNCHANGED state
     \/ /\ state = ACTIVE /\ state' = Parker(t) /\ Goto(t, "tryCancel")
        /\ UNCHANGED locals
     \/ StateIsParker(state) /\ Return(t) /\ UNCHANGED state
  /\ UNCHANGED <<settings, cbParker>>

\* TryCancelParker on the callback parker: cancel the timer, or wait for the
\* callback that is taking place.
TryCancelParker(t) ==
  /\ \/ count = 1 /\ count' = 0 /\ Step(t, "tryCancel", "unparkCallback")
     \/ count = 0 /\ UNCHANGED count /\ Step(t, "tryCancel", "parked")
  /\ UNCHANGED <<state, settings, inProgress, waitStatus, rawTimer, inserted,
                 locals>>

\* UnparkThread with WAIT_TIMER_CANCELLED: clear the wait-in-progress bit, or,
\* when it is clear, unlink the raw timer; the callback then returns at once.
UnparkCancelled(t) ==
  /\ Step(t, "unparkCallback", "cancelled")
  /\ waitStatus' = "cancelled" /\ inProgress' = 0
  /\ inserted' = IF inProgress = 0 /\ rawTimer = 1 THEN 0 ELSE inserted
  /\ UNCHANGED <<state, settings, count, rawTimer, locals>>

\* ParkThreadEx returns after the callback.
ParkThreadEx(t) ==
  /\ unparked[t] = 1 /\ Step(t, "parked", "cancelled")
  /\ unparked' = [unparked EXCEPT ![t] = 0]
  /\ UNCHANGED <<state, settings, cbParker, call, old, timeout>>

\* The timer is cancelled.
Cancelled(t) ==
  /\ pc[t] = "cancelled"
  /\ \/ /\ call[t].op = "cancel" /\ state' = INACTIVE /\ Return(t)
     \/ /\ call[t].op = "set" /\ state' = SETTING /\ Goto(t, "setTimer")
        /\ UNCHANGED locals
  /\ UNCHANGED <<settings, cbParker>>

\* The new settings; the callback parker is initialized, the timer is active.
SetTimer(t) ==
  /\ Step(t, "setTimer", "enable")
  /\ due' = call[t].due /\ period' = call[t].period
  /\ withDue' = 0 /\ signaled' = 0
  /\ count' = 1 /\ inProgress' = 1 /\ state' = ACTIVE
  /\ timeout' = [timeout EXCEPT ![t] = call[t].due]
  /\ UNCHANGED <<waitStatus, rawTimer, inserted, call, old, unparked>>

-----------------------------------------------------------------------------
(* EnableUnparkCallback, called by StTimer_Set and by TimerCallback *)

InCallback(t) == old[t] # INACTIVE

\* What the caller does with its result.
EnableReturns(t, status) ==
  \/ status = "pending" /\ InCallback(t) /\ Goto(t, "reactivate") /\ UNCHANGED locals
  \/ status # "pending" /\ InCallback(t) /\ Goto(t, "user") /\ UNCHANGED locals
  \/ status = "timeout" /\ ~InCallback(t) /\ Goto(t, "callback") /\ UNCHANGED locals
  \/ status \in {"pending", "cancelled"} /\ ~InCallback(t) /\ Return(t)

\* Already unparked: return its status.  Otherwise go by the timeout.
EnableUnparkCallback(t) ==
  /\ pc[t] = "enable"
  /\ \/ /\ inProgress = 0 /\ EnableReturns(t, waitStatus) /\ UNCHANGED rawTimer
     \/ /\ inProgress = 1
        /\ rawTimer' = IF timeout[t] = "finite" THEN 1 ELSE 0
        /\ Goto(t, CASE timeout[t] = "zero"     -> "enableZero"
                     [] timeout[t] = "finite"   -> "enableRaw"
                     [] timeout[t] = "infinite" -> "enableClear")
        /\ UNCHANGED locals
  /\ UNCHANGED <<state, settings, count, inProgress, waitStatus, inserted>>

\* A zero timeout: TryCancelParker on the own parker.
EnableZero(t) ==
  /\ pc[t] = "enableZero"
  /\ \/ count = 1 /\ count' = 0 /\ EnableReturns(t, "timeout")
     \/ count = 0 /\ UNCHANGED <<count, locals>> /\ Goto(t, "enableClear")
  /\ UNCHANGED <<state, settings, inProgress, waitStatus, rawTimer, inserted>>

\* SetRawTimer or SetPeriodicRawTimer.
SetRawTimer(t) ==
  /\ Step(t, "enableRaw", "enableClear") /\ inserted' = inserted + 1
  /\ UNCHANGED <<state, settings, count, inProgress, waitStatus, rawTimer,
                 locals>>

\* Mutant: the bit is cleared without a test whether it was set.
EnableClear_NoTest(t) ==
  /\ pc[t] = "enableClear" /\ inProgress' = 0
  /\ EnableReturns(t, "pending") /\ UNCHANGED inserted
  /\ UNCHANGED <<state, settings, count, waitStatus, rawTimer>>

\* Clear the wait-in-progress bit; if it was clear, the timer was unparked.
EnableClear(t) ==
  /\ pc[t] = "enableClear" /\ inProgress' = 0
  /\ \/ inProgress = 1 /\ EnableReturns(t, "pending") /\ UNCHANGED inserted
     \/ /\ inProgress = 0 /\ EnableReturns(t, waitStatus)
        /\ inserted' = IF rawTimer = 1 /\ waitStatus # "timeout" THEN 0
                                                                 ELSE inserted
  /\ UNCHANGED <<state, settings, count, waitStatus, rawTimer>>

-----------------------------------------------------------------------------
(* The timer thread and TimerCallback *)

\* The raw timer expires: it leaves the list and its parker is locked, if
\* nobody has cancelled it.
Expire(t) ==
  /\ t = TimerThread /\ pc[t] = "out" /\ inserted > 0 /\ inserted' = inserted - 1
  /\ \/ count = 1 /\ count' = 0 /\ Goto(t, "unparkExpired")
     \/ count = 0 /\ UNCHANGED <<count, pc>>
  /\ UNCHANGED <<state, settings, inProgress, waitStatus, rawTimer, locals>>

\* UnparkThread with WAIT_TIMEOUT: leave the callback to the thread that is in
\* EnableUnparkCallback, or run it.
UnparkExpired(t) ==
  /\ pc[t] = "unparkExpired"
  /\ Goto(t, IF inProgress = 1 THEN "out" ELSE "callback")
  /\ waitStatus' = "timeout" /\ inProgress' = 0
  /\ UNCHANGED <<state, settings, count, rawTimer, inserted, locals>>

\* TimerCallback puts its busy mark into State.
TimerCallback(t) ==
  /\ Step(t, "callback", "user")
  /\ state' = BUSY(t) /\ old' = [old EXCEPT ![t] = state]
  /\ UNCHANGED <<settings, cbParker, call, timeout, unparked>>

\* It signals the event and calls the user's callback, from which the timer may
\* be set or cancelled: that only stores the new settings.
UserCallback(t) ==
  /\ Step(t, "user", "after") /\ signaled' = 1
  /\ \/ UNCHANGED <<period, due, withDue>>
     \/ \E d \in Dues, p \in Periods : due' = d /\ period' = p /\ withDue' = 1
     \/ period' = 0 /\ UNCHANGED <<due, withDue>>
  /\ UNCHANGED <<state, cbParker, locals>>

\* The timer is not periodic or is being cancelled: unpark the canceller, or
\* make the timer inactive.
CallbackEnds(t) ==
  /\ pc[t] = "after" /\ (period = 0 \/ StateIsParker(old[t]))
  /\ Goto(t, "out") /\ call' = [call EXCEPT ![t] = NoCall]
  /\ old' = [old EXCEPT ![t] = INACTIVE]
  /\ timeout' = [timeout EXCEPT ![t] = "infinite"]
  /\ \/ /\ StateIsParker(old[t]) /\ unparked' = [unparked EXCEPT ![old[t][2]] = 1]
        /\ UNCHANGED state
     \/ ~StateIsParker(old[t]) /\ state' = INACTIVE /\ UNCHANGED unparked
  /\ UNCHANGED <<settings, cbParker>>

\* A periodic timer: initialize the parker again and enable the callback.
NextPeriod(t) ==
  /\ period # 0 /\ ~StateIsParker(old[t]) /\ Step(t, "after", "enable")
  /\ count' = 1 /\ inProgress' = 1 /\ withDue' = 0
  /\ timeout' = [timeout EXCEPT ![t] = IF withDue = 1 THEN due ELSE "finite"]
  /\ UNCHANGED <<state, period, due, signaled, waitStatus, rawTimer, inserted,
                 call, old, unparked>>

\* The callback is enabled: the timer is active, unless it has expired again.
Reactivate(t) ==
  /\ pc[t] = "reactivate" /\ Return(t)
  /\ state' = IF state = BUSY(t) THEN ACTIVE ELSE state
  /\ UNCHANGED <<settings, cbParker>>

-----------------------------------------------------------------------------

\* The steps of a thread that is inside an operation or a callback.
Run(t) ==
  \/ Loop(t) \/ TryCancelParker(t) \/ UnparkCancelled(t) \/ ParkThreadEx(t)
  \/ Cancelled(t) \/ SetTimer(t)
  \/ EnableUnparkCallback(t) \/ EnableZero(t) \/ SetRawTimer(t) \/ EnableClear(t)
  \/ UnparkExpired(t) \/ TimerCallback(t) \/ UserCallback(t) \/ CallbackEnds(t)
  \/ NextPeriod(t) \/ Reactivate(t)

Next ==
  \/ \E t \in Users : StTimer_Set(t) \/ StTimer_Cancel(t)
  \/ \E t \in Threads : Run(t) \/ Expire(t)

Spec == Init /\ [][Next]_vars

-----------------------------------------------------------------------------
(* Properties *)

\* The threads inside TimerCallback, and those inside EnableUnparkCallback.
Enabling(t) == pc[t] \in {"enable", "enableZero", "enableRaw", "enableClear"}
Calling(t)  == pc[t] \in {"user", "after"} \/ (Enabling(t) /\ InCallback(t))

\* A timer that is inactive is quiet: after StTimer_Cancel, or the end of the
\* callback of a timer that is not periodic, no callback runs or is about to,
\* and the raw timer is not in the list, once a cancelled StTimer_Set returns.
InactiveIsQuiet ==
  state = INACTIVE =>
    /\ \A t \in Threads :
         ~Calling(t) /\ pc[t] \notin {"callback", "unparkExpired"}
    /\ inserted = 0 \/ \E t \in Users : Enabling(t)

\* An active timer that nobody works on will expire: its raw timer is in the
\* list, and its parker can be locked and runs the callback.
ActiveIsArmed ==
  state = ACTIVE /\ (\A t \in Threads : pc[t] \in {"out", "loop"}) =>
    /\ count = 1 /\ inProgress = 0
    /\ inserted = 1 \/ rawTimer = 0

\* The callback does not run twice at the same time, and the raw timer is not
\* inserted while it is in the list.
OneCallback ==
  /\ \A t, u \in Threads : Calling(t) /\ Calling(u) => t = u
  /\ inserted <= 1

\* "Here, we know that the timer is cancelled and no one else is trying to set
\* or cancel the timer": nobody else is still setting it.  Does not hold; see the
\* README.
NobodyElseSetting ==
  \A t \in Users : pc[t] = "cancelled" /\ call[t].op = "set" =>
    \A u \in Users \ {t} : ~Enabling(u) /\ pc[u] # "setTimer"

\* _ASSERTE(Timer->State == &Parker) of StTimer_Set.  Does not hold after a wait
\* for the callback; see the README.
StateIsOwnParker ==
  \A t \in Users : pc[t] = "cancelled" /\ call[t].op = "set" => state = Parker(t)
=============================================================================
