----------------------------- MODULE TimerList ------------------------------
(***************************************************************************)
(* The timer list (TimerList.c): raw timers in a list ordered by fire time *)
(* in which each timer keeps the delay from the one before it, and the     *)
(* timer thread that sleeps until the first one expires.                   *)
(*                                                                         *)
(* Times are values of GetTickCount: unsigned integers of a fixed width,   *)
(* of which the model keeps Wide values.  What runs under the spin lock of *)
(* the list is one step.  The parker of a raw timer is a callback parker:  *)
(* the timer thread runs the callback, which may set the timer again (the  *)
(* periodic timers of Timer.c).                                            *)
(***************************************************************************)
EXTENDS Integers, Sequences, FiniteSets

LOCAL INSTANCE SequencesExt

CONSTANTS
  Timers,            \* the raw timers
  LimitTimer,        \* the list's own timer, which has no parker
  Wide,              \* 2^32: the number of values of a tick count
  MaximumSleepTime,
  Delays, Periods,   \* what clients pass to SetRawTimer and SetPeriodicRawTimer
  MaxLag             \* bound: ticks between two rounds of the timer thread

TimerListAssumption ==
  /\ LimitTimer \notin Timers
  /\ Wide \in Nat /\ MaximumSleepTime \in Nat \ {0} /\ MaxLag \in Nat
  /\ MaximumSleepTime < MaxLag /\ 4 * MaxLag < Wide
  /\ Delays \subseteq 1..(Wide - 2) /\ Periods \subseteq 1..(Wide - 2)

VARIABLES
  now,        \* GetTickCount
  lag,        \* ticks since the timer thread last held the lock, for MaxLag
  baseTime,   \* TimerList->BaseTime
  list,       \* the timers from TimerListHead, with their Delay
  fired,      \* FiredListHead, last pushed first
  fireTime,   \* FireTime of each raw timer
  span,       \* ghost: the delay or period each timer was last set with
  linked,     \* 0 when Next points to the timer itself
  count,      \* the lock count of each timer's parker
  cpc,        \* what the user of each timer is doing
  tpc,        \* control state of the timer thread
  firing,     \* its local FiredList
  delay,      \* its local Delay: from its BaseTime, then from now on
  tcount,     \* the lock count of the timer thread's parker
  tunparked   \* 1 when that parker was unparked

listVars   == <<baseTime, list, fired, fireTime, span, linked, count>>
threadVars == <<tpc, firing, delay, tcount, tunparked>>
vars == <<now, lag, listVars, cpc, threadVars>>

NONE == Wide - 1   \* ~0, the delay of the list's head

Init ==
  /\ now = Wide - 2 /\ lag = 0 /\ baseTime = now /\ list = <<>> /\ fired = <<>>
  /\ fireTime = [t \in Timers |-> 0] /\ span = [t \in Timers |-> 0]
  /\ linked = [t \in Timers |-> 1] /\ count = [t \in Timers |-> 0]
  /\ cpc = [t \in Timers |-> "idle"]
  /\ tpc = "loop" /\ firing = <<>> /\ delay = 0 /\ tcount = 0 /\ tunparked = 0

-----------------------------------------------------------------------------
(* The list. *)

Entry(t, d) == [timer |-> t, delay |-> d]

\* The time from BaseTime to the expiry of the first i entries of l.
Until(l, i) == FoldLeft(LAMBDA a, e : a + e.delay, 0, SubSeq(l, 1, i))

TimersOf(l) == {l[i].timer : i \in 1..Len(l)}
Index(l, t) == CHOOSE i \in 1..Len(l) : l[i].timer = t

\* Mutant: the delay of the removed timer is dropped.
RemoveTimer_DropDelay(l, t) ==
  LET i == Index(l, t) IN SubSeq(l, 1, i - 1) \o SubSeq(l, i + 1, Len(l))

\* Take a timer out of the list and give its delay to the next one.
RemoveTimer(l, t) ==
  LET i    == Index(l, t)
      rest == SubSeq(l, i + 1, Len(l))
  IN SubSeq(l, 1, i - 1) \o
     (IF rest = <<>> THEN <<>> ELSE [rest EXCEPT ![1].delay = @ + l[i].delay])

Sliding == (now + Wide - baseTime) % Wide

\* The entries that AdjustBaseTime takes from the front of l: it stops when no
\* time is left, so an entry with no delay after the last one stays.
Expired(l) ==
  {i \in 1..Len(l) : Until(l, i - 1) < Sliding /\ Until(l, i) <= Sliding}

\* Mutant: the first timer that remains pays for the expired ones again.
Remaining_All(l) ==
  LET rest == SubSeq(l, Cardinality(Expired(l)) + 1, Len(l))
  IN IF rest = <<>> THEN rest ELSE [rest EXCEPT ![1].delay = @ - Sliding]

\* What is left of l, from now on.
Remaining(l) ==
  LET n    == Cardinality(Expired(l))
      rest == SubSeq(l, n + 1, Len(l))
  IN IF rest = <<>> THEN rest
     ELSE [rest EXCEPT ![1].delay = @ - (Sliding - Until(l, n))]

\* Mutant: a timer fires without a test of its parker.
Locked_NoTest(l) ==
  SelectSeq([i \in 1..Cardinality(Expired(l)) |-> l[i].timer],
            LAMBDA t : t # LimitTimer)

\* The expired timers whose parkers AdjustBaseTime locks: not those of
\* timers that are being cancelled.
Locked(l) ==
  SelectSeq([i \in 1..Cardinality(Expired(l)) |-> l[i].timer],
            LAMBDA t : t # LimitTimer /\ count[t] = 1)

\* The other expired timers are marked as unlinked.
Unlinked(l) == {l[i].timer : i \in Expired(l)} \ ToSet(Locked(l))

\* AdjustBaseTime on the list l: what is left is the caller's to store, with
\* the fired list, pushed; reset are the timers whose parkers are initialized.
AdjustBaseTime(l, pushed, reset) ==
  /\ baseTime' = now /\ pushed = Reverse(Locked(l)) \o fired
  /\ count' = [t \in Timers |-> IF t \in reset THEN 1
                                ELSE IF t \in ToSet(Locked(l)) THEN 0
                                ELSE count[t]]
  /\ linked' = [t \in Timers |-> IF t \in reset THEN 1
                                 ELSE IF t \in Unlinked(l) THEN 0
                                 ELSE linked[t]]

\* Where SetRawTimerWorker inserts, and with which delay.  At the head of the
\* list, whose delay is ~0, a delay of ~0 goes round to the front.
Around(l, d)   == IF d - Until(l, Len(l)) = NONE THEN 0 ELSE d
Position(l, d) == Cardinality({i \in 1..Len(l) : Until(l, i) <= d})

\* Mutant: the next timer keeps the delay that the new one has taken over.
Insert_KeepNext(l, t, d) ==
  LET p == Position(l, d) IN InsertAt(l, p + 1, Entry(t, d - Until(l, p)))

Insert(l, t, d) ==
  LET p    == Position(l, d)
      rest == SubSeq(l, p + 1, Len(l))
      own  == d - Until(l, p)
  IN SubSeq(l, 1, p) \o <<Entry(t, own)>> \o
     (IF rest = <<>> THEN <<>> ELSE [rest EXCEPT ![1].delay = @ - own])

-----------------------------------------------------------------------------
(* The users of raw timers. *)

\* The fields of a timer that is not set are dead.
Forget(t) ==
  /\ fireTime' = [fireTime EXCEPT ![t] = 0] /\ span' = [span EXCEPT ![t] = 0]
  /\ linked' = [linked EXCEPT ![t] = 1]

\* Under the lock: adjust the base time, insert the timer and, if it is now the
\* first one, lock the parker of the timer thread.
SetRawTimerWorker(t, d, s) ==
  LET l == Remaining(list) IN
    /\ list' = Insert(l, t, Around(l, d)) /\ AdjustBaseTime(list, fired', {t})
    /\ fireTime' = [fireTime EXCEPT ![t] = (now + d) % Wide]
    /\ span' = [span EXCEPT ![t] = s]
    /\ tcount' = IF Head(list').timer = t THEN 0 ELSE tcount

\* It has to unpark the timer thread when it is the one that locked its parker.
Wakes == tcount = 1 /\ tcount' = 0

\* SetRawTimer, with the parker initialized by the caller.
SetRawTimer(t) ==
  /\ cpc[t] = "idle"
  /\ \E d \in Delays : SetRawTimerWorker(t, d, d)
  /\ cpc' = [cpc EXCEPT ![t] = IF Wakes THEN "wake" ELSE "set"]
  /\ UNCHANGED <<now, lag, tpc, firing, delay, tunparked>>

\* The lock is released: unpark the timer thread.
WakeTimerThread(t) ==
  /\ cpc[t] = "wake" /\ cpc' = [cpc EXCEPT ![t] = "set"]
  /\ tunparked' = 1
  /\ UNCHANGED <<now, lag, listVars, tpc, firing, delay, tcount>>

\* TryCancelRawTimer, or UnparkThread by who locked the callback parker.
TryCancelRawTimer(t) ==
  /\ cpc[t] = "set" /\ count[t] = 1
  /\ count' = [count EXCEPT ![t] = 0] /\ cpc' = [cpc EXCEPT ![t] = "unlink"]
  /\ UNCHANGED <<now, lag, baseTime, list, fired, fireTime, span, linked,
                 threadVars>>

\* UnlinkRawTimer tests before it takes the lock ...
UnlinkTest(t) ==
  /\ cpc[t] = "unlink"
  /\ \/ linked[t] = 0 /\ cpc' = [cpc EXCEPT ![t] = "idle"] /\ Forget(t)
     \/ /\ linked[t] = 1 /\ cpc' = [cpc EXCEPT ![t] = "unlinkLock"]
        /\ UNCHANGED <<fireTime, span, linked>>
  /\ UNCHANGED <<now, lag, baseTime, list, fired, count, threadVars>>

\* ... and again with the lock.
UnlinkRawTimer(t) ==
  /\ cpc[t] = "unlinkLock" /\ cpc' = [cpc EXCEPT ![t] = "idle"]
  /\ list' = IF linked[t] = 1 THEN RemoveTimer(list, t) ELSE list
  /\ Forget(t)
  /\ UNCHANGED <<now, lag, baseTime, fired, count, threadVars>>

\* EnableUnparkCallback with a zero timeout: the callback runs at once, and a
\* period counts from now.
ZeroTimeout(t) ==
  /\ cpc[t] = "idle" /\ cpc' = [cpc EXCEPT ![t] = "inline"]
  /\ fireTime' = [fireTime EXCEPT ![t] = now]
  /\ UNCHANGED <<now, lag, baseTime, list, fired, span, linked, count,
                 threadVars>>

\* The user's callback returns: the timer is not periodic any more ...
CallbackEnds(t) ==
  /\ \/ cpc[t] = "inline" /\ UNCHANGED tpc
     \/ cpc[t] = "callback" /\ tpc' = "fire"
  /\ cpc' = [cpc EXCEPT ![t] = "idle"] /\ Forget(t)
  /\ UNCHANGED <<now, lag, baseTime, list, fired, count, firing, delay, tcount,
                 tunparked>>

\* ... or it is set to its next period by SetPeriodicRawTimer.
NextPeriod(t, p) == (fireTime[t] + p + Wide - now) % Wide

SetPeriodicRawTimer(t) ==
  /\ \/ cpc[t] = "inline" /\ UNCHANGED tpc
     \/ cpc[t] = "callback" /\ tpc' = "fire"
  /\ \E p \in Periods : SetRawTimerWorker(t, NextPeriod(t, p), p)
  /\ cpc' = [cpc EXCEPT ![t] = IF Wakes THEN "wake" ELSE "set"]
  /\ UNCHANGED <<now, lag, firing, delay, tunparked>>

-----------------------------------------------------------------------------
(* The timer thread. *)

\* Mutant: the fired list is read before the base time is adjusted, and cleared
\* after that.
TimerThread_ReadFirst ==
  /\ tpc = "loop" /\ tpc' = "fire" /\ lag' = 0
  /\ LET all == IF LimitTimer \in TimersOf(list)
                THEN RemoveTimer(list, LimitTimer) ELSE list
     IN /\ AdjustBaseTime(all, Reverse(Locked(all)) \o fired, {})
        /\ firing' = fired /\ fired' = <<>>
        /\ list' = <<Entry(LimitTimer, 0)>> \o Remaining(all)
  /\ delay' = MaximumSleepTime /\ tcount' = 1 /\ tunparked' = 0
  /\ UNCHANGED <<now, fireTime, span, cpc>>

\* Under the lock: take the limit timer out, adjust the base time, take the
\* fired timers over, initialize the parker, and put the limit timer in front
\* of a timer that is further away than MAXIMUM_SLEEP_TIME.  The delay that is
\* then subtracted is that of the new first timer, the limit timer itself.
TimerThread ==
  /\ tpc = "loop" /\ tpc' = "fire" /\ lag' = 0
  /\ LET all   == IF LimitTimer \in TimersOf(list)
                  THEN RemoveTimer(list, LimitTimer) ELSE list
         l     == Remaining(all)
         first == IF l = <<>> THEN NONE ELSE Head(l).delay
     IN /\ AdjustBaseTime(all, firing', {}) /\ fired' = <<>>
        /\ \/ first > MaximumSleepTime
              /\ list' = <<Entry(LimitTimer, 0)>> \o l
              /\ delay' = MaximumSleepTime
           \/ first <= MaximumSleepTime /\ list' = l /\ delay' = first
  /\ tcount' = 1 /\ tunparked' = 0
  /\ UNCHANGED <<now, fireTime, span, cpc>>

\* UnparkThread of the next fired timer runs its callback.
FireTimer ==
  /\ tpc = "fire" /\ firing # <<>> /\ tpc' = "callback"
  /\ cpc' = [cpc EXCEPT ![Head(firing)] = "callback"] /\ firing' = Tail(firing)
  /\ UNCHANGED <<now, lag, listVars, delay, tcount, tunparked>>

\* Sleep for what is left of the delay.
ParkTimerThread ==
  /\ tpc = "fire" /\ firing = <<>> /\ tpc' = "parked"
  /\ delay' = IF lag >= delay THEN 0 ELSE delay - lag
  /\ UNCHANGED <<now, lag, listVars, cpc, firing, tcount, tunparked>>

\* ParkThreadEx returns: the sleep is over, or the thread was unparked.
Unparked ==
  /\ tpc = "parked" /\ tpc' = "loop"
  /\ \/ delay = 0 /\ tcount = 1
     \/ tunparked = 1
  /\ tcount' = 0 /\ tunparked' = 0 /\ delay' = 0
  /\ UNCHANGED <<now, lag, listVars, cpc, firing>>

\* Time passes.
Tick ==
  /\ lag < MaxLag /\ lag' = lag + 1 /\ now' = (now + 1) % Wide
  /\ delay' = IF tpc = "parked" /\ delay > 0 THEN delay - 1 ELSE delay
  /\ UNCHANGED <<listVars, cpc, tpc, firing, tcount, tunparked>>

-----------------------------------------------------------------------------

User(t) ==
  \/ WakeTimerThread(t) \/ UnlinkTest(t) \/ UnlinkRawTimer(t)
  \/ CallbackEnds(t) \/ SetPeriodicRawTimer(t)

Thread == TimerThread \/ FireTimer \/ ParkTimerThread \/ Unparked

Next ==
  \/ \E t \in Timers :
       SetRawTimer(t) \/ ZeroTimeout(t) \/ TryCancelRawTimer(t) \/ User(t)
  \/ Thread \/ Tick

Spec == Init /\ [][Next]_vars

-----------------------------------------------------------------------------
(* Properties *)

TypeOK ==
  /\ now \in 0..Wide - 1 /\ lag \in 0..MaxLag /\ baseTime \in 0..Wide - 1
  /\ list \in Seq([timer : Timers \cup {LimitTimer}, delay : 0..Wide - 1])
  /\ fired \in Seq(Timers) /\ firing \in Seq(Timers)
  /\ fireTime \in [Timers -> 0..Wide - 1] /\ span \in [Timers -> 0..Wide - 1]
  /\ linked \in [Timers -> {0, 1}] /\ count \in [Timers -> {0, 1}]
  /\ delay \in 0..Wide - 1 /\ tcount \in {0, 1} /\ tunparked \in {0, 1}

\* The delays add up: counted from BaseTime, every timer of the list is due at
\* its FireTime, whatever was inserted before it, unlinked, or fired; or a tick
\* later, when its period ended a tick ago and the delay of ~0 went round.
DelaysMeetFireTimes ==
  \A i \in 1..Len(list) : list[i].timer # LimitTimer =>
    (baseTime + Until(list, i) + Wide - fireTime[list[i].timer]) % Wide \in {0, 1}

\* A timer is never fired before its FireTime.
NeverEarly ==
  \A t \in ToSet(fired \o firing) :
    (now + Wide - fireTime[t]) % Wide < Wide \div 2

\* A raw timer is in one place: in the list once, or on one of the fired lists,
\* which are linked through the same field; so RemoveTimerFromList and the walk
\* of the fired list find the links they expect.
Occurs(t) ==
  Cardinality({i \in 1..Len(list) : list[i].timer = t})
  + Cardinality({i \in 1..Len(fired) : fired[i] = t})
  + Cardinality({i \in 1..Len(firing) : firing[i] = t})

OnePlace ==
  \A t \in Timers :
    /\ Occurs(t) <= 1
    /\ cpc[t] \in {"idle", "inline", "callback"} => Occurs(t) = 0
    /\ cpc[t] = "unlinkLock" /\ linked[t] = 1 => t \in TimersOf(list)

\* A timer that is set never waits for longer than its delay or its period.  Does
\* not hold after a late callback; see the README.
WithinSpan ==
  \A i \in 1..Len(list) : list[i].timer # LimitTimer =>
    Until(list, i) <= span[list[i].timer]
=============================================================================
