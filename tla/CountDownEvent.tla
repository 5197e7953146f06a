--------------------------- MODULE CountDownEvent ---------------------------
(***************************************************************************)
(* The count-down event: a counter that threads decrement and, while it is *)
(* positive, increment, and a notification event that is set by the thread *)
(* that brings the counter to zero.  Waits look at the counter first.      *)
(***************************************************************************)
EXTENDS Naturals, Sequences

CONSTANTS
  Threads,
  Amounts,    \* the Count arguments
  MaxState    \* bound of the counter: additions beyond it are not modelled

\* TryAdd and Signal refuse a Count that is not positive.
CountDownAssumption == Amounts \subseteq Nat \ {0} /\ MaxState \in Nat

VARIABLES
  set, lock, list, spinCount, pc, count, unparked, unlinked, grabbed,
  kept, waking, promised,
  state       \* CountDown->State

eventVars == <<set, lock, list, spinCount, pc, count, unparked,
               unlinked, grabbed, kept, waking, promised>>
vars == <<eventVars, state>>

Event == INSTANCE NotificationEvent

\* StCountDownEvent_Init
Init ==
  /\ state \in 0..MaxState /\ Event!InitSet(IF state = 0 THEN 1 ELSE 0)

\* StCountDownEvent_Signal and SignalEx: decrement, and go on to the action and
\* the event when this call reaches zero.  A counter that is too small is left
\* alone.
Signal(t) ==
  /\ pc[t] = "out"
  /\ \E n \in Amounts :
       /\ state >= n /\ state' = state - n
       /\ pc' = [pc EXCEPT ![t] = IF state = n THEN "action" ELSE "out"]
  /\ UNCHANGED <<set, lock, list, spinCount, count, unparked, unlinked,
                 grabbed, kept, waking, promised>>

\* The action has returned: set the event.
ActionDone(t) == pc[t] = "action" /\ Event!SetAt(t, "out") /\ UNCHANGED state

\* Mutant: a counter at zero is increased.
TryAdd_FromZero(t) ==
  /\ pc[t] = "out" /\ UNCHANGED eventVars
  /\ \E n \in Amounts : state + n <= MaxState /\ state' = state + n

\* StCountDownEvent_TryAdd
TryAdd(t) ==
  /\ pc[t] = "out" /\ state # 0 /\ UNCHANGED eventVars
  /\ \E n \in Amounts : state + n <= MaxState /\ state' = state + n

\* StCountDownEvent_WaitEx and Wait: at zero they return, whether or not the
\* action has run.
WaitEx(t) == state # 0 /\ Event!WaitEx(t) /\ UNCHANGED state

\* A step inside the operations of the event.
InEvent(t) ==
  (Event!ThreadStep(t) \/ Event!Cancelled(t)) /\ UNCHANGED state

ThreadStep(t) == ActionDone(t) \/ (Event!ThreadStep(t) /\ UNCHANGED state)

Next == \E t \in Threads :
          Signal(t) \/ TryAdd(t) \/ WaitEx(t) \/ ActionDone(t) \/ InEvent(t)

Spec == Init /\ [][Next]_vars

-----------------------------------------------------------------------------
(* Properties *)

\* The event is set once, by the one thread that brought the counter to zero,
\* and a waiter is released only when the counter is zero for good: whoever
\* adds to the counter while it falls must not reopen it.
ReleasedAtZero ==
  /\ set = 1 \/ (\E t \in Threads : pc[t] = "action") => state = 0
  /\ \A s, t \in Threads : pc[s] = "action" /\ pc[t] = "action" => s = t
=============================================================================
