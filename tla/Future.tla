------------------------------- MODULE Future --------------------------------
(***************************************************************************)
(* The future: a value that is set once, and an event that is set after it.*)
(* The event is what module NotificationEvent checks of it: a wait ends    *)
(* when the event is set, or is cancelled.                                 *)
(***************************************************************************)
EXTENDS Naturals

CONSTANT Threads,
         MaxValues   \* bound: how many values are offered

VARIABLES
  fixed,       \* Future->State
  value,       \* Future->Value; values are numbered
  isAvailable, \* Future->IsAvailable
  goes,        \* where each thread is
  offers,      \* the Value argument of its SetValue
  read,        \* the value that its last call returned, or 0
  values       \* how many values were offered

vars == <<fixed, value, isAvailable, goes, offers, read, values>>

Init ==
  /\ fixed = 0 /\ value = 0 /\ isAvailable = 0 /\ values = 0
  /\ goes = [t \in Threads |-> "out"] /\ offers = [t \in Threads |-> 0]
  /\ read = [t \in Threads |-> 0]

Goes(t, from, to) == goes[t] = from /\ goes' = [goes EXCEPT ![t] = to]

\* StFuture_SetValue: the first to swap the state goes on.
SetValue(t) ==
  /\ values < MaxValues /\ values' = values + 1 /\ offers' = [offers EXCEPT ![t] = values + 1]
  /\ fixed' = 1 /\ Goes(t, "out", IF fixed = 0 THEN "store" ELSE "out")
  /\ UNCHANGED <<value, isAvailable, read>>

\* Mutant: the event is set before the value is stored.
Store_EventFirst(t) ==
  /\ \/ Goes(t, "store", "set") /\ isAvailable' = 1 /\ UNCHANGED value
     \/ Goes(t, "set", "out") /\ value' = offers[t] /\ UNCHANGED isAvailable
  /\ UNCHANGED <<fixed, offers, read, values>>

\* The value, and then the event.
Store(t) ==
  /\ \/ Goes(t, "store", "set") /\ value' = offers[t] /\ UNCHANGED isAvailable
     \/ Goes(t, "set", "out") /\ isAvailable' = 1 /\ UNCHANGED value
  /\ UNCHANGED <<fixed, offers, read, values>>

\* StFuture_GetValueEx, GetValue and TryGetValue test the event; the first two may wait.
GetValue(t) ==
  /\ \/ isAvailable = 1 /\ Goes(t, "out", "read")
     \/ isAvailable = 0 /\ \E to \in {"waitEx", "wait"} : Goes(t, "out", to)
  /\ UNCHANGED <<fixed, value, isAvailable, offers, read, values>>

\* The event is set.  GetValue compares the result of StNotificationEvent_Wait, TRUE
\* after a wait, with WAIT_SUCCESS, and returns no value; when the event was set in
\* between, that result is WAIT_SUCCESS.
WaitReturns(t) ==
  /\ isAvailable = 1
  /\ Goes(t, "waitEx", "read") \/ Goes(t, "wait", "read") \/ Goes(t, "wait", "out")
  /\ UNCHANGED <<fixed, value, isAvailable, offers, read, values>>

\* The timeout of GetValueEx expires, or its alerter is set.
WaitCancelled(t) ==
  /\ Goes(t, "waitEx", "out")
  /\ UNCHANGED <<fixed, value, isAvailable, offers, read, values>>

ReadValue(t) ==
  /\ Goes(t, "read", "out") /\ read' = [read EXCEPT ![t] = value]
  /\ UNCHANGED <<fixed, value, isAvailable, offers, values>>

Next == \E t \in Threads :
  \/ SetValue(t) \/ Store(t) \/ GetValue(t) \/ WaitReturns(t) \/ WaitCancelled(t)
  \/ ReadValue(t)

Spec == Init /\ [][Next]_vars

-----------------------------------------------------------------------------
(* Properties *)

\* "Each future object can only be set once": whoever is told that the value is
\* available reads it, all read the same, and it is the one of the one call of SetValue
\* that succeeded, whose value is not lost.
OneValue ==
  /\ isAvailable = 1 => value # 0
  /\ \A t \in Threads : /\ goes[t] = "read" => value # 0
                        /\ read[t] \in {0, value}
                        /\ goes[t] = "set" => value = offers[t]
  /\ (\A t \in Threads : goes[t] \notin {"store", "set"}) => fixed = isAvailable
=============================================================================
