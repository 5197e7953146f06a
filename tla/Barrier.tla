------------------------------- MODULE Barrier -------------------------------
(***************************************************************************)
(* The cyclic barrier.  Each of the two phase states has a word with the   *)
(* number of expected partners in its upper half and the number of arrived *)
(* partners in its lower half, and a notification event; PhaseState points *)
(* at the current one, and they are reused in turn.                        *)
(*                                                                         *)
(* The clients of the model follow the barrier's discipline: a thread adds *)
(* itself as a partner before it signals, signals once in a phase, and     *)
(* removes itself.  The events follow the promise that NotificationEvent   *)
(* checks: a wait returns when the event is set, or is cancelled.          *)
(***************************************************************************)
EXTENDS Naturals, FiniteSets

CONSTANTS
  Threads,
  Modes,       \* what clients do besides signalling (subsets of ModeNames)
  Wide,        \* 2^16: the upper half counts in units of it
  MaxPhases    \* bound of PhaseNumber

ModeNames == {"add", "remove", "timeout"}

\* MAX_PARTNERS is 2^16 - 1: what the lower half of the word can count.
BarrierAssumption == IsFiniteSet(Threads) /\ Wide \in Nat /\ Cardinality(Threads) < Wide

VARIABLES
  mode,        \* the mode of this behaviour
  members,     \* ghost: the threads that are partners
  phaseState,  \* Barrier->PhaseState
  number,      \* Barrier->PhaseNumber
  state,       \* States[i].State
  event,       \* States[i].Event is set
  pc,
  my,          \* the local PhaseState of each thread
  arrivedAt    \* ghost: the phase number when the thread arrived

vars == <<mode, members, phaseState, number, state, event, pc, my, arrivedAt>>

Partners(w) == w \div Wide
Arrived(w)  == w % Wide
Full(w)     == Arrived(w) = Partners(w)
Other(i)    == 1 - i

\* StBarrier_Init.  The second phase state is not initialized.
Init ==
  /\ mode \in Modes /\ members \in (SUBSET Threads) \ {{}}
  /\ phaseState = 0 /\ number = 0
  /\ state = [i \in {0, 1} |-> IF i = 0 THEN Cardinality(members) * Wide ELSE 0]
  /\ event = [i \in {0, 1} |-> 0]
  /\ pc = [t \in Threads |-> "out"] /\ my = [t \in Threads |-> 0]
  /\ arrivedAt = [t \in Threads |-> 0]

Step(t, from, to) == pc[t] = from /\ pc' = [pc EXCEPT ![t] = to]

\* The calls read PhaseState first.
Begin(t, to) ==
  /\ Step(t, "out", to) /\ my' = [my EXCEPT ![t] = phaseState]
  /\ number < MaxPhases
  /\ UNCHANGED <<mode, members, phaseState, number, state, event, arrivedAt>>

\* StBarrier_SignalAndWaitEx and SignalAndWait, AddPartner, RemovePartner
SignalAndWaitEx(t) == t \in members /\ Begin(t, "signal")
AddPartner(t)      == t \notin members /\ "add" \in mode /\ Begin(t, "add")
RemovePartner(t)   == t \in members /\ "remove" \in mode /\ Begin(t, "remove")

Swap(t, w) == state' = [state EXCEPT ![my[t]] = w]

-----------------------------------------------------------------------------
(* Signalling *)

\* Arrive; fail when the phase is complete; the last partner finishes it.
Signal(t) ==
  /\ LET w == state[my[t]] IN
       \/ Full(w) /\ Step(t, "signal", "out") /\ UNCHANGED <<state, arrivedAt>>
       \/ /\ ~Full(w) /\ Swap(t, w + 1)
          /\ Step(t, "signal", IF Full(w + 1) THEN "finish" ELSE "wait")
          /\ arrivedAt' = [arrivedAt EXCEPT ![t] = number]
  /\ UNCHANGED <<mode, members, phaseState, number, event, my>>

\* The event is set: WAIT_SUCCESS.
Released(t) ==
  /\ event[my[t]] = 1 /\ (Step(t, "wait", "out") \/ Step(t, "waitOver", "out"))
  /\ UNCHANGED <<mode, members, phaseState, number, state, event, my, arrivedAt>>

\* The wait times out or is alerted.
Cancelled(t) ==
  /\ "timeout" \in mode /\ event[my[t]] = 0 /\ Step(t, "wait", "undo")
  /\ UNCHANGED <<mode, members, phaseState, number, state, event, my, arrivedAt>>

\* Mutant: the decrement does not look whether the phase is complete.
UndoArrival_NoTest(t) ==
  /\ Step(t, "undo", "out") /\ Swap(t, state[my[t]] - 1)
  /\ UNCHANGED <<mode, members, phaseState, number, event, my, arrivedAt>>

\* Take the arrival back, unless the phase is complete.
UndoArrival(t) ==
  /\ LET w == state[my[t]] IN
       \/ Full(w) /\ Step(t, "undo", "waitOver") /\ UNCHANGED state
       \/ ~Full(w) /\ Step(t, "undo", "out") /\ Swap(t, w - 1)
  /\ UNCHANGED <<mode, members, phaseState, number, event, my, arrivedAt>>

-----------------------------------------------------------------------------
(* FinishPhase *)

\* The action runs and the phase number goes up ...
CountPhase(t) ==
  /\ Step(t, "finish", "nextState") /\ number' = number + 1
  /\ UNCHANGED <<mode, members, phaseState, state, event, my, arrivedAt>>

\* ... the next phase state gets the partners of this one ...
NextState(t) ==
  /\ Step(t, "nextState", "initEvent")
  /\ state' = [state EXCEPT ![Other(phaseState)] = Partners(state[phaseState]) * Wide]
  /\ UNCHANGED <<mode, members, phaseState, number, event, my, arrivedAt>>

InitEvent(t) ==
  /\ Step(t, "initEvent", "publish")
  /\ event' = [event EXCEPT ![Other(phaseState)] = 0]
  /\ UNCHANGED <<mode, members, phaseState, number, state, my, arrivedAt>>

\* ... it becomes the current one ...
Publish(t) ==
  /\ Step(t, "publish", "setEvent")
  /\ phaseState' = Other(phaseState) /\ my' = [my EXCEPT ![t] = phaseState]
  /\ UNCHANGED <<mode, members, number, state, event, arrivedAt>>

\* Mutant: the event of the new phase state is set.
SetEvent_Current(t) ==
  /\ Step(t, "setEvent", "out") /\ event' = [event EXCEPT ![phaseState] = 1]
  /\ UNCHANGED <<mode, members, phaseState, number, state, my, arrivedAt>>

\* ... and the event of the finished phase is set.
SetEvent(t) ==
  /\ Step(t, "setEvent", "out") /\ event' = [event EXCEPT ![my[t]] = 1]
  /\ UNCHANGED <<mode, members, phaseState, number, state, my, arrivedAt>>

-----------------------------------------------------------------------------
(* Partners *)

\* AddPartners with a count of one.
Add(t) ==
  /\ LET w == state[my[t]] IN
       \/ Full(w) /\ Step(t, "add", "addWait") /\ UNCHANGED <<state, members>>
       \/ /\ ~Full(w) /\ Step(t, "add", "out") /\ Swap(t, w + Wide)
          /\ members' = members \cup {t}
  /\ UNCHANGED <<mode, phaseState, number, event, my, arrivedAt>>

\* The phase is complete: wait for its event, at most 50 ms, and try again with
\* the phase state that is then current.
AddRetry(t) ==
  /\ Step(t, "addWait", "add") /\ my' = [my EXCEPT ![t] = phaseState]
  /\ UNCHANGED <<mode, members, phaseState, number, state, event, arrivedAt>>

\* RemovePartners with a count of one: the last partner is not removed, and a
\* phase for which only this partner was missing is finished.
Remove(t) ==
  /\ LET w == state[my[t]]
         p == Partners(w) - 1 IN
       \/ p <= 0 /\ Step(t, "remove", "out") /\ UNCHANGED <<state, members>>
       \/ /\ p > 0 /\ members' = members \ {t}
          /\ \/ Arrived(w) = p /\ Swap(t, p * Wide) /\ Step(t, "remove", "finish")
             \/ Arrived(w) # p /\ Swap(t, p * Wide + Arrived(w)) /\ Step(t, "remove", "out")
  /\ UNCHANGED <<mode, phaseState, number, event, my, arrivedAt>>

ThreadStep(t) ==
  \/ Signal(t) \/ Released(t) \/ UndoArrival(t) \/ CountPhase(t) \/ NextState(t)
  \/ InitEvent(t) \/ Publish(t) \/ SetEvent(t) \/ Add(t) \/ AddRetry(t) \/ Remove(t)

Next == \E t \in Threads :
  \/ SignalAndWaitEx(t) \/ AddPartner(t) \/ RemovePartner(t) \/ Cancelled(t)
  \/ ThreadStep(t)

Spec == Init /\ [][Next]_vars

-----------------------------------------------------------------------------
(* Properties *)

BarrierTypeOK ==
  /\ members \subseteq Threads /\ number \in 0..MaxPhases + 1
  /\ state \in [{0, 1} -> Nat] /\ my \in [Threads -> {0, 1}]

Finishing(t) == pc[t] \in {"finish", "nextState", "initEvent", "publish"}
Waiting(t)   == pc[t] \in {"wait", "undo", "waitOver"}

\* "bits 0-15: hold the number of arrived partners; bit 16..31: hold the number
\* of expected partners": outside of FinishPhase they count the partners that
\* wait in this phase, and all partners.
WordCounts ==
  (\A t \in Threads : ~Finishing(t)) =>
    /\ Partners(state[phaseState]) = Cardinality(members)
    /\ Arrived(state[phaseState]) =
         Cardinality({t \in Threads : pc[t] \in {"wait", "undo"} /\ my[t] = phaseState})

\* Nobody is let through before its phase is over, and nobody still waits on an
\* event when the event is initialized for another phase.
NobodyEarly ==
  \A t \in Threads : Waiting(t) =>
    /\ event[my[t]] = 1 => number > arrivedAt[t]
    /\ \A f \in Threads : pc[f] = "initEvent" => my[t] = phaseState

\* A phase has one finisher.
OneFinisher == \A s, t \in Threads : Finishing(s) /\ Finishing(t) => s = t

=============================================================================
