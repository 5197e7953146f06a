------------------------------ MODULE MCEvents ------------------------------
(***************************************************************************)
(* The initialize-once lock, the notification event by itself and under a  *)
(* count-down event, the barrier over the event's promise, and an alerter  *)
(* with which two threads wait and that the third one sets: systems side   *)
(* by side, of which the initial state chooses one.                        *)
(***************************************************************************)
EXTENDS InitOnceLock

CONSTANTS t1, t2, t3, Amounts, MaxState, Wide, MaxPhases, NULL, ALERTED

VARIABLES
  which,   \* the system of this behaviour
  set, lock, list, spinCount, count, unparked, unlinked, grabbed, kept, waking,
  promised,
  state,   \* the counter of the count-down event
  mode, members, phaseState, number, states, event, my, arrivedAt,
  head, next, headSeen, first, last, current, resume

alerterVars == <<head, next, headSeen, first, last, current, resume>>
barrierVars == <<mode, members, phaseState, number, states, event, my, arrivedAt>>

eventVars == <<set, lock, list, spinCount, promised, unparked, unlinked,
               grabbed, kept, waking>>
sharedVars  == <<pc, count>>
onceVars    == <<base, waiters, seen, spins, wake, release, failures>>

Events == INSTANCE NotificationEvent
CountDown == INSTANCE CountDownEvent
MCModes == {{"add", "timeout"}, {"remove"}}
Phases == INSTANCE Barrier WITH state <- states, Modes <- MCModes
Alerts == INSTANCE Alerter WITH state <- headSeen

ASSUME EventsAssumption == Phases!BarrierAssumption /\ CountDown!CountDownAssumption

MCThreads == {t1, t2, t3}

NoEvent ==
  /\ set = 0 /\ lock = 0 /\ list = <<>> /\ spinCount = 0 /\ promised = <<>>
  /\ unparked = <<>> /\ unlinked = <<>> /\ grabbed = <<>> /\ kept = <<>>
  /\ waking = <<>>
NoBarrier ==
  /\ mode = {} /\ members = {} /\ phaseState = 0 /\ number = 0
  /\ states = <<>> /\ event = <<>> /\ my = <<>> /\ arrivedAt = <<>>
NoAlerter ==
  /\ head = 0 /\ next = 0 /\ headSeen = 0 /\ first = 0 /\ last = 0 /\ current = 0
  /\ resume = 0

NoOnce ==
  /\ base = 0 /\ waiters = 0 /\ seen = 0 /\ spins = 0 /\ release = 0 /\ failures = 0
  /\ wake = [t \in Threads |-> "NONE"]

MCInit ==
  \/ which = "event" /\ Events!Init /\ state = 0 /\ NoBarrier /\ NoAlerter /\ NoOnce
  \/ which = "countdown" /\ CountDown!Init /\ NoBarrier /\ NoAlerter /\ NoOnce
  \/ /\ which = "barrier" /\ Phases!Init
     /\ NoEvent /\ state = 0 /\ count = 0 /\ NoAlerter /\ NoOnce
  \/ which = "alerter" /\ Alerts!Init /\ NoEvent /\ state = 0 /\ NoBarrier /\ NoOnce
  \/ which = "once" /\ Init /\ NoEvent /\ state = 0 /\ count = 0 /\ NoBarrier /\ NoAlerter

InEvents == which \in {"event", "countdown"}

\* The variables that the chosen one does not have.
Others ==
  /\ UNCHANGED which
  /\ ~InEvents => UNCHANGED eventVars
  /\ which # "countdown" => UNCHANGED state
  /\ which # "barrier" => UNCHANGED barrierVars
  /\ which # "alerter" => UNCHANGED alerterVars
  /\ which \in {"barrier", "once"} => UNCHANGED count
  /\ which # "once" => UNCHANGED onceVars

AlerterNext ==
  \/ \E t \in {t1, t2} : Alerts!RegisterParker(t) \/ Alerts!TryLockParker(t)
  \/ Alerts!SetAlerter(t3)
  \/ \E t \in Threads : Alerts!ThreadStep(t)

MCNext ==
  /\ \/ which = "event" /\ Events!Next
     \/ which = "countdown" /\ CountDown!Next
     \/ which = "barrier" /\ Phases!Next
     \/ which = "alerter" /\ AlerterNext
     \/ which = "once" /\ Next
  /\ Others

\* Threads go on, and initialisations end; nothing promises that a timed wait
\* expires.
MCThreadStep(t) ==
  /\ \/ which = "event" /\ Events!ThreadStep(t)
     \/ which = "countdown" /\ CountDown!ThreadStep(t)
     \/ which = "barrier" /\ Phases!ThreadStep(t)
     \/ which = "alerter" /\ Alerts!ThreadStep(t)
     \/ which = "once" /\ (ThreadStep(t) \/ Finish(t))
  /\ Others

mcVars == <<eventVars, sharedVars, which, state, barrierVars, alerterVars, onceVars>>

MCSpec ==
  MCInit /\ [][MCNext]_mcVars /\ \A t \in Threads : WF_mcVars(MCThreadStep(t))

-----------------------------------------------------------------------------
(* Properties.  OneInitialiser and FalseMeansAvailable of InitOnceLock are *)
(* checked as they are.                                                    *)

\* Nobody who waits for the event is forgotten, nobody is woken without a set, and no
\* block of a wait that has returned is reachable.
EventPromises ==
  InEvents => /\ Events!NobodyForgotten /\ Events!SuccessMeansSet
              /\ Events!NoDanglingBlock

\* Nobody whose alerter was set is forgotten, and no parker of a wait that has
\* returned is reachable from the alerter.
AlerterPromises ==
  which = "alerter" => Alerts!NobodyUnalerted /\ Alerts!ParkersLeave

\* The promise of the count-down event.
ReleasedAtZero == which = "countdown" => CountDown!ReleasedAtZero

\* The promises of the barrier.
WordCounts  == which = "barrier" => Phases!WordCounts
NobodyEarly == which = "barrier" => Phases!NobodyEarly

\* Whoever waits when the event is set, when the phase is over, or when its alerter
\* was set or its wait with an alerter is over, leaves.  A call for the target
\* returns unless an initialisation fails.  Threads are alike: t1 stands for all.
WaitersLeave ==
  /\ InEvents /\ pc[t1] = "parked" /\ promised[t1] = 1 ~> pc[t1] = "out"
  /\ InEvents /\ pc[t1] \in {"unlink", "slow", "spinUnlinked"} ~> pc[t1] = "out"
  /\ which = "barrier" /\ Phases!Waiting(t1) /\ number > arrivedAt[t1] ~> pc[t1] = "out"
  /\ which = "alerter" /\ (pc[t1] = "deregister" \/ Alerts!Alerted(t1)) ~> pc[t1] = "out"
  /\ which = "once" /\ pc[t1] \notin {"idle", "available"}
       ~> pc[t1] = "available" \/ failures > 0
=============================================================================
