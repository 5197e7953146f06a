------------------------------ MODULE Alerter -------------------------------
(***************************************************************************)
(* The alerter: its state is ALERTED, or the head of a stack of the        *)
(* parkers of threads that wait, linked by the Next fields.  A thread      *)
(* whose wait has ended takes its parker out of the stack; the slow way is *)
(* to take the whole stack, mark the locked parkers as unlinked (Next      *)
(* points to the parker itself), and put the others back.                  *)
(*                                                                         *)
(* A parker lives in the frame of its thread's wait and is named by the    *)
(* thread; module Parker checks the wait itself, with one parker in the    *)
(* alerter.  Links are explicit, because the code decides by them.         *)
(***************************************************************************)
EXTENDS Naturals, FiniteSets

CONSTANTS Threads, NULL, ALERTED

AlerterAssumption ==
  NULL \notin Threads /\ ALERTED \notin Threads /\ NULL # ALERTED

VARIABLES
  head,       \* Alerter->State
  next,       \* Parker->Next
  pc,         \* control state of each thread
  count,      \* the lock count of its parker
  state,      \* its local State
  first, last,   \* its locals First and Last: the new list
  current,    \* its local Current, or First in AlertParkerList
  resume      \* where it goes on after AlertParkerList

walkVars == <<first, last, current>>
vars == <<head, next, pc, count, state, walkVars, resume>>

Parkers == Threads \cup {NULL}

Pcs == {"out", "parked", "deregister", "cas", "slow", "walk", "merge", "mergeCas",
        "spin", "cancel", "unpark", "mark"}

\* StAlerter_Init
Init ==
  /\ head = NULL /\ next = [t \in Threads |-> NULL]
  /\ pc = [t \in Threads |-> "out"] /\ count = [t \in Threads |-> 0]
  /\ state = [t \in Threads |-> NULL] /\ first = [t \in Threads |-> NULL]
  /\ last = [t \in Threads |-> NULL] /\ current = [t \in Threads |-> NULL]
  /\ resume = [t \in Threads |-> "out"]

Step(t, from, to) == pc[t] = from /\ pc' = [pc EXCEPT ![t] = to]

\* The thread returns, and the frame of its wait is gone.
Leave(t, from) ==
  /\ Step(t, from, "out")
  /\ next' = [next EXCEPT ![t] = NULL] /\ state' = [state EXCEPT ![t] = NULL]

-----------------------------------------------------------------------------
(* Registering and waiting *)

\* RegisterParker: push the parker, or return FALSE if the alerter is set: then the
\* wait ends, or goes on without the alerter.
RegisterParker(t) ==
  \/ head = ALERTED /\ pc[t] = "out" /\ UNCHANGED vars
  \/ /\ head # ALERTED /\ Step(t, "out", "parked")
     /\ next' = [next EXCEPT ![t] = head] /\ head' = t
     /\ count' = [count EXCEPT ![t] = 1]
     /\ UNCHANGED <<state, walkVars, resume>>

\* A releaser, or the thread itself when its timeout expires, locks the parker.
TryLockParker(t) ==
  /\ pc[t] = "parked" /\ count[t] = 1 /\ count' = [count EXCEPT ![t] = 0]
  /\ UNCHANGED <<head, next, pc, state, walkVars, resume>>

\* The winner has unparked the thread: the wait is over.
Woken(t) ==
  /\ count[t] = 0 /\ \A s \in Threads : pc[s] = "unpark" => current[s] # t
  /\ Step(t, "parked", "deregister")
  /\ UNCHANGED <<head, next, count, state, walkVars, resume>>

-----------------------------------------------------------------------------
(* Deregistering *)

\* DeregisterParker: look at the parker's link ...
DeregisterParker(t) ==
  \/ next[t] = t /\ Leave(t, "deregister")
     /\ UNCHANGED <<head, count, walkVars, resume>>
  \/ /\ next[t] # t
     /\ Step(t, "deregister", IF next[t] = NULL THEN "cas" ELSE "slow")
     /\ UNCHANGED <<head, next, count, state, walkVars, resume>>

\* ... and, if it was null, swap the parker for null in the head.
DeregisterCas(t) ==
  \/ head = t /\ head' = NULL /\ Leave(t, "cas")
     /\ UNCHANGED <<count, walkVars, resume>>
  \/ head # t /\ Step(t, "cas", "slow")
     /\ UNCHANGED <<head, next, count, state, walkVars, resume>>

\* SlowDeregisterParker: return if the parker is unlinked; spin if the stack is in
\* other hands; or grab it.
SlowDeregisterParker(t) ==
  \/ next[t] = t /\ Leave(t, "slow")
     /\ UNCHANGED <<head, count, walkVars, resume>>
  \/ /\ next[t] # t /\ head \in {NULL, ALERTED} /\ Step(t, "slow", "spin")
     /\ state' = [state EXCEPT ![t] = head]
     /\ UNCHANGED <<head, next, count, walkVars, resume>>
  \/ /\ next[t] # t /\ head \in Threads /\ head' = NULL
     /\ \/ head = t /\ next[t] = NULL /\ Leave(t, "slow") /\ UNCHANGED current
        \/ /\ ~(head = t /\ next[t] = NULL) /\ Step(t, "slow", "walk")
           /\ current' = [current EXCEPT ![t] = head] /\ UNCHANGED <<next, state>>
     /\ UNCHANGED <<count, first, last, resume>>

\* The walk: mark the locked parkers as unlinked, keep the others.
Walk(t) ==
  LET c == current[t] IN
  /\ pc[t] = "walk"
  /\ current' = [current EXCEPT ![t] = next[c]]
  /\ pc' = [pc EXCEPT ![t] = IF next[c] = NULL THEN "merge" ELSE "walk"]
  /\ \/ /\ count[c] = 0 /\ next' = [next EXCEPT ![c] = c] /\ UNCHANGED <<first, last>>
     \/ /\ count[c] # 0 /\ last' = [last EXCEPT ![t] = c]
        /\ \/ /\ first[t] = NULL /\ first' = [first EXCEPT ![t] = c] /\ UNCHANGED next
           \/ /\ first[t] # NULL /\ next' = [next EXCEPT ![last[t]] = c]
              /\ UNCHANGED first
  /\ UNCHANGED <<head, count, state, resume>>

\* Mutant: the kept parkers are dropped when the alerter was set meanwhile.
Merge_NoAlert(t) ==
  \/ /\ first[t] = NULL \/ head = ALERTED
     /\ Step(t, "merge", "spin") /\ state' = [state EXCEPT ![t] = head]
     /\ first' = [first EXCEPT ![t] = NULL] /\ last' = [last EXCEPT ![t] = NULL]
     /\ UNCHANGED <<head, next, count, current, resume>>
  \/ /\ first[t] # NULL /\ head # ALERTED /\ Step(t, "merge", "mergeCas")
     /\ next' = [next EXCEPT ![last[t]] = head]
     /\ state' = [state EXCEPT ![t] = head]
     /\ UNCHANGED <<head, count, walkVars, resume>>

\* Merge the kept parkers with the stack: link the last one to the head, or alert
\* them all if the alerter was set meanwhile.
Merge(t) ==
  \/ /\ first[t] = NULL /\ Step(t, "merge", "spin")
     /\ state' = [state EXCEPT ![t] = NULL]
     /\ UNCHANGED <<head, next, count, walkVars, resume>>
  \/ /\ first[t] # NULL /\ head = ALERTED /\ Step(t, "merge", "cancel")
     /\ next' = [next EXCEPT ![last[t]] = NULL]
     /\ state' = [state EXCEPT ![t] = ALERTED]
     /\ current' = [current EXCEPT ![t] = first[t]]
     /\ first' = [first EXCEPT ![t] = NULL] /\ last' = [last EXCEPT ![t] = NULL]
     /\ resume' = [resume EXCEPT ![t] = "spin"]
     /\ UNCHANGED <<head, count>>
  \/ /\ first[t] # NULL /\ head # ALERTED /\ Step(t, "merge", "mergeCas")
     /\ next' = [next EXCEPT ![last[t]] = head]
     /\ state' = [state EXCEPT ![t] = head]
     /\ UNCHANGED <<head, count, walkVars, resume>>

\* The swap of the head for the first kept parker.
MergeCas(t) ==
  \/ /\ head = state[t] /\ head' = first[t] /\ Step(t, "mergeCas", "spin")
     /\ state' = [state EXCEPT ![t] = first[t]]
     /\ first' = [first EXCEPT ![t] = NULL] /\ last' = [last EXCEPT ![t] = NULL]
     /\ UNCHANGED <<next, count, current, resume>>
  \/ /\ head # state[t] /\ Step(t, "mergeCas", "merge")
     /\ UNCHANGED <<head, next, count, state, walkVars, resume>>

\* Spin until the parker is unlinked or the head changes.
SpinUntilUnlinkedOrListChange(t) ==
  \/ next[t] = t /\ Leave(t, "spin")
     /\ UNCHANGED <<head, count, walkVars, resume>>
  \/ /\ next[t] # t /\ head \notin {state[t], ALERTED} /\ Step(t, "spin", "slow")
     /\ UNCHANGED <<head, next, count, state, walkVars, resume>>

-----------------------------------------------------------------------------
(* Alerting *)

\* StAlerter_Set (SetAlerter), by a thread outside of a wait: take the stack.
SetAlerter(t) ==
  /\ head # ALERTED /\ head' = ALERTED
  /\ Step(t, "out", IF head = NULL THEN "out" ELSE "cancel")
  /\ current' = [current EXCEPT ![t] = head]
  /\ resume' = [resume EXCEPT ![t] = "out"]
  /\ UNCHANGED <<next, count, state, first, last>>

\* AlertParkerList: cancel the wait of the next parker unless it is locked ...
AlertCancel(t) ==
  /\ \/ /\ Step(t, "cancel", "unpark") /\ count[current[t]] = 1
        /\ count' = [count EXCEPT ![current[t]] = 0]
     \/ Step(t, "cancel", "mark") /\ count[current[t]] = 0 /\ UNCHANGED count
  /\ UNCHANGED <<head, next, state, walkVars, resume>>

\* ... unpark its thread ...
AlertUnpark(t) ==
  /\ Step(t, "unpark", "mark")
  /\ UNCHANGED <<head, next, count, state, walkVars, resume>>

\* ... mark the parker as unlinked, and go on with the one it was linked to.
AlertMark(t) ==
  LET n == next[current[t]] IN
  /\ pc[t] = "mark" /\ pc' = [pc EXCEPT ![t] = IF n = NULL THEN resume[t] ELSE "cancel"]
  /\ next' = [next EXCEPT ![current[t]] = current[t]]
  /\ current' = [current EXCEPT ![t] = n]
  /\ UNCHANGED <<head, count, state, first, last, resume>>

\* The steps inside an operation that a thread has begun.
ThreadStep(t) ==
  \/ Woken(t) \/ DeregisterParker(t) \/ DeregisterCas(t) \/ SlowDeregisterParker(t)
  \/ Walk(t) \/ Merge(t) \/ MergeCas(t) \/ SpinUntilUnlinkedOrListChange(t)
  \/ AlertCancel(t) \/ AlertUnpark(t) \/ AlertMark(t)

Next ==
  \E t \in Threads :
    RegisterParker(t) \/ TryLockParker(t) \/ SetAlerter(t) \/ ThreadStep(t)

Spec == Init /\ [][Next]_vars

-----------------------------------------------------------------------------
(* Properties *)

TypeOK ==
  /\ head \in Parkers \cup {ALERTED} /\ next \in [Threads -> Parkers]
  /\ pc \in [Threads -> Pcs] /\ count \in [Threads -> {0, 1}]
  /\ state \in [Threads -> Parkers \cup {ALERTED}] /\ first \in [Threads -> Parkers]
  /\ last \in [Threads -> Parkers] /\ current \in [Threads -> Parkers]
  /\ resume \in [Threads -> {"out", "spin"}]

\* The parkers that one reaches from p through the links, up to the parker stop: those
\* in every set that has p and is closed under the links.
Reach(p, stop) ==
  {q \in Threads :
     \A S \in SUBSET Threads :
       /\ p \in Threads => p \in S
       /\ \A r \in S \ {stop} : next[r] \in Threads => next[r] \in S
       => q \in S}

Stack == Reach(head, NULL)

\* The parkers in the hands of s: those it walks over, and those it has kept, whose
\* last one still has its old link.
Hands(s) == Reach(current[s], NULL) \cup Reach(first[s], last[s])

Waiting(t) == pc[t] = "parked" /\ count[t] = 1
Alerted(t) == Waiting(t) /\ head = ALERTED

\* The parker of a wait that has returned is neither in the stack nor in the hands
\* of a thread that walks over it.
ParkersLeave ==
  \A t \in Threads :
    pc[t] = "out" \/ (resume[t] = "out" /\ pc[t] \in {"cancel", "unpark", "mark"}) =>
      t \notin Stack /\ \A s \in Threads : t \notin Hands(s)

\* Parker.c: the wait lasts "until it is unparked, the timeout expires or the
\* specified alerter is set": a registered parker is in the stack or in the hands
\* of somebody who puts it back or alerts it.  Does not hold: see the README.
NobodyUnalerted ==
  \A t \in Threads : Waiting(t) =>
    t \in Stack \/ \E s \in Threads : t \in Hands(s)
=============================================================================
