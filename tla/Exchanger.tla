----------------------------- MODULE Exchanger ------------------------------
(***************************************************************************)
(* The exchanger: a thread that finds a wait block in the slot takes it    *)
(* and swaps items with its owner; a thread that finds the slot empty puts *)
(* its own wait block there.  An owner that gives up takes its block back, *)
(* or waits until the thread that took it has let go of it.                *)
(***************************************************************************)
EXTENDS Naturals

CONSTANTS Threads, NoThread,
          MaxItems    \* bound: how many items are offered

VARIABLES
  slot,       \* Exchanger->Slot: the owner of the wait block there
  pc,         \* control state of each thread
  offer,      \* OfferedData of its call; items are numbered
  yours,      \* its local YourWaitBlock, as its owner
  channel,    \* the Channel of its wait block
  count,      \* the lock count of its parker
  unparked,   \* 1 when it was unparked
  unlinked,   \* 1 when its wait block points to itself
  offered,    \* ghost: how many items were offered
  got         \* ghost: what the caller that offered an item has got; 0 so far

parkVars == <<count, unparked, unlinked>>
vars == <<slot, pc, offer, yours, channel, parkVars, offered, got>>

Init ==
  /\ slot = NoThread /\ pc = [t \in Threads |-> "out"]
  /\ offer = [t \in Threads |-> 0] /\ yours = [t \in Threads |-> NoThread]
  /\ channel = [t \in Threads |-> 0] /\ count = [t \in Threads |-> 0]
  /\ unparked = [t \in Threads |-> 0] /\ unlinked = [t \in Threads |-> 0]
  /\ offered = 0 /\ got = [i \in 1..MaxItems |-> 0]

Step(t, from, to) == pc[t] = from /\ pc' = [pc EXCEPT ![t] = to]

\* StExchanger_ExchangeEx.
ExchangeEx(t) ==
  /\ Step(t, "out", "look") /\ offered < MaxItems /\ offered' = offered + 1
  /\ offer' = [offer EXCEPT ![t] = offered']
  /\ count' = [count EXCEPT ![t] = 0]
  /\ UNCHANGED <<slot, yours, channel, unparked, unlinked, got>>

\* The slot holds the wait block of another thread.
LookFull(t) ==
  /\ slot # NoThread /\ Step(t, "look", "swap") /\ yours' = [yours EXCEPT ![t] = slot]
  /\ UNCHANGED <<slot, offer, channel, parkVars, offered, got>>

\* The slot is empty: initialise the own wait block, unless that is done; a call
\* with a null timeout fails instead.
LookEmpty(t) ==
  /\ slot = NoThread
  /\ \/ Step(t, "look", "insert") /\ count' = [count EXCEPT ![t] = 1]
        /\ channel' = [channel EXCEPT ![t] = offer[t]]
        /\ unparked' = [unparked EXCEPT ![t] = 0]
        /\ unlinked' = [unlinked EXCEPT ![t] = 0]
     \/ count[t] = 0 /\ Step(t, "look", "out") /\ UNCHANGED <<channel, parkVars>>
  /\ UNCHANGED <<slot, offer, yours, offered, got>>

\* Swap the slot for NULL, unless it has changed.
TakeSlot(t) ==
  /\ \/ slot = yours[t] /\ slot' = NoThread /\ Step(t, "swap", "lock")
     \/ slot # yours[t] /\ UNCHANGED slot /\ Step(t, "swap", "look")
  /\ UNCHANGED <<offer, yours, channel, parkVars, offered, got>>

\* Mutant: the parker's count is not tested.
Exchange_NoTest(t) ==
  LET u == yours[t] IN
  /\ Step(t, "lock", "unpark") /\ count' = [count EXCEPT ![u] = 0]
  /\ channel' = [channel EXCEPT ![u] = offer[t]]
  /\ got' = [got EXCEPT ![offer[t]] = channel[u]]
  /\ UNCHANGED <<slot, offer, yours, unparked, unlinked, offered>>

\* Lock the owner's parker and swap the items, ...
Exchange(t) ==
  LET u == yours[t] IN
  /\ Step(t, "lock", "unpark") /\ count[u] = 1 /\ count' = [count EXCEPT ![u] = 0]
  /\ channel' = [channel EXCEPT ![u] = offer[t]]
  /\ got' = [got EXCEPT ![offer[t]] = channel[u]]
  /\ UNCHANGED <<slot, offer, yours, unparked, unlinked, offered>>

\* ... or, when the owner has given up, let it go.
OwnerGaveUp(t) ==
  /\ Step(t, "lock", "look") /\ count[yours[t]] = 0
  /\ unlinked' = [unlinked EXCEPT ![yours[t]] = 1]
  /\ UNCHANGED <<slot, offer, yours, channel, count, unparked, offered, got>>

UnparkThread(t) ==
  /\ Step(t, "unpark", "out") /\ unparked' = [unparked EXCEPT ![yours[t]] = 1]
  /\ UNCHANGED <<slot, offer, yours, channel, count, unlinked, offered, got>>

\* The slot was empty: put the wait block there.
Insert(t) ==
  /\ \/ slot = NoThread /\ slot' = t /\ Step(t, "insert", "parked")
     \/ slot # NoThread /\ UNCHANGED slot /\ Step(t, "insert", "look")
  /\ UNCHANGED <<offer, yours, channel, parkVars, offered, got>>

Unparked(t) ==
  /\ unparked[t] = 1 /\ Step(t, "parked", "out")
  /\ got' = [got EXCEPT ![offer[t]] = channel[t]]
  /\ UNCHANGED <<slot, offer, yours, channel, parkVars, offered>>

Cancelled(t) ==
  /\ count[t] = 1 /\ count' = [count EXCEPT ![t] = 0] /\ Step(t, "parked", "takeBack")
  /\ UNCHANGED <<slot, offer, yours, channel, unparked, unlinked, offered, got>>

\* Take the wait block back, or spin until it is unlinked.
TakeBack(t) ==
  /\ \/ slot = t /\ slot' = NoThread /\ Step(t, "takeBack", "out")
     \/ slot # t /\ UNCHANGED slot /\ Step(t, "takeBack", "spin")
  /\ UNCHANGED <<offer, yours, channel, parkVars, offered, got>>

SpinUntilUnlinked(t) ==
  /\ unlinked[t] = 1 /\ Step(t, "spin", "out")
  /\ UNCHANGED <<slot, offer, yours, channel, parkVars, offered, got>>

Next == \E t \in Threads :
  \/ ExchangeEx(t) \/ LookFull(t) \/ LookEmpty(t) \/ TakeSlot(t) \/ Exchange(t)
  \/ OwnerGaveUp(t) \/ UnparkThread(t) \/ Insert(t) \/ Unparked(t) \/ Cancelled(t) \/ TakeBack(t)
  \/ SpinUntilUnlinked(t)

Spec == Init /\ [][Next]_vars

-----------------------------------------------------------------------------
(* Properties *)

\* Exchanges are mutual: who got an item has given its own to that item's
\* caller, who has it or is going to find it in its wait block.
Mutual ==
  \A i \in 1..MaxItems : got[i] # 0 =>
    \/ got[got[i]] = i
    \/ \E t \in Threads : /\ pc[t] = "parked" /\ count[t] = 0
                          /\ offer[t] = got[i] /\ channel[t] = i

\* A wait block is reachable only while its owner waits, or spins for its release.
BlocksLeave ==
  \A t \in Threads :
    /\ slot = t => pc[t] \in {"parked", "takeBack"}
    /\ pc[t] = "lock" => pc[yours[t]] \in {"parked", "takeBack", "spin"}
    /\ pc[t] = "unpark" => pc[yours[t]] = "parked"
=============================================================================
