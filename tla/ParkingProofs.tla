--------------------------- MODULE ParkingProofs ----------------------------
(***************************************************************************)
(* Proofs about parking and the systems that rest on it alone, those of    *)
(* MCParking.                                                              *)
(*                                                                         *)
(*  - Parker, for any set of unparkers and APCs, any lock count and any    *)
(*    spin count: the wait status belongs to the one party that locked the *)
(*    parker, the park spot is clean when it is reused, and nobody touches *)
(*    the parker once the wait has returned;                               *)
(*  - the timer and the registered wait, for any set of threads and any    *)
(*    number of permits: quiet when inactive, armed when active, one       *)
(*    callback at a time, no permit lost;                                  *)
(*  - the lock, for any set of threads: it implements Mutex, it loses no   *)
(*    wake-up, and no wait block outlives the call that owns it;           *)
(*  - the spin lock: the same, and a parker is in nobody's hands once its  *)
(*    thread has gone on;                                                  *)
(*  - the fair lock, from the lemmas about its queue: it implements Mutex. *)
(***************************************************************************)
EXTENDS MCParking, WaitListLemmas, TLAPS

-----------------------------------------------------------------------------
(* The parker: its inductive invariant, what holds in each phase of a wait. *)

BeforeWait == {"spin", "spinAlert", "alloc", "allocFailed", "spinUnpark",
               "clearWip"}
Waiting    == {"register", "registerFailed", "wait", "blocked", "inApc",
               "apcDone", "waitFailed", "waitInfinite"}
AfterWait  == {"woken", "deregister", "freeSpot", "readStatus"}

\* The waker holds the parker's lock and has not released the owner yet.
Unparking(w) == wpc[w] \in {"setStatus", "testWip", "exchange", "setSpot"}

\* The lock count is zero exactly when somebody won.
CountInv == opc # "idle" => (count = 0 <=> winner # "none")

\* Only the winner is unparking, and only while the owner waits for it.
WakerInv ==
  /\ \A u \in Unparkers : wpc[u] \notin {"cancel", "unlink", "callback"}
  /\ wpc["alerter"] # "callback"
  /\ \A w \in Wakers :
       Unparking(w) => winner = w /\ opc \in BeforeWait \cup Waiting
  /\ \A w \in Wakers :
       /\ wpc[w] \in {"testWip", "exchange", "setSpot"} => status = WakeKey(w)
       /\ wpc[w] = "setSpot" => opc \in Waiting
  /\ wpc["alerter"] \in {"cancel", "unlink"} => opc \in Waiting \cup AfterWait
  /\ opc = "idle" => \A u \in Unparkers : wpc[u] = "done"

\* Until the owner clears the wait-in-progress bit, only another thread that
\* finished unparking it can have cleared the bit.
BeforeInv ==
  opc \in BeforeWait =>
    /\ winner \in {"none"} \cup (Unparkers \ Apcs)
    /\ event = 0
    /\ winner # "none" /\ wip = 1 => Unparking(winner)
    /\ wip = 0 => winner # "none" /\ wpc[winner] = "done" /\ status = winner
    /\ opc = "clearWip" => handle = 1 /\ spotState = 0

\* While the owner waits, the park spot is signalled exactly when the winner
\* has finished, by its event or, from an APC, by its state.
WaitingInv ==
  opc \in Waiting =>
    /\ handle = 1 /\ wip = 0 /\ winner # "owner"
    /\ winner = "none" => event = 0 /\ spotState = 0
    /\ winner # "none" /\ Unparking(winner) => event = 0 /\ spotState = 0
    /\ winner # "none" /\ ~Unparking(winner) =>
         /\ status = WakeKey(winner)
         /\ IF winner \in Apcs THEN event = 0 /\ spotState = 1
                               ELSE event = 1 /\ spotState = 0
    /\ winner \in Apcs => IF Unparking(winner) THEN opc = "inApc"
                          ELSE opc \in {"apcDone", "wait"}
    /\ opc = "inApc" => winner \in Apcs /\ Unparking(winner)
    /\ opc = "waitFailed" => result \in {"TIMEOUT", "FAILED"}
    /\ opc \in {"waitInfinite"} => winner # "none"

\* After the wait the spot is clean and the status is the winner's.
AfterInv ==
  /\ opc \in AfterWait \cup {"freeAlerted", "returned", "idle"} => event = 0
  /\ opc \in AfterWait \cup {"freeAlerted", "returned"} => winner # "none"
  /\ opc \in AfterWait =>
       /\ winner = "owner" => status \in {"TIMEOUT", "FAILED"}
       /\ winner \in Wakers => status = WakeKey(winner)
  /\ opc = "freeAlerted" => winner = "owner"

\* Who holds the parker on behalf of the alerter, as long as it is registered.
Registered ==
  registered = 1 /\ opc \in Waiting \cup {"woken", "deregister"}

AlerterInv ==
  /\ Registered =>
       /\ args.useAlerter = 1
       /\ \/ alerter = "PARKER" /\ next = "NULL" /\ wpc["alerter"] = "idle"
          \/ /\ alerter = "ALERTED" /\ next = "NULL"
             /\ wpc["alerter"] \notin {"idle", "done"}
          \/ alerter = "ALERTED" /\ next = "SELF" /\ wpc["alerter"] = "done"
  /\ ~Registered => alerter # "PARKER" /\ wpc["alerter"] \in {"idle", "done"}
  /\ registered = 1 => opc \notin BeforeWait \cup
                         {"register", "registerFailed", "freeAlerted"}
  /\ opc \in {"register", "registerFailed"} => args.useAlerter = 1
  /\ args.useAlerter = 1 /\ wpc["alerter"] = "done" /\ opc # "idle" =>
       alerter = "ALERTED"
  /\ opc = "deregister" => registered = 1

IInv == /\ TypeOK /\ CountInv /\ WakerInv /\ BeforeInv /\ WaitingInv
        /\ AfterInv /\ AlerterInv /\ StatusIsWinners

\* Before the first wait nobody holds the parker and the park spot is clear.
LEMMA InitIInv == Init => IInv
BY ParkerAssumption
   DEF Init, IInv, TypeOK, CountInv, WakerInv, BeforeInv, WaitingInv, AfterInv,
       AlerterInv, StatusIsWinners, Registered, BeforeWait, Waiting, AfterWait,
       Unparking, WakeKey, Wakers, Statuses, OwnerPcs, WakerPcs, Args

\* Every step of ParkThreadEx, UnparkThread, SetAlerter and the APCs keeps it.
LEMMA NextIInv == ASSUME IInv, [Next]_vars PROVE IInv'
<1> USE ParkerAssumption
    DEF IInv, TypeOK, CountInv, WakerInv, BeforeInv, WaitingInv, AfterInv,
        AlerterInv, StatusIsWinners, Registered, BeforeWait, Waiting, AfterWait,
        Unparking, WakeKey, AfterWake, Wakers, Statuses, OwnerPcs, WakerPcs,
        Args, Goto, TryCancelParker, AlreadyLocked, parkerVars, spotVars,
        localVars
<1>0. CASE ComWaitFails
  BY <1>0 DEF ComWaitFails
<1>1. CASE Start
  BY <1>1 DEF Start, ValidArgs
<1>2. CASE SpinTest
  BY <1>2 DEF SpinTest
<1>3. CASE SpinAlert
  BY <1>3 DEF SpinAlert
<1>4. CASE AllocParkSpot
  BY <1>4 DEF AllocParkSpot
<1>5. CASE AllocFailed
  BY <1>5 DEF AllocFailed
<1>6. CASE SpinUntilUnparked
  BY <1>6 DEF SpinUntilUnparked
<1>7. CASE ClearWaitInProgress
  BY <1>7 DEF ClearWaitInProgress
<1>8. CASE RegisterParker
  BY <1>8 DEF RegisterParker
<1>9. CASE RegisterFailed
  BY <1>9 DEF RegisterFailed
<1>10. CASE WaitTest
  BY <1>10 DEF WaitTest
<1>11. CASE BlockedReturns
  BY <1>11 DEF BlockedReturns
<1>12. CASE ApcReturns
  BY <1>12 DEF ApcReturns
<1>13. CASE WaitFailed
  BY <1>13 DEF WaitFailed
<1>14. CASE WaitInfinite
  BY <1>14 DEF WaitInfinite
<1>15. CASE Woken
  BY <1>15 DEF Woken
<1>16. CASE DeregisterParker
  BY <1>16 DEF DeregisterParker
<1>17. CASE FreeParkSpot
  BY <1>17 DEF FreeParkSpot
<1>18. CASE ReadWaitStatus
  BY <1>18 DEF ReadWaitStatus
<1>19. CASE LeaveFrame
  BY <1>19 DEF LeaveFrame
<1>20. ASSUME NEW w \in Wakers, SetWaitStatus(w) PROVE IInv'
  BY <1>20 DEF SetWaitStatus, Step, ApcControl
<1>21. ASSUME NEW w \in Wakers, TestWaitInProgress(w) PROVE IInv'
  BY <1>21 DEF TestWaitInProgress, Step, ApcControl
<1>22. ASSUME NEW w \in Wakers, ExchangeState(w) PROVE IInv'
  BY <1>22 DEF ExchangeState, Step, ApcControl
<1>23. ASSUME NEW w \in Wakers, SetParkSpot(w) PROVE IInv'
  BY <1>23 DEF SetParkSpot, Step, ApcControl
<1>24. ASSUME NEW w \in Unparkers, TryLockParker(w) PROVE IInv'
  BY <1>24 DEF TryLockParker, Step, ApcControl
<1>25. CASE SetAlerter
  BY <1>25 DEF SetAlerter, Step, ApcControl
<1>26. CASE AlertCancel
  BY <1>26 DEF AlertCancel, Step, ApcControl
<1>27. CASE AlertUnlink
  BY <1>27 DEF AlertUnlink, Step, ApcControl
<1>28. CASE UNCHANGED vars
  BY <1>28 DEF vars
<1> HIDE DEF IInv
<1>29. QED
  BY <1>0, <1>1, <1>2, <1>3, <1>4, <1>5, <1>6, <1>7, <1>8, <1>9,
     <1>10, <1>11, <1>12, <1>13, <1>14, <1>15, <1>16, <1>17, <1>18,
     <1>19, <1>20, <1>21, <1>22, <1>23, <1>24, <1>25, <1>26, <1>27,
     <1>28
     DEF Next, OwnerStep, WakerStep, UnparkThread, Wakers

-----------------------------------------------------------------------------
(* The parker: the theorems. *)

\* In every reachable state of the park/unpark protocol IInv holds.
THEOREM Invariance == Spec => []IInv
<1>1. IInv /\ [Next]_vars => IInv'
  BY NextIInv
<1>2. QED
  BY <1>1, InitIInv, PTL DEF Spec

\* Type correctness of the parker, the park spot and all control states.
THEOREM TypeCorrect == Spec => []TypeOK
<1>1. IInv => TypeOK
  BY DEF IInv
<1>2. QED
  BY <1>1, Invariance, PTL

\* ParkThreadEx and ParkThread return the status of the party that locked or
\* cancelled the parker, whatever the races between them.
THEOREM WaitStatusCorrect == Spec => []StatusIsWinners
<1>1. IInv => StatusIsWinners
  BY DEF IInv
<1>2. QED
  BY <1>1, Invariance, PTL

\* No wait leaves its park spot signalled, or about to be signalled.
THEOREM ParkSpotReusable == Spec => []SpotClean
<1>1. IInv => SpotClean
  BY DEF IInv, SpotClean, AfterInv, BeforeInv, WakerInv, BeforeWait, Waiting,
         AfterWait
<1>2. QED
  BY <1>1, Invariance, PTL

\* No waker accesses the parker after the wait that owns it has returned.
THEOREM FrameLifetime == Spec => []NoStaleAccess
<1>1. IInv => NoStaleAccess
  BY ParkerAssumption
     DEF IInv, NoStaleAccess, TypeOK, WakerInv, AlerterInv, Registered,
         Unparking, Wakers, WakerPcs, BeforeWait, Waiting, AfterWait
<1>2. QED
  BY <1>1, Invariance, PTL

\* UnparkThread never takes a blocked thread's parker for a callback parker.
THEOREM NoFalseCallback == Spec => []NeverCallback
<1>1. IInv => NeverCallback
  BY DEF IInv, NeverCallback, WakerInv, Wakers
<1>2. QED
  BY <1>1, Invariance, PTL

-----------------------------------------------------------------------------
(* The timer: its inductive invariant. *)

TimerPcs == {"out", "loop", "tryCancel", "unparkCallback", "parked", "cancelled", "setTimer",
             "enable", "enableZero", "enableRaw", "enableClear", "callback", "user", "after",
             "reactivate", "unparkExpired"}

TimerStates == {Timer!INACTIVE, Timer!ACTIVE, Timer!SETTING}
                 \cup {Timer!BUSY(t) : t \in Timer!Threads} \cup {Timer!Parker(t) : t \in Users}

TimerTypes ==
  /\ state \in TimerStates
  /\ period \in {0, 1} /\ due \in {"zero", "finite", "infinite"} /\ withDue \in {0, 1}
  /\ count \in {0, 1} /\ inProgress \in {0, 1} /\ rawTimer \in {0, 1} /\ inserted \in {0, 1}
  /\ waitStatus \in {"none", "cancelled", "timeout"}
  /\ pc \in [Timer!Threads -> TimerPcs] /\ old \in [Timer!Threads -> TimerStates]
  /\ call \in [Timer!Threads -> [op : {"none", "set", "cancel"},
                                 due : {"zero", "finite", "infinite"}, period : {0, 1}]]
  /\ timeout \in [Timer!Threads -> {"zero", "finite", "infinite"}]
  /\ unparked \in [Timer!Threads -> {0, 1}]

\* Who holds the lock of the callback parker; who has put its parker in the state; who is
\* inside EnableUnparkCallback for StTimer_Set.
Winner(t)    == pc[t] \in {"unparkCallback", "unparkExpired", "callback", "user", "after"}
Canceller(t) == pc[t] \in {"tryCancel", "unparkCallback", "parked", "cancelled"}
Starting(t)  == Timer!Enabling(t) /\ ~Timer!InCallback(t)
NoneEnables  == \A s \in Timer!Threads : ~Timer!Enabling(s)
NoneWon      == \A s \in Timer!Threads : ~Winner(s)

\* Which operation a thread is in.
CallInv ==
  /\ \A t \in Timer!Threads :
       /\ pc[t] \in {"user", "after", "reactivate"} => Timer!InCallback(t)
       /\ Timer!InCallback(t) => pc[t] \in {"user", "after", "reactivate"} \/ Timer!Enabling(t)
       /\ Canceller(t) \/ pc[t] = "loop" => t \in Users /\ call[t].op \in {"set", "cancel"}
       /\ pc[t] = "setTimer" \/ Starting(t) => t \in Users /\ call[t].op = "set"
       /\ t \in Users /\ (Timer!InCallback(t) \/ pc[t] = "callback") => call[t].op = "set"
       /\ pc[t] = "unparkExpired" => t = ClockThread
       /\ t \notin Users => call[t].op = "none"
       /\ pc[t] = "out" => call[t].op = "none"
       /\ unparked[t] = 1 => pc[t] \in {"tryCancel", "parked"}
  /\ \A s, t \in Users : call[s].op = "set" /\ call[t].op = "set" => s = t

\* The lock of the callback parker has one holder.  While a thread is inside
\* EnableUnparkCallback another one may lock the parker, and leaves the rest to it.
WinnerInv ==
  /\ \A t, u \in Timer!Threads : Winner(t) /\ Winner(u) => t = u
  /\ \A t, u \in Timer!Threads : Timer!Enabling(t) /\ Timer!Enabling(u) => t = u
  /\ \A t \in Timer!Threads : Winner(t) => count = 0
  /\ \A s, t \in Timer!Threads : Timer!Enabling(s) /\ Winner(t) =>
       /\ inProgress = 1 /\ pc[t] \in {"unparkExpired", "unparkCallback"}
       /\ pc[t] = "unparkCallback" => Starting(s)
  /\ \A s \in Timer!Threads : Timer!Enabling(s) =>
       /\ NoneWon => count = inProgress
       /\ inProgress = 0 => \/ waitStatus = "timeout"
                            \/ waitStatus = "cancelled" /\ Starting(s)
  /\ NoneEnables => \A t \in Timer!Threads :
       pc[t] \in {"unparkExpired", "unparkCallback"} => inProgress = 0

\* The raw timer is in the list only while the parker can be locked, or is about to be
\* taken out.
RawInv ==
  /\ inserted = 1 => rawTimer = 1
  /\ \A s \in Timer!Threads :
       /\ pc[s] \in {"enable", "enableZero", "enableRaw", "unparkExpired", "callback", "user",
                     "after"} => inserted = 0
       /\ pc[s] \in {"enable", "enableZero", "enableRaw"} =>
            pc[ClockThread] # "unparkExpired" /\ (inProgress = 1 \/ waitStatus = "cancelled")
       /\ pc[s] = "enableRaw" => rawTimer = 1
       /\ pc[s] = "enableZero" => rawTimer = 0
       /\ pc[s] = "enableClear" /\ count = 1 => inserted = 1 \/ rawTimer = 0
       /\ Timer!Enabling(s) /\ inProgress = 0 /\ waitStatus = "timeout" => inserted = 0
  /\ inserted = 1 /\ NoneEnables =>
       count = 1 \/ \E c \in Users : pc[c] = "unparkCallback"

\* One thread cancels the timer; its parker is in the state, or in the hands of the
\* callback, or the callback is over and the state is still its busy mark.
Released(c) ==
  unparked[c] = 1 \/ (pc[c] = "cancelled" /\ state # Timer!Parker(c))
CancelInv ==
  /\ \A c, d \in Timer!Threads : Canceller(c) /\ Canceller(d) => c = d
  /\ \A c \in Users : state = Timer!Parker(c) => Canceller(c) /\ ~Released(c)
  /\ \A t \in Timer!Threads : \A c \in Users : old[t] = Timer!Parker(c) =>
       pc[c] \in {"tryCancel", "parked"} /\ ~Released(c) /\ pc[t] \in {"user", "after"}
  /\ \A c \in Timer!Threads :
       /\ Canceller(c) => \/ state = Timer!Parker(c) \/ Released(c)
                          \/ \E t \in Timer!Threads : old[t] = Timer!Parker(c)
       /\ pc[c] = "unparkCallback" => state = Timer!Parker(c)
       /\ pc[c] = "parked" => count = 0
       /\ Canceller(c) /\ Released(c) =>
            /\ NoneWon /\ NoneEnables /\ inserted = 0 /\ count = 0
            /\ \E t \in Timer!Threads : state = Timer!BUSY(t)
            /\ \A t \in Timer!Threads : state = Timer!BUSY(t) => pc[t] # "reactivate"

\* The timer was cancelled: whoever is still in EnableUnparkCallback will see it.
CancelSeen ==
  /\ NoneWon
  /\ count = 0
  /\ NoneEnables => inserted = 0
  /\ \A s \in Timer!Threads : Timer!Enabling(s) =>
       Starting(s) /\ inProgress = 0 /\ waitStatus = "cancelled"

\* The parker can be locked, and the raw timer is in the list.
Armed == count = 1 /\ inProgress = 0 /\ (inserted = 1 \/ rawTimer = 0)

StateInv ==
  /\ state = Timer!SETTING => \E s \in Users : pc[s] = "setTimer"
  /\ \A s \in Users : pc[s] = "setTimer" =>
       state = Timer!SETTING /\ NoneWon /\ NoneEnables /\ inserted = 0
  /\ state = Timer!INACTIVE => (NoneEnables => NoneWon /\ inserted = 0)
  /\ state = Timer!INACTIVE /\ ~NoneEnables => CancelSeen
  /\ \A c \in Users : pc[c] = "cancelled" /\ state = Timer!Parker(c) => CancelSeen
  /\ \A t \in Timer!Threads :
       /\ Timer!Calling(t) => state = Timer!BUSY(t)
       /\ Starting(t) => \/ state \in {Timer!ACTIVE, Timer!INACTIVE}
                         \/ \E c \in Users : state = Timer!Parker(c)
       /\ Starting(t) /\ inProgress = 0 /\ waitStatus = "cancelled" =>
            \/ state = Timer!INACTIVE
            \/ \E c \in Users : pc[c] = "cancelled" /\ state = Timer!Parker(c)
       /\ t \in Users /\ pc[t] = "callback" =>
            state = Timer!ACTIVE \/ \E c \in Users : state = Timer!Parker(c)
       /\ pc[t] = "callback" \/ pc[t] = "unparkExpired" =>
            state # Timer!INACTIVE /\ state # Timer!SETTING
       /\ state = Timer!BUSY(t) =>
            \/ Timer!Calling(t) \/ pc[t] = "reactivate"
            \/ \E c \in Timer!Threads : Canceller(c) /\ Released(c)
  /\ pc[ClockThread] = "reactivate" => state = Timer!BUSY(ClockThread)
  /\ NoneEnables /\ NoneWon =>
       /\ state = Timer!ACTIVE => Armed
       /\ \A c \in Users : state = Timer!Parker(c) /\ pc[c] # "cancelled" => Armed
       /\ \A t \in Timer!Threads : state = Timer!BUSY(t) /\ pc[t] = "reactivate" => Armed

TimerInv == TimerTypes /\ CallInv /\ WinnerInv /\ RawInv /\ CancelInv /\ StateInv

\* The values of the State word of the timer are distinct.
LEMMA TimerStatesLemma ==
  /\ \A s, t \in Timer!Threads : /\ Timer!BUSY(s) = Timer!BUSY(t) => s = t
                                 /\ Timer!Parker(s) = Timer!Parker(t) => s = t
                                 /\ Timer!BUSY(s) # Timer!Parker(t)
  /\ \A t \in Timer!Threads :
       /\ Timer!BUSY(t) \notin {Timer!INACTIVE, Timer!ACTIVE, Timer!SETTING}
       /\ Timer!Parker(t) \notin {Timer!INACTIVE, Timer!ACTIVE, Timer!SETTING}
       /\ Timer!Parker(t)[2] = t
       /\ Timer!StateIsParker(Timer!Parker(t)) /\ ~Timer!StateIsParker(Timer!BUSY(t))
  /\ Timer!INACTIVE # Timer!ACTIVE /\ Timer!INACTIVE # Timer!SETTING
  /\ Timer!ACTIVE # Timer!SETTING
  /\ ~Timer!StateIsParker(Timer!INACTIVE) /\ ~Timer!StateIsParker(Timer!ACTIVE)
  /\ ~Timer!StateIsParker(Timer!SETTING)
BY DEF Timer!INACTIVE, Timer!ACTIVE, Timer!SETTING, Timer!BUSY, Timer!Parker,
       Timer!StateIsParker

\* Every step of StTimer_Set and StTimer_Cancel, EnableUnparkCallback, the timer thread and
\* TimerCallback keeps it.
LEMMA TimerNext ==
  ASSUME SetAlone = TRUE, TimerInv, Timer!Next PROVE TimerInv'
<1> USE CallbacksAssumption, TimerStatesLemma
    DEF Timer!TimerAssumption, Timer!Goto, Timer!Step, Timer!Return, Timer!NoCall,
        Timer!EnableReturns, Timer!settings, Timer!cbParker, Timer!locals, TimerPcs, TimerStates,
        Winner, Canceller, Starting, NoneEnables, NoneWon, Released, CancelSeen, Armed,
        Timer!Enabling, Timer!Calling, Timer!InCallback
<1>1. /\ TimerTypes /\ CallInv /\ WinnerInv /\ RawInv /\ CancelInv /\ StateInv
      /\ Timer!Threads = Users \cup {ClockThread}
  BY DEF TimerInv, Timer!Threads

<1>2. ASSUME NEW t \in Timer!Threads, Timer!Loop(t) PROVE TimerInv'
  <2>1. TimerTypes'
    <3>1. t \in Users
      BY <1>1, <1>2 DEF CallInv, Timer!Loop
    <3>2. state' \in TimerStates /\ pc' \in [Timer!Threads -> TimerPcs]
      BY <1>1, <1>2, <3>1 DEF TimerTypes, Timer!Loop
    <3>3. /\ call' \in [Timer!Threads -> [op : {"none", "set", "cancel"},
                                          due : {"zero", "finite", "infinite"}, period : {0, 1}]]
          /\ old' \in [Timer!Threads -> TimerStates]
          /\ timeout' \in [Timer!Threads -> {"zero", "finite", "infinite"}]
      BY <1>1, <1>2 DEF TimerTypes, Timer!Loop
    <3>4. QED
      BY <1>1, <1>2, <3>2, <3>3 DEF TimerTypes, Timer!Loop
  <2>2. CallInv'
    BY <1>1, <1>2 DEF TimerTypes, CallInv, Timer!Loop
  <2>3. WinnerInv'
    BY <1>1, <1>2 DEF TimerTypes, WinnerInv, Timer!Loop
  <2>4. RawInv'
    BY <1>1, <1>2 DEF TimerTypes, RawInv, Timer!Loop
  <2>5. CancelInv'
    BY <1>1, <1>2, SMTT(30) DEF TimerTypes, CallInv, WinnerInv, CancelInv, StateInv, Timer!Loop
  <2>6. StateInv'
    BY <1>1, <1>2 DEF TimerTypes, CallInv, StateInv, Timer!Loop
  <2>7. QED
    BY <2>1, <2>2, <2>3, <2>4, <2>5, <2>6 DEF TimerInv
<1>3. ASSUME NEW t \in Timer!Threads, Timer!TryCancelParker(t) PROVE TimerInv'
  <2>1. TimerTypes'
    BY <1>1, <1>3 DEF TimerTypes, Timer!TryCancelParker
  <2>2. CallInv'
    BY <1>1, <1>3
       DEF TimerTypes, CallInv, WinnerInv, RawInv, CancelInv, StateInv, Timer!TryCancelParker
  <2>3. WinnerInv'
    BY <1>1, <1>3
       DEF TimerTypes, CallInv, WinnerInv, RawInv, CancelInv, StateInv, Timer!TryCancelParker
  <2>4. RawInv'
    BY <1>1, <1>3 DEF TimerTypes, CallInv, RawInv, Timer!TryCancelParker
  <2>5. CancelInv'
    BY <1>1, <1>3 DEF TimerTypes, CallInv, WinnerInv, CancelInv, Timer!TryCancelParker
  <2>6. StateInv'
    BY <1>1, <1>3
       DEF TimerTypes, CallInv, WinnerInv, RawInv, CancelInv, StateInv, Timer!TryCancelParker
  <2>7. QED
    BY <2>1, <2>2, <2>3, <2>4, <2>5, <2>6 DEF TimerInv
<1>4. ASSUME NEW t \in Timer!Threads, Timer!UnparkCancelled(t) PROVE TimerInv'
  <2>1. TimerTypes'
    BY <1>1, <1>4 DEF TimerTypes, Timer!UnparkCancelled
  <2>2. CallInv'
    BY <1>1, <1>4 DEF TimerTypes, CallInv, Timer!UnparkCancelled
  <2>3. WinnerInv'
    BY <1>1, <1>4 DEF TimerTypes, WinnerInv, Timer!UnparkCancelled
  <2>4. RawInv'
    BY <1>1, <1>4 DEF TimerTypes, CallInv, WinnerInv, RawInv, Timer!UnparkCancelled
  <2>5. CancelInv'
    BY <1>1, <1>4 DEF TimerTypes, CancelInv, Timer!UnparkCancelled
  <2>6. StateInv'
    BY <1>1, <1>4
       DEF TimerTypes, CallInv, WinnerInv, RawInv, CancelInv, StateInv, Timer!UnparkCancelled
  <2>7. QED
    BY <2>1, <2>2, <2>3, <2>4, <2>5, <2>6 DEF TimerInv
<1>5. ASSUME NEW t \in Timer!Threads, Timer!ParkThreadEx(t) PROVE TimerInv'
  <2>1. TimerTypes'
    BY <1>1, <1>5 DEF TimerTypes, Timer!ParkThreadEx
  <2>2. CallInv'
    BY <1>1, <1>5 DEF TimerTypes, CallInv, Timer!ParkThreadEx
  <2>3. WinnerInv'
    BY <1>1, <1>5 DEF TimerTypes, WinnerInv, Timer!ParkThreadEx
  <2>4. RawInv'
    BY <1>1, <1>5 DEF TimerTypes, RawInv, Timer!ParkThreadEx
  <2>5. CancelInv'
    BY <1>1, <1>5 DEF TimerTypes, CancelInv, Timer!ParkThreadEx
  <2>6. StateInv'
    BY <1>1, <1>5
       DEF TimerTypes, CallInv, WinnerInv, RawInv, CancelInv, StateInv, Timer!ParkThreadEx
  <2>7. QED
    BY <2>1, <2>2, <2>3, <2>4, <2>5, <2>6 DEF TimerInv
<1>6. ASSUME NEW t \in Timer!Threads, Timer!Cancelled(t) PROVE TimerInv'
  <2>1. TimerTypes'
    <3>1. state' \in TimerStates /\ pc' \in [Timer!Threads -> TimerPcs]
      BY <1>1, <1>6 DEF TimerTypes, Timer!Cancelled
    <3>2. /\ call' \in [Timer!Threads -> [op : {"none", "set", "cancel"},
                                          due : {"zero", "finite", "infinite"}, period : {0, 1}]]
          /\ old' \in [Timer!Threads -> TimerStates]
          /\ timeout' \in [Timer!Threads -> {"zero", "finite", "infinite"}]
      BY <1>1, <1>6, SMTT(30) DEF TimerTypes, Timer!Cancelled
    <3>3. QED
      BY <1>1, <1>6, <3>1, <3>2 DEF TimerTypes, Timer!Cancelled
  <2>2. CallInv'
    BY <1>1, <1>6 DEF TimerTypes, CallInv, Timer!Cancelled
  <2>3. WinnerInv'
    BY <1>1, <1>6 DEF TimerTypes, WinnerInv, Timer!Cancelled
  <2>4. RawInv'
    BY <1>1, <1>6 DEF TimerTypes, RawInv, Timer!Cancelled
  <2>5. CancelInv'
    BY <1>1, <1>6 DEF TimerTypes, CancelInv, Timer!Cancelled
  <2>6. StateInv'
    BY <1>1, <1>6 DEF TimerTypes, CallInv, WinnerInv, RawInv, CancelInv, StateInv, Timer!Cancelled
  <2>7. QED
    BY <2>1, <2>2, <2>3, <2>4, <2>5, <2>6 DEF TimerInv
<1>7. ASSUME NEW t \in Timer!Threads, Timer!SetTimer(t) PROVE TimerInv'
  <2>1. TimerTypes'
    BY <1>1, <1>7 DEF TimerTypes, Timer!SetTimer
  <2>2. CallInv'
    BY <1>1, <1>7 DEF TimerTypes, CallInv, Timer!SetTimer
  <2>3. WinnerInv'
    BY <1>1, <1>7 DEF TimerTypes, CallInv, WinnerInv, StateInv, Timer!SetTimer
  <2>4. RawInv'
    BY <1>1, <1>7 DEF TimerTypes, CallInv, WinnerInv, RawInv, StateInv, Timer!SetTimer
  <2>5. CancelInv'
    BY <1>1, <1>7 DEF TimerTypes, CallInv, WinnerInv, CancelInv, StateInv, Timer!SetTimer
  <2>6. StateInv'
    BY <1>1, <1>7 DEF TimerTypes, CallInv, StateInv, Timer!SetTimer
  <2>7. QED
    BY <2>1, <2>2, <2>3, <2>4, <2>5, <2>6 DEF TimerInv
<1>8. ASSUME NEW t \in Timer!Threads, Timer!EnableUnparkCallback(t) PROVE TimerInv'
  <2>1. TimerTypes'
    BY <1>1, <1>8, SMTT(30) DEF TimerTypes, Timer!EnableUnparkCallback
  <2>2. CallInv'
    BY <1>1, <1>8 DEF TimerTypes, CallInv, Timer!EnableUnparkCallback
  <2>3. WinnerInv'
    BY <1>1, <1>8 DEF TimerTypes, WinnerInv, Timer!EnableUnparkCallback
  <2>4. RawInv'
    BY <1>1, <1>8 DEF TimerTypes, CallInv, WinnerInv, RawInv, Timer!EnableUnparkCallback
  <2>5. CancelInv'
    BY <1>1, <1>8 DEF TimerTypes, CancelInv, Timer!EnableUnparkCallback
  <2>6. StateInv'
    BY <1>1, <1>8
       DEF TimerTypes, CallInv, WinnerInv, RawInv, CancelInv, StateInv,
           Timer!EnableUnparkCallback
  <2>7. QED
    BY <2>1, <2>2, <2>3, <2>4, <2>5, <2>6 DEF TimerInv
<1>9. ASSUME NEW t \in Timer!Threads, Timer!EnableZero(t) PROVE TimerInv'
  <2>1. TimerTypes'
    BY <1>1, <1>9 DEF TimerTypes, Timer!EnableZero
  <2>2. CallInv'
    BY <1>1, <1>9 DEF TimerTypes, CallInv, Timer!EnableZero
  <2>3. WinnerInv'
    BY <1>1, <1>9 DEF TimerTypes, WinnerInv, Timer!EnableZero
  <2>4. RawInv'
    BY <1>1, <1>9 DEF TimerTypes, RawInv, Timer!EnableZero
  <2>5. CancelInv'
    BY <1>1, <1>9 DEF TimerTypes, CancelInv, Timer!EnableZero
  <2>6. StateInv'
    BY <1>1, <1>9 DEF TimerTypes, StateInv, Timer!EnableZero
  <2>7. QED
    BY <2>1, <2>2, <2>3, <2>4, <2>5, <2>6 DEF TimerInv
<1>10. ASSUME NEW t \in Timer!Threads, Timer!SetRawTimer(t) PROVE TimerInv'
  <2>1. TimerTypes'
    BY <1>1, <1>10
       DEF TimerTypes, CallInv, WinnerInv, RawInv, CancelInv, StateInv, Timer!SetRawTimer
  <2>2. CallInv'
    BY <1>1, <1>10 DEF TimerTypes, CallInv, Timer!SetRawTimer
  <2>3. WinnerInv'
    BY <1>1, <1>10 DEF TimerTypes, WinnerInv, Timer!SetRawTimer
  <2>4. RawInv'
    <3>1. inserted = 0 /\ inserted' = 1 /\ rawTimer = 1 /\ rawTimer' = 1
      BY <1>1, <1>10 DEF RawInv, TimerTypes, Timer!SetRawTimer
    <3>2. /\ \A s \in Timer!Threads : Timer!Enabling(s) => s = t
          /\ pc' = [pc EXCEPT ![t] = "enableClear"] /\ ~NoneEnables'
      BY <1>1, <1>10 DEF WinnerInv, TimerTypes, Timer!SetRawTimer
    <3>3. /\ \A s \in Timer!Threads :
               pc[s] \notin {"unparkExpired", "callback", "user", "after"}
          /\ UNCHANGED <<count, inProgress, waitStatus>>
          /\ inProgress = 1 \/ waitStatus = "cancelled"
      BY <1>1, <1>10 DEF WinnerInv, RawInv, CallInv, TimerTypes, Timer!SetRawTimer
    <3>4. QED
      BY <1>1, <3>1, <3>2, <3>3 DEF RawInv, TimerTypes
  <2>5. CancelInv'
    BY <1>1, <1>10 DEF TimerTypes, CancelInv, Timer!SetRawTimer
  <2>6. StateInv'
    BY <1>1, <1>10 DEF TimerTypes, StateInv, Timer!SetRawTimer
  <2>7. QED
    BY <2>1, <2>2, <2>3, <2>4, <2>5, <2>6 DEF TimerInv
<1>11. ASSUME NEW t \in Timer!Threads, Timer!EnableClear(t) PROVE TimerInv'
  <2>1. TimerTypes'
    <3>1. /\ call' \in [Timer!Threads -> [op : {"none", "set", "cancel"},
                                          due : {"zero", "finite", "infinite"}, period : {0, 1}]]
          /\ old' \in [Timer!Threads -> TimerStates]
          /\ timeout' \in [Timer!Threads -> {"zero", "finite", "infinite"}]
          /\ unparked' = unparked
      BY <1>1, <1>11, SMTT(30) DEF TimerTypes, Timer!EnableClear
    <3>2. pc' \in [Timer!Threads -> TimerPcs]
      BY <1>1, <1>11 DEF TimerTypes, Timer!EnableClear
    <3>3. inProgress' = 0 /\ inserted' \in {0, 1}
      BY <1>1, <1>11 DEF TimerTypes, Timer!EnableClear
    <3>4. QED
      BY <1>1, <1>11, <3>1, <3>2, <3>3 DEF TimerTypes, Timer!EnableClear
  <2>2. CallInv'
    BY <1>1, <1>11 DEF TimerTypes, CallInv, Timer!EnableClear
  <2>3. WinnerInv'
    BY <1>1, <1>11 DEF TimerTypes, WinnerInv, Timer!EnableClear
  <2>4. RawInv'
    BY <1>1, <1>11 DEF TimerTypes, CallInv, WinnerInv, RawInv, Timer!EnableClear
  <2>5. CancelInv'
    BY <1>1, <1>11 DEF TimerTypes, CancelInv, Timer!EnableClear
  <2>6. StateInv'
    BY <1>1, <1>11
       DEF TimerTypes, CallInv, WinnerInv, RawInv, CancelInv, StateInv, Timer!EnableClear
  <2>7. QED
    BY <2>1, <2>2, <2>3, <2>4, <2>5, <2>6 DEF TimerInv
<1>12. ASSUME NEW t \in Timer!Threads, Timer!UnparkExpired(t) PROVE TimerInv'
  <2>1. TimerTypes'
    BY <1>1, <1>12 DEF TimerTypes, Timer!UnparkExpired
  <2>2. CallInv'
    <3>1. /\ pc[t] = "unparkExpired" /\ t = ClockThread /\ t \notin Users
          /\ UNCHANGED <<call, old, unparked>>
      BY <1>1, <1>12 DEF CallInv, Timer!UnparkExpired
    <3>2. pc' = [pc EXCEPT ![t] = "out"] \/ pc' = [pc EXCEPT ![t] = "callback"]
      BY <1>12 DEF Timer!UnparkExpired
    <3>3. QED
      BY <1>1, <3>1, <3>2 DEF CallInv, TimerTypes
  <2>3. WinnerInv'
    BY <1>1, <1>12 DEF TimerTypes, WinnerInv, Timer!UnparkExpired
  <2>4. RawInv'
    BY <1>1, <1>12 DEF TimerTypes, CallInv, RawInv, Timer!UnparkExpired
  <2>5. CancelInv'
    BY <1>1, <1>12 DEF TimerTypes, CancelInv, Timer!UnparkExpired
  <2>6. StateInv'
    BY <1>1, <1>12 DEF TimerTypes, CallInv, WinnerInv, StateInv, Timer!UnparkExpired
  <2>7. QED
    BY <2>1, <2>2, <2>3, <2>4, <2>5, <2>6 DEF TimerInv
<1>13. ASSUME NEW t \in Timer!Threads, Timer!TimerCallback(t) PROVE TimerInv'
  <2>1. TimerTypes'
    BY <1>1, <1>13 DEF TimerTypes, Timer!TimerCallback
  <2>2. CallInv'
    BY <1>1, <1>13 DEF TimerTypes, CallInv, WinnerInv, StateInv, Timer!TimerCallback
  <2>3. WinnerInv'
    BY <1>1, <1>13 DEF TimerTypes, WinnerInv, Timer!TimerCallback
  <2>4. RawInv'
    BY <1>1, <1>13 DEF TimerTypes, RawInv, Timer!TimerCallback
  <2>5. CancelInv'
    BY <1>1, <1>13 DEF TimerTypes, CallInv, WinnerInv, CancelInv, StateInv, Timer!TimerCallback
  <2>6. StateInv'
    <3>1. /\ pc[t] = "callback" /\ pc' = [pc EXCEPT ![t] = "user"]
          /\ state' = Timer!BUSY(t) /\ old' = [old EXCEPT ![t] = state]
          /\ UNCHANGED <<count, inProgress, waitStatus, rawTimer, inserted, call, unparked>>
      BY <1>13 DEF Timer!TimerCallback
    <3>2. Winner(t) /\ NoneEnables /\ state # Timer!INACTIVE /\ state # Timer!SETTING
      BY <1>1, <3>1 DEF WinnerInv, StateInv
    <3>3. \A s \in Timer!Threads : s # t =>
            pc[s] \notin {"user", "after", "setTimer", "callback", "unparkExpired"}
      BY <1>1, <3>1, <3>2 DEF WinnerInv, CallInv, StateInv
    <3>4. /\ Winner(t)' /\ NoneEnables'
          /\ \A s \in Timer!Threads : Timer!Calling(s)' => s = t
      BY <1>1, <3>1, <3>2, <3>3 DEF TimerTypes
    <3>5. pc[ClockThread] # "reactivate"
      BY <1>1, <3>1, <3>2 DEF StateInv
    <3>6. QED
      BY <1>1, <3>1, <3>2, <3>3, <3>4, <3>5 DEF StateInv, TimerTypes
  <2>7. QED
    BY <2>1, <2>2, <2>3, <2>4, <2>5, <2>6 DEF TimerInv
<1>14. ASSUME NEW t \in Timer!Threads, Timer!UserCallback(t) PROVE TimerInv'
  <2>1. TimerTypes'
    <3>1. /\ period' \in {0, 1} /\ due' \in {"zero", "finite", "infinite"} /\ withDue' \in {0, 1}
          /\ pc' \in [Timer!Threads -> TimerPcs]
      BY <1>1, <1>14 DEF TimerTypes, Timer!UserCallback
    <3>2. UNCHANGED <<state, count, inProgress, waitStatus, rawTimer, inserted, call, old, timeout,
                      unparked>>
      BY <1>14 DEF Timer!UserCallback
    <3>3. QED
      BY <1>1, <3>1, <3>2 DEF TimerTypes
  <2>2. CallInv'
    BY <1>1, <1>14 DEF TimerTypes, CallInv, Timer!UserCallback
  <2>3. WinnerInv'
    BY <1>1, <1>14 DEF TimerTypes, WinnerInv, Timer!UserCallback
  <2>4. RawInv'
    BY <1>1, <1>14 DEF TimerTypes, RawInv, Timer!UserCallback
  <2>5. CancelInv'
    BY <1>1, <1>14 DEF TimerTypes, CancelInv, Timer!UserCallback
  <2>6. StateInv'
    BY <1>1, <1>14 DEF TimerTypes, StateInv, Timer!UserCallback
  <2>7. QED
    BY <2>1, <2>2, <2>3, <2>4, <2>5, <2>6 DEF TimerInv
<1>15. ASSUME NEW t \in Timer!Threads, Timer!CallbackEnds(t) PROVE TimerInv'
  <2>1. TimerTypes'
    BY <1>1, <1>15 DEF TimerTypes, Timer!CallbackEnds
  <2>2. CallInv'
    BY <1>1, <1>15
       DEF TimerTypes, CallInv, WinnerInv, RawInv, CancelInv, StateInv, Timer!CallbackEnds
  <2>3. WinnerInv'
    BY <1>1, <1>15 DEF TimerTypes, WinnerInv, Timer!CallbackEnds
  <2>4. RawInv'
    BY <1>1, <1>15 DEF TimerTypes, RawInv, Timer!CallbackEnds
  <2>5. CancelInv'
    BY <1>1, <1>15
       DEF TimerTypes, CallInv, WinnerInv, RawInv, CancelInv, StateInv, Timer!CallbackEnds
  <2>6. StateInv'
    BY <1>1, <1>15
       DEF TimerTypes, CallInv, WinnerInv, RawInv, CancelInv, StateInv, Timer!CallbackEnds
  <2>7. QED
    BY <2>1, <2>2, <2>3, <2>4, <2>5, <2>6 DEF TimerInv
<1>16. ASSUME NEW t \in Timer!Threads, Timer!NextPeriod(t) PROVE TimerInv'
  <2>1. TimerTypes'
    BY <1>1, <1>16 DEF TimerTypes, Timer!NextPeriod
  <2>2. CallInv'
    BY <1>1, <1>16 DEF TimerTypes, CallInv, Timer!NextPeriod
  <2>3. WinnerInv'
    BY <1>1, <1>16 DEF TimerTypes, WinnerInv, Timer!NextPeriod
  <2>4. RawInv'
    BY <1>1, <1>16 DEF TimerTypes, CallInv, WinnerInv, RawInv, Timer!NextPeriod
  <2>5. CancelInv'
    BY <1>1, <1>16 DEF TimerTypes, CallInv, WinnerInv, CancelInv, StateInv, Timer!NextPeriod
  <2>6. StateInv'
    BY <1>1, <1>16 DEF TimerTypes, CallInv, StateInv, Timer!NextPeriod
  <2>7. QED
    BY <2>1, <2>2, <2>3, <2>4, <2>5, <2>6 DEF TimerInv
<1>17. ASSUME NEW t \in Timer!Threads, Timer!Reactivate(t) PROVE TimerInv'
  <2>1. TimerTypes'
    BY <1>1, <1>17 DEF TimerTypes, Timer!Reactivate
  <2>2. CallInv'
    BY <1>1, <1>17 DEF TimerTypes, CallInv, Timer!Reactivate
  <2>3. WinnerInv'
    BY <1>1, <1>17 DEF TimerTypes, WinnerInv, Timer!Reactivate
  <2>4. RawInv'
    BY <1>1, <1>17 DEF TimerTypes, RawInv, Timer!Reactivate
  <2>5. CancelInv'
    BY <1>1, <1>17 DEF TimerTypes, CancelInv, Timer!Reactivate
  <2>6. StateInv'
    BY <1>1, <1>17 DEF TimerTypes, StateInv, Timer!Reactivate
  <2>7. QED
    BY <2>1, <2>2, <2>3, <2>4, <2>5, <2>6 DEF TimerInv
<1>18. ASSUME NEW t \in Timer!Threads, Timer!Expire(t) PROVE TimerInv'
  <2>1. TimerTypes'
    BY <1>1, <1>18 DEF TimerTypes, Timer!Expire
  <2>2. CallInv'
    BY <1>1, <1>18 DEF TimerTypes, CallInv, Timer!Expire
  <2>3. WinnerInv'
    BY <1>1, <1>18 DEF TimerTypes, CallInv, WinnerInv, RawInv, CancelInv, StateInv, Timer!Expire
  <2>4. RawInv'
    BY <1>1, <1>18 DEF TimerTypes, RawInv, Timer!Expire
  <2>5. CancelInv'
    BY <1>1, <1>18 DEF TimerTypes, CancelInv, Timer!Expire
  <2>6. StateInv'
    BY <1>1, <1>18 DEF TimerTypes, StateInv, Timer!Expire
  <2>7. QED
    BY <2>1, <2>2, <2>3, <2>4, <2>5, <2>6 DEF TimerInv
<1>19. ASSUME NEW t \in Users, Timer!StTimer_Set(t) PROVE TimerInv'
  <2>1. TimerTypes'
    <3>1. PICK d \in Dues, p \in Periods :
            Timer!Call(t, [op |-> "set", due |-> d, period |-> p])
      BY <1>19 DEF Timer!StTimer_Set
    <3>2. [op |-> "set", due |-> d, period |-> p]
            \in [op : {"none", "set", "cancel"}, due : {"zero", "finite", "infinite"},
                 period : {0, 1}]
      OBVIOUS
    <3>3. /\ call' = [call EXCEPT ![t] = [op |-> "set", due |-> d, period |-> p]]
          /\ pc' = [pc EXCEPT ![t] = "loop"]
      BY <3>1 DEF Timer!Call
    <3>4. pc' \in [Timer!Threads -> TimerPcs]
      BY <1>1, <3>3 DEF TimerTypes
    <3>5. call' \in [Timer!Threads -> [op : {"none", "set", "cancel"},
                                       due : {"zero", "finite", "infinite"}, period : {0, 1}]]
      BY <1>1, <3>2, <3>3 DEF TimerTypes
    <3>6. QED
      BY <1>1, <3>1, <3>4, <3>5 DEF TimerTypes, Timer!Call
  <2>2. CallInv'
    BY <1>1, <1>19 DEF TimerTypes, CallInv, Timer!StTimer_Set, Timer!Call
  <2>3. WinnerInv'
    BY <1>1, <1>19 DEF TimerTypes, WinnerInv, Timer!StTimer_Set, Timer!Call
  <2>4. RawInv'
    BY <1>1, <1>19 DEF TimerTypes, RawInv, Timer!StTimer_Set, Timer!Call
  <2>5. CancelInv'
    BY <1>1, <1>19 DEF TimerTypes, CancelInv, Timer!StTimer_Set, Timer!Call
  <2>6. StateInv'
    BY <1>1, <1>19 DEF TimerTypes, StateInv, Timer!StTimer_Set, Timer!Call
  <2>7. QED
    BY <2>1, <2>2, <2>3, <2>4, <2>5, <2>6 DEF TimerInv
<1>20. ASSUME NEW t \in Users, Timer!StTimer_Cancel(t) PROVE TimerInv'
  <2>1. TimerTypes'
    BY <1>1, <1>20 DEF TimerTypes, Timer!StTimer_Cancel, Timer!Call
  <2>2. CallInv'
    BY <1>1, <1>20 DEF TimerTypes, CallInv, Timer!StTimer_Cancel, Timer!Call
  <2>3. WinnerInv'
    BY <1>1, <1>20 DEF TimerTypes, WinnerInv, Timer!StTimer_Cancel, Timer!Call
  <2>4. RawInv'
    BY <1>1, <1>20 DEF TimerTypes, RawInv, Timer!StTimer_Cancel, Timer!Call
  <2>5. CancelInv'
    BY <1>1, <1>20 DEF TimerTypes, CancelInv, Timer!StTimer_Cancel, Timer!Call
  <2>6. StateInv'
    BY <1>1, <1>20 DEF TimerTypes, StateInv, Timer!StTimer_Cancel, Timer!Call
  <2>7. QED
    BY <2>1, <2>2, <2>3, <2>4, <2>5, <2>6 DEF TimerInv
<1>21. QED
  BY <1>1, <1>2, <1>3, <1>4, <1>5, <1>6, <1>7, <1>8, <1>9, <1>10, <1>11, <1>12, <1>13, <1>14,
     <1>15, <1>16, <1>17, <1>18, <1>19, <1>20
     DEF Timer!Next, Timer!Run

\* A step that leaves the timer alone keeps its invariant.
LEMMA TimerStutter == ASSUME TimerInv, UNCHANGED Timer!vars PROVE TimerInv'
BY DEF TimerInv, TimerTypes, CallInv, WinnerInv, RawInv, CancelInv, StateInv, Winner, Canceller,
       Starting, NoneEnables, NoneWon, Released, CancelSeen, Armed, Timer!Enabling,
       Timer!Calling, Timer!InCallback, Timer!vars, Timer!settings, Timer!cbParker, Timer!locals

\* At first the timer is inactive and nobody works on it.
LEMMA TimerInit == Timer!Init => TimerInv
<1> SUFFICES ASSUME Timer!Init PROVE TimerInv
  OBVIOUS
<1>1. /\ state = Timer!INACTIVE /\ inserted = 0 /\ count = 1 /\ rawTimer = 0 /\ inProgress = 1
      /\ \A t \in Timer!Threads : /\ pc[t] = "out" /\ call[t].op = "none"
                                  /\ old[t] = Timer!INACTIVE /\ unparked[t] = 0
  BY DEF Timer!Init, Timer!NoCall
<1>2. Users \subseteq Timer!Threads /\ ClockThread \in Timer!Threads
  BY DEF Timer!Threads
<1>3. TimerTypes
  <2>1. Timer!NoCall \in [op : {"none", "set", "cancel"},
                          due : {"zero", "finite", "infinite"}, period : {0, 1}]
    BY DEF Timer!NoCall
  <2>2. QED
    BY <2>1 DEF Timer!Init, TimerTypes, TimerPcs, TimerStates
<1>4. CallInv /\ WinnerInv /\ RawInv
  BY <1>1, <1>2 DEF CallInv, WinnerInv, RawInv, Winner, Canceller, Starting, NoneEnables,
                    NoneWon, Timer!Enabling, Timer!InCallback
<1>5. CancelInv
  BY <1>1, <1>2, TimerStatesLemma DEF CancelInv, Canceller, Released
<1>6. StateInv
  BY <1>1, <1>2, TimerStatesLemma
     DEF StateInv, Winner, Canceller, Starting, NoneEnables, NoneWon, CancelSeen, Armed,
         Timer!Enabling, Timer!Calling, Timer!InCallback
<1>7. QED
  BY <1>3, <1>4, <1>5, <1>6 DEF TimerInv

\* The timer among the systems of MCParking.
TimerOK == which = "timer" => TimerInv

\* The invariant of the timer holds in every behaviour in which no call of StTimer_Set
\* overlaps the start of another one, as the code asks for.
THEOREM TimerKeepsInvariant == ASSUME SetAlone = TRUE PROVE CallbacksSpec => []TimerOK
<1>1. MCInit({"parker", "raw"} \cup Callbacks) => TimerOK
  BY TimerInit DEF MCInit, TimerOK
<1>2. TimerOK /\ [MCNext]_MCVars => TimerOK'
  <2> SUFFICES ASSUME TimerOK, [MCNext]_MCVars, which' = "timer" PROVE TimerInv'
    BY DEF TimerOK
  <2>1. CASE MCNext
    BY <2>1, TimerNext DEF MCNext, Others, TimerOK
  <2>2. CASE UNCHANGED MCVars
    BY <2>2, TimerStutter DEF MCVars, callbackOnly, shared, timerOnly, TimerOK, Timer!vars,
       Timer!settings, Timer!cbParker, Timer!locals
  <2>3. QED
    BY <2>1, <2>2
<1>3. QED
  BY <1>1, <1>2, PTL DEF CallbacksSpec

\* What the invariant says of a timer: inactive it is quiet, active it is armed, and its
\* callback does not overlap itself.
LEMMA TimerPromises ==
  TimerInv => Timer!InactiveIsQuiet /\ Timer!ActiveIsArmed /\ Timer!OneCallback
<1> SUFFICES ASSUME TimerInv
             PROVE  Timer!InactiveIsQuiet /\ Timer!ActiveIsArmed /\ Timer!OneCallback
  OBVIOUS
<1>1. Users \subseteq Timer!Threads
  BY DEF Timer!Threads
<1>2. Timer!InactiveIsQuiet
  BY <1>1, TimerStatesLemma
     DEF TimerInv, TimerTypes, CallInv, WinnerInv, RawInv, StateInv, CancelSeen, NoneWon,
         NoneEnables, Winner, Starting, Timer!Enabling, Timer!Calling, Timer!InCallback,
         Timer!InactiveIsQuiet
<1>3. Timer!ActiveIsArmed
  BY DEF TimerInv, StateInv, Armed, NoneWon, NoneEnables, Winner, Timer!Enabling,
         Timer!ActiveIsArmed
<1>4. Timer!OneCallback
  BY DEF TimerInv, TimerTypes, WinnerInv, Winner, Timer!Enabling, Timer!Calling,
         Timer!InCallback, Timer!OneCallback
<1>5. QED
  BY <1>2, <1>3, <1>4

-----------------------------------------------------------------------------
(* The registered wait: its inductive invariant. *)

WaitPcs == {"out", "prologue", "activate", "enable", "enableRaw", "enableClear", "serve",
            "lockParker", "unpark", "callback", "cancelAcquire", "user", "after", "reactivate",
            "loop", "tryCancel", "parked", "cancelWait", "cancelled"}

WaitStates == {Wait!UNUSED, Wait!INACTIVE, Wait!ACTIVE}
                \cup {Wait!BUSY(t) : t \in Wait!Threads} \cup {Wait!Parker(t) : t \in Users}

WaitStatuses == {"none", "success", "timeout", "unregistered"}

WaitTypes ==
  /\ state \in WaitStates /\ once \in {0, 1} /\ limit \in {"finite", "infinite"}
  /\ count \in {0, 1} /\ inProgress \in {0, 1} /\ rawTimer \in {0, 1} /\ inserted \in {0, 1}
  /\ linked \in {0, 1} /\ permits \in Nat /\ posts \in Nat /\ calls \in Nat
  /\ holder \in Users \cup {NoThread} /\ waitStatus \in WaitStatuses
  /\ pc \in [Wait!Threads -> WaitPcs] /\ old \in [Wait!Threads -> WaitStates]
  /\ status \in [Wait!Threads -> WaitStatuses] /\ unparked \in [Wait!Threads -> {0, 1}]

\* Who is inside the registration, for the first time or from the callback; who holds the
\* lock of the callback parker; who unregisters and has put its parker in the state.
Enrolling(t)  == pc[t] \in {"prologue", "activate", "enable", "enableRaw", "enableClear"}
Holds(t)      == pc[t] \in {"unpark", "callback", "cancelAcquire", "user", "after", "cancelWait"}
Withdraws(t)  == \/ pc[t] \in {"tryCancel", "parked", "cancelWait", "cancelled"}
                 \/ pc[t] \in {"unpark", "callback"} /\ status[t] = "unregistered"
NoneEnrols    == \A s \in Wait!Threads : ~Enrolling(s)
NoneHolds     == \A s \in Wait!Threads : ~Holds(s)

\* Which operation a thread is in, and who holds the lock of the queue.
ThreadInv ==
  \A t \in Wait!Threads :
    /\ pc[t] \in {"cancelAcquire", "user", "after", "reactivate"} => Wait!InCallback(t)
    /\ Wait!InCallback(t) =>
         \/ pc[t] \in {"cancelAcquire", "user", "after", "reactivate"}
         \/ Enrolling(t) /\ pc[t] # "activate"
    /\ Withdraws(t) \/ pc[t] = "loop" \/ Wait!Registering(t) => t \in Users /\ holder # t
    /\ pc[t] \in {"unpark", "callback"} => status[t] # "none"
    /\ pc[t] \in {"cancelAcquire", "user"} => status[t] \in {"success", "timeout"}
    /\ pc[t] = "unpark" /\ status[t] = "timeout" => t = ClockThread
    /\ t \notin Users => pc[t] \notin {"serve", "lockParker"}
    /\ pc[t] \in {"serve", "lockParker"} => holder = t
    /\ holder = t => pc[t] # "out"
    /\ unparked[t] = 1 => pc[t] \in {"tryCancel", "parked"}

\* The lock of the callback parker has one holder.  While a thread is inside the
\* registration another one may lock the parker, and leaves the rest to it.
LockerInv ==
  /\ \A t, u \in Wait!Threads : Holds(t) /\ Holds(u) => t = u
  /\ \A t, u \in Wait!Threads : Enrolling(t) /\ Enrolling(u) => t = u
  /\ \A t \in Wait!Threads : Holds(t) => count = 0
  /\ \A s, t \in Wait!Threads : Enrolling(s) /\ Holds(t) =>
       inProgress = 1 /\ pc[t] = "unpark" /\ status[t] # "unregistered"
  /\ \A s \in Wait!Threads : Enrolling(s) =>
       /\ NoneHolds => count = inProgress
       /\ pc[s] = "prologue" => count = 1 /\ linked = 0
       /\ inProgress = 0 => waitStatus \in {"success", "timeout"}
  /\ NoneEnrols => \A t \in Wait!Threads : pc[t] = "unpark" => inProgress = 0

\* The wait block is in the queue as long as the parker can be locked, and leaves it before
\* the user's callback.  A permit is left beside it only while the queue is locked.
LinkedInv ==
  /\ linked = 1 /\ holder = NoThread => permits = 0
  /\ \A t \in Wait!Threads :
       /\ pc[t] = "lockParker" => linked = 1
       /\ Holds(t) /\ status[t] = "success" => linked = 0
       /\ pc[t] \in {"user", "after"} => linked = 0
       /\ Enrolling(t) /\ inProgress = 0 /\ waitStatus = "success" => linked = 0
       /\ Enrolling(t) /\ pc[t] # "prologue" /\ count = 1 => linked = 1

\* The raw timer is in the list only while the parker can be locked, or is about to be
\* taken out.
ExpiryInv ==
  /\ inserted = 1 => rawTimer = 1 /\ limit = "finite"
  /\ \A s \in Wait!Threads :
       /\ pc[s] \in {"prologue", "activate", "enable", "enableRaw", "callback",
                     "cancelAcquire", "user", "after", "cancelWait"} => inserted = 0
       /\ pc[s] = "unpark" /\ status[s] = "timeout" => inserted = 0
       /\ pc[s] \in {"prologue", "activate", "enable", "enableRaw"} =>
            pc[ClockThread] # "unpark" /\ (inProgress = 1 \/ waitStatus = "success")
       /\ pc[s] = "enableRaw" => rawTimer = 1 /\ limit = "finite"
       /\ pc[s] = "enableClear" /\ count = 1 /\ limit = "finite" => inserted = 1
       /\ Enrolling(s) /\ inProgress = 0 /\ waitStatus = "timeout" => inserted = 0
  /\ inserted = 1 /\ NoneEnrols =>
       count = 1 \/ \E c \in Wait!Threads : pc[c] = "unpark"

\* The wait is over for the thread that unregisters.
Over == NoneHolds /\ NoneEnrols /\ count = 0 /\ linked = 0 /\ inserted = 0

\* One thread unregisters the wait; its parker is in the state, or in the hands of the
\* callback, or the callback is over and the state is still its busy mark.
Freed(c) == unparked[c] = 1 \/ (pc[c] = "cancelled" /\ state # Wait!Parker(c))
WithdrawInv ==
  /\ \A c, d \in Wait!Threads : Withdraws(c) /\ Withdraws(d) => c = d
  /\ \A c, s \in Wait!Threads :
       Withdraws(c) \/ pc[c] = "loop" => ~Wait!Registering(s)
  /\ \A c, s \in Wait!Threads : Withdraws(c) => ~Enrolling(s)
  /\ \A c \in Users : state = Wait!Parker(c) => Withdraws(c) /\ ~Freed(c)
  /\ \A t \in Wait!Threads : \A c \in Users : old[t] = Wait!Parker(c) =>
       /\ pc[c] \in {"tryCancel", "parked"} /\ ~Freed(c)
       /\ pc[t] \in {"cancelAcquire", "user", "after"}
  /\ \A c \in Wait!Threads :
       /\ Withdraws(c) => \/ state = Wait!Parker(c) \/ Freed(c)
                          \/ \E t \in Wait!Threads : old[t] = Wait!Parker(c)
       /\ Withdraws(c) /\ Holds(c) => state = Wait!Parker(c)
       /\ pc[c] = "parked" => count = 0
       /\ pc[c] = "cancelled" => Over
       /\ Withdraws(c) /\ Freed(c) =>
            /\ Over /\ \E t \in Wait!Threads : state = Wait!BUSY(t)
            /\ \A t \in Wait!Threads : state = Wait!BUSY(t) => pc[t] # "reactivate"

\* The parker can be locked, the block is in the queue, the raw timer in the list.
WaitArmed == count = 1 /\ inProgress = 0 /\ linked = 1 /\ (limit = "finite" => inserted = 1)

WaitStateInv ==
  /\ state \in {Wait!UNUSED, Wait!INACTIVE} /\ NoneEnrols =>
       NoneHolds /\ linked = 0 /\ inserted = 0
  /\ \A t \in Wait!Threads :
       /\ Wait!Registering(t) =>
            IF pc[t] \in {"prologue", "activate"} THEN state \in {Wait!UNUSED, Wait!INACTIVE}
                                                  ELSE state = Wait!ACTIVE
       /\ pc[t] \in {"cancelAcquire", "user", "after"} => state = Wait!BUSY(t)
       /\ Enrolling(t) /\ Wait!InCallback(t) => state = Wait!BUSY(t)
       /\ pc[t] = "callback" => state \notin {Wait!UNUSED, Wait!INACTIVE}
       /\ state = Wait!BUSY(t) =>
            \/ pc[t] \in {"cancelAcquire", "user", "after", "reactivate"}
            \/ Enrolling(t) /\ Wait!InCallback(t)
            \/ \E c \in Wait!Threads : Withdraws(c) /\ Freed(c)
  /\ NoneEnrols /\ NoneHolds =>
       /\ state = Wait!ACTIVE => WaitArmed
       /\ \A c \in Users : state = Wait!Parker(c) /\ pc[c] # "cancelled" => WaitArmed
       /\ \A t \in Wait!Threads : state = Wait!BUSY(t) /\ pc[t] = "reactivate" => WaitArmed

\* A permit is in the semaphore, in the hands of the releaser, on its way to the callback,
\* or was given to the callback.
Taken       == \E t \in Wait!Threads : pc[t] = "lockParker"
Carries(t)  == \/ pc[t] \in {"unpark", "callback", "cancelAcquire", "user"} /\ status[t] = "success"
               \/ Enrolling(t) /\ inProgress = 0 /\ waitStatus = "success"
Carried     == \E t \in Wait!Threads : Carries(t)
PermitInv   ==
  posts = permits + calls + (IF Taken THEN 1 ELSE 0) + (IF Carried THEN 1 ELSE 0)

WaitInv == /\ WaitTypes /\ ThreadInv /\ LockerInv /\ LinkedInv /\ ExpiryInv /\ WithdrawInv
           /\ WaitStateInv /\ PermitInv

\* The values of the State word of the registered wait are distinct.
LEMMA WaitStatesLemma ==
  /\ \A s, t \in Wait!Threads : /\ Wait!BUSY(s) = Wait!BUSY(t) => s = t
                                /\ Wait!Parker(s) = Wait!Parker(t) => s = t
                                /\ Wait!BUSY(s) # Wait!Parker(t)
  /\ \A t \in Wait!Threads :
       /\ Wait!BUSY(t) \notin {Wait!UNUSED, Wait!INACTIVE, Wait!ACTIVE}
       /\ Wait!Parker(t) \notin {Wait!UNUSED, Wait!INACTIVE, Wait!ACTIVE}
       /\ Wait!Parker(t)[2] = t
       /\ Wait!StateIsParker(Wait!Parker(t)) /\ ~Wait!StateIsParker(Wait!BUSY(t))
  /\ Wait!INACTIVE # Wait!ACTIVE /\ Wait!INACTIVE # Wait!UNUSED /\ Wait!ACTIVE # Wait!UNUSED
  /\ ~Wait!StateIsParker(Wait!INACTIVE) /\ ~Wait!StateIsParker(Wait!ACTIVE)
  /\ ~Wait!StateIsParker(Wait!UNUSED)
BY DEF Wait!INACTIVE, Wait!ACTIVE, Wait!UNUSED, Wait!BUSY, Wait!Parker, Wait!StateIsParker

\* Every step of the semaphore, StWaitable_RegisterWait, StRegisteredWait_Unregister,
\* EnableUnparkCallback, the timer thread and UnparkCallback keeps it.
LEMMA WaitNext ==
  ASSUME WaitInv, Wait!Next PROVE WaitInv'
<1> USE CallbacksAssumption, WaitStatesLemma
    DEF Wait!RegisteredWaitAssumption, Wait!Goto, Wait!Step, Wait!SetStatus, Wait!Leave,
        Wait!cbParker, Wait!semaphore, Wait!wait, Wait!locals, WaitPcs, WaitStates, WaitStatuses,
        Enrolling, Holds, Withdraws, NoneEnrols, NoneHolds, Over, Freed, WaitArmed, Taken,
        Carries, Carried, Wait!InCallback, Wait!Registering, Wait!Unregistering
<1>1. /\ WaitTypes /\ ThreadInv /\ LockerInv /\ LinkedInv /\ ExpiryInv /\ WithdrawInv
      /\ WaitStateInv /\ PermitInv /\ Wait!Threads = Users \cup {ClockThread}
  BY DEF WaitInv, Wait!Threads

<1>2. ASSUME NEW t \in Wait!Threads, Wait!Serve(t) PROVE WaitInv'
  <2>1. WaitTypes'
    BY <1>1, <1>2 DEF WaitTypes, Wait!Serve
  <2>2. ThreadInv'
    BY <1>1, <1>2 DEF WaitTypes, ThreadInv, Wait!Serve
  <2>3. LockerInv'
    BY <1>1, <1>2 DEF WaitTypes, LockerInv, Wait!Serve
  <2>4. LinkedInv'
    BY <1>1, <1>2 DEF WaitTypes, LinkedInv, Wait!Serve
  <2>5. ExpiryInv'
    BY <1>1, <1>2 DEF WaitTypes, ExpiryInv, Wait!Serve
  <2>6. WithdrawInv'
    BY <1>1, <1>2 DEF WaitTypes, WithdrawInv, Wait!Serve
  <2>7. WaitStateInv'
    BY <1>1, <1>2 DEF WaitTypes, WaitStateInv, Wait!Serve
  <2>8. PermitInv'
    BY <1>1, <1>2 DEF WaitTypes, ThreadInv, LockerInv, LinkedInv, ExpiryInv, PermitInv, Wait!Serve
  <2>9. QED
    BY <2>1, <2>2, <2>3, <2>4, <2>5, <2>6, <2>7, <2>8 DEF WaitInv
<1>3. ASSUME NEW t \in Wait!Threads, Wait!TryLockParker(t) PROVE WaitInv'
  <2>1. WaitTypes'
    BY <1>1, <1>3 DEF WaitTypes, Wait!TryLockParker
  <2>2. ThreadInv'
    BY <1>1, <1>3 DEF WaitTypes, ThreadInv, Wait!TryLockParker
  <2>3. LockerInv'
    BY <1>1, <1>3
       DEF WaitTypes, ThreadInv, LockerInv, LinkedInv, ExpiryInv, WithdrawInv, WaitStateInv,
           PermitInv, Wait!TryLockParker
  <2>4. LinkedInv'
    BY <1>1, <1>3 DEF WaitTypes, ThreadInv, LockerInv, LinkedInv, Wait!TryLockParker
  <2>5. ExpiryInv'
    BY <1>1, <1>3 DEF WaitTypes, ThreadInv, LockerInv, ExpiryInv, Wait!TryLockParker
  <2>6. WithdrawInv'
    BY <1>1, <1>3 DEF WaitTypes, WithdrawInv, Wait!TryLockParker
  <2>7. WaitStateInv'
    BY <1>1, <1>3
       DEF WaitTypes, ThreadInv, LockerInv, LinkedInv, ExpiryInv, WaitStateInv,
           Wait!TryLockParker
  <2>8. PermitInv'
    BY <1>1, <1>3 DEF WaitTypes, ThreadInv, LockerInv, PermitInv, Wait!TryLockParker
  <2>9. QED
    BY <2>1, <2>2, <2>3, <2>4, <2>5, <2>6, <2>7, <2>8 DEF WaitInv
<1>4. ASSUME NEW t \in Wait!Threads, Wait!WaitAnyPrologue(t) PROVE WaitInv'
  <2>1. WaitTypes'
    BY <1>1, <1>4 DEF WaitTypes, Wait!WaitAnyPrologue
  <2>2. ThreadInv'
    BY <1>1, <1>4 DEF WaitTypes, ThreadInv, Wait!WaitAnyPrologue
  <2>3. LockerInv'
    BY <1>1, <1>4 DEF WaitTypes, LockerInv, Wait!WaitAnyPrologue
  <2>4. LinkedInv'
    BY <1>1, <1>4 DEF WaitTypes, ThreadInv, LockerInv, LinkedInv, Wait!WaitAnyPrologue
  <2>5. ExpiryInv'
    BY <1>1, <1>4 DEF WaitTypes, ExpiryInv, Wait!WaitAnyPrologue
  <2>6. WithdrawInv'
    BY <1>1, <1>4 DEF WaitTypes, WithdrawInv, Wait!WaitAnyPrologue
  <2>7. WaitStateInv'
    BY <1>1, <1>4 DEF WaitTypes, WaitStateInv, Wait!WaitAnyPrologue
  <2>8. PermitInv'
    <3>1. /\ pc[t] = "prologue" /\ NoneHolds /\ inProgress = 1
          /\ \A s \in Wait!Threads : Enrolling(s) => s = t
      BY <1>1, <1>4 DEF WaitTypes, LockerInv, Wait!WaitAnyPrologue
    <3>2. ~Carried
      BY <3>1
    <3>3. /\ pc' = [pc EXCEPT ![t] = "enable"] \/ pc' = [pc EXCEPT ![t] = "activate"]
          /\ UNCHANGED <<posts, calls, status>>
      BY <1>4 DEF Wait!WaitAnyPrologue
    <3>4. Taken' = Taken
      BY <1>1, <3>1, <3>3 DEF WaitTypes
    <3>5. CASE permits > 0 /\ linked = 0
      <4>1. permits' = permits - 1 /\ inProgress' = 0 /\ waitStatus' = "success"
        BY <1>4, <3>5 DEF Wait!WaitAnyPrologue
      <4>2. Carries(t)'
        BY <1>1, <3>3, <4>1 DEF WaitTypes
      <4>3. Carried'
        BY <4>2
      <4>4. QED
        BY <1>1, <3>2, <3>3, <3>4, <4>1, <4>3 DEF WaitTypes, PermitInv
    <3>6. CASE ~(permits > 0 /\ linked = 0)
      <4>1. UNCHANGED <<permits, inProgress, waitStatus>>
        BY <1>4, <3>6 DEF Wait!WaitAnyPrologue
      <4>2. ~Carried'
        BY <1>1, <3>1, <3>3, <4>1 DEF WaitTypes
      <4>3. QED
        BY <1>1, <3>2, <3>3, <3>4, <4>1, <4>2 DEF WaitTypes, PermitInv
    <3>7. QED
      BY <3>5, <3>6
  <2>9. QED
    BY <2>1, <2>2, <2>3, <2>4, <2>5, <2>6, <2>7, <2>8 DEF WaitInv
<1>5. ASSUME NEW t \in Wait!Threads, Wait!Activate(t) PROVE WaitInv'
  <2>1. WaitTypes'
    BY <1>1, <1>5 DEF WaitTypes, Wait!Activate
  <2>2. ThreadInv'
    BY <1>1, <1>5 DEF WaitTypes, ThreadInv, Wait!Activate
  <2>3. LockerInv'
    BY <1>1, <1>5 DEF WaitTypes, LockerInv, Wait!Activate
  <2>4. LinkedInv'
    BY <1>1, <1>5 DEF WaitTypes, LinkedInv, Wait!Activate
  <2>5. ExpiryInv'
    BY <1>1, <1>5 DEF WaitTypes, ExpiryInv, Wait!Activate
  <2>6. WithdrawInv'
    BY <1>1, <1>5 DEF WaitTypes, WithdrawInv, Wait!Activate
  <2>7. WaitStateInv'
    BY <1>1, <1>5 DEF WaitTypes, ThreadInv, LockerInv, WaitStateInv, Wait!Activate
  <2>8. PermitInv'
    BY <1>1, <1>5 DEF WaitTypes, PermitInv, Wait!Activate
  <2>9. QED
    BY <2>1, <2>2, <2>3, <2>4, <2>5, <2>6, <2>7, <2>8 DEF WaitInv
<1>6. ASSUME NEW t \in Wait!Threads, Wait!EnableUnparkCallback(t) PROVE WaitInv'
  <2>1. WaitTypes'
    BY <1>1, <1>6 DEF WaitTypes, Wait!EnableUnparkCallback, Wait!AlreadyUnparked
  <2>2. ThreadInv'
    BY <1>1, <1>6
       DEF WaitTypes, ThreadInv, LockerInv, Wait!EnableUnparkCallback, Wait!AlreadyUnparked
  <2>3. LockerInv'
    BY <1>1, <1>6 DEF WaitTypes, LockerInv, Wait!EnableUnparkCallback, Wait!AlreadyUnparked
  <2>4. LinkedInv'
    BY <1>1, <1>6 DEF WaitTypes, LinkedInv, Wait!EnableUnparkCallback, Wait!AlreadyUnparked
  <2>5. ExpiryInv'
    BY <1>1, <1>6 DEF WaitTypes, ExpiryInv, Wait!EnableUnparkCallback, Wait!AlreadyUnparked
  <2>6. WithdrawInv'
    BY <1>1, <1>6
       DEF WaitTypes, ThreadInv, LockerInv, WithdrawInv, Wait!EnableUnparkCallback,
           Wait!AlreadyUnparked
  <2>7. WaitStateInv'
    BY <1>1, <1>6 DEF WaitTypes, WaitStateInv, Wait!EnableUnparkCallback, Wait!AlreadyUnparked
  <2>8. PermitInv'
    BY <1>1, <1>6 DEF WaitTypes, PermitInv, Wait!EnableUnparkCallback, Wait!AlreadyUnparked
  <2>9. QED
    BY <2>1, <2>2, <2>3, <2>4, <2>5, <2>6, <2>7, <2>8 DEF WaitInv
<1>7. ASSUME NEW t \in Wait!Threads, Wait!SetRawTimer(t) PROVE WaitInv'
  <2>1. WaitTypes'
    BY <1>1, <1>7 DEF WaitTypes, Wait!SetRawTimer
  <2>2. ThreadInv'
    BY <1>1, <1>7 DEF WaitTypes, ThreadInv, Wait!SetRawTimer
  <2>3. LockerInv'
    BY <1>1, <1>7 DEF WaitTypes, LockerInv, Wait!SetRawTimer
  <2>4. LinkedInv'
    BY <1>1, <1>7 DEF WaitTypes, LinkedInv, Wait!SetRawTimer
  <2>5. ExpiryInv'
    BY <1>1, <1>7 DEF WaitTypes, ThreadInv, LockerInv, ExpiryInv, Wait!SetRawTimer
  <2>6. WithdrawInv'
    BY <1>1, <1>7 DEF WaitTypes, WithdrawInv, Wait!SetRawTimer
  <2>7. WaitStateInv'
    BY <1>1, <1>7 DEF WaitTypes, WaitStateInv, Wait!SetRawTimer
  <2>8. PermitInv'
    BY <1>1, <1>7 DEF WaitTypes, PermitInv, Wait!SetRawTimer
  <2>9. QED
    BY <2>1, <2>2, <2>3, <2>4, <2>5, <2>6, <2>7, <2>8 DEF WaitInv
<1>8. ASSUME NEW t \in Wait!Threads, Wait!EnableClear(t) PROVE WaitInv'
  <2>1. WaitTypes'
    BY <1>1, <1>8 DEF WaitTypes, Wait!EnableClear, Wait!AlreadyUnparked
  <2>2. ThreadInv'
    BY <1>1, <1>8 DEF WaitTypes, ThreadInv, LockerInv, Wait!EnableClear, Wait!AlreadyUnparked
  <2>3. LockerInv'
    BY <1>1, <1>8 DEF WaitTypes, LockerInv, Wait!EnableClear, Wait!AlreadyUnparked
  <2>4. LinkedInv'
    BY <1>1, <1>8
       DEF WaitTypes, ThreadInv, LockerInv, LinkedInv, Wait!EnableClear, Wait!AlreadyUnparked
  <2>5. ExpiryInv'
    BY <1>1, <1>8
       DEF WaitTypes, ThreadInv, LockerInv, ExpiryInv, Wait!EnableClear, Wait!AlreadyUnparked
  <2>6. WithdrawInv'
    BY <1>1, <1>8
       DEF WaitTypes, ThreadInv, LockerInv, WithdrawInv, Wait!EnableClear, Wait!AlreadyUnparked
  <2>7. WaitStateInv'
    BY <1>1, <1>8
       DEF WaitTypes, ThreadInv, LockerInv, LinkedInv, ExpiryInv, WaitStateInv, Wait!EnableClear,
           Wait!AlreadyUnparked
  <2>8. PermitInv'
    BY <1>1, <1>8
       DEF WaitTypes, ThreadInv, LockerInv, PermitInv, Wait!EnableClear, Wait!AlreadyUnparked
  <2>9. QED
    BY <2>1, <2>2, <2>3, <2>4, <2>5, <2>6, <2>7, <2>8 DEF WaitInv
<1>9. ASSUME NEW t \in Wait!Threads, Wait!UnparkThread(t) PROVE WaitInv'
  <2>1. WaitTypes'
    BY <1>1, <1>9 DEF WaitTypes, Wait!UnparkThread
  <2>2. ThreadInv'
    BY <1>1, <1>9 DEF WaitTypes, ThreadInv, Wait!UnparkThread
  <2>3. LockerInv'
    BY <1>1, <1>9 DEF WaitTypes, ThreadInv, LockerInv, Wait!UnparkThread
  <2>4. LinkedInv'
    BY <1>1, <1>9 DEF WaitTypes, LinkedInv, Wait!UnparkThread
  <2>5. ExpiryInv'
    BY <1>1, <1>9 DEF WaitTypes, ThreadInv, LockerInv, ExpiryInv, Wait!UnparkThread
  <2>6. WithdrawInv'
    BY <1>1, <1>9 DEF WaitTypes, ThreadInv, LockerInv, WithdrawInv, Wait!UnparkThread
  <2>7. WaitStateInv'
    BY <1>1, <1>9 DEF WaitTypes, ThreadInv, LockerInv, WaitStateInv, Wait!UnparkThread
  <2>8. PermitInv'
    BY <1>1, <1>9 DEF WaitTypes, ThreadInv, LockerInv, PermitInv, Wait!UnparkThread
  <2>9. QED
    BY <2>1, <2>2, <2>3, <2>4, <2>5, <2>6, <2>7, <2>8 DEF WaitInv
<1>10. ASSUME NEW t \in Wait!Threads, Wait!UnparkCallback(t) PROVE WaitInv'
  <2>1. WaitTypes'
    BY <1>1, <1>10 DEF WaitTypes, Wait!UnparkCallback
  <2>2. ThreadInv'
    BY <1>1, <1>10
       DEF WaitTypes, ThreadInv, LockerInv, WithdrawInv, WaitStateInv, Wait!UnparkCallback
  <2>3. LockerInv'
    BY <1>1, <1>10 DEF WaitTypes, LockerInv, Wait!UnparkCallback
  <2>4. LinkedInv'
    BY <1>1, <1>10 DEF WaitTypes, LinkedInv, Wait!UnparkCallback
  <2>5. ExpiryInv'
    BY <1>1, <1>10 DEF WaitTypes, ExpiryInv, Wait!UnparkCallback
  <2>6. WithdrawInv'
    BY <1>1, <1>10 DEF WaitTypes, ThreadInv, LockerInv, WithdrawInv, Wait!UnparkCallback
  <2>7. WaitStateInv'
    BY <1>1, <1>10 DEF WaitTypes, ThreadInv, LockerInv, WaitStateInv, Wait!UnparkCallback
  <2>8. PermitInv'
    BY <1>1, <1>10 DEF WaitTypes, PermitInv, Wait!UnparkCallback
  <2>9. QED
    BY <2>1, <2>2, <2>3, <2>4, <2>5, <2>6, <2>7, <2>8 DEF WaitInv
<1>11. ASSUME NEW t \in Wait!Threads, Wait!CancelTimedOut(t) PROVE WaitInv'
  <2>1. WaitTypes'
    BY <1>1, <1>11 DEF WaitTypes, Wait!CancelTimedOut, Wait!CancelAcquire
  <2>2. ThreadInv'
    BY <1>1, <1>11 DEF WaitTypes, ThreadInv, Wait!CancelTimedOut, Wait!CancelAcquire
  <2>3. LockerInv'
    BY <1>1, <1>11 DEF WaitTypes, LockerInv, Wait!CancelTimedOut, Wait!CancelAcquire
  <2>4. LinkedInv'
    BY <1>1, <1>11
       DEF WaitTypes, ThreadInv, LockerInv, LinkedInv, Wait!CancelTimedOut, Wait!CancelAcquire
  <2>5. ExpiryInv'
    BY <1>1, <1>11 DEF WaitTypes, ExpiryInv, Wait!CancelTimedOut, Wait!CancelAcquire
  <2>6. WithdrawInv'
    BY <1>1, <1>11 DEF WaitTypes, WithdrawInv, Wait!CancelTimedOut, Wait!CancelAcquire
  <2>7. WaitStateInv'
    BY <1>1, <1>11 DEF WaitTypes, WaitStateInv, Wait!CancelTimedOut, Wait!CancelAcquire
  <2>8. PermitInv'
    BY <1>1, <1>11 DEF WaitTypes, PermitInv, Wait!CancelTimedOut, Wait!CancelAcquire
  <2>9. QED
    BY <2>1, <2>2, <2>3, <2>4, <2>5, <2>6, <2>7, <2>8 DEF WaitInv
<1>12. ASSUME NEW t \in Wait!Threads, Wait!UserCallback(t) PROVE WaitInv'
  <2>1. WaitTypes'
    BY <1>1, <1>12 DEF WaitTypes, Wait!UserCallback
  <2>2. ThreadInv'
    BY <1>1, <1>12 DEF WaitTypes, ThreadInv, Wait!UserCallback
  <2>3. LockerInv'
    BY <1>1, <1>12 DEF WaitTypes, LockerInv, Wait!UserCallback
  <2>4. LinkedInv'
    BY <1>1, <1>12 DEF WaitTypes, LinkedInv, Wait!UserCallback
  <2>5. ExpiryInv'
    BY <1>1, <1>12 DEF WaitTypes, ExpiryInv, Wait!UserCallback
  <2>6. WithdrawInv'
    BY <1>1, <1>12 DEF WaitTypes, WithdrawInv, Wait!UserCallback
  <2>7. WaitStateInv'
    BY <1>1, <1>12 DEF WaitTypes, WaitStateInv, Wait!UserCallback
  <2>8. PermitInv'
    BY <1>1, <1>12 DEF WaitTypes, ThreadInv, LockerInv, PermitInv, Wait!UserCallback
  <2>9. QED
    BY <2>1, <2>2, <2>3, <2>4, <2>5, <2>6, <2>7, <2>8 DEF WaitInv
<1>13. ASSUME NEW t \in Wait!Threads, Wait!CallbackEnds(t) PROVE WaitInv'
  <2>1. WaitTypes'
    BY <1>1, <1>13 DEF WaitTypes, Wait!CallbackEnds
  <2>2. ThreadInv'
    BY <1>1, <1>13
       DEF WaitTypes, ThreadInv, LockerInv, WithdrawInv, WaitStateInv, Wait!CallbackEnds
  <2>3. LockerInv'
    BY <1>1, <1>13 DEF WaitTypes, LockerInv, Wait!CallbackEnds
  <2>4. LinkedInv'
    BY <1>1, <1>13 DEF WaitTypes, LinkedInv, Wait!CallbackEnds
  <2>5. ExpiryInv'
    BY <1>1, <1>13, SMTT(30) DEF WaitTypes, ExpiryInv, Wait!CallbackEnds
  <2>6. WithdrawInv'
    BY <1>1, <1>13, SMTT(30)
       DEF WaitTypes, ThreadInv, LockerInv, LinkedInv, ExpiryInv, WithdrawInv, WaitStateInv,
           PermitInv, Wait!CallbackEnds
  <2>7. WaitStateInv'
    BY <1>1, <1>13
       DEF WaitTypes, ThreadInv, LockerInv, LinkedInv, ExpiryInv, WithdrawInv, WaitStateInv,
           PermitInv, Wait!CallbackEnds
  <2>8. PermitInv'
    BY <1>1, <1>13 DEF WaitTypes, PermitInv, Wait!CallbackEnds
  <2>9. QED
    BY <2>1, <2>2, <2>3, <2>4, <2>5, <2>6, <2>7, <2>8 DEF WaitInv
<1>14. ASSUME NEW t \in Wait!Threads, Wait!RegisterAgain(t) PROVE WaitInv'
  <2>1. WaitTypes'
    BY <1>1, <1>14 DEF WaitTypes, Wait!RegisterAgain
  <2>2. ThreadInv'
    BY <1>1, <1>14 DEF WaitTypes, ThreadInv, Wait!RegisterAgain
  <2>3. LockerInv'
    BY <1>1, <1>14 DEF WaitTypes, ThreadInv, LockerInv, LinkedInv, ExpiryInv, Wait!RegisterAgain
  <2>4. LinkedInv'
    BY <1>1, <1>14 DEF WaitTypes, ThreadInv, LockerInv, LinkedInv, Wait!RegisterAgain
  <2>5. ExpiryInv'
    BY <1>1, <1>14 DEF WaitTypes, ThreadInv, LockerInv, ExpiryInv, Wait!RegisterAgain
  <2>6. WithdrawInv'
    BY <1>1, <1>14
       DEF WaitTypes, ThreadInv, LockerInv, WithdrawInv, WaitStateInv, Wait!RegisterAgain
  <2>7. WaitStateInv'
    BY <1>1, <1>14 DEF WaitTypes, ThreadInv, LockerInv, WaitStateInv, Wait!RegisterAgain
  <2>8. PermitInv'
    BY <1>1, <1>14 DEF WaitTypes, ThreadInv, LockerInv, PermitInv, Wait!RegisterAgain
  <2>9. QED
    BY <2>1, <2>2, <2>3, <2>4, <2>5, <2>6, <2>7, <2>8 DEF WaitInv
<1>15. ASSUME NEW t \in Wait!Threads, Wait!Reactivate(t) PROVE WaitInv'
  <2>1. WaitTypes'
    BY <1>1, <1>15 DEF WaitTypes, Wait!Reactivate
  <2>2. ThreadInv'
    BY <1>1, <1>15 DEF WaitTypes, ThreadInv, Wait!Reactivate
  <2>3. LockerInv'
    BY <1>1, <1>15 DEF WaitTypes, LockerInv, Wait!Reactivate
  <2>4. LinkedInv'
    BY <1>1, <1>15 DEF WaitTypes, LinkedInv, Wait!Reactivate
  <2>5. ExpiryInv'
    BY <1>1, <1>15 DEF WaitTypes, ExpiryInv, Wait!Reactivate
  <2>6. WithdrawInv'
    BY <1>1, <1>15 DEF WaitTypes, WithdrawInv, Wait!Reactivate
  <2>7. WaitStateInv'
    BY <1>1, <1>15 DEF WaitTypes, WaitStateInv, Wait!Reactivate
  <2>8. PermitInv'
    BY <1>1, <1>15 DEF WaitTypes, PermitInv, Wait!Reactivate
  <2>9. QED
    BY <2>1, <2>2, <2>3, <2>4, <2>5, <2>6, <2>7, <2>8 DEF WaitInv
<1>16. ASSUME NEW t \in Wait!Threads, Wait!Loop(t) PROVE WaitInv'
  <2>1. WaitTypes'
    BY <1>1, <1>16 DEF WaitTypes, ThreadInv, LockerInv, Wait!Loop
  <2>2. ThreadInv'
    BY <1>1, <1>16 DEF WaitTypes, ThreadInv, Wait!Loop
  <2>3. LockerInv'
    BY <1>1, <1>16 DEF WaitTypes, LockerInv, Wait!Loop
  <2>4. LinkedInv'
    BY <1>1, <1>16 DEF WaitTypes, LinkedInv, Wait!Loop
  <2>5. ExpiryInv'
    BY <1>1, <1>16 DEF WaitTypes, ExpiryInv, Wait!Loop
  <2>6. WithdrawInv'
    BY <1>1, <1>16 DEF WaitTypes, ThreadInv, LockerInv, WithdrawInv, WaitStateInv, Wait!Loop
  <2>7. WaitStateInv'
    BY <1>1, <1>16 DEF WaitTypes, ThreadInv, LockerInv, WithdrawInv, WaitStateInv, Wait!Loop
  <2>8. PermitInv'
    BY <1>1, <1>16 DEF WaitTypes, PermitInv, Wait!Loop
  <2>9. QED
    BY <2>1, <2>2, <2>3, <2>4, <2>5, <2>6, <2>7, <2>8 DEF WaitInv
<1>17. ASSUME NEW t \in Wait!Threads, Wait!TryCancelParker(t) PROVE WaitInv'
  <2>1. WaitTypes'
    BY <1>1, <1>17 DEF WaitTypes, Wait!TryCancelParker
  <2>2. ThreadInv'
    BY <1>1, <1>17
       DEF WaitTypes, ThreadInv, LockerInv, WithdrawInv, WaitStateInv, Wait!TryCancelParker
  <2>3. LockerInv'
    BY <1>1, <1>17
       DEF WaitTypes, ThreadInv, LockerInv, WithdrawInv, WaitStateInv, Wait!TryCancelParker
  <2>4. LinkedInv'
    BY <1>1, <1>17 DEF WaitTypes, LinkedInv, Wait!TryCancelParker
  <2>5. ExpiryInv'
    BY <1>1, <1>17 DEF WaitTypes, ThreadInv, LockerInv, ExpiryInv, Wait!TryCancelParker
  <2>6. WithdrawInv'
    BY <1>1, <1>17 DEF WaitTypes, ThreadInv, LockerInv, WithdrawInv, Wait!TryCancelParker
  <2>7. WaitStateInv'
    BY <1>1, <1>17
       DEF WaitTypes, ThreadInv, LockerInv, WithdrawInv, WaitStateInv, Wait!TryCancelParker
  <2>8. PermitInv'
    BY <1>1, <1>17 DEF WaitTypes, PermitInv, Wait!TryCancelParker
  <2>9. QED
    BY <2>1, <2>2, <2>3, <2>4, <2>5, <2>6, <2>7, <2>8 DEF WaitInv
<1>18. ASSUME NEW t \in Wait!Threads, Wait!CancelWait(t) PROVE WaitInv'
  <2>1. WaitTypes'
    BY <1>1, <1>18 DEF WaitTypes, Wait!CancelWait, Wait!CancelAcquire
  <2>2. ThreadInv'
    BY <1>1, <1>18 DEF WaitTypes, ThreadInv, Wait!CancelWait, Wait!CancelAcquire
  <2>3. LockerInv'
    BY <1>1, <1>18 DEF WaitTypes, LockerInv, Wait!CancelWait, Wait!CancelAcquire
  <2>4. LinkedInv'
    BY <1>1, <1>18
       DEF WaitTypes, ThreadInv, LockerInv, LinkedInv, Wait!CancelWait, Wait!CancelAcquire
  <2>5. ExpiryInv'
    BY <1>1, <1>18 DEF WaitTypes, ExpiryInv, Wait!CancelWait, Wait!CancelAcquire
  <2>6. WithdrawInv'
    BY <1>1, <1>18
       DEF WaitTypes, ThreadInv, LockerInv, LinkedInv, ExpiryInv, WithdrawInv, Wait!CancelWait,
           Wait!CancelAcquire
  <2>7. WaitStateInv'
    BY <1>1, <1>18
       DEF WaitTypes, ThreadInv, LockerInv, WithdrawInv, WaitStateInv, Wait!CancelWait,
           Wait!CancelAcquire
  <2>8. PermitInv'
    BY <1>1, <1>18 DEF WaitTypes, PermitInv, Wait!CancelWait, Wait!CancelAcquire
  <2>9. QED
    BY <2>1, <2>2, <2>3, <2>4, <2>5, <2>6, <2>7, <2>8 DEF WaitInv
<1>19. ASSUME NEW t \in Wait!Threads, Wait!ParkThreadEx(t) PROVE WaitInv'
  <2>1. WaitTypes'
    BY <1>1, <1>19 DEF WaitTypes, Wait!ParkThreadEx
  <2>2. ThreadInv'
    BY <1>1, <1>19 DEF WaitTypes, ThreadInv, Wait!ParkThreadEx
  <2>3. LockerInv'
    BY <1>1, <1>19 DEF WaitTypes, LockerInv, Wait!ParkThreadEx
  <2>4. LinkedInv'
    BY <1>1, <1>19 DEF WaitTypes, LinkedInv, Wait!ParkThreadEx
  <2>5. ExpiryInv'
    BY <1>1, <1>19 DEF WaitTypes, ExpiryInv, Wait!ParkThreadEx
  <2>6. WithdrawInv'
    BY <1>1, <1>19 DEF WaitTypes, WithdrawInv, Wait!ParkThreadEx
  <2>7. WaitStateInv'
    BY <1>1, <1>19 DEF WaitTypes, WaitStateInv, Wait!ParkThreadEx
  <2>8. PermitInv'
    BY <1>1, <1>19 DEF WaitTypes, PermitInv, Wait!ParkThreadEx
  <2>9. QED
    BY <2>1, <2>2, <2>3, <2>4, <2>5, <2>6, <2>7, <2>8 DEF WaitInv
<1>20. ASSUME NEW t \in Wait!Threads, Wait!Unregistered(t) PROVE WaitInv'
  <2>1. WaitTypes'
    BY <1>1, <1>20 DEF WaitTypes, Wait!Unregistered
  <2>2. ThreadInv'
    BY <1>1, <1>20 DEF WaitTypes, ThreadInv, Wait!Unregistered
  <2>3. LockerInv'
    BY <1>1, <1>20 DEF WaitTypes, LockerInv, Wait!Unregistered
  <2>4. LinkedInv'
    BY <1>1, <1>20 DEF WaitTypes, LinkedInv, Wait!Unregistered
  <2>5. ExpiryInv'
    BY <1>1, <1>20 DEF WaitTypes, ExpiryInv, Wait!Unregistered
  <2>6. WithdrawInv'
    BY <1>1, <1>20 DEF WaitTypes, WithdrawInv, Wait!Unregistered
  <2>7. WaitStateInv'
    BY <1>1, <1>20
       DEF WaitTypes, ThreadInv, LockerInv, WithdrawInv, WaitStateInv, Wait!Unregistered
  <2>8. PermitInv'
    BY <1>1, <1>20 DEF WaitTypes, PermitInv, Wait!Unregistered
  <2>9. QED
    BY <2>1, <2>2, <2>3, <2>4, <2>5, <2>6, <2>7, <2>8 DEF WaitInv
<1>21. ASSUME NEW t \in Wait!Threads, Wait!Expire(t) PROVE WaitInv'
  <2>1. WaitTypes'
    BY <1>1, <1>21 DEF WaitTypes, Wait!Expire
  <2>2. ThreadInv'
    BY <1>1, <1>21 DEF WaitTypes, ThreadInv, Wait!Expire
  <2>3. LockerInv'
    BY <1>1, <1>21
       DEF WaitTypes, ThreadInv, LockerInv, LinkedInv, ExpiryInv, WithdrawInv, WaitStateInv,
           PermitInv, Wait!Expire
  <2>4. LinkedInv'
    BY <1>1, <1>21 DEF WaitTypes, LinkedInv, Wait!Expire
  <2>5. ExpiryInv'
    BY <1>1, <1>21 DEF WaitTypes, ExpiryInv, Wait!Expire
  <2>6. WithdrawInv'
    BY <1>1, <1>21 DEF WaitTypes, WithdrawInv, Wait!Expire
  <2>7. WaitStateInv'
    BY <1>1, <1>21 DEF WaitTypes, WaitStateInv, Wait!Expire
  <2>8. PermitInv'
    BY <1>1, <1>21 DEF WaitTypes, PermitInv, Wait!Expire
  <2>9. QED
    BY <2>1, <2>2, <2>3, <2>4, <2>5, <2>6, <2>7, <2>8 DEF WaitInv
<1>22. ASSUME NEW t \in Users, Wait!RegisterWait(t) PROVE WaitInv'
  <2>1. WaitTypes'
    BY <1>1, <1>22 DEF WaitTypes, Wait!RegisterWait
  <2>2. ThreadInv'
    BY <1>1, <1>22 DEF WaitTypes, ThreadInv, Wait!RegisterWait
  <2>3. LockerInv'
    BY <1>1, <1>22
       DEF WaitTypes, ThreadInv, LockerInv, WithdrawInv, WaitStateInv, Wait!RegisterWait
  <2>4. LinkedInv'
    BY <1>1, <1>22
       DEF WaitTypes, ThreadInv, LockerInv, LinkedInv, WithdrawInv, WaitStateInv,
           Wait!RegisterWait
  <2>5. ExpiryInv'
    BY <1>1, <1>22
       DEF WaitTypes, ThreadInv, LockerInv, ExpiryInv, WithdrawInv, WaitStateInv,
           Wait!RegisterWait
  <2>6. WithdrawInv'
    BY <1>1, <1>22 DEF WaitTypes, ThreadInv, LockerInv, WithdrawInv, Wait!RegisterWait
  <2>7. WaitStateInv'
    BY <1>1, <1>22 DEF WaitTypes, ThreadInv, LockerInv, WaitStateInv, Wait!RegisterWait
  <2>8. PermitInv'
    BY <1>1, <1>22
       DEF WaitTypes, ThreadInv, LockerInv, WithdrawInv, WaitStateInv, PermitInv,
           Wait!RegisterWait
  <2>9. QED
    BY <2>1, <2>2, <2>3, <2>4, <2>5, <2>6, <2>7, <2>8 DEF WaitInv
<1>23. ASSUME NEW t \in Users, Wait!Unregister(t) PROVE WaitInv'
  <2>1. WaitTypes'
    BY <1>1, <1>23 DEF WaitTypes, Wait!Unregister
  <2>2. ThreadInv'
    BY <1>1, <1>23 DEF WaitTypes, ThreadInv, Wait!Unregister
  <2>3. LockerInv'
    BY <1>1, <1>23 DEF WaitTypes, LockerInv, Wait!Unregister
  <2>4. LinkedInv'
    BY <1>1, <1>23 DEF WaitTypes, LinkedInv, Wait!Unregister
  <2>5. ExpiryInv'
    BY <1>1, <1>23 DEF WaitTypes, ExpiryInv, Wait!Unregister
  <2>6. WithdrawInv'
    BY <1>1, <1>23 DEF WaitTypes, ThreadInv, LockerInv, WithdrawInv, Wait!Unregister
  <2>7. WaitStateInv'
    BY <1>1, <1>23 DEF WaitTypes, WaitStateInv, Wait!Unregister
  <2>8. PermitInv'
    BY <1>1, <1>23 DEF WaitTypes, PermitInv, Wait!Unregister
  <2>9. QED
    BY <2>1, <2>2, <2>3, <2>4, <2>5, <2>6, <2>7, <2>8 DEF WaitInv
<1>24. ASSUME NEW t \in Users, Wait!Release(t) PROVE WaitInv'
  <2>1. WaitTypes'
    BY <1>1, <1>24 DEF WaitTypes, Wait!Release
  <2>2. ThreadInv'
    BY <1>1, <1>24 DEF WaitTypes, ThreadInv, Wait!Release
  <2>3. LockerInv'
    BY <1>1, <1>24 DEF WaitTypes, LockerInv, Wait!Release
  <2>4. LinkedInv'
    BY <1>1, <1>24 DEF WaitTypes, LinkedInv, Wait!Release
  <2>5. ExpiryInv'
    BY <1>1, <1>24 DEF WaitTypes, ExpiryInv, Wait!Release
  <2>6. WithdrawInv'
    BY <1>1, <1>24 DEF WaitTypes, WithdrawInv, Wait!Release
  <2>7. WaitStateInv'
    BY <1>1, <1>24 DEF WaitTypes, WaitStateInv, Wait!Release
  <2>8. PermitInv'
    BY <1>1, <1>24 DEF WaitTypes, PermitInv, Wait!Release
  <2>9. QED
    BY <2>1, <2>2, <2>3, <2>4, <2>5, <2>6, <2>7, <2>8 DEF WaitInv
<1>25. QED
  BY <1>1, <1>2, <1>3, <1>4, <1>5, <1>6, <1>7, <1>8, <1>9, <1>10, <1>11, <1>12, <1>13, <1>14,
     <1>15, <1>16, <1>17, <1>18, <1>19, <1>20, <1>21, <1>22, <1>23, <1>24
     DEF Wait!Next, Wait!Run

\* A step that leaves the registered wait alone keeps its invariant.
LEMMA WaitStutter == ASSUME WaitInv, UNCHANGED Wait!vars PROVE WaitInv'
BY DEF WaitInv, WaitTypes, ThreadInv, LockerInv, LinkedInv, ExpiryInv, WithdrawInv,
       WaitStateInv, PermitInv, Enrolling, Holds, Withdraws, NoneEnrols, NoneHolds, Over, Freed,
       WaitArmed, Taken, Carries, Carried, Wait!InCallback, Wait!Registering, Wait!vars,
       Wait!wait, Wait!cbParker, Wait!semaphore, Wait!locals

\* At first nothing is registered.
LEMMA WaitInit == Wait!Init => WaitInv
<1> SUFFICES ASSUME Wait!Init PROVE WaitInv
  OBVIOUS
<1> USE DEF Enrolling, Holds, Withdraws, NoneEnrols, NoneHolds
<1>1. /\ state = Wait!UNUSED /\ inserted = 0 /\ count = 1 /\ linked = 0 /\ permits = 0
      /\ posts = 0 /\ calls = 0 /\ holder = NoThread
      /\ \A t \in Wait!Threads : /\ pc[t] = "out" /\ old[t] = Wait!UNUSED
                                 /\ status[t] = "none" /\ unparked[t] = 0
  BY DEF Wait!Init
<1>2. Users \subseteq Wait!Threads /\ ClockThread \in Wait!Threads /\ NoThread \notin Wait!Threads
  BY CallbacksAssumption DEF Wait!Threads, Wait!RegisteredWaitAssumption
<1>3. WaitTypes
  BY DEF Wait!Init, WaitTypes, WaitPcs, WaitStates, WaitStatuses
<1>4. ThreadInv /\ LockerInv /\ LinkedInv /\ ExpiryInv
  BY <1>1, <1>2 DEF ThreadInv, LockerInv, LinkedInv, ExpiryInv, Wait!InCallback,
                    Wait!Registering
<1>5. WithdrawInv /\ WaitStateInv
  BY <1>1, <1>2, WaitStatesLemma
     DEF WithdrawInv, WaitStateInv, Freed, Over, Wait!InCallback, Wait!Registering
<1>6. PermitInv
  <2>1. ~Taken /\ ~Carried
    BY <1>1 DEF Taken, Carried, Carries
  <2>2. QED
    BY <1>1, <2>1 DEF PermitInv
<1>7. QED
  BY <1>3, <1>4, <1>5, <1>6 DEF WaitInv

\* The registered wait among the systems of MCParking.
WaitOK == which = "wait" => WaitInv

\* The invariant of the registered wait holds in every behaviour.
THEOREM WaitKeepsInvariant == CallbacksSpec => []WaitOK
<1>1. MCInit({"parker", "raw"} \cup Callbacks) => WaitOK
  BY WaitInit DEF MCInit, WaitOK
<1>2. WaitOK /\ [MCNext]_MCVars => WaitOK'
  <2> SUFFICES ASSUME WaitOK, [MCNext]_MCVars, which' = "wait" PROVE WaitInv'
    BY DEF WaitOK
  <2>1. CASE MCNext
    BY <2>1, WaitNext DEF MCNext, Others, WaitOK
  <2>2. CASE UNCHANGED MCVars
    BY <2>2, WaitStutter DEF MCVars, callbackOnly, shared, waitOnly, WaitOK, Wait!vars, Wait!wait,
       Wait!cbParker, Wait!semaphore, Wait!locals
  <2>3. QED
    BY <2>1, <2>2
<1>3. QED
  BY <1>1, <1>2, PTL DEF CallbacksSpec

\* What the invariant says of a registered wait: inactive it is quiet, active and at rest it
\* is armed, its callback does not overlap itself, and no permit is lost.
LEMMA WaitPromises ==
  WaitInv => /\ Wait!InactiveIsQuiet /\ Wait!ActiveIsArmed /\ Wait!OneCallback
             /\ Wait!PermitsCalled
<1> SUFFICES ASSUME WaitInv
             PROVE  /\ Wait!InactiveIsQuiet /\ Wait!ActiveIsArmed /\ Wait!OneCallback
                    /\ Wait!PermitsCalled
  OBVIOUS
<1> USE DEF Enrolling, Holds, NoneEnrols, NoneHolds
<1>1. Wait!Threads = Users \cup {ClockThread}
  BY DEF Wait!Threads
<1>2. Wait!InactiveIsQuiet
  <2> SUFFICES ASSUME state = Wait!INACTIVE, \A t \in Users : ~Wait!Registering(t)
               PROVE  NoneHolds /\ linked = 0 /\ inserted = 0
    BY DEF Wait!InactiveIsQuiet, Wait!Calling
  <2>1. NoneEnrols
    BY <1>1, WaitStatesLemma DEF WaitInv, ThreadInv, WaitStateInv, Wait!Registering
  <2>2. QED
    BY <2>1 DEF WaitInv, WaitStateInv
<1>3. Wait!AtRest => NoneEnrols /\ NoneHolds /\ ~Taken /\ ~Carried
  BY DEF Wait!AtRest, Taken, Carried, Carries
<1>4. Wait!AtRest => holder = NoThread \/ linked = 0
  BY <1>1 DEF WaitInv, WaitTypes, ThreadInv, Wait!AtRest
<1>5. Wait!ActiveIsArmed
  BY <1>3, <1>4 DEF WaitInv, WaitTypes, LinkedInv, WaitStateInv, WaitArmed, Wait!ActiveIsArmed
<1>6. Wait!OneCallback
  BY DEF WaitInv, LockerInv, Wait!Calling, Wait!OneCallback
<1>7. Wait!PermitsCalled
  BY <1>3 DEF WaitInv, WaitTypes, PermitInv, Wait!PermitsCalled
<1>8. QED
  BY <1>2, <1>5, <1>6, <1>7

-----------------------------------------------------------------------------
(* The timer and the registered wait: the theorems. *)

\* After StTimer_Cancel, StRegisteredWait_Unregister or the end of the last callback, no
\* callback runs or is about to, and neither a raw timer nor a wait block is left behind.
THEOREM QuietWhenInactive == ASSUME SetAlone = TRUE PROVE CallbacksSpec => []InactiveIsQuiet
<1>1. TimerOK /\ WaitOK => InactiveIsQuiet
  BY TimerPromises, WaitPromises DEF TimerOK, WaitOK, InactiveIsQuiet
<1>2. QED
  BY <1>1, TimerKeepsInvariant, WaitKeepsInvariant, PTL

\* An active timer or registered wait at which nobody works can be locked, runs its
\* callback, and is in the timer list or the queue (EnableUnparkCallback, Reactivate).
THEOREM ArmedWhenActive == ASSUME SetAlone = TRUE PROVE CallbacksSpec => []ActiveIsArmed
<1>1. TimerOK /\ WaitOK => ActiveIsArmed
  BY TimerPromises, WaitPromises DEF TimerOK, WaitOK, ActiveIsArmed
<1>2. QED
  BY <1>1, TimerKeepsInvariant, WaitKeepsInvariant, PTL

\* TimerCallback and UnparkCallback do not overlap themselves, although the parker is
\* enabled again inside of them.
THEOREM CallbackIsAlone == ASSUME SetAlone = TRUE PROVE CallbacksSpec => []OneCallback
<1>1. TimerOK /\ WaitOK => OneCallback
  BY TimerPromises, WaitPromises DEF TimerOK, WaitOK, OneCallback
<1>2. QED
  BY <1>1, TimerKeepsInvariant, WaitKeepsInvariant, PTL

\* A permit that a releaser takes for a registered wait reaches its callback or goes back
\* to the semaphore, whoever times out, unregisters or registers again.
THEOREM PermitsReachCallback == CallbacksSpec => []PermitsCalled
<1>1. WaitOK => PermitsCalled
  BY WaitPromises DEF WaitOK, PermitsCalled
<1>2. QED
  BY <1>1, WaitKeepsInvariant, PTL

-----------------------------------------------------------------------------
(* The lock: its inductive invariant. *)

\* Only a thread inside UnparkWaitList holds wait blocks, and the list of a
\* free lock is empty.
WalkInv ==
  /\ \A t \in LockUsers : pc[t] \notin {"exit", "unparkAll"} =>
       grabbed[t] = <<>> /\ wakeStack[t] = <<>>
  /\ list # <<>> => busy = 1

\* The lock has at most one holder, and none when it is free.
HolderInv ==
  /\ \A t \in LockUsers : pc[t] = "held" => busy = 1
  /\ \A s, t \in LockUsers : pc[s] = "held" /\ pc[t] = "held" => s = t

\* A wait block is in one place, once.
PlaceInv ==
  /\ Distinct(list)
  /\ \A s \in LockUsers : Distinct(grabbed[s]) /\ Distinct(wakeStack[s])
  /\ \A t, s \in LockUsers :
       In(t, list) => ~In(t, grabbed[s]) /\ ~In(t, wakeStack[s])
  /\ \A t, s, r \in LockUsers :
       /\ In(t, grabbed[s]) => ~In(t, wakeStack[r])
       /\ In(t, grabbed[s]) /\ In(t, grabbed[r]) => s = r
       /\ In(t, wakeStack[s]) /\ In(t, wakeStack[r]) => s = r

Leaving == {"unlink", "grab", "unparkAll", "spinUnlinked"}

\* The owner of a listed wait block is parked, or gave up and waits for the
\* block to be unlinked; the owner of a locked one is parked.
OwnerInv ==
  \A t \in LockUsers :
    /\ In(t, list) \/ (\E s \in LockUsers : In(t, grabbed[s])) =>
         /\ unlinked[t] = 0
         /\ \/ pc[t] = "parked" /\ count[t] = 1 /\ unparked[t] = 0
            \/ pc[t] \in Leaving /\ count[t] = 0
    /\ (\E s \in LockUsers : In(t, wakeStack[s])) =>
         pc[t] = "parked" /\ count[t] = 0 /\ unparked[t] = 0

\* A thread is walking a list with the wait block of t in it.
InHand(t) == \E s \in LockUsers : In(t, grabbed[s]) \/ In(t, wakeStack[s])

\* A parked thread is in the list of a busy lock, in somebody's hands, or unparked.
LockWakeups ==
  \A t \in LockUsers : pc[t] = "parked" =>
    unparked[t] = 1 \/ (busy = 1 /\ In(t, list)) \/ InHand(t)

LockInv == Locks!TypeOK /\ WalkInv /\ HolderInv /\ PlaceInv /\ OwnerInv /\ LockWakeups

\* Initially nobody waits.
LEMMA LockInitially == Locks!Init => LockInv
BY SmallStacks
   DEF Locks!Init, LockInv, Locks!TypeOK, WalkInv, HolderInv, PlaceInv, OwnerInv,
       LockWakeups, Locks!Pcs

\* Every step of the lock keeps the invariant.
LEMMA LockNext == ASSUME LockInv, [Locks!Next]_(Locks!vars) PROVE LockInv'
<1> USE DEF Locks!Step, Locks!TryAcquire, Locks!Occupied
<1>1. ASSUME NEW t \in LockUsers, Locks!TryEnterEx(t) PROVE LockInv'
  <2> USE <1>1 DEF Locks!TryEnterEx
  <2>1. Locks!TypeOK'
    BY DEF LockInv, Locks!TypeOK, Locks!Pcs
  <2>2. WalkInv'
    BY DEF LockInv, Locks!TypeOK, WalkInv
  <2>3. HolderInv'
    BY DEF LockInv, Locks!TypeOK, HolderInv
  <2>4. PlaceInv'
    BY DEF LockInv, Locks!TypeOK, PlaceInv
  <2>5. OwnerInv'
    BY DEF LockInv, Locks!TypeOK, OwnerInv, Leaving
  <2>6. LockWakeups'
    BY DEF LockInv, Locks!TypeOK, WalkInv, HolderInv, LockWakeups, InHand
  <2>7. QED
    BY <2>1, <2>2, <2>3, <2>4, <2>5, <2>6 DEF LockInv
<1>2. ASSUME NEW t \in LockUsers, Locks!Spin(t) PROVE LockInv'
  <2> USE <1>2 DEF Locks!Spin
  <2>1. Locks!TypeOK'
    BY DEF LockInv, Locks!TypeOK, Locks!Pcs
  <2>2. WalkInv'
    BY DEF LockInv, Locks!TypeOK, WalkInv
  <2>3. HolderInv'
    BY DEF LockInv, Locks!TypeOK, HolderInv
  <2>4. PlaceInv'
    BY DEF LockInv, Locks!TypeOK, PlaceInv
  <2>5. OwnerInv'
    BY DEF LockInv, Locks!TypeOK, OwnerInv, Leaving
  <2>6. LockWakeups'
    BY DEF LockInv, Locks!TypeOK, WalkInv, HolderInv, LockWakeups, InHand
  <2>7. QED
    BY <2>1, <2>2, <2>3, <2>4, <2>5, <2>6 DEF LockInv
<1>3. ASSUME NEW t \in LockUsers, Locks!Enqueue(t) PROVE LockInv'
  <2> USE <1>3 DEF Locks!Enqueue
  <2>a. <<t>> \o list \in Seq(LockUsers) /\ <<t>> \o list # <<>>
    BY PushLemma DEF LockInv, Locks!TypeOK
  <2>b. \A x : In(x, <<t>> \o list) <=> x = t \/ In(x, list)
    BY PushLemma DEF LockInv, Locks!TypeOK
  <2>c. /\ ~In(t, list)
        /\ \A s \in LockUsers : ~In(t, grabbed[s]) /\ ~In(t, wakeStack[s])
    BY DEF LockInv, OwnerInv, Leaving
  <2>d. Distinct(<<t>> \o list)
    BY <2>c, PushLemma DEF LockInv, Locks!TypeOK, PlaceInv
  <2>1. Locks!TypeOK'
    BY <2>a, <2>b, <2>c, <2>d DEF LockInv, Locks!TypeOK, Locks!Pcs
  <2>2. WalkInv'
    BY <2>a, <2>b, <2>c, <2>d DEF LockInv, Locks!TypeOK, WalkInv
  <2>3. HolderInv'
    BY <2>a, <2>b, <2>c, <2>d DEF LockInv, Locks!TypeOK, HolderInv
  <2>4. PlaceInv'
    <3>1. UNCHANGED <<grabbed, wakeStack>>
      OBVIOUS
    <3>2. CASE list' = list
      BY <3>1, <3>2 DEF LockInv, PlaceInv
    <3>3. CASE list' = <<t>> \o list
      BY <2>b, <2>c, <2>d, <3>1, <3>3 DEF LockInv, PlaceInv
    <3>4. QED
      BY <3>2, <3>3
  <2>5. OwnerInv'
    <3>1. /\ UNCHANGED <<grabbed, wakeStack>>
          /\ \A s \in LockUsers : s # t =>
               /\ pc'[s] = pc[s] /\ count'[s] = count[s]
               /\ unparked'[s] = unparked[s] /\ unlinked'[s] = unlinked[s]
      BY DEF LockInv, Locks!TypeOK
    <3>2. CASE list' = list
      BY <2>c, <3>1, <3>2 DEF LockInv, OwnerInv
    <3>3. CASE list' = <<t>> \o list
      <4>1. pc'[t] = "parked" /\ count'[t] = 1 /\ unparked'[t] = 0 /\ unlinked'[t] = 0
        <5>1. busy = 1
          BY <2>b, <2>c, <3>3
        <5>2. QED
          BY <5>1 DEF LockInv, Locks!TypeOK
      <4>2. QED
        BY <2>b, <2>c, <3>1, <3>3, <4>1 DEF LockInv, OwnerInv
    <3>4. QED
      BY <3>2, <3>3
  <2>6. LockWakeups'
    <3>1. CASE busy = 0
      BY <3>1, <2>a, <2>b, <2>c, <2>d
         DEF LockInv, Locks!TypeOK, WalkInv, HolderInv, OwnerInv, Leaving, LockWakeups,
             InHand
    <3>2. CASE busy = 1
      <4>1. /\ busy' = 1 /\ list' = <<t>> \o list
            /\ UNCHANGED <<grabbed, wakeStack>>
            /\ \A s \in LockUsers : s # t =>
                 pc'[s] = pc[s] /\ unparked'[s] = unparked[s]
        BY <3>2 DEF LockInv, Locks!TypeOK
      <4>2. QED
        BY <4>1, <2>b DEF LockInv, LockWakeups, InHand
    <3>3. QED
      BY <3>1, <3>2 DEF LockInv, Locks!TypeOK
  <2>7. QED
    BY <2>1, <2>2, <2>3, <2>4, <2>5, <2>6 DEF LockInv
<1>4. ASSUME NEW t \in LockUsers, Locks!Unparked(t) PROVE LockInv'
  <2> USE <1>4 DEF Locks!Unparked
  <2>1. Locks!TypeOK'
    BY DEF LockInv, Locks!TypeOK, Locks!Pcs
  <2>2. WalkInv'
    BY DEF LockInv, Locks!TypeOK, WalkInv
  <2>3. HolderInv'
    BY DEF LockInv, Locks!TypeOK, HolderInv
  <2>4. PlaceInv'
    BY DEF LockInv, Locks!TypeOK, PlaceInv
  <2>5. OwnerInv'
    BY DEF LockInv, Locks!TypeOK, OwnerInv, Leaving
  <2>6. LockWakeups'
    BY DEF LockInv, Locks!TypeOK, WalkInv, HolderInv, LockWakeups, InHand
  <2>7. QED
    BY <2>1, <2>2, <2>3, <2>4, <2>5, <2>6 DEF LockInv
<1>5. ASSUME NEW t \in LockUsers, Locks!Cancelled(t) PROVE LockInv'
  <2> USE <1>5 DEF Locks!Cancelled
  <2>1. Locks!TypeOK'
    BY DEF LockInv, Locks!TypeOK, Locks!Pcs
  <2>2. WalkInv'
    BY DEF LockInv, Locks!TypeOK, WalkInv
  <2>3. HolderInv'
    BY DEF LockInv, Locks!TypeOK, HolderInv
  <2>4. PlaceInv'
    BY DEF LockInv, Locks!TypeOK, PlaceInv
  <2>5. OwnerInv'
    BY DEF LockInv, Locks!TypeOK, OwnerInv, Leaving
  <2>6. LockWakeups'
    BY DEF LockInv, Locks!TypeOK, WalkInv, HolderInv, LockWakeups, InHand
  <2>7. QED
    BY <2>1, <2>2, <2>3, <2>4, <2>5, <2>6 DEF LockInv
<1>6. ASSUME NEW t \in LockUsers, Locks!Retry(t) PROVE LockInv'
  <2> USE <1>6 DEF Locks!Retry
  <2>1. Locks!TypeOK'
    BY DEF LockInv, Locks!TypeOK, Locks!Pcs
  <2>2. WalkInv'
    BY DEF LockInv, Locks!TypeOK, WalkInv
  <2>3. HolderInv'
    <3>1. CASE busy = 0
      BY <3>1 DEF LockInv, Locks!TypeOK, HolderInv
    <3>2. CASE busy = 1
      <4>1. /\ busy' = 1
            /\ \A s \in LockUsers : pc'[s] = "held" => pc[s] = "held"
        BY <3>2 DEF LockInv, Locks!TypeOK
      <4>2. QED
        BY <4>1 DEF LockInv, HolderInv
    <3>3. QED
      BY <3>1, <3>2 DEF LockInv, Locks!TypeOK
  <2>4. PlaceInv'
    BY DEF LockInv, Locks!TypeOK, PlaceInv
  <2>5. OwnerInv'
    BY DEF LockInv, Locks!TypeOK, OwnerInv, Leaving
  <2>6. LockWakeups'
    BY DEF LockInv, Locks!TypeOK, WalkInv, HolderInv, LockWakeups, InHand
  <2>7. QED
    BY <2>1, <2>2, <2>3, <2>4, <2>5, <2>6 DEF LockInv
<1>7. ASSUME NEW t \in LockUsers, Locks!UnlinkTest(t) PROVE LockInv'
  <2> USE <1>7 DEF Locks!UnlinkTest
  <2>1. Locks!TypeOK'
    BY DEF LockInv, Locks!TypeOK, Locks!Pcs
  <2>2. WalkInv'
    BY DEF LockInv, Locks!TypeOK, WalkInv
  <2>3. HolderInv'
    BY DEF LockInv, Locks!TypeOK, HolderInv
  <2>4. PlaceInv'
    BY DEF LockInv, Locks!TypeOK, PlaceInv
  <2>5. OwnerInv'
    BY DEF LockInv, Locks!TypeOK, OwnerInv, Leaving
  <2>6. LockWakeups'
    BY DEF LockInv, Locks!TypeOK, WalkInv, HolderInv, LockWakeups, InHand
  <2>7. QED
    BY <2>1, <2>2, <2>3, <2>4, <2>5, <2>6 DEF LockInv
<1>8. ASSUME NEW t \in LockUsers, Locks!UnlinkGrab(t) PROVE LockInv'
  <2> USE <1>8 DEF Locks!UnlinkGrab
  <2> DEFINE alone == <<t>>
  <2>a. (\A x : ~In(x, <<>>)) /\ Distinct(<<>>) /\ <<>> \in Seq(LockUsers)
    BY SmallStacks
  <2>b. grabbed[t] = <<>>
    BY DEF LockInv, WalkInv
  <2>c. \A x : In(x, alone) <=> x = t
    BY SmallStacks
  <2>d. /\ UNCHANGED <<busy, timeout, count, unparked, unlinked, wakeStack>>
        /\ list' = <<>> /\ pc[t] = "grab"
        /\ \/ /\ list = <<>> /\ UNCHANGED grabbed
              /\ pc' = [pc EXCEPT ![t] = "spinUnlinked"]
           \/ /\ list = alone /\ UNCHANGED grabbed
              /\ pc' = [pc EXCEPT ![t] = "out"]
           \/ /\ grabbed' = [grabbed EXCEPT ![t] = list]
              /\ pc' = [pc EXCEPT ![t] = "unparkAll"]
    OBVIOUS
  <2> HIDE <1>8 DEF alone
  <2>1. Locks!TypeOK'
    <3>1. list' \in Seq(LockUsers) /\ grabbed' \in [LockUsers -> Seq(LockUsers)]
      BY <2>a, <2>d, ZenonT(30) DEF LockInv, Locks!TypeOK
    <3>2. pc' \in [LockUsers -> Locks!Pcs]
      BY <2>d DEF LockInv, Locks!TypeOK, Locks!Pcs
    <3>3. QED
      BY <2>d, <3>1, <3>2 DEF LockInv, Locks!TypeOK
  <2>2. WalkInv'
    BY <2>a, <2>b, <2>c, <2>d DEF LockInv, Locks!TypeOK, WalkInv
  <2>3. HolderInv'
    BY <2>a, <2>b, <2>c, <2>d DEF LockInv, Locks!TypeOK, HolderInv
  <2>4. PlaceInv'
    <3>1. CASE UNCHANGED grabbed /\ list = <<>>
      BY <3>1, <2>a, <2>b, <2>c, <2>d DEF LockInv, Locks!TypeOK, PlaceInv
    <3>2. CASE UNCHANGED grabbed /\ list = alone
      BY <3>2, <2>a, <2>b, <2>c, <2>d DEF LockInv, Locks!TypeOK, PlaceInv
    <3>3. CASE grabbed' = [grabbed EXCEPT ![t] = list]
      BY <3>3, <2>a, <2>b, <2>c, <2>d DEF LockInv, Locks!TypeOK, PlaceInv
    <3>4. QED
      BY <3>1, <3>2, <3>3, <2>d DEF LockInv, Locks!TypeOK
  <2>5. OwnerInv'
    <3>1. CASE UNCHANGED grabbed /\ list = <<>>
      <4>1. /\ \A s \in LockUsers \ {t} : pc'[s] = pc[s]
            /\ pc[t] = "grab" /\ pc'[t] \in {"spinUnlinked", "unparkAll"}
        BY <2>d, <2>c, <2>a, <3>1, ZenonT(30) DEF LockInv, Locks!TypeOK
      <4>2. QED
        BY <2>a, <2>d, <3>1, <4>1 DEF LockInv, OwnerInv, Leaving
    <3>2. CASE UNCHANGED grabbed /\ list = alone
      BY <3>2, <2>a, <2>b, <2>c, <2>d, SMTT(30)
         DEF LockInv, Locks!TypeOK, PlaceInv, OwnerInv, Leaving
    <3>3. CASE grabbed' = [grabbed EXCEPT ![t] = list]
      BY <3>3, <2>a, <2>b, <2>c, <2>d, SMTT(30)
         DEF LockInv, Locks!TypeOK, PlaceInv, OwnerInv, Leaving
    <3>4. QED
      BY <3>1, <3>2, <3>3, <2>d DEF LockInv, Locks!TypeOK
  <2>6. LockWakeups'
    <3>1. CASE UNCHANGED grabbed /\ list = <<>>
      BY <3>1, <2>a, <2>b, <2>c, <2>d
         DEF LockInv, Locks!TypeOK, WalkInv, HolderInv, OwnerInv, Leaving, LockWakeups,
             InHand
    <3>2. CASE UNCHANGED grabbed /\ list = alone
      BY <3>2, <2>a, <2>b, <2>c, <2>d
         DEF LockInv, Locks!TypeOK, WalkInv, HolderInv, OwnerInv, Leaving, LockWakeups,
             InHand
    <3>3. CASE grabbed' = [grabbed EXCEPT ![t] = list]
      <4>1. /\ grabbed'[t] = list
            /\ \A s \in LockUsers \ {t} : grabbed'[s] = grabbed[s]
            /\ \A s \in LockUsers : pc'[s] = "parked" => pc[s] = "parked"
        BY <2>d, <3>3 DEF LockInv, Locks!TypeOK
      <4>2. \A s \in LockUsers : ~In(s, grabbed[t])
        BY <2>a, <2>b
      <4>3. QED
        BY <2>d, <4>1, <4>2 DEF LockInv, LockWakeups, InHand
    <3>4. QED
      BY <3>1, <3>2, <3>3, <2>d DEF LockInv, Locks!TypeOK
  <2>7. QED
    BY <2>1, <2>2, <2>3, <2>4, <2>5, <2>6 DEF LockInv
<1>9. ASSUME NEW t \in LockUsers, Locks!SpinUntilUnlinked(t) PROVE LockInv'
  <2> USE <1>9 DEF Locks!SpinUntilUnlinked
  <2>1. Locks!TypeOK'
    BY DEF LockInv, Locks!TypeOK, Locks!Pcs
  <2>2. WalkInv'
    BY DEF LockInv, Locks!TypeOK, WalkInv
  <2>3. HolderInv'
    BY DEF LockInv, Locks!TypeOK, HolderInv
  <2>4. PlaceInv'
    BY DEF LockInv, Locks!TypeOK, PlaceInv
  <2>5. OwnerInv'
    BY DEF LockInv, Locks!TypeOK, OwnerInv, Leaving
  <2>6. LockWakeups'
    BY DEF LockInv, Locks!TypeOK, WalkInv, HolderInv, LockWakeups, InHand
  <2>7. QED
    BY <2>1, <2>2, <2>3, <2>4, <2>5, <2>6 DEF LockInv
<1>10. ASSUME NEW t \in LockUsers, Locks!Exit(t) PROVE LockInv'
  <2> USE <1>10 DEF Locks!Exit
  <2>a. \A x : ~In(x, <<>>)
    BY SmallStacks
  <2>b. grabbed[t] = <<>>
    BY DEF LockInv, WalkInv
  <2>d. Distinct(<<>>) /\ <<>> \in Seq(LockUsers)
    BY SmallStacks
  <2>1. Locks!TypeOK'
    BY <2>a, <2>b, <2>d DEF LockInv, Locks!TypeOK, Locks!Pcs
  <2>2. WalkInv'
    BY <2>a, <2>b, <2>d DEF LockInv, Locks!TypeOK, WalkInv
  <2>3. HolderInv'
    BY <2>a, <2>b, <2>d DEF LockInv, Locks!TypeOK, HolderInv
  <2>4. PlaceInv'
    BY <2>a, <2>b, <2>d DEF LockInv, Locks!TypeOK, PlaceInv
  <2>5. OwnerInv'
    BY <2>a, <2>b, <2>d DEF LockInv, Locks!TypeOK, PlaceInv, OwnerInv, Leaving
  <2>6. LockWakeups'
    <3>1. /\ grabbed'[t] = list /\ UNCHANGED <<wakeStack, unparked>>
          /\ \A s \in LockUsers : s # t => grabbed'[s] = grabbed[s]
          /\ \A s \in LockUsers : pc'[s] = "parked" => pc[s] = "parked"
      BY DEF LockInv, Locks!TypeOK
    <3>2. ASSUME NEW s \in LockUsers, InHand(s) PROVE InHand(s)'
      BY <2>a, <2>b, <3>1, <3>2 DEF InHand
    <3>3. ASSUME NEW s \in LockUsers, In(s, list) PROVE InHand(s)'
      BY <3>1, <3>3 DEF InHand
    <3>4. QED
      BY <3>1, <3>2, <3>3 DEF LockInv, LockWakeups
  <2>7. QED
    BY <2>1, <2>2, <2>3, <2>4, <2>5, <2>6 DEF LockInv
<1>11. ASSUME NEW t \in LockUsers, Locks!VisitEntry(t) PROVE LockInv'
  <2> USE <1>11 DEF Locks!VisitEntry
  <2> DEFINE e == Head(grabbed[t])
             rest == Tail(grabbed[t])
             push == <<e>> \o wakeStack[t]
  <2>a. grabbed[t] \in Seq(LockUsers) /\ wakeStack[t] \in Seq(LockUsers)
    BY DEF LockInv, Locks!TypeOK
  <2>b. /\ e \in LockUsers /\ rest \in Seq(LockUsers)
        /\ \A x : In(x, grabbed[t]) <=> x = e \/ In(x, rest)
        /\ Distinct(rest) /\ ~In(e, rest)
    BY <2>a, PopLemma DEF LockInv, PlaceInv
  <2>c. ~In(e, wakeStack[t])
    BY <2>b DEF LockInv, PlaceInv
  <2>d. /\ push \in Seq(LockUsers) /\ Distinct(push)
        /\ \A x : In(x, push) <=> x = e \/ In(x, wakeStack[t])
    BY <2>a, <2>b, <2>c, PushLemma DEF LockInv, PlaceInv
  <2>e. /\ grabbed' = [grabbed EXCEPT ![t] = rest]
        /\ \/ /\ count[e] = 1 /\ count' = [count EXCEPT ![e] = 0]
              /\ wakeStack' = [wakeStack EXCEPT ![t] = push]
              /\ UNCHANGED unlinked
           \/ /\ count[e] = 0 /\ unlinked' = [unlinked EXCEPT ![e] = 1]
              /\ UNCHANGED <<count, wakeStack>>
        /\ UNCHANGED <<busy, list, pc, timeout, unparked>>
        /\ pc[t] \in {"exit", "unparkAll"}
    OBVIOUS
  <2> HIDE <1>11 DEF e, rest, push
  <2>1. Locks!TypeOK'
    BY <2>a, <2>b, <2>c, <2>d, <2>e, ZenonT(30) DEF LockInv, Locks!TypeOK, Locks!Pcs
  <2>2. WalkInv'
    BY <2>a, <2>b, <2>c, <2>d, <2>e DEF LockInv, Locks!TypeOK, WalkInv
  <2>3. HolderInv'
    BY <2>a, <2>b, <2>c, <2>d, <2>e DEF LockInv, Locks!TypeOK, HolderInv
  <2>4. PlaceInv'
    <3>1. CASE count[e] = 1
      BY <3>1, <2>a, <2>b, <2>c, <2>d, <2>e, SMTT(30) DEF LockInv, Locks!TypeOK, PlaceInv
    <3>2. CASE count[e] = 0
      BY <3>2, <2>a, <2>b, <2>c, <2>d, <2>e DEF LockInv, Locks!TypeOK, PlaceInv
    <3>3. QED
      BY <3>1, <3>2, <2>e DEF LockInv, Locks!TypeOK
  <2>5. OwnerInv'
    <3>1. CASE count[e] = 1
      <4>1. /\ count'[e] = 0 /\ \A s \in LockUsers \ {e} : count'[s] = count[s]
            /\ grabbed'[t] = rest /\ wakeStack'[t] = push
            /\ \A s \in LockUsers \ {t} :
                 grabbed'[s] = grabbed[s] /\ wakeStack'[s] = wakeStack[s]
            /\ UNCHANGED <<list, pc, unparked, unlinked>>
        BY <2>b, <2>e, <3>1 DEF LockInv, Locks!TypeOK
      <4>2. pc[e] = "parked" /\ unparked[e] = 0
        BY <2>b, <3>1 DEF LockInv, OwnerInv
      <4>3. ~In(e, list) /\ \A s \in LockUsers : ~In(e, grabbed'[s])
        BY <2>b, <4>1 DEF LockInv, PlaceInv
      <4>4. \A s, x \in LockUsers :
              /\ In(x, grabbed'[s]) => In(x, grabbed[s])
              /\ In(x, wakeStack'[s]) => x = e \/ In(x, wakeStack[s])
        BY <2>b, <2>d, <4>1
      <4>5. QED
        BY <4>1, <4>2, <4>3, <4>4 DEF LockInv, OwnerInv
    <3>2. CASE count[e] = 0
      BY <3>2, <2>a, <2>b, <2>c, <2>d, <2>e
         DEF LockInv, Locks!TypeOK, PlaceInv, OwnerInv, Leaving
    <3>3. QED
      BY <3>1, <3>2, <2>e DEF LockInv, Locks!TypeOK
  <2>6. LockWakeups'
    <3>1. CASE count[e] = 1
      <4>1. /\ grabbed'[t] = rest /\ wakeStack'[t] = push
            /\ \A s \in LockUsers \ {t} :
                 grabbed'[s] = grabbed[s] /\ wakeStack'[s] = wakeStack[s]
        BY <2>e, <3>1 DEF LockInv, Locks!TypeOK
      <4>2. \A s, x \in LockUsers :
              In(x, grabbed[s]) \/ In(x, wakeStack[s]) =>
                In(x, grabbed'[s]) \/ In(x, wakeStack'[s])
        BY <2>b, <2>d, <4>1
      <4>3. QED
        BY <2>e, <4>2 DEF LockInv, LockWakeups, InHand
    <3>2. CASE count[e] = 0
      BY <3>2, <2>a, <2>b, <2>c, <2>d, <2>e, ZenonT(30)
         DEF LockInv, Locks!TypeOK, WalkInv, HolderInv, OwnerInv, Leaving, LockWakeups,
             InHand
    <3>3. QED
      BY <3>1, <3>2, <2>e DEF LockInv, Locks!TypeOK
  <2>7. QED
    BY <2>1, <2>2, <2>3, <2>4, <2>5, <2>6 DEF LockInv
<1>12. ASSUME NEW t \in LockUsers, Locks!UnparkEntry(t) PROVE LockInv'
  <2> USE <1>12 DEF Locks!UnparkEntry
  <2> DEFINE e == Head(wakeStack[t])
             rest == Tail(wakeStack[t])
  <2>a. wakeStack[t] \in Seq(LockUsers)
    BY DEF LockInv, Locks!TypeOK
  <2>b. /\ e \in LockUsers /\ rest \in Seq(LockUsers)
        /\ \A x : In(x, wakeStack[t]) <=> x = e \/ In(x, rest)
        /\ Distinct(rest) /\ ~In(e, rest)
    BY <2>a, PopLemma DEF LockInv, PlaceInv
  <2>c. /\ unparked' = [unparked EXCEPT ![e] = 1]
        /\ wakeStack' = [wakeStack EXCEPT ![t] = rest]
        /\ UNCHANGED <<busy, list, pc, timeout, count, unlinked, grabbed>>
        /\ wakeStack[t] # <<>>
    OBVIOUS
  <2> HIDE <1>12 DEF e, rest
  <2>1. Locks!TypeOK'
    BY <2>a, <2>b, <2>c DEF LockInv, Locks!TypeOK, Locks!Pcs
  <2>2. WalkInv'
    BY <2>a, <2>b, <2>c DEF LockInv, Locks!TypeOK, WalkInv
  <2>3. HolderInv'
    BY <2>a, <2>b, <2>c DEF LockInv, Locks!TypeOK, HolderInv
  <2>4. PlaceInv'
    BY <2>a, <2>b, <2>c, SMTT(30) DEF LockInv, Locks!TypeOK, PlaceInv
  <2>5. OwnerInv'
    BY <2>a, <2>b, <2>c, SMTT(30) DEF LockInv, Locks!TypeOK, PlaceInv, OwnerInv, Leaving
  <2>6. LockWakeups'
    BY <2>a, <2>b, <2>c, ZenonT(30)
       DEF LockInv, Locks!TypeOK, WalkInv, HolderInv, OwnerInv, Leaving, LockWakeups,
           InHand
  <2>7. QED
    BY <2>1, <2>2, <2>3, <2>4, <2>5, <2>6 DEF LockInv
<1>13. ASSUME NEW t \in LockUsers, Locks!UnparkDone(t) PROVE LockInv'
  <2> USE <1>13 DEF Locks!UnparkDone
  <2>1. Locks!TypeOK'
    BY DEF LockInv, Locks!TypeOK, Locks!Pcs
  <2>2. WalkInv'
    BY DEF LockInv, Locks!TypeOK, WalkInv
  <2>3. HolderInv'
    BY DEF LockInv, Locks!TypeOK, HolderInv
  <2>4. PlaceInv'
    BY DEF LockInv, Locks!TypeOK, PlaceInv
  <2>5. OwnerInv'
    BY DEF LockInv, Locks!TypeOK, OwnerInv, Leaving
  <2>6. LockWakeups'
    BY DEF LockInv, Locks!TypeOK, WalkInv, HolderInv, LockWakeups, InHand
  <2>7. QED
    BY <2>1, <2>2, <2>3, <2>4, <2>5, <2>6 DEF LockInv
<1>14. CASE UNCHANGED Locks!vars
  BY <1>14
     DEF Locks!vars, LockInv, Locks!TypeOK, WalkInv, HolderInv, PlaceInv, OwnerInv,
         LockWakeups, InHand
<1>15. QED
  BY <1>1, <1>2, <1>3, <1>4, <1>5, <1>6, <1>7, <1>8, <1>9, <1>10, <1>11,
     <1>12, <1>13, <1>14 DEF Locks!Next, Locks!ThreadStep

-----------------------------------------------------------------------------
(* The theorems about the lock. *)

\* In every reachable state of the lock the invariant holds.
THEOREM LockKeepsInvariant == Locks!Spec => []LockInv
<1>1. LockInv /\ [Locks!Next]_(Locks!vars) => LockInv'
  BY LockNext
<1>2. QED
  BY <1>1, LockInitially, PTL DEF Locks!Spec

\* Type correctness of the lock's state and of its waiters.
THEOREM LockTypeCorrect == Locks!Spec => []Locks!TypeOK
<1>1. LockInv => Locks!TypeOK
  BY DEF LockInv
<1>2. QED
  BY <1>1, LockKeepsInvariant, PTL

\* What the invariant promises: a thread parked by Lock_TryEnterTail is not forgotten, and
\* UnlinkListEntry returns only when nobody can reach the wait block.
LEMMA LockPromises == LockInv => Locks!NoLostWakeup /\ Locks!NoDanglingBlock
<1>1. LockInv => Locks!NoLostWakeup
  BY DEF LockInv, LockWakeups, InHand, Locks!NoLostWakeup, Locks!HeldBySomeone, Locks!In, In
<1>2. LockInv => Locks!NoDanglingBlock
  BY DEF LockInv, Locks!NoDanglingBlock, OwnerInv, Leaving, Locks!HeldBySomeone, Locks!In, In
<1>3. QED
  BY <1>1, <1>2

\* A step of the lock is a step of the mutex, or none.
LEMMA LockMutexStep ==
  ASSUME LockInv, [Locks!Next]_(Locks!vars)
  PROVE  [Locks!LockedMutex!Next]_(Locks!holders)
<1> USE DEF LockInv, Locks!TypeOK, HolderInv, Locks!holders, Locks!Step, Locks!LockedMutex!Next,
            Locks!LockedMutex!Acquire, Locks!LockedMutex!Release
<1>1. ASSUME NEW t \in LockUsers, NEW from, Locks!TryAcquire(t, from)
      PROVE  Locks!LockedMutex!Acquire(t)
  BY <1>1 DEF Locks!TryAcquire
<1>2. ASSUME NEW t \in LockUsers, Locks!Exit(t) PROVE Locks!LockedMutex!Release(t)
  BY <1>2 DEF Locks!Exit
<1>3. ASSUME NEW t \in LockUsers, NEW from, NEW to, Locks!Step(t, from, to),
             from # "held", to # "held"
      PROVE  UNCHANGED Locks!holders
  BY <1>3
<1> HIDE DEF LockInv, Locks!holders, Locks!Step, Locks!LockedMutex!Acquire, Locks!LockedMutex!Release
<1>4. ASSUME NEW t \in LockUsers, Locks!TryEnterEx(t) \/ Locks!Spin(t) \/ Locks!Enqueue(t)
                                \/ Locks!Unparked(t) \/ Locks!Cancelled(t) \/ Locks!Retry(t)
      PROVE  [Locks!LockedMutex!Next]_(Locks!holders)
  BY <1>1, <1>3, <1>4
     DEF Locks!TryEnterEx, Locks!Spin, Locks!Enqueue, Locks!Unparked, Locks!Cancelled, Locks!Retry, Locks!Occupied
<1>5. ASSUME NEW t \in LockUsers, Locks!UnlinkTest(t) \/ Locks!UnlinkGrab(t)
                                \/ Locks!SpinUntilUnlinked(t) \/ Locks!UnparkDone(t)
      PROVE  UNCHANGED Locks!holders
  BY <1>3, <1>5 DEF Locks!UnlinkTest, Locks!UnlinkGrab, Locks!SpinUntilUnlinked, Locks!UnparkDone
<1>6. ASSUME NEW t \in LockUsers, Locks!VisitEntry(t) \/ Locks!UnparkEntry(t)
      PROVE  UNCHANGED Locks!holders
  BY <1>6 DEF Locks!VisitEntry, Locks!UnparkEntry, Locks!holders
<1>7. CASE UNCHANGED Locks!vars
  BY <1>7 DEF Locks!vars, Locks!holders
<1>8. QED
  BY <1>2, <1>4, <1>5, <1>6, <1>7 DEF Locks!Next, Locks!ThreadStep

-----------------------------------------------------------------------------
(* The spin lock. *)

\* The stack in the order in which the threads came has the same threads.
LEMMA ReverseLemma ==
  ASSUME NEW T, NEW s \in Seq(T)
  PROVE  /\ SpinLocks!Reverse(s) \in Seq(T)
         /\ \A x : In(x, SpinLocks!Reverse(s)) <=> In(x, s)
         /\ Distinct(s) => Distinct(SpinLocks!Reverse(s))
<1> DEFINE r == SpinLocks!Reverse(s)
<1>1. Len(s) \in Nat /\ \A i \in 1..Len(s) : s[i] \in T
  OBVIOUS
<1>2. r \in Seq(T) /\ Len(r) = Len(s) /\ \A i \in 1..Len(s) : r[i] = s[(Len(s) - i) + 1]
  BY <1>1 DEF SpinLocks!Reverse
<1>3. \A i \in 1..Len(s) : (Len(s) - i) + 1 \in 1..Len(s)
  BY <1>1
<1>4. \A i \in 1..Len(s) : s[i] = r[(Len(s) - i) + 1]
  BY <1>1, <1>2, <1>3
<1> HIDE DEF r
<1>5. \A x : In(x, r) <=> In(x, s)
  <2>1. ASSUME NEW x, In(x, r) PROVE In(x, s)
    <3>1. PICK i \in 1..Len(s) : r[i] = x
      BY <1>2, <2>1 DEF In
    <3>2. (Len(s) - i) + 1 \in 1..Len(s) /\ s[(Len(s) - i) + 1] = x
      BY <1>2, <1>3, <3>1
    <3>3. QED
      BY <3>2 DEF In
  <2>2. ASSUME NEW x, In(x, s) PROVE In(x, r)
    <3>1. PICK i \in 1..Len(s) : s[i] = x
      BY <2>2 DEF In
    <3>2. (Len(s) - i) + 1 \in 1..Len(r) /\ r[(Len(s) - i) + 1] = x
      BY <1>2, <1>3, <1>4, <3>1
    <3>3. QED
      BY <3>2 DEF In
  <2>3. QED
    BY <2>1, <2>2
<1>6. ASSUME Distinct(s) PROVE Distinct(r)
  <2> SUFFICES ASSUME NEW i \in 1..Len(s), NEW j \in 1..Len(s), r[i] = r[j]
               PROVE  i = j
    BY <1>2 DEF Distinct
  <2>1. (Len(s) - i) + 1 = (Len(s) - j) + 1
    BY <1>2, <1>3, <1>6 DEF Distinct
  <2>2. QED
    BY <1>1, <2>1
<1>7. QED
  BY <1>2, <1>5, <1>6 DEF r

\* The lock has at most one holder, and none when it is free; a free lock has no
\* stack, and only a thread that is leaving has one in its hands.
SpinHolderInv ==
  /\ \A t \in LockUsers : pc[t] = "held" => busy = 1
  /\ \A s, t \in LockUsers : pc[s] = "held" /\ pc[t] = "held" => s = t
  /\ list # <<>> => busy = 1
  /\ \A t \in LockUsers : pc[t] # "release" => wakeStack[t] = <<>>

\* A parker is in one place, once, while its thread is parked and was not unparked.
SpinPlaceInv ==
  /\ Distinct(list) /\ \A s \in LockUsers : Distinct(wakeStack[s])
  /\ \A t, s \in LockUsers : In(t, list) => ~In(t, wakeStack[s])
  /\ \A t, s, r \in LockUsers : In(t, wakeStack[s]) /\ In(t, wakeStack[r]) => s = r
  /\ \A t \in LockUsers : In(t, list) \/ (\E s \in LockUsers : In(t, wakeStack[s])) =>
       pc[t] = "parked" /\ unparked[t] = 0

\* A parked thread is on the stack of a busy lock, or a releaser has it in hand, or it was
\* unparked.
SpinWakeups ==
  \A t \in LockUsers : pc[t] = "parked" =>
    \/ unparked[t] = 1
    \/ busy = 1 /\ In(t, list)
    \/ \E s \in LockUsers : In(t, wakeStack[s])

\* The inductive invariant of the spin lock.
SpinInv == SpinLocks!TypeOK /\ SpinHolderInv /\ SpinPlaceInv /\ SpinWakeups

\* Initially nobody waits.
LEMMA SpinInit == SpinLocks!Init => SpinInv
BY SmallStacks
   DEF SpinLocks!Init, SpinInv, SpinLocks!TypeOK, SpinHolderInv, SpinPlaceInv, SpinWakeups

\* Every step of the spin lock keeps the invariant.
LEMMA SpinNext == ASSUME SpinInv, [SpinLocks!Next]_(SpinLocks!vars) PROVE SpinInv'
<1> USE DEF SpinLocks!Step, SpinLocks!TryAcquireSpinLock, SpinLocks!Occupied, SpinInv,
            SpinLocks!TypeOK, SpinHolderInv, SpinPlaceInv, SpinWakeups
<1>1. ASSUME NEW t \in LockUsers, SpinLocks!AcquireSpinLock(t) PROVE SpinInv'
  <2>1. PICK to \in {"spin", "enqueue", "held"} :
          /\ pc[t] \in {"out", "spin"} /\ pc' = [pc EXCEPT ![t] = to]
          /\ busy = (IF to = "held" THEN 0 ELSE 1) /\ busy' = 1
          /\ UNCHANGED <<list, unparked, wakeStack>>
    BY <1>1 DEF SpinLocks!AcquireSpinLock
  <2>2. SpinLocks!TypeOK' /\ SpinHolderInv'
    BY <2>1
  <2>3. SpinPlaceInv'
    BY <2>1
  <2>4. SpinWakeups'
    BY <2>1
  <2>5. QED
    BY <2>2, <2>3, <2>4
<1>2. ASSUME NEW t \in LockUsers, SpinLocks!Enqueue(t) PROVE SpinInv'
  <2>1. CASE SpinLocks!TryAcquireSpinLock(t, "enqueue") /\ UNCHANGED <<list, unparked, wakeStack>>
    BY <2>1
  <2>2. CASE /\ SpinLocks!Occupied(t, "enqueue", "parked") /\ list' = <<t>> \o list
             /\ unparked' = [unparked EXCEPT ![t] = 0] /\ UNCHANGED wakeStack
    <3>1. /\ list' \in Seq(LockUsers) /\ list' # <<>>
          /\ \A x : In(x, list') <=> x = t \/ In(x, list)
          /\ Distinct(list) /\ ~In(t, list) => Distinct(list')
      BY <2>2, PushLemma
    <3>2. ~In(t, list) /\ \A s \in LockUsers : ~In(t, wakeStack[s])
      BY <2>2
    <3>3. SpinLocks!TypeOK' /\ SpinHolderInv'
      BY <2>2, <3>1
    <3>4. SpinPlaceInv'
      BY <2>2, <3>1, <3>2, ZenonT(30)
    <3>5. SpinWakeups'
      BY <2>2, <3>1, SMTT(30)
    <3>6. QED
      BY <3>3, <3>4, <3>5
  <2>3. QED
    BY <1>2, <2>1, <2>2 DEF SpinLocks!Enqueue
<1>3. ASSUME NEW t \in LockUsers, SpinLocks!Unparked(t) PROVE SpinInv'
  BY <1>3 DEF SpinLocks!Unparked
<1>4. ASSUME NEW t \in LockUsers, SpinLocks!ReleaseSpinLock(t) PROVE SpinInv'
  <2> USE <1>4 DEF SpinLocks!ReleaseSpinLock
  <2>1. /\ SpinLocks!Reverse(list) \in Seq(LockUsers) /\ Distinct(SpinLocks!Reverse(list))
        /\ \A x : In(x, SpinLocks!Reverse(list)) <=> In(x, list)
    BY ReverseLemma
  <2>2. Distinct(list') /\ \A x : ~In(x, list')
    BY SmallStacks
  <2>3. /\ wakeStack'[t] = SpinLocks!Reverse(list)
        /\ \A s \in LockUsers \ {t} : wakeStack'[s] = wakeStack[s]
    OBVIOUS
  <2>4. wakeStack[t] = <<>> /\ \A x : ~In(x, wakeStack[t])
    BY SmallStacks
  <2>5. SpinLocks!TypeOK' /\ SpinHolderInv'
    BY <2>1
  <2>6. SpinPlaceInv'
    BY <2>1, <2>2, <2>3
  <2>7. SpinWakeups'
    BY <2>1, <2>3, <2>4, ZenonT(30)
  <2>8. QED
    BY <2>5, <2>6, <2>7
<1>5. ASSUME NEW t \in LockUsers, SpinLocks!UnparkThread(t) PROVE SpinInv'
  <2> USE <1>5 DEF SpinLocks!UnparkThread
  <2> DEFINE e == Head(wakeStack[t])
  <2>1. wakeStack[t] \in Seq(LockUsers)
    OBVIOUS
  <2>2. /\ e \in LockUsers /\ Tail(wakeStack[t]) \in Seq(LockUsers)
        /\ \A x : In(x, wakeStack[t]) <=> x = e \/ In(x, Tail(wakeStack[t]))
        /\ Distinct(Tail(wakeStack[t])) /\ ~In(e, Tail(wakeStack[t]))
    BY <2>1, PopLemma
  <2>3. /\ wakeStack'[t] = Tail(wakeStack[t])
        /\ \A s \in LockUsers \ {t} : wakeStack'[s] = wakeStack[s]
    OBVIOUS
  <2> HIDE DEF e
  <2>4. unparked' = [unparked EXCEPT ![e] = 1]
    BY DEF e
  <2>5. SpinLocks!TypeOK' /\ SpinHolderInv'
    BY <2>2, <2>4
  <2>6. SpinPlaceInv'
    <3>1. \A s \in LockUsers : ~In(e, wakeStack'[s]) /\ ~In(e, list')
      BY <2>2, <2>3
    <3>2. \A x, s : s \in LockUsers /\ In(x, wakeStack'[s]) => In(x, wakeStack[s]) /\ x # e
      BY <2>2, <2>3, <3>1
    <3>3. Distinct(list') /\ \A s \in LockUsers : Distinct(wakeStack'[s])
      BY <2>2, <2>3
    <3>4. /\ \A x \in LockUsers : In(x, list') => In(x, list) /\ x # e
          /\ UNCHANGED pc /\ \A x \in LockUsers \ {e} : unparked'[x] = unparked[x]
      BY <2>4, <3>1, <2>1
    <3>5. ASSUME NEW x \in LockUsers, In(x, list') \/ \E s \in LockUsers : In(x, wakeStack'[s])
          PROVE  pc'[x] = "parked" /\ unparked'[x] = 0
      BY <3>2, <3>4, <3>5
    <3>6. \A x, s \in LockUsers : In(x, list') => ~In(x, wakeStack'[s])
      BY <3>2, <3>4
    <3>7. \A x, s, r \in LockUsers :
            In(x, wakeStack'[s]) /\ In(x, wakeStack'[r]) => s = r
      BY <3>2
    <3>8. QED
      BY <3>3, <3>5, <3>6, <3>7
  <2>7. SpinWakeups'
    <3>1. ASSUME NEW x \in LockUsers, x # e, NEW s \in LockUsers, In(x, wakeStack[s])
          PROVE  In(x, wakeStack'[s])
      BY <2>2, <2>3, <3>1
    <3>2. unparked'[e] = 1 /\ \A x \in LockUsers \ {e} : unparked'[x] = unparked[x]
      BY <2>2, <2>4
    <3>3. QED
      BY <3>1, <3>2
  <2>8. QED
    BY <2>5, <2>6, <2>7
<1>6. ASSUME NEW t \in LockUsers, SpinLocks!UnparkDone(t) PROVE SpinInv'
  BY <1>6 DEF SpinLocks!UnparkDone
<1>7. CASE UNCHANGED SpinLocks!vars
  BY <1>7 DEF SpinLocks!vars
<1> HIDE DEF SpinInv
<1>8. QED
  BY <1>1, <1>2, <1>3, <1>4, <1>5, <1>6, <1>7 DEF SpinLocks!Next, SpinLocks!ThreadStep

\* It holds in every behaviour.
LEMMA SpinInvariance == SpinLocks!Spec => []SpinInv
<1>1. SpinInv /\ [SpinLocks!Next]_(SpinLocks!vars) => SpinInv'
  BY SpinNext
<1>2. QED
  BY <1>1, SpinInit, PTL DEF SpinLocks!Spec

\* What the invariant promises: no thread parked by AcquireSpinLock is forgotten, and no
\* parker of a thread that has gone on is in a stack.
LEMMA SpinPromises == SpinInv => SpinLocks!NoLostWakeup /\ SpinLocks!ParkersLeave
<1>1. SpinInv => SpinLocks!NoLostWakeup
  BY DEF SpinInv, SpinWakeups, SpinLocks!NoLostWakeup, SpinLocks!In, In
<1>2. SpinInv => SpinLocks!ParkersLeave
  BY DEF SpinInv, SpinPlaceInv, SpinLocks!ParkersLeave, SpinLocks!In, In
<1>3. QED
  BY <1>1, <1>2

\* A thread parked by AcquireSpinLock is never forgotten, though the lock is free,
\* and taken by others, while its releaser still walks the stack.
THEOREM SpinWakeupsKept == SpinLocks!Spec => []SpinLocks!NoLostWakeup
<1>1. SpinInv => SpinLocks!NoLostWakeup
  BY SpinPromises
<1>2. QED
  BY <1>1, SpinInvariance, PTL

\* ReleaseSpinLockWaiters touches no parker of a thread that has gone on.
THEOREM ParkersUnlinked == SpinLocks!Spec => []SpinLocks!ParkersLeave
<1>1. SpinInv => SpinLocks!ParkersLeave
  BY SpinPromises
<1>2. QED
  BY <1>1, SpinInvariance, PTL

\* A step of the spin lock is a step of the mutex, or none.
LEMMA SpinMutexStep ==
  ASSUME SpinInv, [SpinLocks!Next]_(SpinLocks!vars)
  PROVE  [SpinLocks!SpinMutex!Next]_(SpinLocks!holders)
<1> USE DEF SpinInv, SpinLocks!TypeOK, SpinHolderInv, SpinLocks!holders,
                 SpinLocks!Step, SpinLocks!SpinMutex!Next,
                 SpinLocks!SpinMutex!Acquire, SpinLocks!SpinMutex!Release
<1>1. ASSUME NEW t \in LockUsers, NEW from, SpinLocks!TryAcquireSpinLock(t, from)
      PROVE  SpinLocks!SpinMutex!Acquire(t)
  BY <1>1 DEF SpinLocks!TryAcquireSpinLock
<1>2. ASSUME NEW t \in LockUsers, SpinLocks!ReleaseSpinLock(t) PROVE SpinLocks!SpinMutex!Release(t)
  BY <1>2 DEF SpinLocks!ReleaseSpinLock
<1>3. ASSUME NEW t \in LockUsers, NEW from, NEW to, SpinLocks!Step(t, from, to),
             from # "held", to # "held"
      PROVE  UNCHANGED SpinLocks!holders
  BY <1>3
<1> HIDE DEF SpinInv, SpinLocks!holders, SpinLocks!Step, SpinLocks!SpinMutex!Acquire,
             SpinLocks!SpinMutex!Release
<1>4. ASSUME NEW t \in LockUsers, SpinLocks!AcquireSpinLock(t) \/ SpinLocks!Enqueue(t)
      PROVE  [SpinLocks!SpinMutex!Next]_(SpinLocks!holders)
  BY <1>1, <1>3, <1>4 DEF SpinLocks!AcquireSpinLock, SpinLocks!Enqueue, SpinLocks!Occupied
<1>5. ASSUME NEW t \in LockUsers, SpinLocks!Unparked(t) \/ SpinLocks!UnparkDone(t)
      PROVE  UNCHANGED SpinLocks!holders
  BY <1>3, <1>5 DEF SpinLocks!Unparked, SpinLocks!UnparkDone
<1>6. ASSUME NEW t \in LockUsers, SpinLocks!UnparkThread(t) PROVE UNCHANGED SpinLocks!holders
  BY <1>6 DEF SpinLocks!UnparkThread, SpinLocks!holders
<1>7. CASE UNCHANGED SpinLocks!vars
  BY <1>7 DEF SpinLocks!vars, SpinLocks!holders
<1>8. QED
  BY <1>2, <1>4, <1>5, <1>6, <1>7 DEF SpinLocks!Next, SpinLocks!ThreadStep

\* The spin lock implements a mutex.
THEOREM SpinImplementsMutex == SpinLocks!Spec => SpinLocks!Exclusive
<1>1. SpinLocks!Init => SpinLocks!SpinMutex!Init
  BY DEF SpinLocks!Init, SpinLocks!SpinMutex!Init, SpinLocks!holders
<1>2. SpinInv /\ [SpinLocks!Next]_(SpinLocks!vars)
        => [SpinLocks!SpinMutex!Next]_(SpinLocks!holders)
  BY SpinMutexStep
<1>3. QED
  BY <1>1, <1>2, SpinInvariance, PTL
     DEF SpinLocks!Spec, SpinLocks!Exclusive, SpinLocks!SpinMutex!Spec

-----------------------------------------------------------------------------
(* The fair lock. *)

Hnd == INSTANCE QueuedSynchronizerProofs
       WITH Threads <- LockUsers, Requests <- {1}, InitialState <- 1,
            pc <- qpc, list <- queue, grabbed <- moved, unparked <- released,
            Available <- FairLocks!Available, Take <- FairLocks!Take, Undo <- FairLocks!Undo,
            Exhausted <- FairLocks!Exhausted, ForceUnlock <- FairLocks!ForceUnlock,
            StopAfter <- FairLocks!StopAfter

\* The fair lock takes its steps from the protocol.
LEMMA FairSteps ==
  ASSUME NEW t \in LockUsers
  PROVE  /\ FairLocks!SyncStep(t) <=> Hnd!SyncStep(t)
         /\ FairLocks!ParkCancelled(t) <=> Hnd!ParkCancelled(t)
         /\ FairLocks!ForgetBlock(t) <=> Hnd!ForgetBlock(t)
         /\ \A r : FairLocks!Call(t, r) <=> Hnd!Call(t, r)
         /\ \A new, look : FairLocks!Give(t, new, look) <=> Hnd!Give(t, new, look)
BY DEF FairLocks!SyncStep, Hnd!SyncStep, FairLocks!Queue, Hnd!Queue, FairLocks!QueueStep, Hnd!QueueStep,
       FairLocks!EnqueueInLockedQueue, Hnd!EnqueueInLockedQueue, FairLocks!TakeLock, Hnd!TakeLock,
       FairLocks!UnlockPublish, Hnd!UnlockPublish, FairLocks!UnlockCas, Hnd!UnlockCas, FairLocks!Freed,
       Hnd!Freed, FairLocks!UnlockGrab, Hnd!UnlockGrab, FairLocks!ProcessLockQueue, Hnd!ProcessLockQueue,
       FairLocks!InsertBehind, Hnd!InsertBehind, FairLocks!ProcessDone, Hnd!ProcessDone,
       FairLocks!WakeLocker, Hnd!WakeLocker, FairLocks!TryLockLockedQueue, Hnd!TryLockLockedQueue,
       FairLocks!LockTest, Hnd!LockTest, FairLocks!LockTry, Hnd!LockTry, FairLocks!LockUnparked,
       Hnd!LockUnparked, FairLocks!TryAcquire, Hnd!TryAcquire, FairLocks!TryRead, Hnd!TryRead,
       FairLocks!TryEmpty, Hnd!TryEmpty, FairLocks!TryCas, Hnd!TryCas, FairLocks!AcquireTail,
       Hnd!AcquireTail, FairLocks!TryFails, Hnd!TryFails, FairLocks!Enqueued, Hnd!Enqueued,
       FairLocks!ParkSuccess, Hnd!ParkSuccess, FairLocks!CancelAcquire, Hnd!CancelAcquire,
       FairLocks!ParkCancelled, Hnd!ParkCancelled, FairLocks!Call, Hnd!Call, FairLocks!ForgetBlock,
       Hnd!ForgetBlock, FairLocks!Without, Hnd!Without, FairLocks!ReleaseWaiters, Hnd!ReleaseWaiters,
       FairLocks!IsReleasePending, Hnd!IsReleasePending, FairLocks!CheckState, Hnd!CheckState,
       FairLocks!AcquireForFront, Hnd!AcquireForFront, FairLocks!TryLockParker, Hnd!TryLockParker,
       FairLocks!UnparkThread, Hnd!UnparkThread, FairLocks!UndoAcquire, Hnd!UndoAcquire,
       FairLocks!LeaveLoop, Hnd!LeaveLoop, FairLocks!TryUnlock, Hnd!TryUnlock, FairLocks!FrontCanAcquire,
       Hnd!FrontCanAcquire, FairLocks!Give, Hnd!Give, FairLocks!Step, Hnd!Step, FairLocks!FrontRequest,
       Hnd!FrontRequest, FairLocks!IsLockedQueueEmpty, Hnd!IsLockedQueueEmpty, FairLocks!WaitBlock,
       Hnd!WaitBlock, FairLocks!LockBlock, Hnd!LockBlock, FairLocks!queueVars, Hnd!queueVars,
       FairLocks!blockVars, Hnd!blockVars, FairLocks!lockVars, Hnd!lockVars, FairLocks!stateVars,
       Hnd!stateVars, FairLocks!In, Hnd!In

\* So are its initial state and its properties.
LEMMA FairFacts ==
  /\ FairLocks!SyncInit <=> Hnd!SyncInit
  /\ FairLocks!NoStarvedFront <=> Hnd!NoStarvedFront
  /\ FairLocks!QueueLockExclusive <=> Hnd!QueueLockExclusive
  /\ FairLocks!BlockLifetime <=> Hnd!BlockLifetime
  /\ FairLocks!RemoveListed <=> Hnd!RemoveListed
BY DEF FairLocks!FLOCK_FREE, FairLocks!SyncInit, Hnd!SyncInit, FairLocks!QueueInit, Hnd!QueueInit, FairLocks!NoStarvedFront,
       Hnd!NoStarvedFront, FairLocks!Looking, Hnd!Looking, FairLocks!QueueLockExclusive,
       Hnd!QueueLockExclusive, FairLocks!HolderPcs, Hnd!HolderPcs, FairLocks!QueueHolderPcs,
       Hnd!QueueHolderPcs, FairLocks!ReleasePcs, Hnd!ReleasePcs, FairLocks!BlockLifetime, Hnd!BlockLifetime,
       FairLocks!Queued, Hnd!Queued, FairLocks!Lockers, Hnd!Lockers, FairLocks!WaitFrame, Hnd!WaitFrame,
       FairLocks!FramelessPcs, Hnd!FramelessPcs, FairLocks!Blocks, Hnd!Blocks, FairLocks!RemoveListed,
       Hnd!RemoveListed, FairLocks!WaitBlock, Hnd!WaitBlock, FairLocks!LockBlock, Hnd!LockBlock,
       FairLocks!In, Hnd!In

\* The lock is free, in the hands of a releaser, or had by one thread that may not have
\* woken up yet.
FairInv ==
  /\ Hnd!QInv /\ Hnd!AskedInv /\ Hnd!TakenInv /\ Hnd!StarveInv
  /\ state \in {0, 1}
  /\ state = 1 => taken = 0
  /\ state = 1 \/ taken # 0 => \A t \in LockUsers : ~Hnd!Has(t)
  /\ \A t, u \in LockUsers : Hnd!Has(t) /\ Hnd!Has(u) => t = u

\* Initially the lock is free.
LEMMA FairInitially == ASSUME FairLocks!Init PROVE FairInv
<1>1. Hnd!SyncInit /\ Hnd!RequestsAssumption
  BY FairFacts, FairAssumption DEF FairLocks!FairLockAssumption, FairLocks!Init, Hnd!RequestsAssumption
<1>2. Hnd!QInv /\ Hnd!TakenInv
  BY <1>1, Hnd!QInvInitially, Hnd!TakenInvInitially
<1>3. Hnd!AskedInv /\ Hnd!StarveInv
  BY <1>1 DEF Hnd!SyncInit, Hnd!QueueInit, Hnd!AskedInv, Hnd!Cancelling, Hnd!StarveInv
<1>4. state = 1 /\ taken = 0 /\ \A t \in LockUsers : ~Hnd!Has(t)
  BY <1>1 DEF Hnd!SyncInit, Hnd!QueueInit, Hnd!Has
<1>5. QED
  BY <1>2, <1>3, <1>4 DEF FairInv

\* Every operation of the fair lock keeps its invariant.
LEMMA FairNext == ASSUME FairInv, FairLocks!Next PROVE FairInv'
<1> USE DEF FairInv
<1>1. Hnd!RequestsAssumption
  BY FairAssumption DEF Hnd!RequestsAssumption, FairLocks!FairLockAssumption
<1>2. PICK t \in LockUsers : FairLocks!Enter(t) \/ FairLocks!Exit(t) \/ FairLocks!SyncStep(t) \/ FairLocks!ParkCancelled(t)
  BY DEF FairLocks!Next
<1>3. CASE FairLocks!Enter(t) \/ FairLocks!SyncStep(t) \/ FairLocks!ParkCancelled(t)
  <2>1. Hnd!SyncStep(t) \/ Hnd!ParkCancelled(t) \/ \E r \in {1} : Hnd!Call(t, r)
    BY <1>3, FairSteps DEF FairLocks!Enter, FairLocks!ACQUIRE
  <2>2. Hnd!QInv' /\ Hnd!AskedInv'
    BY <1>1, <2>1, Hnd!SyncLemma, Hnd!AcquireLemma, Hnd!CallLemma, Hnd!AskedLemma
  <2>3. /\ DOMAIN seen = LockUsers
        /\ \A r, q \in {1} : FairLocks!Available(FairLocks!Take(state, r), q) => FairLocks!Available(state, q)
    BY DEF FairLocks!Available, FairLocks!Take, FairLocks!FLOCK_BUSY, Hnd!TakenInv
  <2>4. Hnd!StarveInv'
    BY <1>1, <2>1, <2>3, Hnd!StarveStepLemma, Hnd!StarveCallLemma
  <2>5. /\ Hnd!TakenInv'
        /\ Hnd!Quiet \/ Hnd!Takes(t) \/ Hnd!Grants(t) \/ Hnd!TakesForFront \/ Hnd!GivesBack
    BY <2>1, Hnd!EffectLemma
  <2>6. CASE Hnd!Quiet \/ Hnd!TakesForFront \/ Hnd!GivesBack
    <3>1. \A s \in LockUsers : Hnd!Has(s)' <=> Hnd!Has(s)
      BY <2>6 DEF Hnd!Quiet, Hnd!TakesForFront, Hnd!GivesBack, Hnd!Keeps
    <3>2. \/ UNCHANGED <<state, taken>>
          \/ state = 1 /\ state' = 0
          \/ taken # 0 /\ taken' = 0 /\ state' = 1
      BY <2>6 DEF Hnd!Quiet, Hnd!TakesForFront, Hnd!GivesBack, FairLocks!Available, FairLocks!Take, FairLocks!Undo,
                  FairLocks!FLOCK_BUSY, FairLocks!FLOCK_FREE
    <3>3. QED
      BY <2>2, <2>4, <2>5, <3>1, <3>2
  <2>7. CASE Hnd!Takes(t)
    <3>1. state = 1 /\ state' = 0 /\ taken' = 0
      BY <2>7 DEF Hnd!Takes, FairLocks!Available, FairLocks!Take, FairLocks!FLOCK_BUSY
    <3>2. \A s \in LockUsers \ {t} : ~Hnd!Has(s)'
      BY <2>7, <3>1 DEF Hnd!Takes, Hnd!Keeps
    <3>3. QED
      BY <2>2, <2>4, <2>5, <3>1, <3>2
  <2>8. CASE Hnd!Grants(t)
    <3>1. taken # 0 /\ taken' = 0 /\ state' = state /\ state = 0
      BY <2>8 DEF Hnd!Grants
    <3>2. PICK e \in LockUsers : \A s \in LockUsers \ {e} : ~Hnd!Has(s)'
      BY <2>8, <3>1 DEF Hnd!Grants, Hnd!Keeps
    <3>3. QED
      BY <2>2, <2>4, <2>5, <3>1, <3>2
  <2>9. QED
    BY <2>5, <2>6, <2>7, <2>8
<1>4. CASE FairLocks!Exit(t)
  <2>1. qpc[t] = "holding" /\ Hnd!ForgetBlock(t) /\ Hnd!Give(t, 1, TRUE)
    BY <1>4, FairSteps DEF FairLocks!Exit, FairLocks!FLOCK_FREE
  <2>2. Hnd!QInv' /\ Hnd!AskedInv'
    BY <1>1, <2>1, Hnd!GiveLemma, Hnd!AskedLemma
  <2>3. Hnd!Leaves(t) /\ UNCHANGED <<taken, seen>> /\ state' = 1
    BY <2>1 DEF Hnd!Leaves, Hnd!Give, Hnd!QInv, Hnd!QType
  <2>4. Hnd!TakenInv' /\ Hnd!Keeps({t}) /\ ~Hnd!Has(t)' /\ Hnd!Has(t)
    BY <2>1, <2>3, Hnd!LeavesTakenLemma
  <2>5. Hnd!StarveInv'
    BY <1>1, <2>1, Hnd!StarveGiveLemma DEF Hnd!TakenInv
  <2>6. \A s \in LockUsers : ~Hnd!Has(s)'
    BY <2>4 DEF Hnd!Keeps
  <2>7. QED
    BY <2>2, <2>3, <2>4, <2>5, <2>6
<1>5. QED
  BY <1>2, <1>3, <1>4

\* Nothing happens.
LEMMA FairStutters == ASSUME FairInv, UNCHANGED FairLocks!vars PROVE FairInv'
<1> USE DEF FairInv
<1>1. UNCHANGED <<locked, pending, queue, frontRequest, privateQueue, force, oldLen, moved, request, count, released,
                  unlinked, lockGranted, wakeQueue, qpc, state, seen, entry, taken, ret>>
  BY DEF FairLocks!vars, FairLocks!syncVars, FairLocks!queueVars, FairLocks!blockVars, FairLocks!lockVars, FairLocks!stateVars
<1>2. Hnd!QInv'
  BY <1>1, Hnd!StutterLemma DEF Hnd!queueVars, Hnd!blockVars, Hnd!lockVars
<1>3. Hnd!AskedInv' /\ Hnd!TakenInv' /\ Hnd!StarveInv'
  BY <1>1 DEF Hnd!AskedInv, Hnd!TakenInv, Hnd!Serves, Hnd!StarveInv, Hnd!Fresh, Hnd!FrontRequest, FairLocks!Available
<1>4. \A t \in LockUsers : Hnd!Has(t)' <=> Hnd!Has(t)
  BY <1>1 DEF Hnd!Has
<1>5. QED
  BY <1>1, <1>2, <1>3, <1>4

\* An operation of the fair lock is a step of the mutex, or none.
LEMMA FairMutexStep == ASSUME FairInv, FairInv', FairLocks!Next PROVE [FairLocks!HandedLock!Next]_(FairLocks!Holders)
<1>0. /\ \A s \in FairLocks!Holders : s \in LockUsers /\ Hnd!Has(s)
      /\ \A s \in FairLocks!Holders' : s \in LockUsers /\ Hnd!Has(s)'
  BY DEF FairLocks!Holders, Hnd!Has
<1>1. PICK t \in LockUsers : FairLocks!Enter(t) \/ FairLocks!Exit(t) \/ FairLocks!SyncStep(t) \/ FairLocks!ParkCancelled(t)
  BY DEF FairLocks!Next
<1>2. CASE FairLocks!Enter(t) \/ FairLocks!SyncStep(t) \/ FairLocks!ParkCancelled(t)
  <2>1. Hnd!SyncStep(t) \/ Hnd!ParkCancelled(t) \/ \E r \in {1} : Hnd!Call(t, r)
    BY <1>2, FairSteps DEF FairLocks!Enter, FairLocks!ACQUIRE
  <2>2. /\ \A s \in LockUsers \ {t} : qpc'[s] = qpc[s]
        /\ qpc[t] # "holding"
    BY <2>1, Hnd!HoldersLemma DEF FairInv
  <2>3. CASE qpc'[t] = "holding"
    <3>1. FairLocks!Holders' = FairLocks!Holders \cup {t}
      BY <2>2, <2>3 DEF FairLocks!Holders
    <3>2. FairLocks!Holders' = {t}
      BY <1>0, <3>1 DEF FairInv
    <3>3. FairLocks!Holders = {}
      BY <2>2, <3>1, <3>2 DEF FairLocks!Holders
    <3>4. FairLocks!HandedLock!Acquire(t)
      BY <3>2, <3>3 DEF FairLocks!HandedLock!Acquire
    <3>5. QED
      BY <3>4 DEF FairLocks!HandedLock!Next
  <2>4. CASE qpc'[t] # "holding"
    BY <2>2, <2>4 DEF FairLocks!Holders
  <2>5. QED
    BY <2>3, <2>4
<1>3. CASE FairLocks!Exit(t)
  <2>1. /\ qpc[t] = "holding" /\ qpc'[t] # "holding"
        /\ \A s \in LockUsers \ {t} : qpc'[s] = qpc[s]
    BY <1>3 DEF FairLocks!Exit, FairLocks!Give, FairInv, Hnd!QInv, Hnd!QType
  <2>2. FairLocks!Holders' = FairLocks!Holders \ {t} /\ t \in FairLocks!Holders
    BY <2>1 DEF FairLocks!Holders
  <2>3. FairLocks!Holders = {t}
    BY <1>0, <2>2 DEF FairInv
  <2>4. FairLocks!HandedLock!Release(t)
    BY <2>2, <2>3 DEF FairLocks!HandedLock!Release
  <2>5. QED
    BY <2>4 DEF FairLocks!HandedLock!Next
<1>4. QED
  BY <1>1, <1>2, <1>3

\* Whatever is chosen, the fair lock's invariant holds, if it is the one.
MCFairInv == which = "fair" => FairInv

LEMMA FairKept == ASSUME MCFairInv, [MCNext]_(MCVars) PROVE MCFairInv'
<1>1. CASE MCNext
  BY <1>1, FairNext DEF MCNext, Others, MCFairInv
<1>2. CASE UNCHANGED MCVars
  <2>1. which' = which /\ UNCHANGED FairLocks!vars
    BY <1>2 DEF MCVars, fairOnly, shared, FairLocks!vars, FairLocks!syncVars, FairLocks!queueVars, FairLocks!blockVars,
                FairLocks!lockVars, FairLocks!stateVars
  <2>2. QED
    BY <2>1, FairStutters DEF MCFairInv
<1>3. QED
  BY <1>1, <1>2

THEOREM FairLockKeepsInvariant == LocksSpec => []MCFairInv
<1>1. MCInit({"fair"} \cup Stacks) => MCFairInv
  BY FairInitially DEF MCInit, MCFairInv
<1>2. MCFairInv /\ [MCNext]_(MCVars) => MCFairInv'
  BY FairKept
<1>3. QED
  BY <1>1, <1>2, PTL DEF LocksSpec

\* Its queue is sound (QueuedSynchronizer.BlockLifetime), and no waiter is left in front of a free lock.
FairQueueSound ==
  which = "fair" =>
    /\ FairLocks!QueueLockExclusive /\ FairLocks!BlockLifetime /\ FairLocks!RemoveListed
    /\ FairLocks!NoStarvedFront

THEOREM FairLockIsSound == LocksSpec => []FairQueueSound
<1>1. MCFairInv => FairQueueSound
  BY Hnd!SoundLemma, Hnd!ServedLemma, FairFacts DEF MCFairInv, FairInv, FairQueueSound
<1>2. QED
  BY <1>1, FairLockKeepsInvariant, PTL

\* The fair lock implements the mutex: though it is handed over to a waiter that may have given
\* up, no two threads hold it.
THEOREM FairLockIsExclusive == LocksSpec => FairExclusive
<1>1. MCInit({"fair"} \cup Stacks) => FairLocks!HandedLock!Init
  BY FairFacts DEF MCInit, NoFair, FairLocks!Init, Hnd!SyncInit, FairLocks!HandedLock!Init, FairLocks!Holders
<1>2. MCFairInv /\ MCFairInv' /\ [MCNext]_(MCVars) => [FairLocks!HandedLock!Next]_(FairLocks!Holders)
  <2>1. ASSUME UNCHANGED qpc PROVE FairLocks!Holders' = FairLocks!Holders
    BY <2>1 DEF FairLocks!Holders
  <2>2. MCNext /\ which # "fair" => UNCHANGED qpc
    BY DEF MCNext, Others, fairOnly, shared
  <2>3. UNCHANGED MCVars => UNCHANGED qpc
    BY DEF MCVars, fairOnly, shared
  <2>4. MCNext => which' = which
    BY DEF MCNext, Others
  <2>5. QED
    BY <2>1, <2>2, <2>3, <2>4, FairMutexStep DEF MCNext, MCFairInv
<1>3. QED
  BY <1>1, <1>2, FairLockKeepsInvariant, PTL DEF LocksSpec, FairExclusive, FairLocks!FairExclusive, FairLocks!HandedLock!Spec
-----------------------------------------------------------------------------
(* The locks: the theorems. *)

\* The invariant of the lock that was chosen.
LocksInv ==
  /\ which \in {"fair"} \cup Stacks
  /\ which = "lock" => LockInv
  /\ which = "spin" => SpinInv

\* Every step of the systems of LocksSpec keeps it.
LEMMA LocksNext == ASSUME LocksInv, [MCNext]_MCVars PROVE LocksInv'
<1>1. which' = which
  BY DEF MCNext, Others, MCVars
<1>2. ASSUME which = "lock" PROVE LockInv'
  <2>1. [Locks!Next]_(Locks!vars)
    BY <1>2 DEF MCNext, MCVars, Locks!vars, stackOnly, shared
  <2>2. QED
    BY <1>2, <2>1, LockNext DEF LocksInv
<1>3. ASSUME which = "spin" PROVE SpinInv'
  <2>1. [SpinLocks!Next]_(SpinLocks!vars)
    BY <1>3 DEF MCNext, MCVars, SpinLocks!vars, stackOnly, shared
  <2>2. QED
    BY <1>3, <2>1, SpinNext DEF LocksInv
<1>4. QED
  BY <1>1, <1>2, <1>3 DEF LocksInv

\* In every reachable state the invariant of the chosen lock holds.
THEOREM LocksKeepInvariant == LocksSpec => []LocksInv
<1>1. MCInit({"fair"} \cup Stacks) => LocksInv
  BY LockInitially, SpinInit DEF MCInit, LocksInv
<1>2. LocksInv /\ [MCNext]_MCVars => LocksInv'
  BY LocksNext
<1>3. QED
  BY <1>1, <1>2, PTL DEF LocksSpec

\* A thread parked by Lock_TryEnterTail or by AcquireSpinLock is never forgotten.
THEOREM WakeupsKept == LocksSpec => []NoLostWakeup
<1>1. LocksInv => NoLostWakeup
  BY LockPromises, SpinPromises DEF LocksInv, NoLostWakeup
<1>2. QED
  BY <1>1, LocksKeepInvariant, PTL

\* UnlinkListEntry returns only when nobody can reach the wait block, and no parker of a
\* thread that has gone on is in the stack of the spin lock.
THEOREM BlocksUnlinked == LocksSpec => []NoDanglingBlock
<1>1. LocksInv => NoDanglingBlock
  BY LockPromises, SpinPromises DEF LocksInv, NoDanglingBlock
<1>2. QED
  BY <1>1, LocksKeepInvariant, PTL

\* The lock implements a mutex, and so does the spin lock.
THEOREM ImplementsMutex == LocksSpec => Exclusive
<1>1. MCInit({"fair"} \cup Stacks) => Locks!LockedMutex!Init
  <2> SUFFICES ASSUME MCInit({"fair"} \cup Stacks) PROVE Locks!holders = {}
    BY DEF Locks!LockedMutex!Init
  <2>1. pc = [t \in LockUsers |-> "out"]
    BY DEF MCInit, NoShared, Stacks, Callbacks, Locks!Init, SpinLocks!Init
  <2>2. QED
    BY <2>1 DEF Locks!holders
<1>2. LocksInv /\ [MCNext]_MCVars => [Locks!LockedMutex!Next]_(Locks!holders)
  <2> SUFFICES ASSUME LocksInv, [MCNext]_MCVars
               PROVE  [Locks!LockedMutex!Next]_(Locks!holders)
    OBVIOUS
  <2>1. ASSUME UNCHANGED pc PROVE UNCHANGED Locks!holders
    BY <2>1 DEF Locks!holders
  <2>2. CASE UNCHANGED MCVars
    BY <2>1, <2>2 DEF MCVars, shared
  <2>3. CASE which = "lock" /\ Locks!Next
    BY <2>3, LockMutexStep DEF LocksInv
  <2>4. CASE which = "spin" /\ SpinLocks!Next
    <3>1. [SpinLocks!SpinMutex!Next]_(SpinLocks!holders)
      BY <2>4, SpinMutexStep DEF LocksInv
    <3>2. QED
      BY <3>1 DEF SpinLocks!SpinMutex!Next, SpinLocks!SpinMutex!Acquire,
                  SpinLocks!SpinMutex!Release, SpinLocks!holders, Locks!LockedMutex!Next,
                  Locks!LockedMutex!Acquire, Locks!LockedMutex!Release, Locks!holders
  <2>5. CASE which = "fair" /\ Others
    BY <2>1, <2>5 DEF Others
  <2>6. QED
    BY <2>2, <2>3, <2>4, <2>5 DEF MCNext, LocksInv, Stacks
<1>3. QED
  BY <1>1, <1>2, LocksKeepInvariant, PTL
     DEF LocksSpec, Exclusive, Locks!Exclusive, Locks!LockedMutex!Spec
=============================================================================
