--------------------------- MODULE ChannelsProofs ---------------------------
(***************************************************************************)
(* Theorems about the systems of MCChannels, for any finite set of threads *)
(* and any capacities: the bounded queue, takes from two linked queues,    *)
(* the stream queue, the exchanger, the rendezvous channel, and one-time   *)
(* initialisation and the future with their waiters.  Each has an          *)
(* inductive invariant; ChannelsInv puts them side by side.                *)
(***************************************************************************)
EXTENDS MCChannels, WaitListLemmas, FiniteSetTheorems, TLAPS

-----------------------------------------------------------------------------
(* One-time initialisation. *)

OnceTypes ==
  /\ mode \in {{"sync"}, {"async"}} /\ once \in {"free", "busy", "available"}
  /\ target \in Nat /\ built \in Nat /\ destroyed \in SUBSET (1..built)
  /\ at \in [Threads -> {"out", "read", "construct", "publish", "complete", "fail",
                         "constructAsync", "publishAsync", "destroy"}]
  /\ mine \in [Threads -> Nat] /\ context \in [Threads -> Nat]

\* Where a thread initialises synchronously, and where it has an object of its own.
Initialising == {"construct", "publish", "complete", "fail"}
HasObject(t) == at[t] \in {"publishAsync", "destroy"}

\* One thread at a time initialises synchronously, and nothing is constructed twice.
SyncInv ==
  mode = {"sync"} =>
    /\ \A t \in Threads : /\ at[t] \in Initialising \cup {"out", "read"}
                          /\ at[t] \in Initialising => once = "busy"
                          /\ at[t] = "read" => once = "available"
                          /\ at[t] = "publish" => target = 0 /\ built = 1 /\ mine[t] = 1
                          /\ at[t] = "complete" => target = 1 /\ built = 1 /\ mine[t] = 1
                          /\ at[t] \in {"construct", "fail"} => target = 0 /\ built = 0
    /\ \A t, s \in Threads : at[t] \in Initialising /\ at[s] \in Initialising => t = s
    /\ once = "busy" => \E t \in Threads : at[t] \in Initialising
    /\ once = "free" => target = 0 /\ built = 0
    /\ once = "available" => target = 1 /\ built = 1
    /\ destroyed = {}

\* Every object that was constructed is the target, was destroyed, or is in the hands of
\* one thread, which is about to do one or the other.
AsyncInv ==
  mode = {"async"} =>
    /\ once = "free"
    /\ \A t \in Threads : at[t] \in {"out", "constructAsync", "publishAsync", "destroy"}
    /\ \A t \in Threads : HasObject(t) =>
         /\ mine[t] \in 1..built /\ mine[t] # target /\ mine[t] \notin destroyed
         /\ \A s \in Threads : HasObject(s) /\ mine[s] = mine[t] => s = t
         /\ at[t] = "destroy" => target # 0
    /\ target \in 0..built
    /\ \A i \in 1..built :
         i = target \/ i \in destroyed \/ \E t \in Threads : HasObject(t) /\ mine[t] = i

OnceInv ==
  /\ OnceTypes /\ SyncInv /\ AsyncInv
  /\ target \notin destroyed /\ \A t \in Threads : context[t] \in {0, target}

LEMMA OnceInit == ASSUME Once!Init PROVE OnceInv
  BY DEF Once!Init, OnceInv, OnceTypes, SyncInv, AsyncInv, HasObject, Initialising

LEMMA OnceStep == ASSUME OnceInv, Once!Next PROVE OnceInv'
<1> USE DEF OnceInv, OnceTypes, Once!Go, Once!Return
<1>1. PICK t \in Threads :
        \/ Once!TryInitTarget(t) \/ Once!ReadTarget(t) \/ Once!CheckOnly(t) \/ Once!Ctor(t)
        \/ Once!SetTarget(t) \/ Once!InitTargetCompleted(t) \/ Once!InitTargetFailed(t)
        \/ Once!BeginAsync(t) \/ Once!CompleteAsync(t) \/ Once!Dtor(t)
  BY DEF Once!Next
<1>2. CASE Once!TryInitTarget(t)
  BY <1>2 DEF Once!TryInitTarget, SyncInv, AsyncInv, Initialising
<1>3. CASE Once!ReadTarget(t)
  BY <1>3 DEF Once!ReadTarget, SyncInv, AsyncInv, Initialising
<1>4. CASE Once!CheckOnly(t)
  BY <1>4 DEF Once!CheckOnly, SyncInv, AsyncInv, Initialising, HasObject
<1>5. CASE Once!Ctor(t)
  <2>1. OnceTypes' /\ target' \notin destroyed' /\ \A s \in Threads : context'[s] \in {0, target'}
    BY <1>5 DEF Once!Ctor
  <2>2. SyncInv'
    BY <1>5 DEF Once!Ctor, SyncInv, AsyncInv, Initialising
  <2>3. AsyncInv'
    <3> SUFFICES ASSUME mode' = {"async"} PROVE AsyncInv'
      BY DEF AsyncInv
    <3>1. mode = {"async"} /\ once' = "free" /\ UNCHANGED <<target, destroyed>>
      BY <1>5 DEF Once!Ctor, AsyncInv
    <3>2. \A s \in Threads : at'[s] \in {"out", "constructAsync", "publishAsync", "destroy"}
      BY <1>5, <3>1 DEF Once!Ctor, AsyncInv
    <3>3. CASE at'[t] = "publishAsync"
      <4>1. /\ built' = built + 1 /\ mine' = [mine EXCEPT ![t] = built + 1]
            /\ at[t] = "constructAsync" /\ at' = [at EXCEPT ![t] = "publishAsync"]
        BY <1>5, <3>3 DEF Once!Ctor
      <4>2. QED
        BY <3>1, <3>2, <4>1 DEF AsyncInv, HasObject
    <3>4. CASE at'[t] # "publishAsync"
      <4>1. UNCHANGED <<built, mine>> /\ at[t] = "constructAsync" /\ at' = [at EXCEPT ![t] = "out"]
        BY <1>5, <3>1, <3>4 DEF Once!Ctor, AsyncInv
      <4>2. QED
        BY <3>1, <3>2, <4>1 DEF AsyncInv, HasObject
    <3>5. QED
      BY <3>3, <3>4
  <2>4. QED
    BY <2>1, <2>2, <2>3
<1>6. CASE Once!SetTarget(t)
  BY <1>6 DEF Once!SetTarget, SyncInv, AsyncInv, Initialising
<1>7. CASE Once!InitTargetCompleted(t)
  BY <1>7 DEF Once!InitTargetCompleted, SyncInv, AsyncInv, Initialising
<1>8. CASE Once!InitTargetFailed(t)
  BY <1>8 DEF Once!InitTargetFailed, SyncInv, AsyncInv, Initialising
<1>9. CASE Once!BeginAsync(t)
  BY <1>9 DEF Once!BeginAsync, SyncInv, AsyncInv, Initialising, HasObject
<1>10. CASE Once!CompleteAsync(t)
  BY <1>10 DEF Once!CompleteAsync, SyncInv, AsyncInv, Initialising, HasObject
<1>11. CASE Once!Dtor(t)
  BY <1>11, ZenonT(30) DEF Once!Dtor, SyncInv, AsyncInv, Initialising, HasObject
<1>12. QED
  BY <1>1, <1>2, <1>3, <1>4, <1>5, <1>6, <1>7, <1>8, <1>9, <1>10, <1>11

LEMMA OnceTarget == ASSUME OnceInv PROVE Once!OneTarget
<1>1. \A t \in Threads : context[t] \in {0, target} /\ (at[t] = "read" => target # 0)
  BY DEF OnceInv, OnceTypes, SyncInv, AsyncInv
<1>2. ASSUME \A t \in Threads : at[t] = "out" PROVE (1..built) \ {target} = destroyed
  <2>1. CASE mode = {"sync"}
    <3>1. destroyed = {} /\ once # "busy"
      BY <1>2, <2>1 DEF OnceInv, SyncInv, Initialising
    <3>2. target = built /\ built \in {0, 1}
      BY <2>1, <3>1 DEF OnceInv, OnceTypes, SyncInv
    <3>3. (1..built) \ {target} = {}
      BY <3>2
    <3>4. QED
      BY <3>1, <3>3
  <2>2. CASE mode = {"async"}
    BY <1>2, <2>2, Zenon DEF OnceInv, OnceTypes, AsyncInv, HasObject
  <2>3. QED
    BY <2>1, <2>2 DEF OnceInv, OnceTypes
<1>3. QED
  BY <1>1, <1>2 DEF OnceInv, Once!OneTarget

-----------------------------------------------------------------------------
(* The future. *)

FutureTypes ==
  /\ fixed \in {0, 1} /\ isAvailable \in {0, 1} /\ value \in Nat /\ values \in Nat
  /\ goes \in [Threads -> {"out", "store", "set", "read", "waitEx", "wait"}]
  /\ offers \in [Threads -> Nat] /\ read \in [Threads -> Nat]

\* One thread has fixed the value; it stores it before it sets the event.
FutureInv ==
  /\ FutureTypes
  /\ fixed = 0 => value = 0 /\ isAvailable = 0
  /\ isAvailable = 1 => value # 0
  /\ fixed = 1 /\ isAvailable = 0 => \E t \in Threads : goes[t] \in {"store", "set"}
  /\ \A t \in Threads :
       /\ goes[t] \in {"store", "set"} =>
            /\ fixed = 1 /\ isAvailable = 0 /\ offers[t] # 0
            /\ value = IF goes[t] = "set" THEN offers[t] ELSE 0
            /\ \A s \in Threads : goes[s] \in {"store", "set"} => s = t
       /\ goes[t] = "read" => isAvailable = 1
       /\ read[t] \in {0, value}

LEMMA FutureInit == ASSUME Futures!Init PROVE FutureInv
  BY DEF Futures!Init, FutureInv, FutureTypes

LEMMA FutureStep == ASSUME FutureInv, Futures!Next PROVE FutureInv'
<1> USE DEF FutureInv, FutureTypes, Futures!Goes
<1>1. PICK t \in Threads :
        \/ Futures!SetValue(t) \/ Futures!Store(t) \/ Futures!GetValue(t)
        \/ Futures!WaitReturns(t) \/ Futures!WaitCancelled(t) \/ Futures!ReadValue(t)
  BY DEF Futures!Next
<1>2. CASE Futures!SetValue(t)
  BY <1>2 DEF Futures!SetValue
<1>3. CASE Futures!Store(t)
  BY <1>3 DEF Futures!Store
<1>4. CASE Futures!GetValue(t)
  BY <1>4 DEF Futures!GetValue
<1>5. CASE Futures!WaitReturns(t)
  BY <1>5 DEF Futures!WaitReturns
<1>6. CASE Futures!WaitCancelled(t)
  BY <1>6 DEF Futures!WaitCancelled
<1>7. CASE Futures!ReadValue(t)
  BY <1>7 DEF Futures!ReadValue
<1>8. QED
  BY <1>1, <1>2, <1>3, <1>4, <1>5, <1>6, <1>7

LEMMA FutureValue == ASSUME FutureInv PROVE Futures!OneValue
  BY DEF FutureInv, FutureTypes, Futures!OneValue

-----------------------------------------------------------------------------
(* The exchanger. *)

ExchangerTypes ==
  /\ slot \in Threads \cup {NoThread} /\ offered \in 0..MaxExchanges
  /\ pc \in [Threads -> {"out", "look", "swap", "insert", "lock", "unpark", "parked",
                         "takeBack", "spin"}]
  /\ offer \in [Threads -> Nat] /\ yours \in [Threads -> Threads \cup {NoThread}]
  /\ channel \in [Threads -> Nat] /\ count \in [Threads -> {0, 1}]
  /\ unparked \in [Threads -> {0, 1}] /\ unlinked \in [Threads -> {0, 1}]
  /\ got \in [1..MaxExchanges -> Nat]

\* A block in the slot, or in the hands of a thread that has not exchanged items with it.
BlockOK(u) == /\ pc[u] \in {"parked", "takeBack", "spin"}
              /\ unparked[u] = 0 /\ unlinked[u] = 0
              /\ count[u] = 1 <=> pc[u] = "parked"

\* The block of an owner is in one place, and the owner does not go on without it.
ExchangerBlocks ==
  /\ slot # NoThread => BlockOK(slot) /\ pc[slot] # "spin"
  /\ \A t \in Threads :
       /\ pc[t] = "swap" => yours[t] \in Threads
       /\ pc[t] = "lock" => yours[t] \in Threads /\ BlockOK(yours[t]) /\ slot # yours[t]
       /\ pc[t] = "unpark" => /\ yours[t] \in Threads /\ pc[yours[t]] = "parked"
                              /\ count[yours[t]] = 0 /\ unparked[yours[t]] = 0
                              /\ slot # yours[t]
       /\ pc[t] = "parked" /\ count[t] = 1 => unparked[t] = 0
       /\ pc[t] \in {"takeBack", "spin"} => count[t] = 0 /\ unparked[t] = 0
       /\ pc[t] = "insert" => count[t] = 1 /\ unparked[t] = 0 /\ unlinked[t] = 0
  /\ \A t, s \in Threads :
       pc[t] \in {"lock", "unpark"} /\ pc[s] \in {"lock", "unpark"} /\ yours[t] = yours[s]
       => t = s

\* Items are offered once, and the one who exchanged items with a parked thread has
\* left its own in the wait block.
ExchangerItems ==
  /\ \A t \in Threads :
       /\ pc[t] # "out" => offer[t] \in 1..offered
       /\ pc[t] \notin {"out", "unpark"} => got[offer[t]] = 0
       /\ pc[t] = "insert" => channel[t] = offer[t]
       /\ pc[t] = "parked" =>
            IF count[t] = 1 THEN channel[t] = offer[t]
            ELSE channel[t] \in 1..offered /\ got[channel[t]] = offer[t]
  /\ \A t, s \in Threads : pc[t] # "out" /\ pc[s] # "out" /\ offer[t] = offer[s] => t = s
  /\ \A i \in 1..MaxExchanges : /\ i > offered => got[i] = 0
                                /\ got[i] \in 0..offered

ExchangerInv ==
  ExchangerTypes /\ ExchangerBlocks /\ ExchangerItems /\ Exchanges!Mutual

LEMMA ExchangerInit == ASSUME Exchanges!Init PROVE ExchangerInv
  BY ChannelsAssumption
     DEF Exchanges!Init, ExchangerInv, ExchangerTypes, ExchangerBlocks, ExchangerItems,
         Exchanges!Mutual, ChannelsAssumption

LEMMA ExchangerStep == ASSUME ExchangerInv, Exchanges!Next PROVE ExchangerInv'
<1> USE ChannelsAssumption DEF ChannelsAssumption, ExchangerTypes, Exchanges!Step,
                               Exchanges!parkVars
<1>0. ExchangerTypes /\ ExchangerBlocks /\ ExchangerItems /\ Exchanges!Mutual
  BY DEF ExchangerInv
<1>1. PICK t \in Threads :
        \/ Exchanges!ExchangeEx(t) \/ Exchanges!LookFull(t) \/ Exchanges!LookEmpty(t)
        \/ Exchanges!TakeSlot(t) \/ Exchanges!Exchange(t) \/ Exchanges!OwnerGaveUp(t)
        \/ Exchanges!UnparkThread(t) \/ Exchanges!Insert(t) \/ Exchanges!Unparked(t)
        \/ Exchanges!Cancelled(t) \/ Exchanges!TakeBack(t) \/ Exchanges!SpinUntilUnlinked(t)
  BY DEF Exchanges!Next
<1>2. CASE Exchanges!ExchangeEx(t)
  <2>1. ExchangerTypes'
    BY <1>0, <1>2 DEF Exchanges!ExchangeEx, ExchangerBlocks, ExchangerItems
  <2>2. ExchangerBlocks'
    BY <1>0, <1>2, ZenonT(30) DEF Exchanges!ExchangeEx, ExchangerBlocks, BlockOK
  <2>3. ExchangerItems'
    BY <1>0, <1>2, SMTT(30) DEF Exchanges!ExchangeEx, ExchangerItems, ExchangerBlocks, BlockOK
  <2>4. Exchanges!Mutual'
    BY <1>0, <1>2 DEF Exchanges!ExchangeEx, Exchanges!Mutual, ExchangerItems, ExchangerBlocks, BlockOK
  <2>5. QED
    BY <2>1, <2>2, <2>3, <2>4, Zenon DEF ExchangerInv
<1>3. CASE Exchanges!LookFull(t)
  <2>1. ExchangerTypes'
    BY <1>0, <1>3 DEF Exchanges!LookFull, ExchangerBlocks, ExchangerItems
  <2>2. ExchangerBlocks'
    BY <1>0, <1>3 DEF Exchanges!LookFull, ExchangerBlocks, BlockOK
  <2>3. ExchangerItems'
    BY <1>0, <1>3 DEF Exchanges!LookFull, ExchangerItems, ExchangerBlocks, BlockOK
  <2>4. Exchanges!Mutual'
    BY <1>0, <1>3 DEF Exchanges!LookFull, Exchanges!Mutual, ExchangerItems, ExchangerBlocks, BlockOK
  <2>5. QED
    BY <2>1, <2>2, <2>3, <2>4, Zenon DEF ExchangerInv
<1>4. CASE Exchanges!LookEmpty(t)
  <2>0. slot = NoThread /\ UNCHANGED <<slot, offer, yours, offered, got>>
    BY <1>4 DEF Exchanges!LookEmpty
  <2>1. CASE /\ pc[t] = "look" /\ pc' = [pc EXCEPT ![t] = "insert"] /\ count' = [count EXCEPT ![t] = 1]
              /\ channel' = [channel EXCEPT ![t] = offer[t]]
              /\ unparked' = [unparked EXCEPT ![t] = 0]
              /\ unlinked' = [unlinked EXCEPT ![t] = 0]
    <3>1. ExchangerTypes'
      BY <1>0, <2>0, <2>1 DEF ExchangerBlocks, ExchangerItems
    <3>2. ExchangerBlocks'
      BY <1>0, <2>0, <2>1, ZenonT(30) DEF ExchangerBlocks, BlockOK
    <3>3. ExchangerItems'
      BY <1>0, <2>0, <2>1 DEF ExchangerItems, ExchangerBlocks, BlockOK
    <3>4. Exchanges!Mutual'
      BY <1>0, <2>0, <2>1 DEF Exchanges!Mutual, ExchangerItems, ExchangerBlocks, BlockOK
    <3>5. QED
      BY <3>1, <3>2, <3>3, <3>4, Zenon DEF ExchangerInv
  <2>2. CASE /\ pc[t] = "look" /\ pc' = [pc EXCEPT ![t] = "out"]
              /\ UNCHANGED <<channel, count, unparked, unlinked>>
    <3>1. ExchangerTypes'
      BY <1>0, <2>0, <2>2 DEF ExchangerBlocks, ExchangerItems
    <3>2. ExchangerBlocks'
      BY <1>0, <2>0, <2>2 DEF ExchangerBlocks, BlockOK
    <3>3. ExchangerItems'
      BY <1>0, <2>0, <2>2 DEF ExchangerItems, ExchangerBlocks, BlockOK
    <3>4. Exchanges!Mutual'
      BY <1>0, <2>0, <2>2 DEF Exchanges!Mutual, ExchangerItems, ExchangerBlocks, BlockOK
    <3>5. QED
      BY <3>1, <3>2, <3>3, <3>4, Zenon DEF ExchangerInv
  <2>3. QED
    BY <1>4, <2>1, <2>2 DEF Exchanges!LookEmpty
<1>5. CASE Exchanges!TakeSlot(t)
  <2>0. UNCHANGED <<offer, yours, channel, count, unparked, unlinked, offered, got>>
    BY <1>5 DEF Exchanges!TakeSlot
  <2>1. CASE /\ pc[t] = "swap" /\ slot = yours[t] /\ slot' = NoThread
              /\ pc' = [pc EXCEPT ![t] = "lock"]
    <3>1. ExchangerTypes'
      BY <1>0, <2>0, <2>1, Zenon DEF ExchangerBlocks, ExchangerItems
    <3>2. ExchangerBlocks'
      <4>0. PICK u \in Threads : u = slot /\ u = yours[t]
        BY <1>0, <2>1 DEF ExchangerBlocks
      <4>1. /\ pc'[t] = "lock" /\ \A s \in Threads \ {t} : pc'[s] = pc[s]
            /\ BlockOK(u) /\ pc[u] # "spin" /\ u # t
        BY <1>0, <2>1, <4>0 DEF ExchangerBlocks, BlockOK
      <4>2. \A s \in Threads \ {t} : BlockOK(s)' <=> BlockOK(s)
        BY <2>0, <4>1 DEF BlockOK
      <4>3. BlockOK(u)'
        BY <4>1, <4>2
      <4>4. \A s \in Threads : pc[s] \in {"lock", "unpark"} => yours[s] # u /\ yours[s] # t
        <5> SUFFICES ASSUME NEW s \in Threads, pc[s] \in {"lock", "unpark"}
                     PROVE  yours[s] # u /\ yours[s] # t
          OBVIOUS
        <5>1. yours[s] # slot /\ pc[yours[s]] \in {"parked", "takeBack", "spin"}
          BY <1>0 DEF ExchangerBlocks, BlockOK
        <5>2. QED
          BY <2>1, <4>0, <5>1
      <4>5. QED
        BY <1>0, <2>0, <2>1, <4>0, <4>1, <4>2, <4>3, <4>4, SMTT(30) DEF ExchangerBlocks
    <3>3. ExchangerItems'
      BY <1>0, <2>0, <2>1, SMTT(30) DEF ExchangerItems, ExchangerBlocks, BlockOK
    <3>4. Exchanges!Mutual'
      BY <1>0, <2>0, <2>1 DEF Exchanges!Mutual, ExchangerItems, ExchangerBlocks, BlockOK
    <3>5. QED
      BY <3>1, <3>2, <3>3, <3>4, Zenon DEF ExchangerInv
  <2>2. CASE /\ pc[t] = "swap" /\ UNCHANGED slot /\ pc' = [pc EXCEPT ![t] = "look"]
    <3>1. ExchangerTypes'
      BY <1>0, <2>0, <2>2 DEF ExchangerBlocks, ExchangerItems
    <3>2. ExchangerBlocks'
      BY <1>0, <2>0, <2>2 DEF ExchangerBlocks, BlockOK
    <3>3. ExchangerItems'
      BY <1>0, <2>0, <2>2 DEF ExchangerItems, ExchangerBlocks, BlockOK
    <3>4. Exchanges!Mutual'
      BY <1>0, <2>0, <2>2 DEF Exchanges!Mutual, ExchangerItems, ExchangerBlocks, BlockOK
    <3>5. QED
      BY <3>1, <3>2, <3>3, <3>4, Zenon DEF ExchangerInv
  <2>3. QED
    BY <1>5, <2>1, <2>2 DEF Exchanges!TakeSlot
<1>6. CASE Exchanges!Exchange(t)
  <2>1. ExchangerTypes'
    BY <1>0, <1>6, SMTT(30) DEF Exchanges!Exchange, ExchangerBlocks, ExchangerItems
  <2>2. ExchangerBlocks'
    BY <1>0, <1>6, SMTT(30) DEF Exchanges!Exchange, ExchangerBlocks, BlockOK
  <2>3. ExchangerItems'
    BY <1>0, <1>6, SMTT(30) DEF Exchanges!Exchange, ExchangerItems, ExchangerBlocks, BlockOK
  <2>4. Exchanges!Mutual'
    <3> DEFINE u == yours[t]
    <3>1. /\ pc[t] = "lock" /\ u \in Threads /\ u # t /\ pc[u] = "parked" /\ count[u] = 1
          /\ pc'[u] = "parked" /\ count'[u] = 0 /\ channel'[u] = offer[t]
          /\ channel[u] = offer[u] /\ UNCHANGED offer
          /\ got' = [got EXCEPT ![offer[t]] = offer[u]]
          /\ offer[t] \in 1..offered /\ got[offer[t]] = 0
      BY <1>0, <1>6, Zenon DEF Exchanges!Exchange, ExchangerItems, ExchangerBlocks, BlockOK
    <3>2. ASSUME NEW i \in 1..MaxExchanges, got'[i] # 0
          PROVE  \/ got'[got'[i]] = i
                 \/ \E s \in Threads : /\ pc'[s] = "parked" /\ count'[s] = 0
                                       /\ offer'[s] = got'[i] /\ channel'[s] = i
      <4>1. CASE i = offer[t]
        <5>1. got'[i] = offer'[u] /\ channel'[u] = i
          BY <1>0, <3>1, <4>1
        <5>2. QED
          BY <3>1, <5>1
      <4>2. CASE i # offer[t]
        <5>1. got'[i] = got[i] /\ got[i] # 0
          BY <3>1, <3>2, <4>2
        <5>2. CASE got[got[i]] = i
          <6>1. got[i] # offer[t]
            BY <3>1, <5>2
          <6>2. QED
            BY <3>1, <5>1, <5>2, <6>1
        <5>3. CASE \E s \in Threads : /\ pc[s] = "parked" /\ count[s] = 0
                                      /\ offer[s] = got[i] /\ channel[s] = i
          <6>1. PICK s \in Threads : /\ pc[s] = "parked" /\ count[s] = 0
                                     /\ offer[s] = got[i] /\ channel[s] = i
            BY <5>3
          <6>2. s # u /\ s # t /\ pc'[s] = "parked" /\ count'[s] = 0 /\ channel'[s] = i
            BY <1>6, <3>1, <6>1 DEF Exchanges!Exchange
          <6>3. QED
            BY <3>1, <5>1, <6>1, <6>2
        <5>4. QED
          BY <1>0, <5>1, <5>2, <5>3 DEF Exchanges!Mutual
      <4>3. QED
        BY <4>1, <4>2
    <3>3. QED
      BY <3>2 DEF Exchanges!Mutual
  <2>5. QED
    BY <2>1, <2>2, <2>3, <2>4, Zenon DEF ExchangerInv
<1>7. CASE Exchanges!OwnerGaveUp(t)
  <2>1. ExchangerTypes'
    BY <1>0, <1>7 DEF Exchanges!OwnerGaveUp, ExchangerBlocks, ExchangerItems
  <2>2. ExchangerBlocks'
    BY <1>0, <1>7 DEF Exchanges!OwnerGaveUp, ExchangerBlocks, BlockOK
  <2>3. ExchangerItems'
    BY <1>0, <1>7 DEF Exchanges!OwnerGaveUp, ExchangerItems, ExchangerBlocks, BlockOK
  <2>4. Exchanges!Mutual'
    BY <1>0, <1>7 DEF Exchanges!OwnerGaveUp, Exchanges!Mutual, ExchangerItems, ExchangerBlocks, BlockOK
  <2>5. QED
    BY <2>1, <2>2, <2>3, <2>4, Zenon DEF ExchangerInv
<1>8. CASE Exchanges!UnparkThread(t)
  <2>1. ExchangerTypes'
    BY <1>0, <1>8 DEF Exchanges!UnparkThread, ExchangerBlocks, ExchangerItems
  <2>2. ExchangerBlocks'
    BY <1>0, <1>8 DEF Exchanges!UnparkThread, ExchangerBlocks, BlockOK
  <2>3. ExchangerItems'
    BY <1>0, <1>8 DEF Exchanges!UnparkThread, ExchangerItems, ExchangerBlocks, BlockOK
  <2>4. Exchanges!Mutual'
    BY <1>0, <1>8 DEF Exchanges!UnparkThread, Exchanges!Mutual, ExchangerItems, ExchangerBlocks, BlockOK
  <2>5. QED
    BY <2>1, <2>2, <2>3, <2>4, Zenon DEF ExchangerInv
<1>9. CASE Exchanges!Insert(t)
  <2>0. UNCHANGED <<offer, yours, channel, count, unparked, unlinked, offered, got>>
    BY <1>9 DEF Exchanges!Insert
  <2>1. CASE /\ pc[t] = "insert" /\ slot = NoThread /\ slot' = t
              /\ pc' = [pc EXCEPT ![t] = "parked"]
    <3>1. ExchangerTypes'
      BY <1>0, <2>0, <2>1 DEF ExchangerBlocks, ExchangerItems
    <3>2. /\ count[t] = 1 /\ unparked[t] = 0 /\ unlinked[t] = 0 /\ channel[t] = offer[t]
          /\ \A s \in Threads : pc[s] \in {"lock", "unpark"} => yours[s] # t
      BY <1>0, <2>1, Zenon DEF ExchangerBlocks, ExchangerItems, BlockOK
    <3>3. ExchangerBlocks' /\ ExchangerItems'
      <4>1. \A s \in Threads \ {t} : pc'[s] = pc[s] /\ (BlockOK(s)' <=> BlockOK(s))
        BY <2>0, <2>1 DEF BlockOK
      <4>2. BlockOK(t)' /\ pc'[t] = "parked"
        BY <1>0, <2>0, <2>1, <3>2 DEF BlockOK
      <4>3. ExchangerBlocks'
        BY <1>0, <2>0, <2>1, <3>2, <4>1, <4>2 DEF ExchangerBlocks
      <4>4. ExchangerItems'
        BY <1>0, <2>0, <2>1, <3>2 DEF ExchangerItems
      <4>5. QED
        BY <4>3, <4>4
    <3>4. Exchanges!Mutual'
      BY <1>0, <2>0, <2>1 DEF Exchanges!Mutual, ExchangerItems, ExchangerBlocks, BlockOK
    <3>5. QED
      BY <3>1, <3>3, <3>4, Zenon DEF ExchangerInv
  <2>2. CASE /\ pc[t] = "insert" /\ UNCHANGED slot /\ pc' = [pc EXCEPT ![t] = "look"]
    <3>1. ExchangerTypes'
      BY <1>0, <2>0, <2>2 DEF ExchangerBlocks, ExchangerItems
    <3>2. ExchangerBlocks'
      BY <1>0, <2>0, <2>2 DEF ExchangerBlocks, BlockOK
    <3>3. ExchangerItems'
      BY <1>0, <2>0, <2>2 DEF ExchangerItems, ExchangerBlocks, BlockOK
    <3>4. Exchanges!Mutual'
      BY <1>0, <2>0, <2>2 DEF Exchanges!Mutual, ExchangerItems, ExchangerBlocks, BlockOK
    <3>5. QED
      BY <3>1, <3>2, <3>3, <3>4, Zenon DEF ExchangerInv
  <2>3. QED
    BY <1>9, <2>1, <2>2 DEF Exchanges!Insert
<1>10. CASE Exchanges!Unparked(t)
  <2>1. ExchangerTypes'
    BY <1>0, <1>10 DEF Exchanges!Unparked, ExchangerBlocks, ExchangerItems
  <2>2. ExchangerBlocks'
    <3>1. /\ pc[t] = "parked" /\ unparked[t] = 1 /\ pc' = [pc EXCEPT ![t] = "out"]
          /\ UNCHANGED <<slot, yours, count, unparked, unlinked>>
      BY <1>10 DEF Exchanges!Unparked
    <3>2. slot # t /\ \A s \in Threads : pc[s] \in {"lock", "unpark"} => yours[s] # t
      BY <1>0, <3>1 DEF ExchangerBlocks, BlockOK
    <3>3. pc'[t] = "out" /\ \A s \in Threads \ {t} : pc'[s] = pc[s]
      BY <1>0, <3>1
    <3>4. \A s \in Threads \ {t} : BlockOK(s)' <=> BlockOK(s)
      BY <3>1, <3>3 DEF BlockOK
    <3>5. QED
      BY <1>0, <3>1, <3>2, <3>3, <3>4 DEF ExchangerBlocks
  <2>3. ExchangerItems'
    BY <1>0, <1>10, SMTT(30) DEF Exchanges!Unparked, ExchangerItems, ExchangerBlocks, BlockOK
  <2>4. Exchanges!Mutual'
    <3>1. /\ pc[t] = "parked" /\ count[t] = 0 /\ pc' = [pc EXCEPT ![t] = "out"]
          /\ got' = [got EXCEPT ![offer[t]] = channel[t]] /\ got[offer[t]] = 0
          /\ got[channel[t]] = offer[t] /\ channel[t] \in 1..offered /\ offer[t] \in 1..offered
          /\ UNCHANGED <<offer, count, channel>>
      BY <1>0, <1>10, SMTT(30) DEF Exchanges!Unparked, ExchangerItems, ExchangerBlocks
    <3>2. ASSUME NEW i \in 1..MaxExchanges, got'[i] # 0
          PROVE  \/ got'[got'[i]] = i
                 \/ \E s \in Threads : /\ pc'[s] = "parked" /\ count'[s] = 0
                                       /\ offer'[s] = got'[i] /\ channel'[s] = i
      <4>1. CASE i = offer[t]
        BY <1>0, <3>1, <4>1
      <4>2. CASE i # offer[t] /\ got[i] = offer[t]
        <5>1. \E s \in Threads : /\ pc[s] = "parked" /\ count[s] = 0
                                 /\ offer[s] = offer[t] /\ channel[s] = i
          <6>1. got[i] # 0 /\ got[got[i]] # i
            BY <3>1, <4>2
          <6>2. QED
            BY <1>0, <4>2, <6>1, Zenon DEF Exchanges!Mutual
        <5>2. channel[t] = i
          BY <1>0, <3>1, <5>1, Zenon DEF ExchangerItems
        <5>3. QED
          BY <1>0, <3>1, <4>2, <5>2
      <4>3. CASE i # offer[t] /\ got[i] # offer[t]
        <5>1. got'[i] = got[i] /\ got[i] # 0 /\ got'[got[i]] = got[got[i]]
          BY <1>0, <3>1, <3>2, <4>3
        <5>2. QED
          BY <1>0, <3>1, <4>3, <5>1 DEF Exchanges!Mutual
      <4>4. QED
        BY <4>1, <4>2, <4>3
    <3>3. QED
      BY <3>2 DEF Exchanges!Mutual
  <2>5. QED
    BY <2>1, <2>2, <2>3, <2>4, Zenon DEF ExchangerInv
<1>11. CASE Exchanges!Cancelled(t)
  <2>1. ExchangerTypes'
    BY <1>0, <1>11 DEF Exchanges!Cancelled, ExchangerBlocks, ExchangerItems
  <2>2. ExchangerBlocks'
    BY <1>0, <1>11 DEF Exchanges!Cancelled, ExchangerBlocks, BlockOK
  <2>3. ExchangerItems'
    BY <1>0, <1>11 DEF Exchanges!Cancelled, ExchangerItems, ExchangerBlocks, BlockOK
  <2>4. Exchanges!Mutual'
    BY <1>0, <1>11 DEF Exchanges!Cancelled, Exchanges!Mutual, ExchangerItems, ExchangerBlocks, BlockOK
  <2>5. QED
    BY <2>1, <2>2, <2>3, <2>4, Zenon DEF ExchangerInv
<1>12. CASE Exchanges!TakeBack(t)
  <2>0. UNCHANGED <<offer, yours, channel, count, unparked, unlinked, offered, got>>
    BY <1>12 DEF Exchanges!TakeBack
  <2>1. CASE /\ pc[t] = "takeBack" /\ slot = t /\ slot' = NoThread
              /\ pc' = [pc EXCEPT ![t] = "out"]
    <3>1. ExchangerTypes'
      BY <1>0, <2>0, <2>1 DEF ExchangerBlocks, ExchangerItems
    <3>2. ExchangerBlocks'
      BY <1>0, <2>0, <2>1 DEF ExchangerBlocks, BlockOK
    <3>3. ExchangerItems'
      BY <1>0, <2>0, <2>1 DEF ExchangerItems, ExchangerBlocks, BlockOK
    <3>4. Exchanges!Mutual'
      BY <1>0, <2>0, <2>1 DEF Exchanges!Mutual, ExchangerItems, ExchangerBlocks, BlockOK
    <3>5. QED
      BY <3>1, <3>2, <3>3, <3>4, Zenon DEF ExchangerInv
  <2>2. CASE /\ pc[t] = "takeBack" /\ slot # t /\ UNCHANGED slot
              /\ pc' = [pc EXCEPT ![t] = "spin"]
    <3>1. ExchangerTypes'
      BY <1>0, <2>0, <2>2 DEF ExchangerBlocks, ExchangerItems
    <3>2. ExchangerBlocks'
      BY <1>0, <2>0, <2>2 DEF ExchangerBlocks, BlockOK
    <3>3. ExchangerItems'
      BY <1>0, <2>0, <2>2 DEF ExchangerItems, ExchangerBlocks, BlockOK
    <3>4. Exchanges!Mutual'
      BY <1>0, <2>0, <2>2 DEF Exchanges!Mutual, ExchangerItems, ExchangerBlocks, BlockOK
    <3>5. QED
      BY <3>1, <3>2, <3>3, <3>4, Zenon DEF ExchangerInv
  <2>3. QED
    BY <1>12, <2>1, <2>2 DEF Exchanges!TakeBack
<1>13. CASE Exchanges!SpinUntilUnlinked(t)
  <2>1. ExchangerTypes'
    BY <1>0, <1>13 DEF Exchanges!SpinUntilUnlinked, ExchangerBlocks, ExchangerItems
  <2>2. ExchangerBlocks'
    <3>1. /\ pc[t] = "spin" /\ unlinked[t] = 1 /\ pc' = [pc EXCEPT ![t] = "out"]
          /\ UNCHANGED <<slot, yours, count, unparked, unlinked>>
      BY <1>13 DEF Exchanges!SpinUntilUnlinked
    <3>2. slot # t /\ \A s \in Threads : pc[s] \in {"lock", "unpark"} => yours[s] # t
      BY <1>0, <3>1 DEF ExchangerBlocks, BlockOK
    <3>3. pc'[t] = "out" /\ \A s \in Threads \ {t} : pc'[s] = pc[s]
      BY <1>0, <3>1
    <3>4. \A s \in Threads \ {t} : BlockOK(s)' <=> BlockOK(s)
      BY <3>1, <3>3 DEF BlockOK
    <3>5. QED
      BY <1>0, <3>1, <3>2, <3>3, <3>4 DEF ExchangerBlocks
  <2>3. ExchangerItems'
    BY <1>0, <1>13 DEF Exchanges!SpinUntilUnlinked, ExchangerItems, ExchangerBlocks, BlockOK
  <2>4. Exchanges!Mutual'
    BY <1>0, <1>13 DEF Exchanges!SpinUntilUnlinked, Exchanges!Mutual, ExchangerItems, ExchangerBlocks, BlockOK
  <2>5. QED
    BY <2>1, <2>2, <2>3, <2>4, Zenon DEF ExchangerInv
<1>14. QED
  BY <1>1, <1>2, <1>3, <1>4, <1>5, <1>6, <1>7, <1>8, <1>9, <1>10, <1>11, <1>12, <1>13

LEMMA ExchangerBlocksLeave == ASSUME ExchangerInv PROVE Exchanges!BlocksLeave
  BY ChannelsAssumption DEF ChannelsAssumption, ExchangerInv, ExchangerTypes, ExchangerBlocks,
     BlockOK, Exchanges!BlocksLeave

-----------------------------------------------------------------------------
(* Waiters in a list: the bounded queue and the stream queue.              *)

WaiterTypes ==
  /\ pc \in [Threads -> {"out", "wake", "parked", "unlink", "serve", "fill", "finish"}]
  /\ count \in [Threads -> {0, 1}] /\ unparked \in [Threads -> {0, 1}]
  /\ status \in [Threads -> {"none", "success", "disposed"}]
  /\ unlinked \in [Threads -> {0, 1}]
  /\ wake \in [Threads -> Seq(Threads)] /\ list \in Seq(Threads)

\* A waiter has an entry in the list, or is the one that the thread inside the spin lock
\* has in hand, x.
Waits(t, x) == In(t, list) \/ t = x

\* A parker that is not locked belongs to such a waiter; one that was locked by somebody
\* else is in the hands of one unparker or unparked.
WaitersOK(x) ==
  /\ Distinct(list) /\ ~In(x, list)
  /\ \A t \in Threads :
       /\ Waits(t, x) => /\ pc[t] \in {"parked", "unlink"} /\ status[t] = "none"
                         /\ unparked[t] = 0 /\ unlinked[t] = 0
       /\ count[t] = 1 => pc[t] = "parked" /\ Waits(t, x)
       /\ pc[t] = "parked" /\ count[t] = 0 =>
            status[t] # "none" /\ (unparked[t] = 1 \/ \E u \in Threads : In(t, wake[u]))
       /\ pc[t] = "unlink" => status[t] = "none"
       /\ pc[t] \in {"out", "unlink"} => wake[t] = <<>>
       /\ Distinct(wake[t])
  /\ \A t, u \in Threads :
       In(t, wake[u]) => pc[t] = "parked" /\ count[t] = 0 /\ unparked[t] = 0
  /\ \A t, u, v \in Threads : In(t, wake[u]) /\ In(t, wake[v]) => u = v

LEMMA MinLemma ==
  ASSUME NEW S \in SUBSET Nat, S # {}
  PROVE  Min(S) \in S /\ \A y \in S : Min(S) <= y
<1>1. PICK x \in S : \A y \in S : ~(<<y, x>> \in OpToRel(<, Nat))
  BY NatLessThanWellFounded, WFMin, Zenon
<1>2. \A y \in S : ~(y < x)
  <2>1. S \subseteq Nat
    OBVIOUS
  <2>2. QED
    BY <1>1, <2>1, Zenon DEF OpToRel
<1>3. \A y \in S : x <= y
  BY <1>2
<1>4. QED
  BY <1>3, Zenon DEF Min

\* The first waiter that can be locked, and the entries behind it.
LEMMA FirstLemma ==
  ASSUME NEW l \in Seq(Threads), Distinct(l), HasLive(l)
  PROVE  /\ FirstLive(l) \in 1..Len(l)
         /\ Live(l) \in Threads /\ In(Live(l), l) /\ count[Live(l)] = 1
         /\ Rest(l) \in Seq(Threads) /\ Distinct(Rest(l)) /\ ~In(Live(l), Rest(l))
         /\ Len(Rest(l)) = Len(l) - FirstLive(l)
         /\ \A k \in 1..Len(Rest(l)) : Rest(l)[k] = l[FirstLive(l) + k]
         /\ \A x : In(x, Rest(l)) => In(x, l)
         /\ \A x \in Threads : In(x, l) /\ count[x] = 1 => x = Live(l) \/ In(x, Rest(l))
         /\ \A x : In(x, Rest(l)) \/ x = Live(l) => ~\E i \in 1..FirstLive(l) - 1 : l[i] = x
<1> DEFINE f == FirstLive(l)
           r == Rest(l)
<1>1. Lockable(l) \in SUBSET (1..Len(l)) /\ Lockable(l) \in SUBSET Nat /\ Lockable(l) # {}
  BY DEF Lockable, HasLive
<1>2. f \in Lockable(l) /\ \A i \in Lockable(l) : f <= i
  BY <1>1, MinLemma DEF FirstLive
<1>3. f \in 1..Len(l) /\ Live(l) = l[f] /\ count[l[f]] = 1
  BY <1>1, <1>2 DEF Live, Lockable
<1>4. r = SubSeq(l, f + 1, Len(l))
  BY DEF Rest
<1> HIDE DEF f, r
<1>5. /\ r \in Seq(Threads) /\ Len(r) = Len(l) - f
      /\ \A i \in 1..Len(l) - f : r[i] = l[f + i]
      /\ \A x : In(x, r) <=> \E i \in f + 1..Len(l) : l[i] = x
      /\ Distinct(r)
  BY <1>3, <1>4, RestLemma
<1>6. ASSUME NEW x, In(x, r) PROVE In(x, l)
  <2>1. PICK i \in f + 1..Len(l) : l[i] = x
    BY <1>5, <1>6
  <2>2. i \in 1..Len(l)
    BY <1>3
  <2>3. QED
    BY <2>1, <2>2 DEF In
<1>7. ASSUME NEW x \in Threads, In(x, l), count[x] = 1 PROVE x = l[f] \/ In(x, r)
  <2>1. PICK i \in 1..Len(l) : l[i] = x
    BY <1>7 DEF In
  <2>2. f <= i
    BY <1>2, <1>7, <2>1 DEF Lockable
  <2>3. QED
    BY <1>3, <1>5, <2>1, <2>2
<1>8. ~In(l[f], r)
  BY <1>3, <1>5, SMTT(30) DEF Distinct
<1>9. ASSUME NEW x, In(x, r) \/ x = l[f], NEW i \in 1..f - 1, l[i] = x PROVE FALSE
  <2>1. PICK j \in f..Len(l) : l[j] = x
    BY <1>3, <1>5, <1>9, SMTT(30)
  <2>2. i # j /\ i \in 1..Len(l) /\ j \in 1..Len(l) /\ l[i] = l[j]
    BY <1>3, <1>9, <2>1
  <2>3. QED
    BY <2>2 DEF Distinct
<1>10. Live(l) \in Threads /\ In(Live(l), l) /\ count[Live(l)] = 1
  BY <1>3 DEF In
<1>11. QED
  BY <1>3, <1>5, <1>6, <1>7, <1>8, <1>9, <1>10 DEF f, r

\* The first waiter is locked: it passes into the hands of t.
LEMMA LockFirstOK ==
  ASSUME WaiterTypes, WaitersOK(NoThread), NEW t \in Threads, NEW s \in {"success", "disposed"},
         LockFirst(t, list, s), list' = Rest(list)
  PROVE  WaiterTypes' /\ WaitersOK(NoThread)'
<1> USE ChannelsAssumption DEF ChannelsAssumption, WaiterTypes
<1> DEFINE u == Live(list)
           r == Rest(list)
<1>1. /\ u \in Threads /\ In(u, list) /\ count[u] = 1
      /\ r \in Seq(Threads) /\ Distinct(r) /\ ~In(u, r)
      /\ \A x : In(x, r) => In(x, list)
      /\ \A x \in Threads : In(x, list) /\ count[x] = 1 => x = u \/ In(x, r)
      /\ \A x : In(x, r) => ~\E i \in 1..FirstLive(list) - 1 : list[i] = x
  BY FirstLemma DEF LockFirst, WaitersOK
<1>2. /\ pc[t] = "out" /\ pc' = [pc EXCEPT ![t] = "wake"]
      /\ count' = [count EXCEPT ![u] = 0] /\ status' = [status EXCEPT ![u] = s]
      /\ wake' = [wake EXCEPT ![t] = <<u>>] /\ unparked' = unparked /\ list' = r
      /\ unlinked' \in [Threads -> {0, 1}]
      /\ \A x \in Threads : In(x, r) => unlinked'[x] = unlinked[x]
  BY <1>1 DEF LockFirst, Step, Skip
<1> HIDE DEF u, r
<1>3. WaiterTypes'
  BY <1>1, <1>2
<1>4. pc[u] = "parked" /\ u # t /\ unparked[u] = 0 /\ \A v \in Threads : ~In(u, wake[v])
  BY <1>1, <1>2 DEF WaitersOK, Waits
<1>5. \A x : In(x, <<u>>) <=> x = u
  BY SmallStacks
<1>6. Distinct(<<u>>)
  BY DEF Distinct
<1>7. \A x \in Threads : In(x, wake'[t]) <=> x = u
  BY <1>2, <1>5, Zenon
<1>8. \A v \in Threads \ {t} : wake'[v] = wake[v]
  BY <1>2
<1>9. Distinct(list') /\ ~In(NoThread, list')
  BY <1>1, <1>2 DEF WaitersOK
<1>10. ASSUME NEW x \in Threads
       PROVE  /\ In(x, list') \/ x = NoThread =>
                   /\ pc'[x] \in {"parked", "unlink"} /\ status'[x] = "none"
                   /\ unparked'[x] = 0 /\ unlinked'[x] = 0
              /\ count'[x] = 1 => pc'[x] = "parked" /\ (In(x, list') \/ x = NoThread)
              /\ pc'[x] = "unlink" => status'[x] = "none"
              /\ pc'[x] \in {"out", "unlink"} => wake'[x] = <<>>
              /\ Distinct(wake'[x])
  BY <1>1, <1>2, <1>4, <1>6 DEF WaitersOK, Waits
<1>11. ASSUME NEW x \in Threads, pc'[x] = "parked", count'[x] = 0
       PROVE  status'[x] # "none" /\ (unparked'[x] = 1 \/ \E v \in Threads : In(x, wake'[v]))
  <2>1. CASE x = u
    BY <1>2, <1>7, <2>1, Zenon
  <2>2. CASE x # u
    <3>1. pc[x] = "parked" /\ count[x] = 0 /\ status'[x] = status[x] /\ wake[t] = <<>>
      BY <1>2, <1>11, <2>2 DEF WaitersOK
    <3>2. status[x] # "none" /\ (unparked[x] = 1 \/ \E v \in Threads : In(x, wake[v]))
      BY <3>1 DEF WaitersOK
    <3>3. \A v \in Threads : In(x, wake[v]) => v # t
      BY <3>1, SmallStacks
    <3>4. QED
      BY <1>2, <1>8, <3>1, <3>2, <3>3, Zenon
  <2>3. QED
    BY <2>1, <2>2
<1>12. \A x, v \in Threads : In(x, wake'[v]) => pc'[x] = "parked" /\ count'[x] = 0 /\ unparked'[x] = 0
  BY <1>2, <1>4, <1>7, <1>8 DEF WaitersOK
<1>13. ASSUME NEW x \in Threads, NEW v \in Threads, NEW w \in Threads,
              In(x, wake'[v]), In(x, wake'[w])
       PROVE  v = w
  <2>1. CASE x = u
    BY <1>4, <1>8, <1>13, <2>1, Zenon
  <2>2. CASE x # u
    <3>1. v # t /\ w # t
      BY <1>7, <1>13, <2>2
    <3>2. In(x, wake[v]) /\ In(x, wake[w])
      BY <1>8, <1>13, <3>1
    <3>3. QED
      BY <3>2 DEF WaitersOK
  <2>3. QED
    BY <2>1, <2>2
<1>14. QED
  BY <1>3, <1>9, <1>10, <1>11, <1>12, <1>13 DEF WaitersOK, Waits

\* Nobody can be locked: the entries of those who gave up are removed.
LEMMA NobodyLiveOK ==
  ASSUME WaiterTypes, WaitersOK(NoThread), NobodyLive(list), list' = <<>>
  PROVE  WaiterTypes' /\ WaitersOK(NoThread)' /\ \A x \in Threads : count[x] = 0
<1> USE ChannelsAssumption DEF ChannelsAssumption, WaiterTypes
<1>1. /\ UNCHANGED <<pc, count, status, unparked, wake>> /\ unlinked' \in [Threads -> {0, 1}]
      /\ \A i \in 1..Len(list) : count[list[i]] # 1
  BY Zenon DEF NobodyLive, Skip, HasLive, Lockable
<1>2. \A x \in Threads : ~In(x, list')
  BY SmallStacks
<1>3. ASSUME NEW x \in Threads PROVE count[x] = 0
  <2>1. ~(In(x, list) /\ count[x] = 1) /\ x # NoThread
    BY <1>1 DEF In
  <2>2. QED
    BY <2>1 DEF WaitersOK, Waits
<1>4. WaiterTypes'
  BY <1>1
<1>5. Distinct(list') /\ ~In(NoThread, list')
  BY SmallStacks
<1>6. QED
  BY <1>1, <1>2, <1>3, <1>4, <1>5 DEF WaitersOK, Waits

\* Every waiter is locked, and is in the hands of t.
LEMMA LockAllOK ==
  ASSUME WaiterTypes, WaitersOK(NoThread), NEW t \in Threads, NEW s \in {"success", "disposed"},
         LockAll(t, list, s), list' = <<>>
  PROVE  /\ WaiterTypes' /\ WaitersOK(NoThread)'
         /\ \A x \in Threads : count[x] = 0 => status'[x] = status[x]
         /\ \A x \in Threads : count[x] = 1 => status'[x] = s
<1> USE ChannelsAssumption DEF ChannelsAssumption, WaiterTypes
<1> DEFINE live == {list[i] : i \in Lockable(list)}
           w == Picked(list, Lockable(list))
<1>0. ASSUME NEW x \in Threads PROVE x \in live <=> count[x] = 1
  <2>1. x \in live <=> In(x, list) /\ count[x] = 1
    <3>1. x \in live <=> \E i \in Lockable(list) : list[i] = x
      OBVIOUS
    <3> HIDE DEF live
    <3>2. QED
      BY <3>1 DEF In, Lockable
  <2>2. x # NoThread
    OBVIOUS
  <2> HIDE DEF live
  <2>3. QED
    BY <2>1, <2>2 DEF WaitersOK, Waits
<1>1. /\ pc[t] = "out" /\ pc' = [pc EXCEPT ![t] = "wake"] /\ unparked' = unparked
      /\ count' = [x \in Threads |-> IF x \in live THEN 0 ELSE count[x]]
      /\ status' = [x \in Threads |-> IF x \in live THEN s ELSE status[x]]
      /\ unlinked' \in [Threads -> {0, 1}]
      /\ wake' = [wake EXCEPT ![t] = w]
  BY DEF LockAll, Step
<1>2. Lockable(list) \in SUBSET (1..Len(list)) /\ live = {list[i] : i \in Lockable(list)}
  BY DEF Lockable
<1>3. w \in Seq(Threads) /\ Distinct(w) /\ \A x : In(x, w) <=> \E i \in Lockable(list) : list[i] = x
  BY <1>2, PickedLemma DEF WaitersOK
<1>4. ASSUME NEW x PROVE In(x, w) <=> x \in live
  <2>1. In(x, w) <=> \E i \in Lockable(list) : list[i] = x
    BY <1>3
  <2> HIDE DEF w
  <2>2. QED
    BY <2>1
<1> HIDE DEF live, w
<1>5. WaiterTypes'
  BY <1>1, <1>3
<1>6. \A x \in Threads : count'[x] = 0 /\ ~In(x, list')
  BY <1>0, <1>1, SmallStacks
<1>7. Distinct(list') /\ ~In(NoThread, list')
  BY SmallStacks
<1>8. \A x \in Threads : count[x] = 1 => /\ pc[x] = "parked" /\ x # t /\ unparked[x] = 0
                                         /\ \A v \in Threads : ~In(x, wake[v])
  BY <1>1 DEF WaitersOK, Waits
<1>9. wake[t] = <<>> /\ \A x : ~In(x, wake[t])
  BY <1>1, SmallStacks DEF WaitersOK
<1>10. \A v \in Threads \ {t} : wake'[v] = wake[v]
  BY <1>1
<1>11. wake'[t] = w
  BY <1>1
<1>12. ASSUME NEW x \in Threads
       PROVE  /\ pc'[x] = "parked" /\ count'[x] = 0 =>
                   status'[x] # "none" /\ (unparked'[x] = 1 \/ \E v \in Threads : In(x, wake'[v]))
              /\ pc'[x] = "unlink" => status'[x] = "none"
              /\ pc'[x] \in {"out", "unlink"} => wake'[x] = <<>>
              /\ Distinct(wake'[x])
  <2>1. pc'[x] = "parked" /\ count'[x] = 0 =>
          status'[x] # "none" /\ (unparked'[x] = 1 \/ \E v \in Threads : In(x, wake'[v]))
    <3> SUFFICES ASSUME pc'[x] = "parked"
                 PROVE  status'[x] # "none"
                        /\ (unparked'[x] = 1 \/ \E v \in Threads : In(x, wake'[v]))
      OBVIOUS
    <3>1. CASE count[x] = 1
      BY <1>0, <1>1, <1>4, <1>11, <3>1
    <3>2. CASE count[x] = 0
      <4>1. x # t /\ pc[x] = "parked" /\ status'[x] = status[x]
        BY <1>0, <1>1, <3>2
      <4>2. status[x] # "none" /\ (unparked[x] = 1 \/ \E v \in Threads : In(x, wake[v]))
        BY <3>2, <4>1 DEF WaitersOK
      <4>3. QED
        BY <1>1, <1>9, <1>10, <4>1, <4>2, Zenon
    <3>3. QED
      BY <3>1, <3>2
  <2>2. pc'[x] = "unlink" => status'[x] = "none"
    BY <1>0, <1>1, <1>8 DEF WaitersOK
  <2>3. (pc'[x] \in {"out", "unlink"} => wake'[x] = <<>>) /\ Distinct(wake'[x])
    BY <1>1, <1>3 DEF WaitersOK
  <2>4. QED
    BY <2>1, <2>2, <2>3
<1>13. ASSUME NEW x \in Threads, NEW v \in Threads, In(x, wake'[v])
       PROVE  /\ pc'[x] = "parked" /\ count'[x] = 0 /\ unparked'[x] = 0
              /\ \A z \in Threads : In(x, wake'[z]) => z = v
  <2>1. CASE count[x] = 1
    BY <1>1, <1>6, <1>8, <1>10, <1>13, <2>1
  <2>2. CASE count[x] = 0
    <3>1. v # t /\ In(x, wake[v]) /\ \A z \in Threads : In(x, wake'[z]) => z # t
      BY <1>0, <1>4, <1>10, <1>11, <1>13, <2>2
    <3>2. pc[x] = "parked" /\ unparked[x] = 0 /\ \A z \in Threads : In(x, wake[z]) => z = v
      BY <3>1 DEF WaitersOK
    <3>3. QED
      BY <1>1, <1>6, <1>10, <3>1, <3>2
  <2>3. QED
    BY <2>1, <2>2
<1>14. WaitersOK(NoThread)'
  BY <1>6, <1>7, <1>12, <1>13 DEF WaitersOK, Waits
<1>15. QED
  BY <1>0, <1>1, <1>5, <1>14

\* A thread goes to wait.
LEMMA WaitOK ==
  ASSUME WaiterTypes, WaitersOK(NoThread), NEW t \in Threads,
         pc[t] \notin {"parked", "unlink"}, pc' = [pc EXCEPT ![t] = "parked"],
         count' = [count EXCEPT ![t] = 1], status' = [status EXCEPT ![t] = "none"],
         unparked' = [unparked EXCEPT ![t] = 0], unlinked' = [unlinked EXCEPT ![t] = 0],
         wake' = wake, list' = Append(list, t) \/ list' = <<t>> \o list
  PROVE  WaiterTypes' /\ WaitersOK(NoThread)'
<1> USE ChannelsAssumption DEF ChannelsAssumption, WaiterTypes
<1>1. ~In(t, list) /\ \A v \in Threads : ~In(t, wake[v])
  BY DEF WaitersOK, Waits
<1>2. /\ list' \in Seq(Threads) /\ Distinct(list')
      /\ \A x : In(x, list') <=> x = t \/ In(x, list)
  <2>1. list \in Seq(Threads) /\ Distinct(list)
    BY DEF WaitersOK
  <2>2. CASE list' = Append(list, t)
    BY <1>1, <2>1, <2>2, AppendLemma
  <2>3. CASE list' = <<t>> \o list
    BY <1>1, <2>1, <2>3, PushLemma
  <2>4. QED
    BY <2>2, <2>3, Zenon
<1>3. WaiterTypes'
  BY <1>2
<1>4. ~In(NoThread, list')
  BY <1>2 DEF WaitersOK
<1>5. ASSUME NEW x \in Threads
      PROVE  /\ In(x, list') \/ x = NoThread =>
                   /\ pc'[x] \in {"parked", "unlink"} /\ status'[x] = "none"
                   /\ unparked'[x] = 0 /\ unlinked'[x] = 0
             /\ count'[x] = 1 => pc'[x] = "parked" /\ (In(x, list') \/ x = NoThread)
             /\ pc'[x] = "parked" /\ count'[x] = 0 =>
                  status'[x] # "none" /\ (unparked'[x] = 1 \/ \E u \in Threads : In(x, wake'[u]))
             /\ pc'[x] = "unlink" => status'[x] = "none"
             /\ pc'[x] \in {"out", "unlink"} => wake'[x] = <<>>
             /\ Distinct(wake'[x])
  <2>1. CASE x = t
    BY <1>2, <2>1 DEF WaitersOK
  <2>2. CASE x # t
    BY <1>2, <2>2 DEF WaitersOK, Waits
  <2>3. QED
    BY <2>1, <2>2
<1>6. \A x, v \in Threads : In(x, wake'[v]) => pc'[x] = "parked" /\ count'[x] = 0 /\ unparked'[x] = 0
  BY <1>1 DEF WaitersOK
<1>7. \A x, v, w \in Threads : In(x, wake'[v]) /\ In(x, wake'[w]) => v = w
  BY DEF WaitersOK
<1>8. QED
  BY <1>2, <1>3, <1>4, <1>5, <1>6, <1>7 DEF WaitersOK, Waits

\* A thread that does not wait goes on.
LEMMA MoveOK ==
  ASSUME WaiterTypes, NEW x, WaitersOK(x), NEW t \in Threads,
         NEW p \in {"out", "wake", "serve", "fill", "finish"},
         pc[t] \notin {"parked", "unlink"}, pc' = [pc EXCEPT ![t] = p],
         p = "out" => wake[t] = <<>>,
         UNCHANGED <<count, status, unparked, unlinked, wake, list>>
  PROVE  WaiterTypes' /\ WaitersOK(x)'
<1> USE DEF WaiterTypes
<1>1. WaiterTypes'
  OBVIOUS
<1>2. pc'[t] = p /\ (\A y \in Threads \ {t} : pc'[y] = pc[y])
  OBVIOUS
<1>3. ~Waits(t, x) /\ count[t] = 0 /\ \A v \in Threads : ~In(t, wake[v])
  BY DEF WaitersOK
<1>4. QED
  BY <1>1, <1>2, <1>3 DEF WaitersOK, Waits

\* The next of those that t has in hand is unparked.
LEMMA UnparkThreadOK ==
  ASSUME WaiterTypes, NEW x, WaitersOK(x), NEW t \in Threads, UnparkThread(t), list' = list
  PROVE  WaiterTypes' /\ WaitersOK(x)'
<1> USE DEF WaiterTypes
<1> DEFINE u == Head(wake[t])
<1>1. /\ wake[t] # <<>> /\ unparked' = [unparked EXCEPT ![u] = 1]
      /\ wake' = [wake EXCEPT ![t] = Tail(@)] /\ UNCHANGED <<pc, count, status, unlinked, list>>
  BY DEF UnparkThread
<1>2. /\ u \in Threads /\ Tail(wake[t]) \in Seq(Threads) /\ Distinct(Tail(wake[t]))
      /\ ~In(u, Tail(wake[t]))
      /\ \A y : In(y, wake[t]) <=> y = u \/ In(y, Tail(wake[t]))
  <2>1. wake[t] \in Seq(Threads) /\ Distinct(wake[t])
    BY DEF WaitersOK
  <2>2. QED
    BY <1>1, <2>1, PopLemma
<1> HIDE DEF u
<1>3. pc[u] = "parked" /\ count[u] = 0 /\ ~Waits(u, x) /\ \A v \in Threads : In(u, wake[v]) => v = t
  <2>1. In(u, wake[t])
    BY <1>2
  <2>2. QED
    BY <1>2, <2>1 DEF WaitersOK
<1>4. wake'[t] = Tail(wake[t]) /\ \A v \in Threads \ {t} : wake'[v] = wake[v]
  BY <1>1
<1>5. \A v \in Threads : \A y \in Threads \ {u} : In(y, wake'[v]) <=> In(y, wake[v])
  BY <1>2, <1>4, Zenon
<1>6. \A v \in Threads : ~In(u, wake'[v])
  BY <1>2, <1>3, <1>4, Zenon
<1>7. unparked'[u] = 1 /\ \A y \in Threads \ {u} : unparked'[y] = unparked[y]
  BY <1>1, <1>2
<1>8. WaiterTypes'
  BY <1>1, <1>2
<1>9. Distinct(list') /\ ~In(x, list')
  BY <1>1 DEF WaitersOK
<1>10. ASSUME NEW y \in Threads
       PROVE  /\ In(y, list') \/ y = x =>
                   /\ pc'[y] \in {"parked", "unlink"} /\ status'[y] = "none"
                   /\ unparked'[y] = 0 /\ unlinked'[y] = 0
              /\ count'[y] = 1 => pc'[y] = "parked" /\ (In(y, list') \/ y = x)
              /\ pc'[y] = "unlink" => status'[y] = "none"
              /\ pc'[y] \in {"out", "unlink"} => wake'[y] = <<>>
              /\ Distinct(wake'[y])
  <2>1. pc[y] \in {"out", "unlink"} => y # t
    BY <1>1 DEF WaitersOK
  <2>2. QED
    BY <1>1, <1>2, <1>3, <1>4, <1>7, <2>1 DEF WaitersOK, Waits
<1>11. \A y \in Threads : pc'[y] = "parked" /\ count'[y] = 0 =>
          status'[y] # "none" /\ (unparked'[y] = 1 \/ \E v \in Threads : In(y, wake'[v]))
  BY <1>1, <1>3, <1>5, <1>7 DEF WaitersOK
<1>12. \A y, v \in Threads : In(y, wake'[v]) => pc'[y] = "parked" /\ count'[y] = 0 /\ unparked'[y] = 0
  BY <1>1, <1>5, <1>6, <1>7 DEF WaitersOK
<1>13. \A y, v, w \in Threads : In(y, wake'[v]) /\ In(y, wake'[w]) => v = w
  <2> SUFFICES ASSUME NEW y \in Threads, NEW v \in Threads, NEW w \in Threads,
                      In(y, wake'[v]), In(y, wake'[w])
               PROVE  v = w
    OBVIOUS
  <2>1. In(y, wake[v]) /\ In(y, wake[w])
    BY <1>5, <1>6
  <2>2. QED
    BY <2>1 DEF WaitersOK
<1>14. QED
  BY <1>8, <1>9, <1>10, <1>11, <1>12, <1>13 DEF WaitersOK, Waits

\* A waiter takes its own parker: from now on nobody else does.
LEMMA CancelledOK ==
  ASSUME WaiterTypes, NEW x, WaitersOK(x), NEW t \in Threads, Cancelled(t), list' = list
  PROVE  WaiterTypes' /\ WaitersOK(x)'
<1> USE DEF WaiterTypes
<1>1. /\ wake[t] = <<>> /\ count[t] = 1 /\ count' = [count EXCEPT ![t] = 0]
      /\ pc[t] = "parked" /\ pc' = [pc EXCEPT ![t] = "unlink"]
      /\ UNCHANGED <<status, unparked, unlinked, wake, list>>
  BY DEF Cancelled, Step
<1>2. Waits(t, x) /\ status[t] = "none" /\ \A v \in Threads : ~In(t, wake[v])
  BY <1>1 DEF WaitersOK
<1>3. WaiterTypes'
  BY <1>1
<1>4. pc'[t] = "unlink" /\ count'[t] = 0 /\ \A y \in Threads \ {t} : pc'[y] = pc[y] /\ count'[y] = count[y]
  BY <1>1
<1>5. QED
  BY <1>1, <1>2, <1>3, <1>4, SMTT(30) DEF WaitersOK, Waits

\* A thread that was unparked returns.
LEMMA UnparkedOK ==
  ASSUME WaiterTypes, NEW x, WaitersOK(x), NEW t \in Threads,
         \E s \in {"success", "disposed"} : Unparked(t, s), list' = list
  PROVE  WaiterTypes' /\ WaitersOK(x)'
<1> USE DEF WaiterTypes
<1>1. /\ wake[t] = <<>> /\ unparked[t] = 1 /\ pc[t] = "parked" /\ pc' = [pc EXCEPT ![t] = "out"]
      /\ UNCHANGED <<count, status, unparked, unlinked, wake, list>>
  BY DEF Unparked, Step
<1>2. ~Waits(t, x) /\ count[t] = 0 /\ \A v \in Threads : ~In(t, wake[v])
  BY <1>1 DEF WaitersOK
<1>3. WaiterTypes'
  BY <1>1
<1>4. pc'[t] = "out" /\ \A y \in Threads \ {t} : pc'[y] = pc[y]
  BY <1>1
<1>5. QED
  BY <1>1, <1>2, <1>3, <1>4 DEF WaitersOK, Waits

\* A waiter that gave up returns without its entry.
LEMMA UnlinkOK ==
  ASSUME WaiterTypes, WaitersOK(NoThread), NEW t \in Threads, UnlinkEntryList(t, list)
  PROVE  /\ WaiterTypes' /\ WaitersOK(NoThread)' /\ pc[t] = "unlink"
         /\ \A y : In(y, list') <=> y # t /\ In(y, list)
<1> USE ChannelsAssumption DEF ChannelsAssumption, WaiterTypes
<1>1. /\ pc[t] = "unlink" /\ pc' = [pc EXCEPT ![t] = "out"]
      /\ UNCHANGED <<count, status, unparked, unlinked, wake>>
      /\ list' = IF unlinked[t] = 1 THEN list ELSE Without(list, t)
  BY DEF UnlinkEntryList, Step
<1>2. /\ list' \in Seq(Threads) /\ Distinct(list')
      /\ \A y : In(y, list') <=> y # t /\ In(y, list)
  <2>1. CASE unlinked[t] = 1
    <3>1. ~In(t, list)
      BY <2>1 DEF WaitersOK, Waits
    <3>2. QED
      BY <1>1, <2>1, <3>1 DEF WaitersOK
  <2>2. CASE unlinked[t] # 1
    BY <1>1, <2>2, WithoutLemma DEF WaitersOK
  <2>3. QED
    BY <2>1, <2>2
<1>3. WaiterTypes'
  BY <1>1, <1>2
<1>4. count[t] = 0 /\ wake[t] = <<>> /\ \A v \in Threads : ~In(t, wake[v])
  BY <1>1 DEF WaitersOK
<1>5. pc'[t] = "out" /\ \A y \in Threads \ {t} : pc'[y] = pc[y]
  BY <1>1
<1>6. ~In(NoThread, list')
  BY <1>2 DEF WaitersOK
<1>7. QED
  BY <1>1, <1>2, <1>3, <1>4, <1>5, <1>6 DEF WaitersOK, Waits

\* What the properties say of the lists.
LEMMA WaitersLeave ==
  ASSUME WaiterTypes, WaitersOK(NoThread)
  PROVE  EntriesLeave(list) /\ NobodyLost(list)
<1> USE ChannelsAssumption DEF ChannelsAssumption, WaiterTypes
<1>1. EntriesLeave(list)
  <2>1. \A t \in Threads : pc[t] \notin {"parked", "unlink"} =>
          ~In(t, list) /\ \A u \in Threads : ~In(t, wake[u])
    BY DEF WaitersOK, Waits
  <2>2. QED
    BY <2>1 DEF EntriesLeave, In
<1>2. NobodyLost(list)
  <2>1. \A t \in Threads : pc[t] = "parked" =>
          \/ unparked[t] = 1 \/ (count[t] = 1 /\ In(t, list))
          \/ \E u \in Threads : In(t, wake[u])
    BY DEF WaitersOK, Waits
  <2>2. QED
    BY <2>1, Zenon DEF NobodyLost, In
<1>3. QED
  BY <1>1, <1>2

-----------------------------------------------------------------------------
(* The bounded queue. *)

Increasing(s) == \A i, j \in 1..Len(s) : i < j => s[i] < s[j]

LEMMA IncreasingAppend ==
  ASSUME NEW s \in Seq(Nat), Increasing(s), NEW x \in Nat, \A y : In(y, s) => y < x
  PROVE  Increasing(Append(s, x))
<1>1. /\ Len(Append(s, x)) = Len(s) + 1 /\ Append(s, x)[Len(s) + 1] = x
      /\ \A i \in 1..Len(s) : Append(s, x)[i] = s[i]
  OBVIOUS
<1>2. \A i \in 1..Len(s) : s[i] < x
  BY DEF In
<1>3. QED
  BY <1>1, <1>2 DEF Increasing

LEMMA IncreasingTail ==
  ASSUME NEW s \in Seq(Nat), Increasing(s), s # <<>>
  PROVE  Increasing(Tail(s)) /\ \A y : In(y, Tail(s)) => Head(s) < y
<1>1. /\ Len(s) \in Nat /\ Len(s) >= 1 /\ Len(Tail(s)) = Len(s) - 1 /\ Head(s) = s[1]
      /\ \A i \in 1..Len(Tail(s)) : Tail(s)[i] = s[i + 1]
  OBVIOUS
<1>2. Increasing(Tail(s))
  BY <1>1 DEF Increasing
<1>3. \A i \in 1..Len(Tail(s)) : Head(s) < Tail(s)[i]
  BY <1>1 DEF Increasing
<1>4. QED
  BY <1>2, <1>3 DEF In

LEMMA IncreasingDistinct ==
  ASSUME NEW s \in Seq(Nat), Increasing(s) PROVE Distinct(s)
<1> SUFFICES ASSUME NEW i \in 1..Len(s), NEW j \in 1..Len(s), s[i] = s[j] PROVE i = j
  BY DEF Distinct
<1>1. s[i] \in Nat /\ s[j] \in Nat
  OBVIOUS
<1>2. ~(i < j) /\ ~(j < i)
  BY <1>1 DEF Increasing
<1>3. QED
  BY <1>2

\* How often an item occurs in a sequence without duplicates.
LEMMA Occurrences ==
  ASSUME NEW T, NEW s \in Seq(T), Distinct(s), NEW x
  PROVE  Cardinality({k \in 1..Len(s) : s[k] = x}) = IF In(x, s) THEN 1 ELSE 0
<1> DEFINE K == {k \in 1..Len(s) : s[k] = x}
<1>1. CASE In(x, s)
  <2>1. PICK k \in 1..Len(s) : s[k] = x
    BY <1>1 DEF In
  <2>2. K = {k}
    BY <2>1 DEF Distinct
  <2> HIDE DEF K
  <2>3. Cardinality(K) = 1
    BY <2>2, FS_Singleton, Zenon
  <2>4. QED
    BY <1>1, <2>3 DEF K
<1>2. CASE ~In(x, s)
  <2>1. K = {}
    BY <1>2 DEF In
  <2> HIDE DEF K
  <2>2. Cardinality(K) = 0
    BY <2>1, FS_EmptySet
  <2>3. QED
    BY <1>2, <2>2 DEF K
<1>3. QED
  BY <1>1, <1>2

BoundedTypes ==
  /\ buffer \in Seq(Nat) /\ taken \in Seq(Nat) /\ Len(buffer) <= Capacity
  /\ channel \in [Threads -> Nat] /\ added \in Nat /\ ended \in SUBSET (1..added)

\* The items that have been accepted, in order.
Accepted(i) == In(i, taken) \/ In(i, buffer)
AcceptedInOrder ==
  /\ Increasing(taken) /\ Increasing(buffer)
  /\ \A i, j \in 1..added : In(i, taken) /\ In(j, buffer) => i < j
  /\ \A i : Accepted(i) => i \in 1..added

\* A waiting adder keeps its item until it was accepted.
Keeps(t) == pc[t] \in {"parked", "unlink"} /\ status[t] # "success" /\ channel[t] # 0
KeptOnce ==
  /\ \A t \in Threads : Keeps(t) => /\ channel[t] \in 1..added /\ channel[t] \notin ended
                                    /\ \A i \in 1..added : Accepted(i) => i # channel[t]
  /\ \A t, u \in Threads : Keeps(t) /\ Keeps(u) /\ channel[t] = channel[u] => t = u
  /\ \A i \in 1..added : /\ Accepted(i) => i \notin ended
                         /\ Accepted(i) \/ i \in ended \/ \E t \in Threads : Keeps(t) /\ channel[t] = i

\* Those that can still be served: adders in order beside a full buffer, or takers
\* beside an empty one.
LiveOK ==
  /\ \A t \in Threads : count[t] = 1 =>
       IF channel[t] = 0 THEN buffer = <<>>
       ELSE Len(buffer) = Capacity /\ \A i \in 1..added : Accepted(i) => i < channel[t]
  /\ \A j, k \in 1..Len(list) :
       /\ j < k /\ count[list[j]] = 1 /\ count[list[k]] = 1
       /\ channel[list[j]] # 0 /\ channel[list[k]] # 0
       => channel[list[j]] < channel[list[k]]

BoundedInv == /\ WaiterTypes /\ WaitersOK(NoThread)
              /\ BoundedTypes /\ AcceptedInOrder /\ KeptOnce /\ LiveOK

LEMMA BoundedInit == ASSUME Init PROVE BoundedInv
<1> USE ChannelsAssumption DEF ChannelsAssumption, Init, ListInit
<1>1. \A x : ~In(x, <<>>)
  BY SmallStacks
<1>2. WaiterTypes /\ WaitersOK(NoThread)
  BY <1>1, SmallStacks DEF WaiterTypes, WaitersOK, Waits
<1>3. BoundedTypes
  <2>1. <<>> \in Seq(Nat) /\ Len(<<>>) = 0
    OBVIOUS
  <2>2. {} \in SUBSET (1..0)
    OBVIOUS
  <2>3. QED
    BY <2>1, <2>2 DEF BoundedTypes
<1>4. AcceptedInOrder /\ KeptOnce
  BY <1>1 DEF AcceptedInOrder, Accepted, Increasing, KeptOnce, Keeps
<1>5. LiveOK
  BY DEF LiveOK
<1>6. QED
  BY <1>2, <1>3, <1>4, <1>5 DEF BoundedInv

\* A step by which a new item is accepted, and a step by which nothing changes, of those
\* who keep items.
LEMMA AcceptNew ==
  ASSUME BoundedTypes, KeptOnce, added' = added + 1, ended' = ended,
         \A i : Accepted(i)' <=> i = added + 1 \/ Accepted(i),
         \A x \in Threads : (Keeps(x)' <=> Keeps(x)) /\ (Keeps(x) => channel'[x] = channel[x])
  PROVE  KeptOnce'
<1> USE DEF BoundedTypes
<1> DEFINE n == added + 1
<1>1. \A i \in 1..n : i = n \/ i \in 1..added
  OBVIOUS
<1>2. n \notin 1..added /\ n \in 1..n /\ 1..added \subseteq 1..n
  OBVIOUS
<1>3. ASSUME NEW x \in Threads, Keeps(x)'
      PROVE  /\ channel'[x] \in 1..added' /\ channel'[x] \notin ended'
             /\ \A i \in 1..added' : Accepted(i)' => i # channel'[x]
  <2>1. /\ channel'[x] = channel[x] /\ channel[x] \in 1..added /\ channel[x] \notin ended
        /\ \A i \in 1..added : Accepted(i) => i # channel[x]
    BY <1>3 DEF KeptOnce
  <2>2. channel[x] \in 1..n /\ channel[x] # n
    BY <1>2, <2>1
  <2>3. \A i \in 1..n : Accepted(i)' => i # channel[x]
    BY <1>1, <2>1, <2>2
  <2>4. QED
    BY <2>1, <2>2, <2>3
<1>4. \A x, y \in Threads : Keeps(x)' /\ Keeps(y)' /\ channel'[x] = channel'[y] => x = y
  BY DEF KeptOnce
<1>5. ASSUME NEW i \in 1..added'
      PROVE  /\ Accepted(i)' => i \notin ended'
             /\ Accepted(i)' \/ i \in ended' \/ \E x \in Threads : Keeps(x)' /\ channel'[x] = i
  <2>1. i = n => Accepted(i)' /\ i \notin ended'
    BY <1>2
  <2>2. i \in 1..added => /\ Accepted(i) => i \notin ended
                          /\ Accepted(i) \/ i \in ended \/ \E x \in Threads : Keeps(x) /\ channel[x] = i
    BY DEF KeptOnce
  <2>3. i = n \/ i \in 1..added
    BY <1>1
  <2>4. i # n => (Accepted(i)' <=> Accepted(i)) /\ ended' = ended
    OBVIOUS
  <2> HIDE DEF n
  <2>5. QED
    BY <2>1, <2>2, <2>3, <2>4
<1>6. QED
  BY <1>3, <1>4, <1>5 DEF KeptOnce

LEMMA KeptSame ==
  ASSUME KeptOnce, added' = added, ended' = ended, \A i : Accepted(i)' <=> Accepted(i),
         \A x \in Threads : (Keeps(x)' <=> Keeps(x)) /\ (Keeps(x) => channel'[x] = channel[x])
  PROVE  KeptOnce'
  BY DEF KeptOnce

\* A new item is handed to a waiting taker.
LEMMA AddToTakerOK ==
  ASSUME BoundedInv, NEW t \in Threads, AddToTaker(t), lifo' = lifo
  PROVE  BoundedInv'
<1> USE ChannelsAssumption DEF ChannelsAssumption, WaiterTypes, BoundedTypes
<1>0. WaiterTypes /\ WaitersOK(NoThread) /\ BoundedTypes /\ AcceptedInOrder /\ KeptOnce /\ LiveOK
  BY DEF BoundedInv
<1> DEFINE u == Live(list)
           n == added + 1
<1>1. /\ added' = n /\ Len(buffer) < Capacity /\ LockFirst(t, list, "success")
      /\ list' = Rest(list) /\ channel' = [channel EXCEPT ![u] = n]
      /\ taken' = Append(taken, n) /\ UNCHANGED <<buffer, disposed, ended, lifo>>
  BY DEF AddToTaker, Offer
<1>2. WaiterTypes' /\ WaitersOK(NoThread)'
  BY <1>0, <1>1, LockFirstOK
<1>3. /\ u \in Threads /\ count[u] = 1 /\ In(u, list) /\ FirstLive(list) \in 1..Len(list)
      /\ Len(Rest(list)) = Len(list) - FirstLive(list)
      /\ \A k \in 1..Len(Rest(list)) : Rest(list)[k] = list[FirstLive(list) + k]
  BY <1>0, <1>1, FirstLemma, Zenon DEF LockFirst, WaitersOK
<1>4. /\ pc[t] = "out" /\ pc' = [pc EXCEPT ![t] = "wake"]
      /\ count' = [count EXCEPT ![u] = 0] /\ status' = [status EXCEPT ![u] = "success"]
  BY <1>1 DEF LockFirst, Step
<1> HIDE DEF u
<1>5. buffer = <<>> /\ channel[u] = 0 /\ \A x \in Threads : count[x] = 1 => channel[x] = 0
  BY <1>0, <1>1, <1>3 DEF LiveOK
<1>6. /\ taken' \in Seq(Nat) /\ n \in Nat
      /\ \A i : In(i, taken') <=> i = n \/ In(i, taken)
      /\ \A i : Accepted(i)' <=> i = n \/ Accepted(i)
  <2>1. taken \in Seq(Nat) /\ n \in Nat /\ taken' = Append(taken, n) /\ buffer' = buffer
    BY <1>0, <1>1
  <2> HIDE DEF n
  <2>2. taken' \in Seq(Nat) /\ \A i : In(i, taken') <=> i = n \/ In(i, taken)
    BY <2>1, AppendLemma, Zenon
  <2>3. QED
    BY <2>1, <2>2 DEF Accepted
<1>7. \A x \in Threads : (Keeps(x)' <=> Keeps(x)) /\ (Keeps(x) => channel'[x] = channel[x])
  BY <1>0, <1>1, <1>3, <1>4, <1>5, Zenon DEF Keeps
<1>8. BoundedTypes'
  <2>1. n \in Nat /\ 1..added \subseteq 1..n
    BY <1>0
  <2>2. channel' \in [Threads -> Nat] /\ ended' \in SUBSET (1..added')
    BY <1>0, <1>1, <2>1, Zenon
  <2>3. QED
    BY <1>0, <1>1, <1>6, <2>1, <2>2
<1>9. AcceptedInOrder'
  <2>1. \A i : In(i, taken) => i < n
    BY <1>0 DEF AcceptedInOrder, Accepted
  <2>2. Increasing(taken')
    BY <1>0, <1>1, <2>1, IncreasingAppend DEF AcceptedInOrder
  <2>3. Increasing(buffer') /\ \A i : ~In(i, buffer')
    BY <1>0, <1>1, <1>5, SmallStacks DEF AcceptedInOrder
  <2>4. \A i : Accepted(i)' => i \in 1..added'
    <3>1. \A i : Accepted(i) => i \in 1..added
      BY <1>0 DEF AcceptedInOrder
    <3>2. n \in 1..n /\ 1..added \subseteq 1..n
      BY <1>0
    <3>3. QED
      BY <1>1, <1>6, <3>1, <3>2
  <2>5. QED
    BY <2>2, <2>3, <2>4 DEF AcceptedInOrder, Accepted
<1>10. KeptOnce'
  BY <1>0, <1>1, <1>6, <1>7, AcceptNew
<1>11. LiveOK'
  <2>1. \A x \in Threads : count'[x] = 1 => channel'[x] = 0 /\ buffer' = <<>>
    BY <1>0, <1>1, <1>3, <1>4, <1>5
  <2>2. list' \in Seq(Threads)
    BY <1>2
  <2>3. \A k \in 1..Len(list') : count'[list'[k]] = 1 => channel'[list'[k]] = 0
    BY <2>1, <2>2
  <2>4. QED
    BY <2>1, <2>3 DEF LiveOK
<1>12. QED
  BY <1>2, <1>8, <1>9, <1>10, <1>11, Zenon DEF BoundedInv

\* A new item goes to the buffer.
LEMMA AddToBufferOK ==
  ASSUME BoundedInv, NEW t \in Threads, AddToBuffer(t), lifo' = lifo
  PROVE  BoundedInv'
<1> USE ChannelsAssumption DEF ChannelsAssumption, WaiterTypes, BoundedTypes
<1>0. WaiterTypes /\ WaitersOK(NoThread) /\ BoundedTypes /\ AcceptedInOrder /\ KeptOnce /\ LiveOK
  BY DEF BoundedInv
<1> DEFINE n == added + 1
<1>1. /\ added' = n /\ Len(buffer) < Capacity /\ NobodyLive(list) /\ list' = <<>>
      /\ buffer' = Append(buffer, n) /\ UNCHANGED <<disposed, channel, taken, ended, lifo>>
  BY DEF AddToBuffer, Offer
<1>2. WaiterTypes' /\ WaitersOK(NoThread)' /\ \A x \in Threads : count[x] = 0
  BY <1>0, <1>1, NobodyLiveOK, Zenon
<1>3. UNCHANGED <<pc, count, status, unparked, wake>>
  BY <1>1 DEF NobodyLive
<1>4. /\ buffer' \in Seq(Nat) /\ n \in Nat /\ Len(buffer') <= Capacity
      /\ \A i : In(i, buffer') <=> i = n \/ In(i, buffer)
      /\ \A i : Accepted(i)' <=> i = n \/ Accepted(i)
  <2>1. buffer \in Seq(Nat) /\ n \in Nat /\ buffer' = Append(buffer, n) /\ taken' = taken
    BY <1>0, <1>1
  <2>2. Len(buffer') <= Capacity
    BY <1>1, <2>1
  <2> HIDE DEF n
  <2>3. buffer' \in Seq(Nat) /\ \A i : In(i, buffer') <=> i = n \/ In(i, buffer)
    BY <2>1, AppendLemma, Zenon
  <2>4. QED
    BY <2>1, <2>2, <2>3 DEF Accepted
<1>5. \A x \in Threads : (Keeps(x)' <=> Keeps(x)) /\ (Keeps(x) => channel'[x] = channel[x])
  BY <1>1, <1>3 DEF Keeps
<1>6. BoundedTypes'
  <2>1. 1..added \subseteq 1..n
    BY <1>0
  <2>2. QED
    BY <1>0, <1>1, <1>4, <2>1
<1>7. \A i : Accepted(i) => i \in 1..added /\ i < n
  BY <1>0 DEF AcceptedInOrder
<1>8. AcceptedInOrder'
  <2>1. Increasing(buffer')
    BY <1>0, <1>1, <1>4, <1>7, IncreasingAppend DEF AcceptedInOrder, Accepted
  <2>2. \A i : Accepted(i)' => i \in 1..added'
    <3>1. n \in 1..n /\ 1..added \subseteq 1..n
      BY <1>0
    <3>2. QED
      BY <1>1, <1>4, <1>7, <3>1
  <2>3. ASSUME NEW i, NEW j, In(i, taken'), In(j, buffer') PROVE i < j
    <3>1. In(i, taken) /\ Accepted(i) /\ (j = n \/ In(j, buffer))
      BY <1>1, <1>4, <2>3 DEF Accepted
    <3>2. CASE j = n
      BY <1>7, <3>1, <3>2
    <3>3. CASE In(j, buffer)
      BY <1>0, <1>7, <3>1, <3>3 DEF AcceptedInOrder, Accepted
    <3>4. QED
      BY <3>1, <3>2, <3>3
  <2>4. Increasing(taken')
    BY <1>0, <1>1 DEF AcceptedInOrder
  <2>5. QED
    BY <2>1, <2>2, <2>3, <2>4 DEF AcceptedInOrder, Accepted
<1>9. KeptOnce'
  BY <1>0, <1>1, <1>4, <1>5, AcceptNew
<1>10. LiveOK'
  <2>1. list' = <<>> /\ \A x \in Threads : count'[x] = 0
    BY <1>1, <1>2, <1>3
  <2>2. QED
    BY <2>1 DEF LiveOK
<1>11. QED
  BY <1>2, <1>6, <1>8, <1>9, <1>10, Zenon DEF BoundedInv

\* An adder waits with its item.
LEMMA AddWaitsOK ==
  ASSUME BoundedInv, NEW t \in Threads, AddWaits(t), lifo' = lifo
  PROVE  BoundedInv'
<1> USE ChannelsAssumption DEF ChannelsAssumption, WaiterTypes, BoundedTypes
<1>0. WaiterTypes /\ WaitersOK(NoThread) /\ BoundedTypes /\ AcceptedInOrder /\ KeptOnce /\ LiveOK
  BY DEF BoundedInv
<1> DEFINE n == added + 1
<1>1. /\ added' = n /\ n \in Nat /\ Len(buffer) = Capacity /\ list' = Append(list, t)
      /\ channel' = [channel EXCEPT ![t] = n]
      /\ UNCHANGED <<buffer, disposed, taken, ended, lifo>>
      /\ pc[t] = "out" /\ pc' = [pc EXCEPT ![t] = "parked"]
      /\ count' = [count EXCEPT ![t] = 1] /\ status' = [status EXCEPT ![t] = "none"]
      /\ unparked' = [unparked EXCEPT ![t] = 0] /\ unlinked' = [unlinked EXCEPT ![t] = 0]
      /\ wake' = wake
  BY <1>0 DEF AddWaits, Offer, Wait, Step
<1>2. WaiterTypes' /\ WaitersOK(NoThread)'
  BY <1>0, <1>1, WaitOK, Zenon
<1>3. n # 0 /\ n \notin 1..added /\ n \in 1..n /\ 1..added \subseteq 1..n
      /\ (\A i \in 1..n : i = n \/ i \in 1..added) /\ \A i \in 1..added : i < n
  BY <1>0
<1> HIDE DEF n
<1>4. \A i : (Accepted(i)' <=> Accepted(i)) /\ (Accepted(i) => i \in 1..added)
  BY <1>0, <1>1 DEF Accepted, AcceptedInOrder
<1>5. /\ ~Keeps(t) /\ Keeps(t)' /\ channel'[t] = n
      /\ \A x \in Threads \ {t} : (Keeps(x)' <=> Keeps(x)) /\ channel'[x] = channel[x]
  <2>1. ~Keeps(t) /\ channel'[t] = n /\ status'[t] = "none" /\ pc'[t] = "parked"
    BY <1>0, <1>1 DEF Keeps
  <2>2. \A x \in Threads \ {t} : pc'[x] = pc[x] /\ status'[x] = status[x] /\ channel'[x] = channel[x]
    BY <1>0, <1>1
  <2>3. QED
    BY <1>3, <2>1, <2>2 DEF Keeps
<1>6. BoundedTypes'
  BY <1>0, <1>1, <1>3
<1>7. AcceptedInOrder'
  BY <1>0, <1>1, <1>3, <1>4, Zenon DEF AcceptedInOrder, Accepted
<1>8. KeptOnce'
  <2>1. ASSUME NEW x \in Threads, Keeps(x)'
        PROVE  /\ channel'[x] \in 1..added' /\ channel'[x] \notin ended'
               /\ \A i \in 1..added' : Accepted(i)' => i # channel'[x]
    <3>1. CASE x = t
      BY <1>0, <1>1, <1>3, <1>4, <1>5, <3>1
    <3>2. CASE x # t
      BY <1>0, <1>1, <1>3, <1>4, <1>5, <2>1, <3>2 DEF KeptOnce
    <3>3. QED
      BY <3>1, <3>2
  <2>2. \A x \in Threads \ {t} : Keeps(x)' => channel'[x] # n
    BY <1>0, <1>3, <1>5 DEF KeptOnce
  <2>3. \A x, y \in Threads : Keeps(x)' /\ Keeps(y)' /\ channel'[x] = channel'[y] => x = y
    BY <1>0, <1>5, <2>2, Zenon DEF KeptOnce
  <2>4. ASSUME NEW i \in 1..added'
        PROVE  /\ Accepted(i)' => i \notin ended'
               /\ Accepted(i)' \/ i \in ended' \/ \E x \in Threads : Keeps(x)' /\ channel'[x] = i
    <3>1. CASE i = n
      BY <1>3, <1>4, <1>5, <3>1
    <3>2. CASE i \in 1..added
      <4>1. /\ Accepted(i) => i \notin ended
            /\ Accepted(i) \/ i \in ended \/ \E x \in Threads : Keeps(x) /\ channel[x] = i
        BY <1>0, <3>2 DEF KeptOnce
      <4>2. (\E x \in Threads : Keeps(x) /\ channel[x] = i) => \E x \in Threads : Keeps(x)' /\ channel'[x] = i
        BY <1>5
      <4>3. (Accepted(i)' <=> Accepted(i)) /\ ended' = ended
        BY <1>1, <1>4
      <4>4. QED
        BY <4>1, <4>2, <4>3
    <3>3. QED
      BY <1>1, <1>3, <3>1, <3>2
  <2>5. QED
    BY <2>1, <2>3, <2>4 DEF KeptOnce
<1>9. LiveOK'
  <2>1. ~In(t, list) /\ count[t] = 0 /\ list \in Seq(Threads)
    BY <1>0, <1>1 DEF WaitersOK, Waits
  <2>2. \A x \in Threads : count'[x] = 1 =>
          IF channel'[x] = 0 THEN buffer' = <<>>
          ELSE Len(buffer') = Capacity /\ \A i \in 1..added' : Accepted(i)' => i < channel'[x]
    BY <1>0, <1>1, <1>3, <1>4, <1>5 DEF LiveOK
  <2>3. /\ Len(list') = Len(list) + 1 /\ list'[Len(list) + 1] = t
        /\ \A k \in 1..Len(list) : list'[k] = list[k] /\ list[k] # t /\ list[k] \in Threads
    BY <1>1, <2>1 DEF In
  <2>4. ASSUME NEW j \in 1..Len(list'), NEW k \in 1..Len(list'), j < k,
               count'[list'[j]] = 1, count'[list'[k]] = 1,
               channel'[list'[j]] # 0, channel'[list'[k]] # 0
        PROVE  channel'[list'[j]] < channel'[list'[k]]
    <3>1. j \in 1..Len(list) /\ (k = Len(list) + 1 \/ k \in 1..Len(list))
      BY <2>1, <2>3, <2>4
    <3>2. count[list[j]] = 1 /\ channel[list[j]] # 0 /\ channel'[list'[j]] = channel[list[j]]
      BY <1>1, <1>5, <2>3, <2>4, <3>1
    <3>3. CASE k = Len(list) + 1
      <4>1. Keeps(list[j]) /\ list[j] \in Threads
        BY <1>0, <2>3, <3>1, <3>2, Zenon DEF WaitersOK, Waits, Keeps
      <4>2. channel[list[j]] \in 1..added
        BY <1>0, <4>1 DEF KeptOnce
      <4>3. QED
        BY <1>3, <1>5, <2>3, <3>2, <3>3, <4>2
    <3>4. CASE k \in 1..Len(list)
      <4>1. count[list[k]] = 1 /\ channel[list[k]] # 0 /\ channel'[list'[k]] = channel[list[k]]
        BY <1>1, <1>5, <2>3, <2>4, <3>4
      <4>2. QED
        BY <1>0, <2>4, <3>1, <3>2, <3>4, <4>1, Zenon DEF LiveOK
    <3>5. QED
      BY <3>1, <3>3, <3>4
  <2>5. QED
    BY <2>2, <2>4 DEF LiveOK
<1>10. QED
  BY <1>2, <1>6, <1>7, <1>8, <1>9, Zenon DEF BoundedInv

\* The oldest item is taken out of the buffer.
LEMMA HeadTaken ==
  ASSUME BoundedTypes, AcceptedInOrder, buffer # <<>>, taken' = Append(taken, Head(buffer))
  PROVE  /\ taken' \in Seq(Nat) /\ Increasing(taken') /\ Head(buffer) \in 1..added
         /\ Tail(buffer) \in Seq(Nat) /\ Increasing(Tail(buffer))
         /\ \A i : In(i, taken') <=> i = Head(buffer) \/ In(i, taken)
         /\ \A i : In(i, buffer) <=> i = Head(buffer) \/ In(i, Tail(buffer))
         /\ \A i, j \in 1..added : In(i, taken') /\ In(j, Tail(buffer)) => i < j
<1> USE DEF BoundedTypes
<1> DEFINE h == Head(buffer)
           r == Tail(buffer)
<1>1. /\ h \in Nat /\ r \in Seq(Nat) /\ Increasing(r) /\ \A y : In(y, r) => h < y
      /\ \A i : In(i, buffer) <=> i = h \/ In(i, r)
  BY PopLemma, IncreasingTail DEF AcceptedInOrder
<1>2. taken \in Seq(Nat) /\ taken' = Append(taken, h)
  OBVIOUS
<1> HIDE DEF h, r
<1>3. taken' \in Seq(Nat) /\ \A i : In(i, taken') <=> i = h \/ In(i, taken)
  BY <1>1, <1>2, AppendLemma
<1>4. h \in 1..added
  BY <1>1, Zenon DEF AcceptedInOrder, Accepted
<1>5. \A i : In(i, taken) => i \in 1..added /\ i < h
  BY <1>1, <1>4 DEF AcceptedInOrder, Accepted
<1>6. Increasing(taken')
  BY <1>1, <1>2, <1>5, IncreasingAppend DEF AcceptedInOrder
<1>7. \A i, j \in 1..added : In(i, taken') /\ In(j, r) => i < j
  BY <1>1, <1>3 DEF AcceptedInOrder
<1>8. QED
  BY <1>1, <1>3, <1>4, <1>6, <1>7 DEF h, r

\* The oldest item is taken, and a waiting adder's item goes to the buffer.
LEMMA TakeForAdderOK ==
  ASSUME BoundedInv, NEW t \in Threads, TakeForAdder(t), lifo' = lifo
  PROVE  BoundedInv'
<1> USE ChannelsAssumption DEF ChannelsAssumption, WaiterTypes, BoundedTypes
<1>0. WaiterTypes /\ WaitersOK(NoThread) /\ BoundedTypes /\ AcceptedInOrder /\ KeptOnce /\ LiveOK
  BY DEF BoundedInv
<1> DEFINE u == Live(list)
           c == channel[u]
           r == Tail(buffer)
           h == Head(buffer)
           f == FirstLive(list)
<1>1. /\ buffer # <<>> /\ LockFirst(t, list, "success") /\ list' = Rest(list)
      /\ channel' = [channel EXCEPT ![u] = 0] /\ buffer' = Append(r, c)
      /\ taken' = Append(taken, h) /\ UNCHANGED <<disposed, added, ended, lifo>>
  BY DEF TakeForAdder
<1>2. WaiterTypes' /\ WaitersOK(NoThread)'
  BY <1>0, <1>1, LockFirstOK, Zenon
<1>3. /\ u \in Threads /\ count[u] = 1 /\ f \in 1..Len(list) /\ list[f] = u
      /\ \A k \in 1..Len(list') : /\ f + k \in 1..Len(list) /\ f < f + k
                                   /\ list'[k] = list[f + k]
  <2>1. HasLive(list) /\ list \in Seq(Threads) /\ Distinct(list)
    BY <1>0, <1>1 DEF LockFirst, WaitersOK
  <2>2. /\ u \in Threads /\ count[u] = 1 /\ f \in 1..Len(list)
        /\ Len(list') = Len(list) - f /\ \A k \in 1..Len(list') : list'[k] = list[f + k]
    BY <1>1, <2>1, FirstLemma
  <2>3. list[f] = u
    BY DEF Live
  <2> HIDE DEF f, u
  <2>4. Len(list) \in Nat /\ f \in Nat /\ f >= 1
    BY <2>1, <2>2
  <2>5. \A k \in 1..Len(list') : f + k \in 1..Len(list) /\ f < f + k
    BY <2>2, <2>4
  <2>6. QED
    BY <2>2, <2>3, <2>5
<1>4. /\ pc[t] = "out" /\ pc' = [pc EXCEPT ![t] = "wake"]
      /\ count' = [count EXCEPT ![u] = 0] /\ status' = [status EXCEPT ![u] = "success"]
  BY <1>1 DEF LockFirst, Step
<1>5. /\ taken' \in Seq(Nat) /\ Increasing(taken') /\ h \in 1..added
      /\ r \in Seq(Nat) /\ Increasing(r) /\ Len(r) = Len(buffer) - 1
      /\ \A i : In(i, taken') <=> i = h \/ In(i, taken)
      /\ \A i : In(i, buffer) <=> i = h \/ In(i, r)
      /\ \A i, j \in 1..added : In(i, taken') /\ In(j, r) => i < j
  BY <1>0, <1>1, HeadTaken, SMTT(30)
<1>6. /\ Len(buffer) = Capacity /\ c # 0 /\ c \in Nat
      /\ (\A i \in 1..added : Accepted(i) => i < c)
      /\ \A x \in Threads : count[x] = 1 => channel[x] # 0
  BY <1>0, <1>1, <1>3, Zenon DEF LiveOK
<1>7. Keeps(u) /\ c \in 1..added /\ c \notin ended /\ (\A i : Accepted(i) => i \in 1..added)
      /\ u # t
  <2>1. pc[u] = "parked" /\ status[u] = "none" /\ u # t
    BY <1>0, <1>3, <1>4 DEF WaitersOK, Waits
  <2>2. Keeps(u)
    BY <1>6, <2>1 DEF Keeps
  <2>3. QED
    BY <1>0, <1>3, <2>1, <2>2 DEF KeptOnce, AcceptedInOrder
<1>a. r \in Seq(Nat) /\ c \in Nat /\ buffer' = Append(r, c)
  BY <1>1, <1>5, <1>6
<1>b. \A x \in Threads \ {u} : count[x] = 1 /\ In(x, list) => channel'[x] = channel[x]
  BY <1>0, <1>1
<1> HIDE DEF u, c, r, h, f
<1>8. /\ buffer' \in Seq(Nat) /\ Len(buffer') = Len(buffer)
      /\ \A i : In(i, buffer') <=> i = c \/ In(i, r)
  <2>1. buffer' \in Seq(Nat) /\ \A i : In(i, buffer') <=> i = c \/ In(i, r)
    BY <1>a, AppendLemma, Zenon
  <2>2. Len(buffer') = Len(r) + 1
    BY <1>a
  <2>3. QED
    BY <1>0, <1>5, <2>1, <2>2
<1>9. \A i : Accepted(i)' <=> i = c \/ Accepted(i)
  BY <1>5, <1>8 DEF Accepted
<1>10. /\ \A x \in Threads \ {u} : (Keeps(x)' <=> Keeps(x)) /\ channel'[x] = channel[x]
       /\ (\A x \in Threads : Keeps(x)' => x # u) /\ c = channel[u]
  <2>1. status'[u] = "success"
    BY <1>0, <1>3, <1>4
  <2>2. \A x \in Threads \ {u} : channel'[x] = channel[x] /\ status'[x] = status[x]
    BY <1>0, <1>1, <1>4
  <2>3. \A x \in Threads \ {u} : Keeps(x)' <=> Keeps(x)
    BY <1>0, <1>4, <2>2 DEF Keeps
  <2>4. \A x \in Threads : Keeps(x)' => x # u
    BY <2>1 DEF Keeps
  <2>5. QED
    BY <2>2, <2>3, <2>4 DEF c
<1>11. BoundedTypes'
  BY <1>0, <1>1, <1>3, <1>5, <1>8, Zenon
<1>12. AcceptedInOrder'
  <2>1. \A i : In(i, r) => i \in 1..added /\ i < c
    BY <1>5, <1>6, <1>7 DEF Accepted
  <2>2. Increasing(buffer')
    BY <1>a, <1>5, <2>1, IncreasingAppend
  <2>3. \A i : In(i, taken') => Accepted(i)
    BY <1>5 DEF Accepted
  <2>4. \A i, j \in 1..added : In(i, taken') /\ In(j, buffer') => i < j
    BY <1>5, <1>6, <1>8, <2>3
  <2>5. \A i : Accepted(i)' => i \in 1..added
    BY <1>7, <1>9
  <2>6. QED
    BY <1>1, <1>5, <2>2, <2>4, <2>5 DEF AcceptedInOrder
<1>13. KeptOnce'
  <2>1. ASSUME NEW x \in Threads, Keeps(x)'
        PROVE  /\ channel'[x] \in 1..added' /\ channel'[x] \notin ended'
               /\ \A i \in 1..added' : Accepted(i)' => i # channel'[x]
    <3>1. x # u /\ Keeps(x) /\ channel'[x] = channel[x]
      BY <1>10, <2>1
    <3>2. channel[x] # c
      BY <1>0, <1>3, <1>7, <1>10, <3>1 DEF KeptOnce
    <3>3. /\ channel[x] \in 1..added /\ channel[x] \notin ended
          /\ \A i \in 1..added : Accepted(i) => i # channel[x]
      BY <1>0, <3>1 DEF KeptOnce
    <3>4. QED
      BY <1>1, <1>9, <3>1, <3>2, <3>3
  <2>2. \A x, y \in Threads : Keeps(x)' /\ Keeps(y)' /\ channel'[x] = channel'[y] => x = y
    BY <1>0, <1>10, ZenonT(30) DEF KeptOnce
  <2>3. ASSUME NEW i \in 1..added
        PROVE  /\ Accepted(i)' => i \notin ended'
               /\ Accepted(i)' \/ i \in ended' \/ \E x \in Threads : Keeps(x)' /\ channel'[x] = i
    <3>1. /\ Accepted(i) => i \notin ended
          /\ Accepted(i) \/ i \in ended \/ \E x \in Threads : Keeps(x) /\ channel[x] = i
      BY <1>0 DEF KeptOnce
    <3>2. (\E x \in Threads : Keeps(x) /\ channel[x] = i) =>
            i = c \/ \E x \in Threads : Keeps(x)' /\ channel'[x] = i
      BY <1>10
    <3>3. QED
      BY <1>1, <1>7, <1>9, <3>1, <3>2
  <2>4. QED
    BY <1>1, <2>1, <2>2, <2>3 DEF KeptOnce
<1>14. LiveOK'
  <2>0. \A x \in Threads : count'[x] = 1 => x # u /\ count[x] = 1 /\ channel'[x] = channel[x]
    BY <1>0, <1>3, <1>4, <1>10
  <2>1. ASSUME NEW x \in Threads, count'[x] = 1 PROVE c < channel[x]
    <3>1. In(x, list') /\ x # u /\ count[x] = 1 /\ channel[x] # 0
      BY <1>2, <1>6, <2>0, <2>1 DEF WaitersOK, Waits
    <3>2. PICK k \in 1..Len(list') : list'[k] = x
      BY <3>1 DEF In
    <3>3. f + k \in 1..Len(list) /\ f < f + k /\ list[f + k] = x
      BY <1>3, <3>2
    <3>4. QED
      BY <1>0, <1>3, <1>6, <1>10, <3>1, <3>3, Zenon DEF LiveOK
  <2>2. ASSUME NEW x \in Threads, count'[x] = 1
        PROVE  IF channel'[x] = 0 THEN buffer' = <<>>
               ELSE Len(buffer') = Capacity /\ \A i \in 1..added' : Accepted(i)' => i < channel'[x]
    <3>1. count[x] = 1 /\ channel'[x] = channel[x] /\ channel[x] # 0 /\ c < channel[x]
      BY <1>6, <2>0, <2>1, <2>2
    <3>2. \A i \in 1..added : Accepted(i) => i < channel[x]
      BY <1>0, <3>1 DEF LiveOK
    <3>3. QED
      BY <1>1, <1>6, <1>8, <1>9, <3>1, <3>2
  <2>3. ASSUME NEW j \in 1..Len(list'), NEW k \in 1..Len(list'), j < k,
               count'[list'[j]] = 1, count'[list'[k]] = 1,
               channel'[list'[j]] # 0, channel'[list'[k]] # 0
        PROVE  channel'[list'[j]] < channel'[list'[k]]
    <3>1. list'[j] \in Threads /\ list'[k] \in Threads
      BY <1>2
    <3>2. /\ f + j \in 1..Len(list) /\ f + k \in 1..Len(list) /\ f + j < f + k
          /\ list'[j] = list[f + j] /\ list'[k] = list[f + k]
      <4>1. f \in Nat /\ list \in Seq(Threads)
        BY <1>0, <1>3
      <4>2. QED
        BY <1>3, <2>3, <4>1
    <3>3. /\ count[list[f + j]] = 1 /\ channel'[list[f + j]] = channel[list[f + j]]
          /\ count[list[f + k]] = 1 /\ channel'[list[f + k]] = channel[list[f + k]]
      BY <2>0, <2>3, <3>1, <3>2
    <3>4. QED
      BY <1>0, <2>3, <3>2, <3>3, Zenon DEF LiveOK
  <2>4. QED
    BY <2>2, <2>3 DEF LiveOK
<1>15. QED
  BY <1>2, <1>11, <1>12, <1>13, <1>14, Zenon DEF BoundedInv

\* Taking an entry out leaves the others in their order.
LEMMA WithoutOrder ==
  ASSUME NEW T, NEW t, NEW s \in Seq(T),
         NEW j \in 1..Len(Without(s, t)), NEW k \in 1..Len(Without(s, t)), j < k
  PROVE  \E m, n \in 1..Len(s) : m < n /\ s[m] = Without(s, t)[j] /\ s[n] = Without(s, t)[k]
<1>1. CASE ~In(t, s)
  BY <1>1 DEF Without
<1>2. CASE In(t, s)
  <2> DEFINE i == CHOOSE i \in 1..Len(s) : s[i] = t
             p == SubSeq(s, 1, i - 1)
             q == SubSeq(s, i + 1, Len(s))
  <2>1. i \in 1..Len(s) /\ Len(s) \in Nat
    BY <1>2 DEF In
  <2>2. Without(s, t) = p \o q
    BY <1>2, Zenon DEF Without
  <2> HIDE DEF i
  <2>3. /\ p \in Seq(T) /\ Len(p) = i - 1 /\ \A x \in 1..i - 1 : p[x] = s[x]
        /\ q \in Seq(T) /\ Len(q) = Len(s) - i /\ \A x \in 1..Len(s) - i : q[x] = s[i + x]
    BY <2>1
  <2> HIDE DEF p, q
  <2>4. /\ Len(p \o q) = Len(s) - 1
        /\ \A x \in 1..i - 1 : (p \o q)[x] = s[x]
        /\ \A x \in i..Len(s) - 1 : (p \o q)[x] = s[x + 1]
    <3>1. Len(p \o q) = Len(p) + Len(q)
      BY <2>3, SMTT(30)
    <3>2. \A x \in 1..i - 1 : (p \o q)[x] = p[x]
      BY <2>1, <2>3
    <3>3. \A x \in i..Len(s) - 1 : (p \o q)[x] = q[x - (i - 1)]
      BY <2>1, <2>3
    <3>4. \A x \in i..Len(s) - 1 : x - (i - 1) \in 1..Len(s) - i /\ i + (x - (i - 1)) = x + 1
      BY <2>1
    <3>5. QED
      BY <2>1, <2>3, <3>1, <3>2, <3>3, <3>4, SMTT(30)
  <2> DEFINE up(x) == IF x < i THEN x ELSE x + 1
  <2>5. /\ up(j) \in 1..Len(s) /\ up(k) \in 1..Len(s) /\ up(j) < up(k)
        /\ s[up(j)] = (p \o q)[j] /\ s[up(k)] = (p \o q)[k]
    BY <2>1, <2>2, <2>4, SMTT(30)
  <2> HIDE DEF up
  <2>6. QED
    BY <2>2, <2>5
<1>3. QED
  BY <1>1, <1>2

\* The oldest item is taken, and nobody waits for the slot.
LEMMA TakeOK ==
  ASSUME BoundedInv, NEW t \in Threads, Take(t), lifo' = lifo
  PROVE  BoundedInv'
<1> USE ChannelsAssumption DEF ChannelsAssumption, WaiterTypes, BoundedTypes
<1>0. WaiterTypes /\ WaitersOK(NoThread) /\ BoundedTypes /\ AcceptedInOrder /\ KeptOnce /\ LiveOK
  BY DEF BoundedInv
<1>1. /\ buffer # <<>> /\ NobodyLive(list) /\ list' = <<>> /\ buffer' = Tail(buffer)
      /\ taken' = Append(taken, Head(buffer))
      /\ UNCHANGED <<disposed, channel, added, ended, lifo>>
  BY DEF Take
<1>2. WaiterTypes' /\ WaitersOK(NoThread)' /\ \A x \in Threads : count[x] = 0
  BY <1>0, <1>1, NobodyLiveOK, Zenon
<1>3. UNCHANGED <<pc, count, status, unparked, wake>>
  BY <1>1 DEF NobodyLive
<1>4. /\ taken' \in Seq(Nat) /\ Increasing(taken') /\ buffer' \in Seq(Nat) /\ Increasing(buffer')
      /\ \A i : Accepted(i)' <=> Accepted(i)
      /\ \A i, j \in 1..added : In(i, taken') /\ In(j, buffer') => i < j
  BY <1>0, <1>1, HeadTaken, Zenon DEF Accepted
<1>5. Len(buffer') <= Capacity
  BY <1>0, <1>1
<1>6. BoundedTypes'
  BY <1>0, <1>1, <1>4, <1>5, Zenon
<1>7. AcceptedInOrder'
  <2>1. \A i : Accepted(i)' => i \in 1..added'
    BY <1>0, <1>1, <1>4 DEF AcceptedInOrder
  <2>2. QED
    BY <1>1, <1>4, <2>1 DEF AcceptedInOrder
<1>8. KeptOnce'
  <2>1. \A x \in Threads : (Keeps(x)' <=> Keeps(x)) /\ (Keeps(x) => channel'[x] = channel[x])
    BY <1>1, <1>3 DEF Keeps
  <2>2. QED
    BY <1>0, <1>1, <1>4, <2>1, KeptSame
<1>9. LiveOK'
  <2>1. list' = <<>> /\ \A x \in Threads : count'[x] = 0
    BY <1>1, <1>2, <1>3
  <2>2. QED
    BY <2>1 DEF LiveOK
<1>10. QED
  BY <1>2, <1>6, <1>7, <1>8, <1>9, Zenon DEF BoundedInv

\* A taker waits, before or behind the takers that wait already.
LEMMA TakeWaitsOK ==
  ASSUME BoundedInv, NEW t \in Threads, TakeWaits(t), lifo' = lifo
  PROVE  BoundedInv'
<1> USE ChannelsAssumption DEF ChannelsAssumption, WaiterTypes, BoundedTypes
<1>0. WaiterTypes /\ WaitersOK(NoThread) /\ BoundedTypes /\ AcceptedInOrder /\ KeptOnce /\ LiveOK
  BY DEF BoundedInv
<1>1. /\ buffer = <<>> /\ (list' = Append(list, t) \/ list' = <<t>> \o list)
      /\ channel' = [channel EXCEPT ![t] = 0]
      /\ UNCHANGED <<buffer, disposed, added, taken, ended, lifo>>
      /\ pc[t] = "out" /\ pc' = [pc EXCEPT ![t] = "parked"]
      /\ count' = [count EXCEPT ![t] = 1] /\ status' = [status EXCEPT ![t] = "none"]
      /\ unparked' = [unparked EXCEPT ![t] = 0] /\ unlinked' = [unlinked EXCEPT ![t] = 0]
      /\ wake' = wake
  BY DEF TakeWaits, Wait, Step
<1>2. WaiterTypes' /\ WaitersOK(NoThread)'
  BY <1>0, <1>1, WaitOK, Zenon
<1>3. \A i : Accepted(i)' <=> Accepted(i)
  BY <1>1 DEF Accepted
<1>4. \A x \in Threads : (Keeps(x)' <=> Keeps(x)) /\ (Keeps(x) => channel'[x] = channel[x])
  <2>1. channel'[t] = 0 /\ pc[t] = "out"
    BY <1>0, <1>1
  <2>2. \A x \in Threads \ {t} : pc'[x] = pc[x] /\ status'[x] = status[x] /\ channel'[x] = channel[x]
    BY <1>0, <1>1
  <2>3. QED
    BY <2>1, <2>2 DEF Keeps
<1>5. BoundedTypes'
  BY <1>0, <1>1
<1>6. AcceptedInOrder'
  BY <1>0, <1>1 DEF AcceptedInOrder, Accepted
<1>7. KeptOnce'
  BY <1>0, <1>1, <1>3, <1>4, KeptSame
<1>8. LiveOK'
  <2>1. ASSUME NEW x \in Threads, count'[x] = 1 PROVE channel'[x] = 0
    <3>1. CASE x = t
      BY <1>0, <1>1, <3>1
    <3>2. CASE x # t
      <4>1. count[x] = 1 /\ channel'[x] = channel[x]
        BY <1>0, <1>1, <2>1, <3>2
      <4>2. Len(buffer) = 0
        BY <1>1
      <4>3. QED
        BY <1>0, <4>1, <4>2 DEF LiveOK
    <3>3. QED
      BY <3>1, <3>2
  <2>2. \A k \in 1..Len(list') : list'[k] \in Threads
    BY <1>2
  <2>3. QED
    BY <1>1, <2>1, <2>2 DEF LiveOK
<1>9. QED
  BY <1>2, <1>5, <1>6, <1>7, <1>8, Zenon DEF BoundedInv

\* Everybody is released, and the buffer is emptied.
LEMMA DisposeOK ==
  ASSUME BoundedInv, NEW t \in Threads, Dispose(t), lifo' = lifo
  PROVE  BoundedInv'
<1> USE ChannelsAssumption DEF ChannelsAssumption, WaiterTypes, BoundedTypes
<1>0. WaiterTypes /\ WaitersOK(NoThread) /\ BoundedTypes /\ AcceptedInOrder /\ KeptOnce /\ LiveOK
  BY DEF BoundedInv
<1>1. /\ LockAll(t, list, "disposed") /\ list' = <<>> /\ buffer' = <<>>
      /\ ended' = ended \cup {buffer[i] : i \in 1..Len(buffer)}
      /\ UNCHANGED <<channel, added, taken, lifo>>
  BY DEF Dispose
<1>2. /\ WaiterTypes' /\ WaitersOK(NoThread)'
      /\ \A x \in Threads : count[x] = 0 => status'[x] = status[x]
      /\ \A x \in Threads : count[x] = 1 => status'[x] = "disposed"
  BY <1>0, <1>1, LockAllOK
<1>3. /\ pc[t] = "out" /\ pc' = [pc EXCEPT ![t] = "wake"]
      /\ \A x \in Threads : count'[x] = 0
  <2>1. /\ pc[t] = "out" /\ pc' = [pc EXCEPT ![t] = "wake"]
    BY <1>1 DEF LockAll, Step
  <2>2. \A x \in Threads : ~In(x, list') /\ x # NoThread
    BY <1>1, SmallStacks
  <2>3. QED
    BY <1>2, <2>1, <2>2 DEF WaitersOK, Waits
<1>4. \A i : i \in ended' <=> i \in ended \/ In(i, buffer)
  BY <1>1 DEF In
<1>5. \A i : In(i, buffer) => i \in 1..added
  BY <1>0 DEF AcceptedInOrder, Accepted
<1>6. \A i : Accepted(i)' <=> In(i, taken)
  BY <1>1, SmallStacks DEF Accepted
<1>7. \A x \in Threads : Keeps(x)' <=> Keeps(x)
  <2> SUFFICES ASSUME NEW x \in Threads PROVE Keeps(x)' <=> Keeps(x)
    OBVIOUS
  <2>1. pc'[x] \in {"parked", "unlink"} <=> pc[x] \in {"parked", "unlink"}
    BY <1>0, <1>3
  <2>2. status'[x] = "success" <=> status[x] = "success"
    <3>1. CASE count[x] = 0
      BY <1>2, <3>1
    <3>2. CASE count[x] = 1
      BY <1>0, <1>2, <3>2 DEF WaitersOK
    <3>3. QED
      BY <1>0, <3>1, <3>2
  <2>3. QED
    BY <1>1, <2>1, <2>2 DEF Keeps
<1>8. BoundedTypes'
  <2>1. ended' \in SUBSET (1..added')
    BY <1>0, <1>1, <1>4, <1>5, Zenon
  <2>2. <<>> \in Seq(Nat) /\ Len(<<>>) = 0
    OBVIOUS
  <2>3. QED
    BY <1>0, <1>1, <2>1, <2>2
<1>9. AcceptedInOrder'
  <2>1. Increasing(buffer') /\ \A i : ~In(i, buffer')
    BY <1>1, SmallStacks DEF Increasing
  <2>2. \A i : Accepted(i)' => i \in 1..added'
    BY <1>0, <1>1, <1>6 DEF AcceptedInOrder, Accepted
  <2>3. QED
    BY <1>0, <1>1, <2>1, <2>2 DEF AcceptedInOrder
<1>10. KeptOnce'
  <2>1. ASSUME NEW x \in Threads, Keeps(x)'
        PROVE  /\ channel'[x] \in 1..added' /\ channel'[x] \notin ended'
               /\ \A i \in 1..added' : Accepted(i)' => i # channel'[x]
    <3>1. /\ channel[x] \in 1..added /\ channel[x] \notin ended
          /\ \A i \in 1..added : Accepted(i) => i # channel[x]
      BY <1>0, <1>7, <2>1 DEF KeptOnce
    <3>2. ~In(channel[x], buffer)
      BY <3>1 DEF Accepted
    <3>3. QED
      BY <1>1, <1>4, <1>6, <3>1, <3>2 DEF Accepted
  <2>2. \A x, y \in Threads : Keeps(x)' /\ Keeps(y)' /\ channel'[x] = channel'[y] => x = y
    BY <1>0, <1>1, <1>7 DEF KeptOnce
  <2>3. ASSUME NEW i \in 1..added
        PROVE  /\ Accepted(i)' => i \notin ended'
               /\ Accepted(i)' \/ i \in ended' \/ \E x \in Threads : Keeps(x)' /\ channel'[x] = i
    <3>1. /\ Accepted(i) => i \notin ended
          /\ Accepted(i) \/ i \in ended \/ \E x \in Threads : Keeps(x) /\ channel[x] = i
      BY <1>0 DEF KeptOnce
    <3>2. (\E x \in Threads : Keeps(x) /\ channel[x] = i) => \E x \in Threads : Keeps(x)' /\ channel'[x] = i
      BY <1>1, <1>7
    <3>3. ~(In(i, taken) /\ In(i, buffer))
      BY <1>0 DEF AcceptedInOrder
    <3>4. QED
      BY <1>4, <1>6, <3>1, <3>2, <3>3 DEF Accepted
  <2>4. QED
    BY <1>1, <2>1, <2>2, <2>3 DEF KeptOnce
<1>11. LiveOK'
  <2>1. list' = <<>>
    BY <1>1
  <2>2. QED
    BY <1>3, <2>1 DEF LiveOK
<1>12. QED
  BY <1>2, <1>8, <1>9, <1>10, <1>11, Zenon DEF BoundedInv

\* A waiter returns with what it kept.
LEMMA KeepsItemOK ==
  ASSUME BoundedInv, NEW t \in Threads, KeepsItem(t), lifo' = lifo,
         pc[t] \in {"parked", "unlink"}, status[t] # "success", pc' = [pc EXCEPT ![t] = "out"],
         UNCHANGED <<count, status>>, WaiterTypes', WaitersOK(NoThread)', count[t] = 0,
         list' = list \/ list' = Without(list, t)
  PROVE  BoundedInv'
<1> USE ChannelsAssumption DEF ChannelsAssumption, WaiterTypes, BoundedTypes
<1>0. WaiterTypes /\ WaitersOK(NoThread) /\ BoundedTypes /\ AcceptedInOrder /\ KeptOnce /\ LiveOK
  BY DEF BoundedInv
<1>1. /\ ended' = ended \cup ({channel[t]} \ {0}) /\ channel' = [channel EXCEPT ![t] = 0]
      /\ UNCHANGED <<buffer, disposed, added, taken, lifo>>
  BY DEF KeepsItem
<1>2. \A i : Accepted(i)' <=> Accepted(i)
  BY <1>1 DEF Accepted
<1>3. /\ \A x \in Threads : Keeps(x)' => x # t /\ Keeps(x)
      /\ \A x \in Threads \ {t} : channel'[x] = channel[x] /\ (Keeps(x) => Keeps(x)')
      /\ channel[t] # 0 => Keeps(t)
  <2>1. channel'[t] = 0
    BY <1>0, <1>1
  <2>2. \A x \in Threads \ {t} : pc'[x] = pc[x] /\ status'[x] = status[x] /\ channel'[x] = channel[x]
    BY <1>0, <1>1
  <2>3. QED
    BY <2>1, <2>2 DEF Keeps
<1>4. BoundedTypes'
  <2>1. ended' \in SUBSET (1..added')
    <3>1. channel[t] # 0 => channel[t] \in 1..added
      BY <1>0, <1>3 DEF KeptOnce
    <3>2. QED
      BY <1>0, <1>1, <3>1, Zenon
  <2>2. channel' \in [Threads -> Nat]
    BY <1>0, <1>1
  <2>3. QED
    BY <1>0, <1>1, <2>1, <2>2
<1>5. AcceptedInOrder'
  BY <1>0, <1>1 DEF AcceptedInOrder, Accepted
<1>6. KeptOnce'
  <2>1. ASSUME NEW x \in Threads, Keeps(x)'
        PROVE  /\ channel'[x] \in 1..added' /\ channel'[x] \notin ended'
               /\ \A i \in 1..added' : Accepted(i)' => i # channel'[x]
    <3>1. x # t /\ Keeps(x) /\ channel'[x] = channel[x]
      BY <1>3, <2>1
    <3>2. channel[x] # channel[t] \/ channel[t] = 0
      BY <1>0, <1>3, <3>1 DEF KeptOnce
    <3>3. /\ channel[x] \in 1..added /\ channel[x] \notin ended
          /\ \A i \in 1..added : Accepted(i) => i # channel[x]
      BY <1>0, <3>1 DEF KeptOnce
    <3>4. QED
      BY <1>1, <1>2, <3>1, <3>2, <3>3
  <2>2. \A x, y \in Threads : Keeps(x)' /\ Keeps(y)' /\ channel'[x] = channel'[y] => x = y
    BY <1>0, <1>3, SMTT(30) DEF KeptOnce
  <2>3. ASSUME NEW i \in 1..added
        PROVE  /\ Accepted(i)' => i \notin ended'
               /\ Accepted(i)' \/ i \in ended' \/ \E x \in Threads : Keeps(x)' /\ channel'[x] = i
    <3>1. /\ Accepted(i) => i \notin ended
          /\ Accepted(i) \/ i \in ended \/ \E x \in Threads : Keeps(x) /\ channel[x] = i
      BY <1>0 DEF KeptOnce
    <3>2. (\E x \in Threads : Keeps(x) /\ channel[x] = i) =>
            i = channel[t] \/ \E x \in Threads : Keeps(x)' /\ channel'[x] = i
      BY <1>3, Zenon
    <3>3. i = channel[t] => ~Accepted(i)
      BY <1>0, <1>3 DEF KeptOnce
    <3>4. QED
      BY <1>1, <1>2, <3>1, <3>2, <3>3
  <2>4. QED
    BY <1>1, <2>1, <2>2, <2>3 DEF KeptOnce
<1>7. LiveOK'
  <2>1. \A x \in Threads : count'[x] = 1 => x # t /\ count[x] = 1 /\ channel'[x] = channel[x]
    BY <1>0, <1>1
  <2>2. \A x \in Threads : count'[x] = 1 =>
          IF channel'[x] = 0 THEN buffer' = <<>>
          ELSE Len(buffer') = Capacity /\ \A i \in 1..added' : Accepted(i)' => i < channel'[x]
    BY <1>0, <1>1, <1>2, <2>1 DEF LiveOK
  <2>3. ASSUME NEW j \in 1..Len(list'), NEW k \in 1..Len(list'), j < k,
               count'[list'[j]] = 1, count'[list'[k]] = 1,
               channel'[list'[j]] # 0, channel'[list'[k]] # 0
        PROVE  channel'[list'[j]] < channel'[list'[k]]
    <3>0. list' \in Seq(Threads) /\ list \in Seq(Threads)
      BY <1>0
    <3>1. list'[j] \in Threads /\ list'[k] \in Threads
      BY <2>3, <3>0
    <3>2. /\ count[list'[j]] = 1 /\ channel'[list'[j]] = channel[list'[j]]
          /\ count[list'[k]] = 1 /\ channel'[list'[k]] = channel[list'[k]]
      BY <2>1, <2>3, <3>1
    <3>3. \E m, n \in 1..Len(list) : m < n /\ list[m] = list'[j] /\ list[n] = list'[k]
      <4>1. CASE list' = list
        BY <2>3, <4>1
      <4>2. CASE list' = Without(list, t)
        BY <2>3, <3>0, <4>2, WithoutOrder, SMTT(30)
      <4>3. QED
        BY <4>1, <4>2
    <3>4. PICK m, n \in 1..Len(list) : m < n /\ list[m] = list'[j] /\ list[n] = list'[k]
      BY <3>3
    <3>5. /\ count[list[m]] = 1 /\ channel[list[m]] # 0
          /\ count[list[n]] = 1 /\ channel[list[n]] # 0
      BY <2>3, <3>2, <3>4
    <3>6. channel[list[m]] < channel[list[n]]
      BY <1>0, <3>4, <3>5, Zenon DEF LiveOK
    <3>7. QED
      BY <3>2, <3>4, <3>6
  <2>4. QED
    BY <2>2, <2>3 DEF LiveOK
<1>8. QED
  BY <1>4, <1>5, <1>6, <1>7, Zenon DEF BoundedInv

\* A step that changes neither items nor who can be served with what.
LEMMA BoundedSame ==
  ASSUME BoundedInv, WaiterTypes', WaitersOK(NoThread)', UNCHANGED <<queueVars, lifo>>,
         \A x \in Threads : Keeps(x)' <=> Keeps(x),
         \A x \in Threads : count'[x] = 1 => count[x] = 1
  PROVE  BoundedInv'
<1> USE DEF WaiterTypes, BoundedTypes
<1>0. WaiterTypes /\ BoundedTypes /\ AcceptedInOrder /\ KeptOnce /\ LiveOK
  BY DEF BoundedInv
<1>1. UNCHANGED <<buffer, disposed, list, channel, added, taken, ended, lifo>>
  BY DEF queueVars
<1>2. \A i : Accepted(i)' <=> Accepted(i)
  BY <1>1 DEF Accepted
<1>3. BoundedTypes' /\ AcceptedInOrder'
  BY <1>0, <1>1 DEF AcceptedInOrder, Accepted
<1>4. KeptOnce'
  BY <1>0, <1>1, <1>2, KeptSame
<1>5. \A k \in 1..Len(list) : list[k] \in Threads
  BY <1>0
<1>6. LiveOK'
  BY <1>0, <1>1, <1>2, <1>5, ZenonT(30) DEF LiveOK
<1>7. QED
  BY <1>3, <1>4, <1>6 DEF BoundedInv

LEMMA BoundedStep == ASSUME BoundedInv, Next PROVE BoundedInv'
<1> USE ChannelsAssumption DEF ChannelsAssumption
<1>0. WaiterTypes /\ WaitersOK(NoThread)
  BY DEF BoundedInv
<1>1. lifo' = lifo /\ \E t \in Threads :
        \/ AddEx(t) \/ TakeEx(t) \/ Dispose(t) \/ Unparking(t)
        \/ Succeeded(t) \/ WasDisposed(t) \/ GivesUp(t)
        \/ Cancelled(t) /\ UNCHANGED queueVars
  BY DEF Next
<1>2. PICK t \in Threads :
        \/ AddEx(t) \/ TakeEx(t) \/ Dispose(t) \/ Unparking(t)
        \/ Succeeded(t) \/ WasDisposed(t) \/ GivesUp(t)
        \/ Cancelled(t) /\ UNCHANGED queueVars
  BY <1>1
<1>3. CASE AddEx(t)
  BY <1>1, <1>3, AddToTakerOK, AddToBufferOK, AddWaitsOK DEF AddEx
<1>4. CASE TakeEx(t)
  BY <1>1, <1>4, TakeForAdderOK, TakeOK, TakeWaitsOK DEF TakeEx
<1>5. CASE Dispose(t)
  BY <1>1, <1>5, DisposeOK
<1>6. CASE Unparking(t)
  <2>1. list' = list /\ UNCHANGED <<queueVars, lifo>> /\ (UnparkThread(t) \/ WakeDone(t))
    BY <1>1, <1>6 DEF Unparking, queueVars
  <2>2. CASE UnparkThread(t)
    <3>1. WaiterTypes' /\ WaitersOK(NoThread)'
      BY <1>0, <2>1, <2>2, UnparkThreadOK
    <3>2. UNCHANGED <<pc, status, channel, count>>
      BY <2>1, <2>2 DEF UnparkThread, queueVars
    <3>3. \A x \in Threads : Keeps(x)' <=> Keeps(x)
      BY <3>2 DEF Keeps
    <3>4. QED
      BY <2>1, <3>1, <3>2, <3>3, BoundedSame
  <2>3. CASE WakeDone(t)
    <3>1. /\ wake[t] = <<>> /\ pc[t] = "wake" /\ pc' = [pc EXCEPT ![t] = "out"]
          /\ UNCHANGED <<count, status, unparked, unlinked, wake, list, channel>>
      BY <2>1, <2>3 DEF WakeDone, Step, queueVars
    <3>2. WaiterTypes' /\ WaitersOK(NoThread)'
      BY <1>0, <3>1, MoveOK, Zenon
    <3>3. \A x \in Threads : Keeps(x)' <=> Keeps(x)
      BY <1>0, <3>1 DEF Keeps, WaiterTypes
    <3>4. QED
      BY <2>1, <3>1, <3>2, <3>3, BoundedSame
  <2>4. QED
    BY <2>1, <2>2, <2>3
<1>7. CASE Succeeded(t)
  <2>1. list' = list /\ channel' = channel /\ UNCHANGED <<queueVars, lifo>> /\ Unparked(t, "success")
    BY <1>1, <1>7 DEF Succeeded, queueVars
  <2>2. WaiterTypes' /\ WaitersOK(NoThread)'
    BY <1>0, <2>1, UnparkedOK
  <2>3. status[t] = "success" /\ pc' = [pc EXCEPT ![t] = "out"] /\ UNCHANGED <<count, status>>
    BY <2>1 DEF Unparked, Step
  <2>4. \A x \in Threads : Keeps(x)' <=> Keeps(x)
    BY <1>0, <2>1, <2>3 DEF Keeps, WaiterTypes
  <2>5. QED
    BY <2>1, <2>2, <2>3, <2>4, BoundedSame
<1>8. CASE WasDisposed(t)
  <2>1. list' = list /\ KeepsItem(t) /\ Unparked(t, "disposed")
    BY <1>8 DEF WasDisposed
  <2>2. WaiterTypes' /\ WaitersOK(NoThread)'
    BY <1>0, <2>1, UnparkedOK
  <2>3. /\ pc[t] = "parked" /\ status[t] = "disposed" /\ pc' = [pc EXCEPT ![t] = "out"]
        /\ UNCHANGED <<count, status>> /\ count[t] = 0
    BY <1>0, <2>1 DEF Unparked, Step, WaitersOK, WaiterTypes
  <2>4. QED
    BY <1>1, <2>1, <2>2, <2>3, KeepsItemOK, Zenon
<1>9. CASE GivesUp(t)
  <2>1. UnlinkEntryList(t, list) /\ KeepsItem(t)
    BY <1>9 DEF GivesUp
  <2>2. WaiterTypes' /\ WaitersOK(NoThread)'
    BY <1>0, <2>1, UnlinkOK
  <2>3. /\ pc[t] = "unlink" /\ pc' = [pc EXCEPT ![t] = "out"] /\ UNCHANGED <<count, status>>
        /\ list' = list \/ list' = Without(list, t)
    BY <2>1 DEF UnlinkEntryList, Step
  <2>4. status[t] = "none" /\ count[t] = 0
    BY <1>0, <2>3 DEF WaitersOK, WaiterTypes
  <2>5. QED
    BY <1>1, <2>1, <2>2, <2>3, <2>4, KeepsItemOK, Zenon
<1>10. CASE Cancelled(t) /\ UNCHANGED queueVars
  <2>1. list' = list /\ channel' = channel
    BY <1>10 DEF queueVars
  <2>2. WaiterTypes' /\ WaitersOK(NoThread)'
    BY <1>0, <1>10, <2>1, CancelledOK
  <2>3. /\ pc[t] = "parked" /\ pc' = [pc EXCEPT ![t] = "unlink"]
        /\ count' = [count EXCEPT ![t] = 0] /\ status' = status
    BY <1>10 DEF Cancelled, Step
  <2>4. \A x \in Threads : Keeps(x)' <=> Keeps(x)
    BY <1>0, <2>1, <2>3 DEF Keeps, WaiterTypes
  <2>5. \A x \in Threads : count'[x] = 1 => count[x] = 1
    BY <1>0, <2>3 DEF WaiterTypes
  <2>6. QED
    BY <1>1, <1>10, <2>2, <2>4, <2>5, BoundedSame
<1>11. QED
  BY <1>2, <1>3, <1>4, <1>5, <1>6, <1>7, <1>8, <1>9, <1>10

LEMMA BoundedItems == ASSUME BoundedInv PROVE ItemsInOnePlace
<1> USE DEF BoundedTypes
<1>0. BoundedTypes /\ AcceptedInOrder /\ KeptOnce
  BY DEF BoundedInv
<1> SUFFICES ASSUME NEW i \in 1..added PROVE Places(i) = 1
  BY DEF ItemsInOnePlace
<1>1. /\ Cardinality({k \in 1..Len(buffer) : buffer[k] = i}) = IF In(i, buffer) THEN 1 ELSE 0
      /\ Cardinality({k \in 1..Len(taken) : taken[k] = i}) = IF In(i, taken) THEN 1 ELSE 0
  <2>1. Distinct(buffer) /\ Distinct(taken)
    BY <1>0, IncreasingDistinct DEF AcceptedInOrder
  <2>2. QED
    BY <1>0, <2>1, Occurrences
<1>2. Waiting(i) <=> \E t \in Threads : Keeps(t) /\ channel[t] = i
  BY <1>0 DEF Waiting, Keeps
<1>3. ~(In(i, buffer) /\ In(i, taken))
  BY <1>0 DEF AcceptedInOrder
<1>4. /\ Accepted(i) => i \notin ended
      /\ Accepted(i) \/ i \in ended \/ Waiting(i)
      /\ Waiting(i) => ~Accepted(i) /\ i \notin ended
  BY <1>0, <1>2 DEF KeptOnce
<1>5. QED
  BY <1>1, <1>3, <1>4 DEF Places, Accepted

LEMMA BoundedInOrder == ASSUME BoundedInv PROVE FirstInFirstOut
<1> USE DEF BoundedTypes
<1>0. BoundedTypes /\ AcceptedInOrder
  BY DEF BoundedInv
<1> DEFINE s == taken \o buffer
<1>1. /\ Len(s) = Len(taken) + Len(buffer) /\ Len(taken) \in Nat /\ Len(buffer) \in Nat
      /\ \A k \in 1..Len(taken) : s[k] = taken[k]
      /\ \A k \in Len(taken) + 1..Len(s) : s[k] = buffer[k - Len(taken)]
                                           /\ k - Len(taken) \in 1..Len(buffer)
  BY <1>0
<1> HIDE DEF s
<1>2. ASSUME NEW i \in 1..Len(s), NEW j \in 1..Len(s), i < j PROVE s[i] < s[j]
  <2>1. CASE j <= Len(taken)
    <3>1. i \in 1..Len(taken) /\ j \in 1..Len(taken)
      BY <1>1, <1>2, <2>1
    <3>2. s[i] = taken[i] /\ s[j] = taken[j]
      BY <1>1, <3>1
    <3>3. QED
      BY <1>0, <1>2, <3>1, <3>2 DEF AcceptedInOrder, Increasing
  <2>2. CASE i > Len(taken)
    <3>1. /\ s[i] = buffer[i - Len(taken)] /\ i - Len(taken) \in 1..Len(buffer)
          /\ s[j] = buffer[j - Len(taken)] /\ j - Len(taken) \in 1..Len(buffer)
          /\ i - Len(taken) < j - Len(taken)
      BY <1>1, <1>2, <2>2
    <3>2. QED
      BY <1>0, <3>1, Zenon DEF AcceptedInOrder, Increasing
  <2>3. CASE i <= Len(taken) /\ j > Len(taken)
    <3>1. In(s[i], taken) /\ In(s[j], buffer)
      BY <1>1, <1>2, <2>3 DEF In
    <3>2. s[i] \in 1..added /\ s[j] \in 1..added
      BY <1>0, <3>1 DEF AcceptedInOrder, Accepted
    <3>3. QED
      BY <1>0, <3>1, <3>2 DEF AcceptedInOrder
  <2>4. QED
    BY <1>1, <1>2, <2>1, <2>2, <2>3
<1>3. QED
  BY <1>2 DEF FirstInFirstOut, s

LEMMA BoundedNobodyStuck == ASSUME BoundedInv PROVE NobodyStuck
  BY DEF BoundedInv, LiveOK, NobodyStuck, Lockable, WaiterTypes

-----------------------------------------------------------------------------
(* The stream queue: its waiters, in the list or in the hands of the owner. *)

\* An entry whose waiter gave up is removed.
LEMMA SkipLockedOK ==
  ASSUME WaiterTypes, WaitersOK(NoThread), list # <<>>, count[Head(list)] = 0,
         list' = Tail(list), unlinked' = [unlinked EXCEPT ![Head(list)] = 1],
         UNCHANGED <<pc, count, status, unparked, wake>>
  PROVE  WaiterTypes' /\ WaitersOK(NoThread)'
<1> USE ChannelsAssumption DEF ChannelsAssumption, WaiterTypes
<1> DEFINE u == Head(list)
           r == Tail(list)
<1>1. /\ u \in Threads /\ r \in Seq(Threads) /\ Distinct(r) /\ ~In(u, r)
      /\ \A x : In(x, list) <=> x = u \/ In(x, r)
  <2>1. list \in Seq(Threads) /\ Distinct(list)
    BY DEF WaitersOK
  <2>2. QED
    BY <2>1, PopLemma
<1>2. /\ list' = r /\ unlinked' = [unlinked EXCEPT ![u] = 1] /\ count[u] = 0
      /\ UNCHANGED <<pc, count, status, unparked, wake>>
  OBVIOUS
<1> HIDE DEF u, r
<1>3. WaiterTypes'
  BY <1>1, <1>2
<1>4. Distinct(list') /\ ~In(NoThread, list')
  BY <1>1, <1>2, ZenonT(30) DEF WaitersOK
<1>5. \A x \in Threads \ {u} : unlinked'[x] = unlinked[x]
  BY <1>1, <1>2
<1>6. \A x \in Threads : /\ Waits(x, NoThread)' <=> In(x, r)
                         /\ Waits(x, NoThread) <=> x = u \/ In(x, r)
  BY <1>1, <1>2, Zenon DEF Waits
<1>7. QED
  BY <1>1, <1>2, <1>3, <1>4, <1>5, <1>6, SMTT(30) DEF WaitersOK

\* The request of the first waiter is complete: the owner has it in hand.
LEMMA HeadInHandOK ==
  ASSUME WaiterTypes, WaitersOK(NoThread), list # <<>>, list' = Tail(list),
         UNCHANGED <<pc, count, status, unparked, unlinked, wake>>,
         NEW u, u = Head(list)
  PROVE  WaiterTypes' /\ WaitersOK(u)'
<1> USE ChannelsAssumption DEF ChannelsAssumption, WaiterTypes
<1> DEFINE r == Tail(list)
<1>1. /\ u \in Threads /\ r \in Seq(Threads) /\ Distinct(r) /\ ~In(u, r)
      /\ \A x : In(x, list) <=> x = u \/ In(x, r)
  <2>1. list \in Seq(Threads) /\ Distinct(list)
    BY DEF WaitersOK
  <2>2. QED
    BY <2>1, PopLemma
<1>2. list' = r /\ UNCHANGED <<pc, count, status, unparked, unlinked, wake>>
  OBVIOUS
<1> HIDE DEF r
<1>3. WaiterTypes'
  BY <1>1, <1>2
<1>4. Distinct(list') /\ ~In(u, list')
  BY <1>1, <1>2, ZenonT(30) DEF WaitersOK
<1>5. \A x \in Threads : /\ Waits(x, u)' <=> In(x, r) \/ x = u
                         /\ Waits(x, NoThread) <=> In(x, r) \/ x = u
  BY <1>1, <1>2, Zenon DEF Waits
<1>6. QED
  BY <1>2, <1>3, <1>4, <1>5 DEF WaitersOK

\* The waiter in hand gave up meanwhile.
LEMMA GaveUpOK ==
  ASSUME WaiterTypes, NEW u \in Threads, WaitersOK(u), count[u] = 0,
         unlinked' = [unlinked EXCEPT ![u] = 1],
         UNCHANGED <<pc, count, status, unparked, wake, list>>
  PROVE  WaiterTypes' /\ WaitersOK(NoThread)'
<1> USE ChannelsAssumption DEF ChannelsAssumption, WaiterTypes
<1>1. WaiterTypes'
  OBVIOUS
<1>2. Distinct(list') /\ ~In(NoThread, list')
  BY DEF WaitersOK, In
<1>3. \A x \in Threads \ {u} : unlinked'[x] = unlinked[x]
  OBVIOUS
<1>4. \A x \in Threads : Waits(x, u) <=> In(x, list) \/ x = u
  BY DEF Waits
<1>5. \A x \in Threads : Waits(x, NoThread)' <=> In(x, list)
  BY DEF Waits
<1>6. ~In(u, list)
  BY DEF WaitersOK
<1>7. QED
  BY <1>1, <1>2, <1>3, <1>4, <1>5, <1>6 DEF WaitersOK

\* The parker of the waiter in hand is locked: it is unparked, or t will do so.
LEMMA HandLockedOK ==
  ASSUME WaiterTypes, NEW u \in Threads, WaitersOK(u), count[u] = 1, NEW t \in Threads,
         pc[t] \notin {"out", "unlink", "parked"},
         count' = [count EXCEPT ![u] = 0], status' = [status EXCEPT ![u] = "success"],
         \/ unparked' = [unparked EXCEPT ![u] = 1] /\ wake' = wake
         \/ wake' = [wake EXCEPT ![t] = Append(@, u)] /\ unparked' = unparked,
         UNCHANGED <<pc, unlinked, list>>
  PROVE  WaiterTypes' /\ WaitersOK(NoThread)'
<1> USE ChannelsAssumption DEF ChannelsAssumption, WaiterTypes
<1>1. /\ pc[u] = "parked" /\ u # t /\ unparked[u] = 0 /\ ~In(u, list)
      /\ \A v \in Threads : ~In(u, wake[v])
  BY DEF WaitersOK, Waits
<1>2. Distinct(list') /\ ~In(NoThread, list')
  BY DEF WaitersOK, In
<1>3. /\ count'[u] = 0 /\ status'[u] = "success"
      /\ \A x \in Threads \ {u} : count'[x] = count[x] /\ status'[x] = status[x]
  OBVIOUS
<1>4. \A x \in Threads : Waits(x, NoThread)' <=> In(x, list)
  BY DEF Waits
<1>5. CASE unparked' = [unparked EXCEPT ![u] = 1] /\ wake' = wake
  <2>1. unparked'[u] = 1 /\ \A x \in Threads \ {u} : unparked'[x] = unparked[x]
    BY <1>5
  <2>2. WaiterTypes'
    BY <1>5
  <2>3. QED
    BY <1>1, <1>2, <1>3, <1>4, <1>5, <2>1, <2>2 DEF WaitersOK, Waits
<1>6. CASE wake' = [wake EXCEPT ![t] = Append(@, u)] /\ unparked' = unparked
  <2> DEFINE w == Append(wake[t], u)
  <2>1. /\ w \in Seq(Threads) /\ Distinct(w) /\ \A x : In(x, w) <=> x = u \/ In(x, wake[t])
    <3>1. wake[t] \in Seq(Threads) /\ Distinct(wake[t])
      BY DEF WaitersOK
    <3>2. QED
      BY <1>1, <3>1, AppendLemma
  <2>2. wake' = [wake EXCEPT ![t] = w]
    BY <1>6
  <2> HIDE DEF w
  <2>3. wake'[t] = w /\ \A v \in Threads \ {t} : wake'[v] = wake[v]
    BY <2>2
  <2>4. WaiterTypes'
    BY <1>6, <2>1, <2>2
  <2>5. \A v \in Threads : \A x \in Threads \ {u} : In(x, wake'[v]) <=> In(x, wake[v])
    BY <2>1, <2>3, Zenon
  <2>6. \A v \in Threads : In(u, wake'[v]) <=> v = t
    BY <1>1, <2>1, <2>3
  <2>7. ASSUME NEW x \in Threads
        PROVE  /\ In(x, list') => /\ pc'[x] \in {"parked", "unlink"} /\ status'[x] = "none"
                                  /\ unparked'[x] = 0 /\ unlinked'[x] = 0
               /\ count'[x] = 1 => pc'[x] = "parked" /\ In(x, list')
               /\ pc'[x] = "unlink" => status'[x] = "none"
               /\ pc'[x] \in {"out", "unlink"} => wake'[x] = <<>>
               /\ Distinct(wake'[x])
    <3>1. CASE x = u
      BY <1>1, <1>3, <2>3, <3>1 DEF WaitersOK
    <3>2. CASE x # u
      <4>1. /\ pc'[x] = pc[x] /\ status'[x] = status[x] /\ unparked'[x] = unparked[x]
            /\ unlinked'[x] = unlinked[x] /\ count'[x] = count[x] /\ list' = list
        BY <1>3, <1>6, <3>2
      <4>2. pc[x] \in {"out", "unlink"} => wake'[x] = wake[x]
        BY <2>3
      <4>3. Distinct(wake'[x])
        BY <2>1, <2>3 DEF WaitersOK
      <4>4. QED
        BY <3>2, <4>1, <4>2, <4>3 DEF WaitersOK, Waits
    <3>3. QED
      BY <3>1, <3>2
  <2>8. \A x \in Threads : pc'[x] = "parked" /\ count'[x] = 0 =>
          status'[x] # "none" /\ (unparked'[x] = 1 \/ \E v \in Threads : In(x, wake'[v]))
    BY <1>3, <1>6, <2>5, <2>6 DEF WaitersOK
  <2>9. \A x, v \in Threads :
          In(x, wake'[v]) => pc'[x] = "parked" /\ count'[x] = 0 /\ unparked'[x] = 0
    BY <1>1, <1>3, <1>6, <2>5 DEF WaitersOK
  <2>10. \A x, v, y \in Threads : In(x, wake'[v]) /\ In(x, wake'[y]) => v = y
    <3> SUFFICES ASSUME NEW x \in Threads, NEW v \in Threads, NEW y \in Threads,
                        In(x, wake'[v]), In(x, wake'[y])
                 PROVE  v = y
      OBVIOUS
    <3>1. CASE x = u
      BY <2>6, <3>1
    <3>2. CASE x # u
      <4>1. In(x, wake[v]) /\ In(x, wake[y])
        BY <2>5, <3>2
      <4>2. QED
        BY <4>1 DEF WaitersOK
    <3>3. QED
      BY <3>1, <3>2
  <2>11. QED
    BY <1>2, <1>4, <2>4, <2>7, <2>8, <2>9, <2>10 DEF WaitersOK
<1>7. QED
  BY <1>5, <1>6, Zenon

-----------------------------------------------------------------------------
(* The stream queue: its buffer. *)

Wrapped(x, n) == IF x < n THEN x ELSE x - n

LEMMA ModWrap ==
  ASSUME NEW n \in Nat \ {0}, NEW x \in Nat, x < n + n PROVE x % n = Wrapped(x, n)
<1>1. CASE x < n
  <2>1. x % n = x
    BY <1>1
  <2>2. QED
    BY <1>1, <2>1 DEF Wrapped
<1>2. CASE x >= n
  <2>1. x % n = x - n
    BY <1>2
  <2>2. QED
    BY <1>2, <2>1 DEF Wrapped
<1>3. QED
  BY <1>1, <1>2

\* Places in a circular buffer of n bytes, from place a on.
LEMMA AroundLemma ==
  ASSUME NEW n \in Nat \ {0}, NEW a \in 0..n - 1
  PROVE  /\ \A j \in 0..n : (a + j) % n \in 0..n - 1
         /\ \A i, j \in 0..n - 1 : (a + i) % n = (a + j) % n => i = j
         /\ \A s, k \in 0..n : s + k <= n => (((a + s) % n) + k) % n = (a + (s + k)) % n
<1>1. \A j \in 0..n : a + j \in Nat /\ a + j < n + n /\ (a + j) % n = Wrapped(a + j, n)
  BY ModWrap
<1>2. \A j \in 0..n : (a + j) % n \in 0..n - 1
  BY <1>1 DEF Wrapped
<1>3. \A i, j \in 0..n - 1 : (a + i) % n = (a + j) % n => i = j
  BY <1>1 DEF Wrapped
<1>4. ASSUME NEW s \in 0..n, NEW k \in 0..n, s + k <= n
      PROVE  (((a + s) % n) + k) % n = (a + (s + k)) % n
  <2>1. /\ (a + s) % n \in 0..n - 1 /\ (a + s) % n = Wrapped(a + s, n)
        /\ (a + (s + k)) % n = Wrapped(a + (s + k), n)
    <3>1. s + k \in 0..n
      BY <1>4
    <3>2. QED
      BY <1>1, <1>2, <3>1
  <2> DEFINE b == (a + s) % n
  <2>2. (b + k) % n = Wrapped(b + k, n)
    BY <2>1, ModWrap
  <2> HIDE DEF b
  <2>3. b = Wrapped(a + s, n) /\ b \in 0..n - 1
    BY <2>1 DEF b
  <2>4. Wrapped(b + k, n) = Wrapped(a + (s + k), n)
    BY <2>3, <1>4 DEF Wrapped
  <2>5. QED
    BY <2>1, <2>2, <2>4 DEF b
<1>5. QED
  BY <1>2, <1>3, <1>4

BufferTypes ==
  /\ items \in [0..StreamCapacity - 1 -> Nat] /\ size \in 0..StreamCapacity
  /\ head \in 0..StreamCapacity - 1 /\ tail \in 0..StreamCapacity - 1
  /\ written \in Nat /\ delivered \in Nat

\* The buffer holds the bytes that left writers and did not get to readers.
BufferHolds ==
  /\ delivered + size = written /\ tail = (head + size) % StreamCapacity
  /\ \A k \in 0..size - 1 : items[(head + k) % StreamCapacity] = delivered + k + 1

\* Storing at the tail adds the next bytes behind those in the buffer.
LEMMA StoreOK ==
  ASSUME BufferTypes, BufferHolds, NEW n \in 0..StreamCapacity - size, Stream!Store(n),
         head' = head, delivered' = delivered
  PROVE  BufferTypes' /\ BufferHolds' /\ size' = size + n /\ written' = written + n
<1> USE ChannelsAssumption DEF ChannelsAssumption, BufferTypes
<1> DEFINE C == StreamCapacity
           At(i) == \E k \in 1..n : (tail + k - 1) % C = i
           The(i) == CHOOSE k \in 1..n : (tail + k - 1) % C = i
<1>1. /\ items' = [i \in 0..C - 1 |-> IF At(i) THEN written + The(i) ELSE items[i]]
      /\ tail' = (tail + n) % C /\ size' = size + n /\ written' = written + n
  BY DEF Stream!Store, Stream!Around
<1>2. /\ C \in Nat \ {0} /\ n \in 0..C /\ size \in 0..C /\ size + n <= C
      /\ items \in [0..C - 1 -> Nat] /\ written \in Nat /\ delivered \in Nat
      /\ head \in 0..C - 1
  OBVIOUS
<1>3. /\ \A j \in 0..C : (head + j) % C \in 0..C - 1
      /\ \A i, j \in 0..C - 1 : (head + i) % C = (head + j) % C => i = j
      /\ \A s, k \in 0..C : s + k <= C => (((head + s) % C) + k) % C = (head + (s + k)) % C
  BY <1>2, AroundLemma, Zenon
<1>4. /\ tail = (head + size) % C
      /\ \A k \in 0..size - 1 : items[(head + k) % C] = delivered + k + 1
  BY DEF BufferHolds
<1>5. tail' = (head + (size + n)) % C
  BY <1>1, <1>2, <1>3, <1>4, Zenon
<1>6. \A k \in 1..n : (tail + k - 1) % C = (head + (size + k - 1)) % C
  <2> SUFFICES ASSUME NEW k \in 1..n PROVE (tail + k - 1) % C = (head + (size + k - 1)) % C
    BY Zenon
  <2>1. k - 1 \in 0..C /\ size + (k - 1) <= C /\ tail + k - 1 = tail + (k - 1)
        /\ size + k - 1 = size + (k - 1)
    BY <1>2
  <2>2. QED
    BY <1>2, <1>3, <1>4, <2>1, Zenon
<1>7. tail' \in 0..C - 1
  BY <1>2, <1>3, <1>5
<1> HIDE DEF C
<1>8. \A i : At(i) => The(i) \in 1..n /\ (tail + The(i) - 1) % C = i
  BY Zenon
<1> HIDE DEF The
<1>9. items' \in [0..C - 1 -> Nat]
  <2>1. \A i \in 0..C - 1 : (IF At(i) THEN written + The(i) ELSE items[i]) \in Nat
    <3> SUFFICES ASSUME NEW i \in 0..C - 1
                 PROVE  (IF At(i) THEN written + The(i) ELSE items[i]) \in Nat
      BY Zenon
    <3>1. items[i] \in Nat
      BY <1>2
    <3>2. ASSUME At(i) PROVE The(i) \in Nat
      <4>1. The(i) \in 1..n
        BY <1>8, <3>2, Zenon
      <4>2. QED
        BY <1>2, <4>1
    <3> HIDE DEF At
    <3>3. QED
      BY <1>2, <3>1, <3>2
  <2> HIDE DEF At
  <2>2. QED
    BY <1>1, <2>1
<1>10. ASSUME NEW k \in 0..size + n - 1 PROVE items'[(head + k) % C] = delivered + k + 1
  <2>1. (head + k) % C \in 0..C - 1 /\ k \in 0..C - 1
    BY <1>2, <1>3
  <2>2. CASE k < size
    <3>1. ~At((head + k) % C)
      <4> SUFFICES ASSUME NEW j \in 1..n, (tail + j - 1) % C = (head + k) % C PROVE FALSE
        BY Zenon
      <4>1. size + j - 1 \in 0..C - 1 /\ k # size + j - 1
        BY <1>2, <2>2
      <4>2. QED
        BY <1>3, <1>6, <2>1, <4>1, Zenon
    <3>2. items[(head + k) % C] = delivered + k + 1
      <4>1. k \in 0..size - 1
        BY <1>2, <2>2
      <4>2. QED
        BY <1>4, <4>1, Zenon
    <3>3. QED
      BY <1>1, <2>1, <3>1, <3>2
  <2>3. CASE k >= size
    <3>1. At((head + k) % C)
      <4>1. k - size + 1 \in 1..n /\ size + (k - size + 1) - 1 = k
        BY <1>2, <2>3
      <4>2. (tail + (k - size + 1) - 1) % C = (head + k) % C
        BY <1>6, <4>1, Zenon
      <4>3. QED
        BY <4>1, <4>2, Zenon
    <3> DEFINE j == The((head + k) % C)
    <3>2. j \in 1..n /\ (tail + j - 1) % C = (head + k) % C
      BY <1>8, <3>1, Zenon
    <3> HIDE DEF j
    <3>3. size + j - 1 \in 0..C - 1 /\ (head + (size + j - 1)) % C = (head + k) % C
      BY <1>2, <1>6, <3>2
    <3>4. k = size + j - 1
      BY <1>3, <2>1, <3>3
    <3>5. items'[(head + k) % C] = written + j
      BY <1>1, <2>1, <3>1, Zenon DEF j
    <3>6. delivered + size = written
      BY DEF BufferHolds
    <3>7. QED
      BY <1>2, <3>2, <3>4, <3>5, <3>6 DEF C
  <2>4. QED
    BY <1>2, <2>2, <2>3
<1>11. delivered' + size' = written'
  BY <1>1, <1>2 DEF BufferHolds, C
<1>12. BufferTypes'
  <2>1. size' \in 0..C /\ written' \in Nat /\ delivered' \in Nat /\ head' \in 0..C - 1
    BY <1>1, <1>2
  <2>2. QED
    BY <1>7, <1>9, <2>1 DEF C
<1>13. BufferHolds'
  <2>1. tail' = (head' + size') % C /\ size' = size + n
    BY <1>1, <1>5
  <2>2. \A k \in 0..size' - 1 : items'[(head' + k) % C] = delivered' + k + 1
    <3>1. 0..size' - 1 = 0..size + n - 1 /\ head' = head /\ delivered' = delivered
      BY <2>1
    <3>2. QED
      BY <1>10, <3>1, Zenon
  <2>3. QED
    BY <1>11, <2>1, <2>2 DEF BufferHolds, C
<1>14. QED
  BY <1>1, <1>12, <1>13, Zenon

\* Copying from the head takes the oldest bytes.
LEMMA TakeBytesOK ==
  ASSUME BufferTypes, BufferHolds, NEW k \in 0..size, delivered' = delivered + k,
         head' = (head + k) % StreamCapacity, size' = size - k,
         UNCHANGED <<items, tail, written>>
  PROVE  /\ BufferTypes' /\ BufferHolds'
         /\ \A j \in 1..k : items[(head + j - 1) % StreamCapacity] = delivered + j
<1> USE ChannelsAssumption DEF ChannelsAssumption, BufferTypes
<1> DEFINE C == StreamCapacity
<1>1. C \in Nat \ {0} /\ k \in 0..C /\ size \in 0..C
  OBVIOUS
<1>2. /\ \A j \in 0..C : (head + j) % C \in 0..C - 1
      /\ \A s, j \in 0..C : s + j <= C => (((head + s) % C) + j) % C = (head + (s + j)) % C
  BY <1>1, AroundLemma, Zenon
<1>3. BufferTypes'
  BY <1>1, <1>2
<1>4. \A j \in 0..size - k : (head' + j) % C = (head + (k + j)) % C
  <2> SUFFICES ASSUME NEW j \in 0..size - k PROVE (head' + j) % C = (head + (k + j)) % C
    OBVIOUS
  <2>1. j \in 0..C /\ k + j <= C
    BY <1>1
  <2>2. (((head + k) % C) + j) % C = (head + (k + j)) % C
    BY <1>1, <1>2, <2>1
  <2>3. QED
    BY <2>2
<1>5. tail' = (head' + size') % C
  <2>1. size - k \in 0..size - k /\ k + (size - k) = size
    BY <1>1
  <2>2. QED
    BY <1>4, <2>1, Zenon DEF BufferHolds
<1>6. \A j \in 0..size - 1 : items[(head + j) % C] = delivered + j + 1
  BY Zenon DEF BufferHolds
<1>7. ASSUME NEW j \in 0..size' - 1 PROVE items'[(head' + j) % C] = delivered' + j + 1
  <2>1. j \in 0..size - k /\ k + j \in 0..size - 1
    BY <1>1
  <2>2. items[(head + (k + j)) % C] = delivered + (k + j) + 1
    BY <1>6, <2>1, Zenon
  <2>3. items'[(head' + j) % C] = delivered + (k + j) + 1
    BY <1>4, <2>1, <2>2, Zenon
  <2>4. delivered + (k + j) + 1 = delivered' + j + 1
    BY <1>1, <2>1
  <2>5. QED
    BY <2>3, <2>4
<1>8. ASSUME NEW j \in 1..k PROVE items[(head + j - 1) % C] = delivered + j
  <2>1. j - 1 \in 0..size - 1 /\ head + j - 1 = head + (j - 1) /\ delivered + (j - 1) + 1 = delivered + j
    BY <1>1
  <2>2. QED
    BY <1>6, <2>1, Zenon
<1>9. delivered' + size' = written'
  BY <1>1 DEF BufferHolds
<1>10. BufferHolds'
  BY <1>5, <1>7, <1>9, Zenon DEF BufferHolds
<1>11. QED
  BY <1>3, <1>8, <1>10

-----------------------------------------------------------------------------
(* The stream queue: the invariant. *)

StreamTypes ==
  /\ owner \in Threads \cup {NoThread} /\ served \in Threads \cup {NoThread}
  /\ op \in [Threads -> {"write", "read"}]
  /\ asked \in [Threads -> Nat] /\ remaining \in [Threads -> Nat]
  /\ \A t \in Threads : remaining[t] <= asked[t]
  /\ reported \in [{"write", "read"} -> Nat]

\* Who is inside the spin lock, and what it may have in hand.
OwnerOK ==
  /\ \A t \in Threads : pc[t] \in {"serve", "fill", "finish"} <=> owner = t
  /\ served # NoThread => /\ \E t \in Threads : owner = t /\ pc[t] \in {"serve", "fill"}
                          /\ remaining[served] = 0
  /\ disposed => owner = NoThread
  /\ \A t \in Threads : pc[t] \in {"out", "wake"} => asked[t] = 0 /\ remaining[t] = 0

\* What t waits beside.
Beside(t) == IF op[t] = "write" THEN StreamCapacity ELSE 0

\* The waiters that can be locked: outside of the loops they wait beside what they do
\* not need; inside, they are those that the loop is about.
WaitersFit ==
  \A u \in Threads : count[u] = 1 =>
    /\ (\A t \in Threads : pc[t] \notin {"serve", "fill"}) => size = Beside(u)
    /\ \A t \in Threads : pc[t] = "serve" =>
         IF op[t] = "write" THEN op[u] = "read" /\ size = 0 ELSE op[u] = "write"
    /\ \A t \in Threads : pc[t] = "fill" => op[u] = "write"

\* What remains of the owner's own request.
OwnerFits ==
  \A t \in Threads :
    /\ pc[t] = "finish" /\ remaining[t] > 0 => size = Beside(t)
    /\ pc[t] = "serve" /\ op[t] = "read" /\ remaining[t] > 0 => size = 0
    /\ pc[t] = "fill" => /\ op[t] = "read"
                         /\ remaining[t] > 0 => size = 0 /\ list = <<>> /\ served = NoThread

StreamInv ==
  /\ WaiterTypes /\ WaitersOK(served) /\ StreamTypes /\ OwnerOK /\ WaitersFit /\ OwnerFits
  /\ BufferTypes /\ (~disposed => BufferHolds) /\ ordered /\ Stream!TransfersAddUp

LEMMA SameSum == ASSUME NEW f PROVE Stream!SumFunction(f) = SumFunction(f)
  BY DEF Stream!SumFunction, Stream!SumFunctionOnSet, Stream!FoldFunctionOnSet,
         Stream!MapThenFoldSet, SumFunction, SumFunctionOnSet, FoldFunctionOnSet,
         MapThenFoldSet

\* What was moved of each kind, as the sum over the threads.
LEMMA Totals ==
  Stream!TransfersAddUp <=>
    \A way \in {"write", "read"} :
      reported[way] + SumFunction([t \in Threads |-> Stream!Moved(t, way)])
      = IF way = "write" THEN written ELSE delivered
  BY SameSum, Zenon DEF Stream!TransfersAddUp

LEMMA StreamInit == ASSUME Stream!Init PROVE StreamInv
<1> USE ChannelsAssumption DEF ChannelsAssumption, Stream!Init, Stream!ListInit
<1>1. \A x : ~In(x, <<>>)
  BY SmallStacks
<1>2. WaiterTypes /\ WaitersOK(served)
  BY <1>1, SmallStacks DEF WaiterTypes, WaitersOK, Waits
<1>3. StreamTypes
  <2>1. reported \in [{"write", "read"} -> Nat]
    <3>1. reported = [k \in {"write", "read"} |-> 0]
      OBVIOUS
    <3>2. QED
      BY <3>1
  <2>2. QED
    BY <2>1 DEF StreamTypes
<1>4. OwnerOK /\ WaitersFit /\ OwnerFits
  BY DEF OwnerOK, WaitersFit, OwnerFits
<1>5. BufferTypes
  BY DEF BufferTypes
<1>6. BufferHolds
  <2>1. 0 % StreamCapacity = 0 /\ 0 + 0 = 0
    OBVIOUS
  <2>2. QED
    BY <2>1 DEF BufferHolds
<1>7. Stream!TransfersAddUp
  <2> SUFFICES ASSUME NEW way \in {"write", "read"}
               PROVE  reported[way] + SumFunction([t \in Threads |-> Stream!Moved(t, way)])
                      = IF way = "write" THEN written ELSE delivered
    BY Totals
  <2> DEFINE f == [t \in Threads |-> Stream!Moved(t, way)]
  <2>1. \A t \in Threads : Stream!Moved(t, way) = 0
    BY DEF Stream!Moved
  <2>2. f \in [Threads -> Int] /\ \A t \in Threads : f[t] = 0
    BY <2>1
  <2> HIDE DEF f
  <2>3. SumFunction(f) = 0
    BY <2>2, SumZero
  <2>4. reported[way] = 0 /\ written = 0 /\ delivered = 0
    OBVIOUS
  <2>5. QED
    BY <2>3, <2>4 DEF f
<1>8. QED
  BY <1>2, <1>3, <1>4, <1>5, <1>6, <1>7 DEF StreamInv

LEMMA TotalsPrime ==
  Stream!TransfersAddUp' <=>
    \A way \in {"write", "read"} :
      reported'[way] + SumFunction([t \in Threads |-> Stream!Moved(t, way)'])
      = IF way = "write" THEN written' ELSE delivered'
  BY SameSum, Zenon DEF Stream!TransfersAddUp

\* What is reported and what is moved keep adding up.
LEMMA TotalMoves ==
  ASSUME NEW r \in Int, NEW rr \in Int, NEW m \in Int, NEW mm \in Int, NEW s \in Int,
         NEW ss \in Int, NEW a \in Int, NEW b \in Int,
         r + s = a, ss = s + (mm - m), rr + mm - (r + m) = b - a
  PROVE  rr + ss = b
OBVIOUS

\* One thread at most moves bytes of each kind, and what it moves and reports is what
\* is written or delivered.
LEMMA TotalsOK ==
  ASSUME StreamTypes, StreamTypes', Stream!TransfersAddUp, written \in Nat, delivered \in Nat,
         written' \in Nat, delivered' \in Nat,
         \A way \in {"write", "read"} : \E t \in Threads :
           /\ \A x \in Threads \ {t} : Stream!Moved(x, way)' = Stream!Moved(x, way)
           /\ reported'[way] + Stream!Moved(t, way)' - (reported[way] + Stream!Moved(t, way))
              = IF way = "write" THEN written' - written ELSE delivered' - delivered
  PROVE  Stream!TransfersAddUp'
<1> USE ChannelsAssumption DEF ChannelsAssumption
<1> SUFFICES ASSUME NEW way \in {"write", "read"}
             PROVE  reported'[way] + SumFunction([t \in Threads |-> Stream!Moved(t, way)'])
                    = IF way = "write" THEN written' ELSE delivered'
  BY TotalsPrime
<1> DEFINE f == [t \in Threads |-> Stream!Moved(t, way)]
           g == [t \in Threads |-> Stream!Moved(t, way)']
<1>1. PICK t \in Threads :
        /\ \A x \in Threads \ {t} : Stream!Moved(x, way)' = Stream!Moved(x, way)
        /\ reported'[way] + Stream!Moved(t, way)' - (reported[way] + Stream!Moved(t, way))
           = IF way = "write" THEN written' - written ELSE delivered' - delivered
  OBVIOUS
<1>2. \A x \in Threads : Stream!Moved(x, way) \in Int /\ Stream!Moved(x, way)' \in Int
  BY DEF Stream!Moved, StreamTypes
<1>3. f \in [Threads -> Int] /\ g \in [Threads -> Int] /\ \A x \in Threads \ {t} : g[x] = f[x]
  BY <1>1, <1>2
<1>4. f[t] = Stream!Moved(t, way) /\ g[t] = Stream!Moved(t, way)'
  OBVIOUS
<1>5. reported[way] + SumFunction(f) = IF way = "write" THEN written ELSE delivered
  BY Totals
<1> HIDE DEF f, g
<1>6. /\ SumFunction(f) \in Int /\ SumFunction(g) \in Int
      /\ SumFunction(g) = SumFunction(f) + (g[t] - f[t])
  BY <1>3, SumChange
<1>7. reported[way] \in Nat /\ reported'[way] \in Nat
  BY DEF StreamTypes
<1>8. /\ Stream!Moved(t, way) \in Int /\ Stream!Moved(t, way)' \in Int
      /\ reported'[way] + Stream!Moved(t, way)' - (reported[way] + Stream!Moved(t, way))
           = IF way = "write" THEN written' - written ELSE delivered' - delivered
  BY <1>1, <1>2
<1>9. reported'[way] + SumFunction(g) = IF way = "write" THEN written' ELSE delivered'
  <2>1. PICK a \in Nat, b \in Nat :
          /\ a = IF way = "write" THEN written ELSE delivered
          /\ b = IF way = "write" THEN written' ELSE delivered'
    OBVIOUS
  <2>2. b - a = IF way = "write" THEN written' - written ELSE delivered' - delivered
    BY <2>1
  <2>3. reported[way] + SumFunction(f) = a
    BY <1>5, <2>1
  <2>4. reported'[way] + g[t] - (reported[way] + f[t]) = b - a /\ f[t] \in Int /\ g[t] \in Int
    BY <1>4, <1>8, <2>2
  <2>5. reported'[way] + SumFunction(g) = b
    BY <1>6, <1>7, <2>1, <2>3, <2>4, TotalMoves
  <2>6. QED
    BY <2>1, <2>5
<1>10. QED
  BY <1>9 DEF g

\* The waiter in hand, after the step.
LEMMA InHand == ASSUME NEW u, u = served', WaitersOK(u)' PROVE WaitersOK(served)'
  BY DEF WaitersOK, Waits

\* A thread that may be locked is parked, and is not the one that takes the step.
LEMMA LiveParked ==
  ASSUME StreamInv, NEW u \in Threads, count[u] = 1
  PROVE  pc[u] = "parked" /\ (served = NoThread => In(u, list))
<1> USE ChannelsAssumption DEF ChannelsAssumption
<1>1. QED
  BY DEF StreamInv, WaitersOK, Waits

-----------------------------------------------------------------------------
(* The stream queue: the steps. *)

\* A call enters the critical section.
LEMMA EnterOK ==
  ASSUME StreamInv, NEW t \in Threads, NEW k \in {"write", "read"}, NEW n \in Sizes,
         NEW p \in {"serve", "finish"}, Stream!Enter(t, k, n),
         pc[t] = "out", pc' = [pc EXCEPT ![t] = p]
  PROVE  /\ served = NoThread /\ ~disposed /\ n \in Nat
         /\ WaiterTypes' /\ WaitersOK(served)' /\ count[t] = 0 /\ asked[t] = 0 /\ remaining[t] = 0
         /\ owner' = t /\ served' = NoThread /\ list' = list /\ count' = count
         /\ op' = [op EXCEPT ![t] = k] /\ asked' = [asked EXCEPT ![t] = n]
         /\ \A x \in Threads : pc[x] \notin {"serve", "fill", "finish"}
         /\ \A x \in Threads : pc'[x] \in {"serve", "fill", "finish"} <=> x = t
         /\ disposed' = disposed /\ pc'[t] = p /\ \A x \in Threads \ {t} : pc'[x] = pc[x]
<1> USE ChannelsAssumption DEF ChannelsAssumption
<1>0. WaiterTypes /\ WaitersOK(served) /\ StreamTypes /\ OwnerOK
  BY DEF StreamInv
<1>1. /\ owner = NoThread /\ ~disposed /\ owner' = t
      /\ op' = [op EXCEPT ![t] = k] /\ asked' = [asked EXCEPT ![t] = n]
      /\ UNCHANGED <<served, disposed, list, count, status, unparked, unlinked, wake>>
  BY DEF Stream!Enter
<1>2. served = NoThread /\ \A x \in Threads : pc[x] \notin {"serve", "fill", "finish"}
  BY <1>0, <1>1 DEF OwnerOK
<1>3. WaiterTypes' /\ WaitersOK(NoThread)'
  BY <1>0, <1>1, <1>2, MoveOK, Zenon
<1>4. WaitersOK(served)'
  BY <1>1, <1>2, <1>3, InHand
<1>5. count[t] = 0
  BY <1>0 DEF WaitersOK, WaiterTypes
<1>6. asked[t] = 0 /\ remaining[t] = 0
  BY <1>0 DEF OwnerOK
<1>7. pc'[t] = p /\ \A x \in Threads \ {t} : pc'[x] = pc[x]
  BY <1>0 DEF WaiterTypes
<1>8. QED
  BY <1>1, <1>2, <1>3, <1>4, <1>5, <1>6, <1>7

LEMMA WriteExOK == ASSUME StreamInv, NEW t \in Threads, Stream!WriteEx(t) PROVE StreamInv'
<1> USE ChannelsAssumption DEF ChannelsAssumption
<1>0. /\ WaiterTypes /\ StreamTypes /\ OwnerOK /\ WaitersFit /\ OwnerFits /\ BufferTypes
      /\ (~disposed => BufferHolds) /\ ordered /\ Stream!TransfersAddUp
  BY DEF StreamInv
<1>1. PICK n \in Sizes :
        /\ Stream!Enter(t, "write", n)
        /\ Stream!Step(t, "out", IF size = StreamCapacity THEN "finish" ELSE "serve")
        /\ remaining' = [remaining EXCEPT ![t] = n]
        /\ UNCHANGED <<items, head, tail, size, written, delivered, ordered, reported>>
  BY Zenon DEF Stream!WriteEx, Stream!ghostVars
<1> DEFINE p == IF size = StreamCapacity THEN "finish" ELSE "serve"
<1>2. p \in {"serve", "finish"} /\ pc[t] = "out" /\ pc' = [pc EXCEPT ![t] = p]
  BY <1>1 DEF Stream!Step
<1> HIDE DEF p
<1>3. /\ served = NoThread /\ ~disposed /\ n \in Nat
      /\ WaiterTypes' /\ WaitersOK(served)' /\ count[t] = 0 /\ asked[t] = 0 /\ remaining[t] = 0
      /\ owner' = t /\ served' = NoThread /\ list' = list /\ count' = count
      /\ op' = [op EXCEPT ![t] = "write"] /\ asked' = [asked EXCEPT ![t] = n]
      /\ \A x \in Threads : pc[x] \notin {"serve", "fill", "finish"}
      /\ \A x \in Threads : pc'[x] \in {"serve", "fill", "finish"} <=> x = t
      /\ disposed' = disposed /\ pc'[t] = p /\ \A x \in Threads \ {t} : pc'[x] = pc[x]
  BY <1>1, <1>2, EnterOK, Zenon
<1>4. /\ op'[t] = "write" /\ asked'[t] = n /\ remaining'[t] = n
      /\ \A x \in Threads \ {t} : op'[x] = op[x] /\ asked'[x] = asked[x]
                                  /\ remaining'[x] = remaining[x]
  BY <1>0, <1>1, <1>3 DEF StreamTypes
<1>5. StreamTypes'
  BY <1>0, <1>1, <1>3, <1>4 DEF StreamTypes
<1>6. OwnerOK'
  BY <1>0, <1>2, <1>3, <1>4 DEF OwnerOK
<1>7. \A u \in Threads : count[u] = 1 => u # t /\ size = Beside(u)
  BY <1>0, <1>3 DEF WaitersFit
<1>8. WaitersFit'
  <2> SUFFICES ASSUME NEW u \in Threads, count'[u] = 1
               PROVE  /\ (\A x \in Threads : pc'[x] \notin {"serve", "fill"}) => size' = Beside(u)'
                      /\ \A x \in Threads : pc'[x] = "serve" =>
                           IF op'[x] = "write" THEN op'[u] = "read" /\ size' = 0 ELSE op'[u] = "write"
                      /\ \A x \in Threads : pc'[x] = "fill" => op'[u] = "write"
    BY DEF WaitersFit
  <2>1. u # t /\ size = Beside(u) /\ op'[u] = op[u] /\ op[u] \in {"write", "read"} /\ size' = size
    BY <1>0, <1>1, <1>3, <1>4, <1>7 DEF StreamTypes
  <2>2. size' = Beside(u)'
    BY <2>1 DEF Beside
  <2>3. \A x \in Threads : pc'[x] = "serve" => x = t /\ size # StreamCapacity
    BY <1>3 DEF p
  <2>4. \A x \in Threads : pc'[x] # "fill"
    BY <1>2, <1>3
  <2>5. QED
    BY <1>4, <2>1, <2>2, <2>3, <2>4 DEF Beside
<1>9. OwnerFits'
  <2>1. \A x \in Threads : pc'[x] = "finish" => x = t /\ size = StreamCapacity
    BY <1>3 DEF p
  <2>2. \A x \in Threads : pc'[x] # "fill" /\ (pc'[x] = "serve" => x = t)
    BY <1>2, <1>3
  <2>3. Beside(t)' = StreamCapacity
    BY <1>4 DEF Beside
  <2>4. QED
    BY <1>1, <1>4, <2>1, <2>2, <2>3 DEF OwnerFits
<1>10. BufferTypes' /\ (~disposed' => BufferHolds') /\ ordered'
  BY <1>0, <1>1, <1>3 DEF BufferTypes, BufferHolds
<1>11. Stream!TransfersAddUp'
  <2>1. \A way \in {"write", "read"} :
          /\ \A x \in Threads \ {t} : Stream!Moved(x, way)' = Stream!Moved(x, way)
          /\ Stream!Moved(t, way) = 0 /\ Stream!Moved(t, way)' = 0
    BY <1>3, <1>4 DEF Stream!Moved
  <2>2. reported' = reported /\ written' = written /\ delivered' = delivered
    BY <1>1
  <2>3. \A way \in {"write", "read"} : reported[way] \in Nat
    BY <1>0 DEF StreamTypes
  <2>4. written \in Nat /\ delivered \in Nat
    BY <1>0 DEF BufferTypes
  <2>5. QED
    BY <1>0, <1>5, <2>1, <2>2, <2>3, <2>4, TotalsOK
<1>12. QED
  BY <1>3, <1>5, <1>6, <1>8, <1>9, <1>10, <1>11 DEF StreamInv

LEMMA ReadExOK == ASSUME StreamInv, NEW t \in Threads, Stream!ReadEx(t) PROVE StreamInv'
<1> USE ChannelsAssumption DEF ChannelsAssumption
<1>0. /\ WaiterTypes /\ StreamTypes /\ OwnerOK /\ WaitersFit /\ OwnerFits /\ BufferTypes
      /\ (~disposed => BufferHolds) /\ ordered /\ Stream!TransfersAddUp
  BY DEF StreamInv
<1>1. PICK n \in Sizes :
        LET k == Stream!Lesser(n, size) IN
        /\ Stream!Enter(t, "read", n)
        /\ Stream!Step(t, "out", IF size = 0 THEN "finish" ELSE "serve")
        /\ remaining' = [remaining EXCEPT ![t] = n - k]
        /\ delivered' = delivered + k /\ head' = Stream!Around(head + k) /\ size' = size - k
        /\ ordered' = (ordered /\ \A j \in 1..k : items[Stream!Around(head + j - 1)] = delivered + j)
        /\ UNCHANGED <<items, tail, written, reported>>
  BY Zenon DEF Stream!ReadEx
<1> DEFINE p == IF size = 0 THEN "finish" ELSE "serve"
           k == Stream!Lesser(n, size)
<1>2. p \in {"serve", "finish"} /\ pc[t] = "out" /\ pc' = [pc EXCEPT ![t] = p]
  BY <1>1 DEF Stream!Step
<1> HIDE DEF p
<1>3. /\ served = NoThread /\ ~disposed /\ n \in Nat
      /\ WaiterTypes' /\ WaitersOK(served)' /\ count[t] = 0 /\ asked[t] = 0 /\ remaining[t] = 0
      /\ owner' = t /\ served' = NoThread /\ list' = list /\ count' = count
      /\ op' = [op EXCEPT ![t] = "read"] /\ asked' = [asked EXCEPT ![t] = n]
      /\ \A x \in Threads : pc[x] \notin {"serve", "fill", "finish"}
      /\ \A x \in Threads : pc'[x] \in {"serve", "fill", "finish"} <=> x = t
      /\ disposed' = disposed /\ pc'[t] = p /\ \A x \in Threads \ {t} : pc'[x] = pc[x]
  BY <1>1, <1>2, EnterOK, Zenon
<1>k. /\ k \in 0..size /\ k <= n /\ size \in Nat /\ (k < n => k = size) /\ size \in 0..StreamCapacity
  BY <1>0, <1>3 DEF Stream!Lesser, BufferTypes
<1>b. /\ remaining' = [remaining EXCEPT ![t] = n - k] /\ reported' = reported
      /\ delivered' = delivered + k /\ head' = (head + k) % StreamCapacity /\ size' = size - k
      /\ ordered' = (ordered /\ \A j \in 1..k : items[(head + j - 1) % StreamCapacity] = delivered + j)
      /\ UNCHANGED <<items, tail, written>>
  BY <1>1 DEF Stream!Around
<1> HIDE DEF k
<1>4. /\ op'[t] = "read" /\ asked'[t] = n /\ remaining'[t] = n - k
      /\ \A x \in Threads \ {t} : op'[x] = op[x] /\ asked'[x] = asked[x]
                                  /\ remaining'[x] = remaining[x]
  BY <1>0, <1>b, <1>3 DEF StreamTypes
<1>5. StreamTypes'
  <2>1. n - k \in Nat /\ n - k <= n
    BY <1>3, <1>k
  <2>2. QED
    BY <1>0, <1>b, <1>3, <1>4, <2>1 DEF StreamTypes
<1>6. OwnerOK'
  BY <1>0, <1>2, <1>3, <1>4 DEF OwnerOK
<1>7. \A u \in Threads : count[u] = 1 => u # t /\ size = Beside(u)
  BY <1>0, <1>3 DEF WaitersFit
<1>8. WaitersFit'
  <2> SUFFICES ASSUME NEW u \in Threads, count'[u] = 1
               PROVE  /\ (\A x \in Threads : pc'[x] \notin {"serve", "fill"}) => size' = Beside(u)'
                      /\ \A x \in Threads : pc'[x] = "serve" =>
                           IF op'[x] = "write" THEN op'[u] = "read" /\ size' = 0 ELSE op'[u] = "write"
                      /\ \A x \in Threads : pc'[x] = "fill" => op'[u] = "write"
    BY DEF WaitersFit
  <2>1. u # t /\ size = Beside(u) /\ op'[u] = op[u] /\ op[u] \in {"write", "read"}
    BY <1>0, <1>3, <1>4, <1>7 DEF StreamTypes
  <2>2. CASE size = 0
    <3>1. size' = size /\ Beside(u)' = Beside(u)
      BY <1>b, <1>k, <2>1, <2>2 DEF Beside
    <3>2. \A x \in Threads : pc'[x] \notin {"serve", "fill"}
      BY <1>3, <2>2 DEF p
    <3>3. QED
      BY <2>1, <3>1, <3>2
  <2>3. CASE size # 0
    <3>1. pc'[t] = "serve" /\ op[u] = "write"
      BY <1>3, <2>1, <2>3 DEF p, Beside
    <3>2. \A x \in Threads : pc'[x] # "fill" /\ (pc'[x] = "serve" => x = t)
      BY <1>2, <1>3
    <3>3. QED
      BY <1>4, <2>1, <3>1, <3>2
  <2>4. QED
    BY <2>2, <2>3
<1>9. OwnerFits'
  <2>1. \A x \in Threads : pc'[x] = "finish" => x = t /\ size = 0
    BY <1>3 DEF p
  <2>2. \A x \in Threads : pc'[x] # "fill" /\ (pc'[x] = "serve" => x = t)
    BY <1>2, <1>3
  <2>3. Beside(t)' = 0
    BY <1>4 DEF Beside
  <2>4. remaining'[t] > 0 => size' = 0
    BY <1>3, <1>4, <1>b, <1>k
  <2>5. QED
    BY <1>4, <2>1, <2>2, <2>3, <2>4 DEF OwnerFits
<1>10. BufferTypes' /\ (~disposed' => BufferHolds') /\ ordered'
  <2>1. BufferHolds
    BY <1>0, <1>3
  <2>2. /\ BufferTypes' /\ BufferHolds'
        /\ \A j \in 1..k : items[(head + j - 1) % StreamCapacity] = delivered + j
    BY <1>0, <1>b, <1>k, <2>1, TakeBytesOK
  <2>3. QED
    BY <1>0, <1>b, <2>2, Zenon
<1>11. Stream!TransfersAddUp'
  <2>1. \A way \in {"write", "read"} :
          /\ \A x \in Threads \ {t} : Stream!Moved(x, way)' = Stream!Moved(x, way)
          /\ Stream!Moved(t, way) = 0
          /\ Stream!Moved(t, way)' = IF way = "read" THEN k ELSE 0
    BY <1>3, <1>4, <1>k DEF Stream!Moved
  <2>2. reported' = reported /\ written' = written /\ delivered' = delivered + k
    BY <1>b
  <2>3. \A way \in {"write", "read"} : reported[way] \in Nat
    BY <1>0 DEF StreamTypes
  <2>4. written \in Nat /\ delivered \in Nat /\ k \in Nat
    BY <1>0, <1>k DEF BufferTypes
  <2>5. \A way \in {"write", "read"} :
          reported'[way] + Stream!Moved(t, way)' - (reported[way] + Stream!Moved(t, way))
              = IF way = "write" THEN written' - written ELSE delivered' - delivered
    BY <2>1, <2>2, <2>3, <2>4
  <2>6. written' \in Nat /\ delivered' \in Nat
    BY <2>2, <2>4
  <2>7. QED
    BY <1>0, <1>5, <2>1, <2>4, <2>5, <2>6, TotalsOK
<1>12. QED
  BY <1>3, <1>5, <1>6, <1>8, <1>9, <1>10, <1>11 DEF StreamInv

\* A step of the waiters: nobody who could not be locked can be, and what is
\* transferred does not change.
LEMMA StreamSame ==
  ASSUME StreamInv, WaiterTypes', WaitersOK(served)',
         UNCHANGED <<owner, disposed, items, head, tail, size, op, asked, remaining,
                     written, delivered, ordered, reported>>,
         served' = served \/ served' = NoThread,
         \A x \in Threads : count'[x] = 1 => count[x] = 1,
         \A x \in Threads : pc'[x] \in {"serve", "fill", "finish"} <=> pc[x] \in {"serve", "fill", "finish"},
         \A x \in Threads : pc[x] \in {"serve", "fill", "finish"} => pc'[x] = pc[x],
         \A x \in Threads : pc'[x] \in {"out", "wake"} => pc[x] \in {"out", "wake"},
         \A x \in Threads : pc[x] = "fill" /\ remaining[x] > 0 => list' = <<>>
  PROVE  StreamInv'
<1> USE ChannelsAssumption DEF ChannelsAssumption
<1>0. /\ WaiterTypes /\ StreamTypes /\ OwnerOK /\ WaitersFit /\ OwnerFits /\ BufferTypes
      /\ (~disposed => BufferHolds) /\ ordered /\ Stream!TransfersAddUp
  BY DEF StreamInv
<1>1. \A x \in Threads : Beside(x)' = Beside(x)
  BY DEF Beside
<1>2. StreamTypes'
  BY <1>0 DEF StreamTypes
<1>3. OwnerOK'
  BY <1>0 DEF OwnerOK
<1>4. \A x \in Threads : /\ pc'[x] = "serve" <=> pc[x] = "serve"
                         /\ pc'[x] = "fill" <=> pc[x] = "fill"
                         /\ pc'[x] = "finish" <=> pc[x] = "finish"
  OBVIOUS
<1>5. WaitersFit'
  BY <1>0, <1>1, <1>4 DEF WaitersFit
<1>6. OwnerFits'
  BY <1>0, <1>1, <1>4 DEF OwnerFits
<1>7. BufferTypes' /\ (~disposed' => BufferHolds') /\ ordered'
  BY <1>0 DEF BufferTypes, BufferHolds
<1>8. Stream!TransfersAddUp'
  BY <1>0, TotalsPrime, Totals DEF Stream!Moved
<1>9. QED
  BY <1>2, <1>3, <1>5, <1>6, <1>7, <1>8 DEF StreamInv

\* In a loop the owner has nobody in hand, and works on the front of the list.
LEMMA InLoopLemma ==
  ASSUME StreamInv, NEW t \in Threads, Stream!InLoop(t)
  PROVE  /\ served = NoThread /\ WaitersOK(NoThread) /\ ~disposed /\ owner = t
         /\ pc[t] \in {"serve", "fill"} /\ count[t] = 0
         /\ \A x \in Threads \ {t} : pc[x] \notin {"serve", "fill", "finish"}
<1> USE ChannelsAssumption DEF ChannelsAssumption
<1>1. served = NoThread /\ pc[t] \in {"serve", "fill"}
  BY DEF Stream!InLoop
<1>2. WaitersOK(NoThread)
  BY <1>1 DEF StreamInv
<1>3. owner = t /\ ~disposed /\ \A x \in Threads \ {t} : pc[x] \notin {"serve", "fill", "finish"}
  BY <1>1 DEF StreamInv, OwnerOK
<1>4. count[t] = 0
  BY <1>1, <1>2 DEF StreamInv, WaitersOK, WaiterTypes
<1>5. QED
  BY <1>1, <1>2, <1>3, <1>4

LEMMA SkipStep == ASSUME StreamInv, NEW t \in Threads, Stream!SkipLocked(t) PROVE StreamInv'
<1> USE ChannelsAssumption DEF ChannelsAssumption
<1>0. WaiterTypes /\ OwnerFits
  BY DEF StreamInv
<1>1. /\ Stream!InLoop(t) /\ list # <<>> /\ count[Head(list)] = 0 /\ Stream!Room(t) > 0
      /\ list' = Tail(list) /\ unlinked' = [unlinked EXCEPT ![Head(list)] = 1]
      /\ UNCHANGED <<pc, count, status, unparked, wake, owner, served, disposed, items, head,
                     tail, size, op, asked, remaining, written, delivered, ordered, reported>>
  BY DEF Stream!SkipLocked, Stream!Goes, Stream!bufferVars, Stream!callVars, Stream!ghostVars
<1>2. served = NoThread /\ WaitersOK(NoThread) /\ \A x \in Threads : pc[x] = "fill" => x = t
  BY <1>1, InLoopLemma
<1>3. WaiterTypes' /\ WaitersOK(NoThread)'
  BY <1>0, <1>1, <1>2, SkipLockedOK
<1>4. WaitersOK(served)'
  BY <1>1, <1>2, <1>3, InHand
<1>5. \A x \in Threads : pc[x] = "fill" /\ remaining[x] > 0 => list' = <<>>
  BY <1>0, <1>1 DEF OwnerFits
<1>6. QED
  BY <1>1, <1>3, <1>4, <1>5, StreamSame

LEMMA TryLockStep == ASSUME StreamInv, NEW t \in Threads, Stream!TryLockParker(t) PROVE StreamInv'
<1> USE ChannelsAssumption DEF ChannelsAssumption
<1>0. WaiterTypes /\ WaitersOK(served) /\ StreamTypes /\ OwnerOK /\ OwnerFits
  BY DEF StreamInv
<1>1. /\ owner = t /\ served # NoThread /\ served' = NoThread
      /\ UNCHANGED <<pc, owner, list, disposed, items, head, tail, size, op, asked, remaining,
                     written, delivered, ordered, reported>>
  BY DEF Stream!TryLockParker, Stream!bufferVars, Stream!callVars, Stream!ghostVars
<1>2. PICK u \in Threads : u = served
  BY <1>0, <1>1 DEF StreamTypes
<1>3. WaitersOK(u) /\ pc[t] \in {"serve", "fill"}
  BY <1>0, <1>1, <1>2 DEF OwnerOK
<1>4. \/ /\ count[u] = 0 /\ unlinked' = [unlinked EXCEPT ![u] = 1]
         /\ UNCHANGED <<count, status, unparked, wake>>
      \/ /\ count[u] = 1 /\ count' = [count EXCEPT ![u] = 0]
         /\ status' = [status EXCEPT ![u] = "success"] /\ UNCHANGED unlinked
         /\ \/ unparked' = [unparked EXCEPT ![u] = 1] /\ UNCHANGED wake
            \/ wake' = [wake EXCEPT ![t] = Append(@, u)] /\ UNCHANGED unparked
  BY <1>2 DEF Stream!TryLockParker
<1>5. WaiterTypes' /\ WaitersOK(NoThread)'
  <2>1. CASE count[u] = 0
    BY <1>0, <1>1, <1>3, <1>4, <2>1, GaveUpOK
  <2>2. CASE count[u] = 1
    <3>1. pc[t] \notin {"out", "unlink", "parked"}
      BY <1>3
    <3>2. /\ count' = [count EXCEPT ![u] = 0]
          /\ status' = [status EXCEPT ![u] = "success"] /\ UNCHANGED <<pc, unlinked, list>>
          /\ \/ unparked' = [unparked EXCEPT ![u] = 1] /\ wake' = wake
             \/ wake' = [wake EXCEPT ![t] = Append(@, u)] /\ unparked' = unparked
      BY <1>1, <1>4, <2>2
    <3>3. QED
      BY <1>0, <1>3, <2>2, <3>1, <3>2, HandLockedOK, Zenon
  <2>3. QED
    BY <1>4, <2>1, <2>2
<1>6. WaitersOK(served)'
  BY <1>1, <1>5, InHand
<1>7. \A x \in Threads : count'[x] = 1 => count[x] = 1
  BY <1>0, <1>4 DEF WaiterTypes
<1>8. \A x \in Threads : pc[x] = "fill" /\ remaining[x] > 0 => list' = <<>>
  BY <1>0, <1>1 DEF OwnerFits
<1>9. QED
  BY <1>1, <1>5, <1>6, <1>7, <1>8, StreamSame

LEMMA StreamWaiters == ASSUME StreamInv, NEW t \in Threads, Stream!Waiters(t) PROVE StreamInv'
<1> USE ChannelsAssumption DEF ChannelsAssumption
<1>0. WaiterTypes /\ WaitersOK(served) /\ OwnerFits
  BY DEF StreamInv
<1>1. /\ UNCHANGED <<owner, served, disposed, items, head, tail, size, list, op, asked, remaining,
                     written, delivered, ordered, reported>>
      /\ Stream!UnparkThread(t) \/ Stream!WakeDone(t) \/ Stream!Cancelled(t)
  BY DEF Stream!Waiters, Stream!bufferVars, Stream!callVars, Stream!ghostVars
<1>2. PICK y : y = served
  OBVIOUS
<1>3. WaitersOK(y)
  BY <1>0, <1>2
<1>4. /\ WaiterTypes' /\ WaitersOK(y)'
      /\ \A x \in Threads : count'[x] = 1 => count[x] = 1
      /\ pc' = pc \/ (pc[t] = "wake" /\ pc' = [pc EXCEPT ![t] = "out"])
                  \/ (pc[t] = "parked" /\ pc' = [pc EXCEPT ![t] = "unlink"])
  <2>1. CASE Stream!UnparkThread(t)
    <3>1. UnparkThread(t)
      BY <2>1 DEF Stream!UnparkThread, UnparkThread
    <3>2. QED
      BY <1>0, <1>1, <1>3, <3>1, UnparkThreadOK, Zenon DEF UnparkThread
  <2>2. CASE Stream!WakeDone(t)
    <3>1. /\ wake[t] = <<>> /\ pc[t] = "wake" /\ pc' = [pc EXCEPT ![t] = "out"]
          /\ UNCHANGED <<count, status, unparked, unlinked, wake, list>>
      BY <1>1, <2>2 DEF Stream!WakeDone, Stream!Step
    <3>2. QED
      BY <1>0, <1>3, <3>1, MoveOK, Zenon
  <2>3. CASE Stream!Cancelled(t)
    <3>1. Cancelled(t)
      BY <2>3 DEF Stream!Cancelled, Cancelled, Stream!Step, Step
    <3>2. /\ pc[t] = "parked" /\ pc' = [pc EXCEPT ![t] = "unlink"]
          /\ count' = [count EXCEPT ![t] = 0]
      BY <3>1 DEF Cancelled, Step
    <3>3. \A x \in Threads : count'[x] = 1 => count[x] = 1
      BY <1>0, <3>2 DEF WaiterTypes
    <3>4. QED
      BY <1>0, <1>1, <1>3, <3>1, <3>2, <3>3, CancelledOK
  <2>4. QED
    BY <1>1, <2>1, <2>2, <2>3
<1>5. WaitersOK(served)'
  BY <1>1, <1>2, <1>4, InHand
<1>6. /\ \A x \in Threads : pc'[x] \in {"serve", "fill", "finish"} <=> pc[x] \in {"serve", "fill", "finish"}
      /\ \A x \in Threads : pc[x] \in {"serve", "fill", "finish"} => pc'[x] = pc[x]
      /\ \A x \in Threads : pc'[x] \in {"out", "wake"} => pc[x] \in {"out", "wake"}
  BY <1>0, <1>4 DEF WaiterTypes
<1>7. \A x \in Threads : pc[x] = "fill" /\ remaining[x] > 0 => list' = <<>>
  BY <1>0, <1>1 DEF OwnerFits
<1>8. QED
  BY <1>1, <1>4, <1>5, <1>6, <1>7, StreamSame

\* Bytes are copied to or from the first waiter.
LEMMA CopyStep == ASSUME StreamInv, NEW t \in Threads, Stream!CopyMemory(t) PROVE StreamInv'
<1> USE ChannelsAssumption DEF ChannelsAssumption
<1>0. /\ WaiterTypes /\ StreamTypes /\ OwnerOK /\ WaitersFit /\ OwnerFits /\ BufferTypes
      /\ (~disposed => BufferHolds) /\ ordered /\ Stream!TransfersAddUp
  BY DEF StreamInv
<1>1. PICK u : u = Head(list)
  OBVIOUS
<1>2. PICK n : n = Stream!Lesser(Stream!Room(t), remaining[u])
  OBVIOUS
<1>3. /\ Stream!InLoop(t) /\ Stream!Room(t) > 0 /\ list # <<>> /\ count[u] = 1
      /\ \/ n = remaining[u] /\ list' = Tail(list) /\ served' = u
         \/ n # remaining[u] /\ list' = list /\ served' = served
      /\ \/ /\ pc[t] = "fill" /\ Stream!Store(n) /\ remaining' = [remaining EXCEPT ![u] = @ - n]
            /\ UNCHANGED <<head, delivered, ordered>>
         \/ /\ pc[t] # "fill" /\ Stream!Pass(n)
            /\ remaining' = [remaining EXCEPT ![u] = @ - n, ![t] = @ - n]
            /\ UNCHANGED <<items, head, tail, size>>
      /\ UNCHANGED <<pc, count, status, unparked, unlinked, wake, owner, disposed, op, asked,
                     reported>>
  BY <1>1, <1>2, Zenon DEF Stream!CopyMemory, Stream!Goes, Stream!waiterVars
<1>4. /\ served = NoThread /\ WaitersOK(NoThread) /\ ~disposed /\ owner = t
      /\ pc[t] \in {"serve", "fill"} /\ count[t] = 0
      /\ \A x \in Threads \ {t} : pc[x] \notin {"serve", "fill", "finish"}
  BY <1>3, InLoopLemma
<1>5. u \in Threads /\ u # t
  BY <1>0, <1>1, <1>3, <1>4 DEF WaiterTypes
<1>6. BufferHolds
  BY <1>0, <1>4
<1>7. /\ n \in Nat /\ n <= remaining[u] /\ n <= Stream!Room(t)
      /\ remaining[u] \in Nat /\ remaining[t] \in Nat /\ size \in 0..StreamCapacity
      /\ Stream!Room(t) = IF pc[t] = "fill" THEN StreamCapacity - size ELSE remaining[t]
      /\ written \in Nat /\ delivered \in Nat
  <2>1. /\ remaining[u] \in Nat /\ remaining[t] \in Nat /\ size \in 0..StreamCapacity
        /\ Stream!Room(t) = IF pc[t] = "fill" THEN StreamCapacity - size ELSE remaining[t]
        /\ written \in Nat /\ delivered \in Nat
    BY <1>0, <1>5 DEF StreamTypes, BufferTypes, Stream!Room
  <2>2. Stream!Room(t) \in Nat
    BY <2>1
  <2>3. QED
    BY <1>2, <2>1, <2>2 DEF Stream!Lesser
<1>8. WaiterTypes' /\ WaitersOK(served)'
  <2>1. CASE list' = Tail(list) /\ served' = u
    <3>1. WaiterTypes' /\ WaitersOK(u)'
      BY <1>0, <1>1, <1>3, <1>4, <2>1, HeadInHandOK
    <3>2. QED
      BY <2>1, <3>1, InHand
  <2>2. CASE list' = list /\ served' = served
    <3>1. WaiterTypes' /\ WaitersOK(NoThread)'
      BY <1>0, <1>3, <1>4, <2>2 DEF WaiterTypes, WaitersOK, Waits
    <3>2. QED
      BY <1>4, <2>2, <3>1, InHand
  <2>3. QED
    BY <1>3, <2>1, <2>2
<1>9. /\ remaining'[u] = remaining[u] - n
      /\ remaining'[t] = remaining[t] - IF pc[t] = "fill" THEN 0 ELSE n
      /\ remaining'[t] \in Nat
      /\ \A x \in Threads \ {u, t} : remaining'[x] = remaining[x]
      /\ remaining' \in [Threads -> Nat]
  <2>1. remaining \in [Threads -> Nat] /\ remaining[u] - n \in Nat
    BY <1>0, <1>7 DEF StreamTypes
  <2>2. CASE pc[t] = "fill"
    <3>1. remaining' = [remaining EXCEPT ![u] = remaining[u] - n]
      BY <1>3, <2>2
    <3>2. QED
      BY <1>5, <1>7, <2>1, <2>2, <3>1
  <2>3. CASE pc[t] # "fill"
    <3>1. remaining' = [[remaining EXCEPT ![u] = remaining[u] - n] EXCEPT ![t] = remaining[t] - n]
      BY <1>3, <1>5, <2>1, <2>3
    <3>2. remaining[t] - n \in Nat
      BY <1>7, <2>3
    <3>3. QED
      BY <1>5, <1>7, <2>1, <2>3, <3>1, <3>2
  <2>4. QED
    BY <2>2, <2>3
<1>10. StreamTypes'
  <2>1. served' \in Threads \cup {NoThread}
    BY <1>3, <1>4, <1>5
  <2>2. \A x \in Threads : remaining'[x] <= asked'[x]
    <3> SUFFICES ASSUME NEW x \in Threads PROVE remaining'[x] <= asked[x]
      BY <1>3
    <3>1. remaining[x] <= asked[x] /\ asked[x] \in Nat /\ remaining[x] \in Nat
      BY <1>0 DEF StreamTypes
    <3>2. remaining'[x] = remaining[x] \/ remaining'[x] = remaining[x] - n
      BY <1>7, <1>9
    <3>3. QED
      BY <1>7, <3>1, <3>2
  <2>3. QED
    BY <1>0, <1>3, <1>9, <2>1, <2>2, Zenon DEF StreamTypes
<1>11. OwnerOK'
  <2>1. served' # NoThread => served' = u /\ remaining'[u] = 0
    BY <1>3, <1>4, <1>7, <1>9
  <2>2. \A x \in Threads : pc[x] \in {"out", "wake"} => x # u /\ x # t
    <3>1. pc[u] = "parked"
      BY <1>3, <1>5, LiveParked
    <3>2. QED
      BY <1>4, <3>1
  <2>3. \A x \in Threads : pc'[x] \in {"out", "wake"} => asked'[x] = 0 /\ remaining'[x] = 0
    BY <1>0, <1>3, <1>9, <2>2 DEF OwnerOK
  <2>4. served' # NoThread => /\ \E x \in Threads : owner' = x /\ pc'[x] \in {"serve", "fill"}
                              /\ remaining'[served'] = 0
    BY <1>3, <1>4, <2>1
  <2>5. QED
    BY <1>0, <1>3, <1>4, <2>3, <2>4 DEF OwnerOK
<1>12. CASE pc[t] = "fill"
  <2>1. Stream!Store(n) /\ UNCHANGED <<head, delivered, ordered>> /\ n \in 0..StreamCapacity - size
    BY <1>3, <1>7, <1>12
  <2>2. BufferTypes' /\ BufferHolds' /\ written' = written + n
    BY <1>0, <1>6, <2>1, StoreOK
  <2>3. \A x \in Threads : count[x] = 1 => op[x] = "write"
    BY <1>0, <1>12 DEF WaitersFit
  <2>4. WaitersFit'
    BY <1>3, <1>4, <1>12, <2>3 DEF WaitersFit
  <2>5. remaining[t] = 0 /\ op[t] = "read"
    BY <1>0, <1>3, <1>7, <1>12 DEF OwnerFits
  <2>6. OwnerFits'
    <3>1. \A x \in Threads : /\ pc'[x] \in {"serve", "fill", "finish"} => x = t
                             /\ pc'[x] = pc[x] /\ op'[x] = op[x]
      BY <1>3, <1>4
    <3>2. remaining'[t] = 0
      BY <1>7, <1>9, <1>12, <2>5
    <3>3. QED
      BY <1>12, <2>5, <3>1, <3>2 DEF OwnerFits
  <2>7. Stream!TransfersAddUp'
    <3>1. /\ op' = op /\ asked' = asked /\ reported' = reported /\ op[u] = "write"
          /\ asked[u] \in Nat /\ op[u] \in {"write", "read"}
      BY <1>0, <1>3, <1>5, <2>3 DEF StreamTypes
    <3>2. \A way \in {"write", "read"} : \A x \in Threads \ {u} :
            Stream!Moved(x, way)' = Stream!Moved(x, way)
      <4>1. \A x \in Threads \ {u} : remaining'[x] = remaining[x]
        BY <1>7, <1>9, <1>12
      <4>2. QED
        BY <3>1, <4>1 DEF Stream!Moved
    <3>3. \A way \in {"write", "read"} :
            /\ Stream!Moved(u, way) = IF way = "write" THEN asked[u] - remaining[u] ELSE 0
            /\ Stream!Moved(u, way)' = IF way = "write" THEN asked[u] - remaining[u] + n ELSE 0
      BY <1>7, <1>9, <3>1 DEF Stream!Moved
    <3>4. \A way \in {"write", "read"} : reported[way] \in Nat
      BY <1>0 DEF StreamTypes
    <3>5. \A way \in {"write", "read"} :
            reported'[way] + Stream!Moved(u, way)' - (reported[way] + Stream!Moved(u, way))
                = IF way = "write" THEN written' - written ELSE delivered' - delivered
      BY <1>7, <2>1, <2>2, <3>1, <3>3, <3>4
    <3>6. written' \in Nat /\ delivered' \in Nat
      BY <1>7, <2>1, <2>2
    <3>7. QED
      BY <1>0, <1>5, <1>7, <1>10, <3>2, <3>5, <3>6, TotalsOK
  <2>8. ordered'
    BY <1>0, <2>1
  <2>9. QED
    BY <1>8, <1>10, <1>11, <2>2, <2>4, <2>6, <2>7, <2>8 DEF StreamInv
<1>13. CASE pc[t] = "serve"
  <2>1. /\ written' = written + n /\ delivered' = delivered + n
        /\ ordered' = (ordered /\ (n > 0 => delivered = written))
        /\ UNCHANGED <<items, head, tail, size>>
    BY <1>3, <1>13 DEF Stream!Pass
  <2>2. remaining[t] > 0 /\ op[t] \in {"write", "read"} /\ op[u] \in {"write", "read"}
    BY <1>0, <1>3, <1>5, <1>7, <1>13 DEF StreamTypes
  <2>3. op[u] # op[t] /\ size = 0
    <3>1. IF op[t] = "write" THEN op[u] = "read" /\ size = 0 ELSE op[u] = "write"
      BY <1>0, <1>3, <1>5, <1>13 DEF WaitersFit
    <3>2. op[t] = "read" => size = 0
      BY <1>0, <1>13, <2>2 DEF OwnerFits
    <3>3. QED
      BY <2>2, <3>1, <3>2
  <2>4. delivered = written
    BY <1>6, <1>7, <2>3 DEF BufferHolds
  <2>5. ordered'
    BY <1>0, <2>1, <2>4, Zenon
  <2>6. BufferTypes' /\ BufferHolds'
    <3>1. BufferTypes'
      BY <1>0, <1>7, <2>1 DEF BufferTypes
    <3>2. BufferHolds'
      BY <1>6, <1>7, <2>1, <2>3 DEF BufferHolds
    <3>3. QED
      BY <3>1, <3>2
  <2>7. WaitersFit'
    BY <1>0, <1>3, <2>1 DEF WaitersFit, Beside
  <2>8. OwnerFits'
    <3>1. \A x \in Threads : pc'[x] \in {"serve", "fill", "finish"} => x = t /\ pc'[x] = "serve"
      BY <1>3, <1>4, <1>13
    <3>2. size' = 0
      BY <2>1, <2>3
    <3>3. QED
      BY <3>1, <3>2 DEF OwnerFits
  <2>9. Stream!TransfersAddUp'
    <3>1. /\ op' = op /\ asked' = asked /\ reported' = reported
          /\ asked[u] \in Nat /\ asked[t] \in Nat
      BY <1>0, <1>3, <1>5 DEF StreamTypes
    <3>2. \A way \in {"write", "read"} : reported[way] \in Nat
      BY <1>0 DEF StreamTypes
    <3>3. \A x \in Threads \ {u, t} : \A way \in {"write", "read"} :
            Stream!Moved(x, way)' = Stream!Moved(x, way)
      BY <1>9, <3>1 DEF Stream!Moved
    <3>4. remaining'[u] = remaining[u] - n /\ remaining'[t] = remaining[t] - n
      BY <1>9, <1>13
    <3>5. \A way \in {"write", "read"} : \E v \in {u, t} :
            way = op[v] /\ \A x \in {u, t} \ {v} : way # op[x]
      BY <2>2, <2>3
    <3>6. ASSUME NEW way \in {"write", "read"}
          PROVE  \E v \in Threads :
                   /\ \A x \in Threads \ {v} : Stream!Moved(x, way)' = Stream!Moved(x, way)
                   /\ reported'[way] + Stream!Moved(v, way)' - (reported[way] + Stream!Moved(v, way))
                      = IF way = "write" THEN written' - written ELSE delivered' - delivered
      <4>1. PICK v \in {u, t} : way = op[v] /\ \A x \in {u, t} \ {v} : way # op[x]
        BY <3>5
      <4>2. v \in Threads
        BY <1>5
      <4>3. \A x \in Threads \ {v} : Stream!Moved(x, way)' = Stream!Moved(x, way)
        <5> SUFFICES ASSUME NEW x \in Threads \ {v}
                     PROVE  Stream!Moved(x, way)' = Stream!Moved(x, way)
          OBVIOUS
        <5>1. CASE x \in {u, t}
          <6>1. way # op[x]
            BY <4>1, <5>1
          <6>2. QED
            BY <3>1, <6>1 DEF Stream!Moved
        <5>2. CASE x \notin {u, t}
          BY <3>3, <5>2
        <5>3. QED
          BY <5>1, <5>2
      <4>4. Stream!Moved(v, way)' = Stream!Moved(v, way) + n /\ Stream!Moved(v, way) \in Int
        <5>1. /\ remaining'[v] = remaining[v] - n /\ asked[v] \in Nat /\ remaining[v] \in Nat
              /\ op'[v] = op[v] /\ asked'[v] = asked[v]
          BY <1>7, <3>1, <3>4
        <5>2. QED
          BY <1>7, <4>1, <5>1 DEF Stream!Moved
      <4>5. QED
        BY <1>7, <2>1, <3>1, <3>2, <4>2, <4>3, <4>4
    <3>7. written' \in Nat /\ delivered' \in Nat
      BY <1>7, <2>1
    <3>8. QED
      BY <1>0, <1>7, <1>10, <3>6, <3>7, TotalsOK
  <2>10. QED
    BY <1>8, <1>10, <1>11, <2>5, <2>6, <2>7, <2>8, <2>9 DEF StreamInv
<1>14. QED
  BY <1>4, <1>12, <1>13

\* A waiter that can be locked is in the list while the owner has nobody in hand.
LEMMA EmptyList ==
  ASSUME StreamInv, served = NoThread, list = <<>>, NEW u \in Threads PROVE count[u] = 0
<1>1. count[u] = 1 => In(u, list)
  BY LiveParked
<1>2. count[u] \in {0, 1}
  BY DEF StreamInv, WaiterTypes
<1>3. QED
  BY <1>1, <1>2, SmallStacks

LEMMA LoopEndsStep == ASSUME StreamInv, NEW t \in Threads, Stream!LoopEnds(t) PROVE StreamInv'
<1> USE ChannelsAssumption DEF ChannelsAssumption
<1>0. /\ WaiterTypes /\ StreamTypes /\ OwnerOK /\ WaitersFit /\ OwnerFits /\ BufferTypes
      /\ (~disposed => BufferHolds) /\ ordered /\ Stream!TransfersAddUp
  BY DEF StreamInv
<1>1. /\ Stream!InLoop(t) /\ ~Stream!Goes(t)
      /\ UNCHANGED <<count, status, unparked, unlinked, wake, owner, served, list, disposed,
                     head, op, asked, delivered, ordered, reported>>
  BY DEF Stream!LoopEnds
<1>2. /\ served = NoThread /\ WaitersOK(NoThread) /\ ~disposed /\ owner = t
      /\ pc[t] \in {"serve", "fill"} /\ count[t] = 0
      /\ \A x \in Threads \ {t} : pc[x] \notin {"serve", "fill", "finish"}
  BY <1>1, InLoopLemma
<1>3. ~(Stream!Room(t) > 0) \/ list = <<>>
  BY <1>1 DEF Stream!Goes
<1>4. BufferHolds
  BY <1>0, <1>2
<1>5. /\ remaining[t] \in Nat /\ asked[t] \in Nat /\ size \in 0..StreamCapacity /\ size \in Nat
      /\ Stream!Room(t) = IF pc[t] = "fill" THEN StreamCapacity - size ELSE remaining[t]
      /\ written \in Nat /\ delivered \in Nat /\ op[t] \in {"write", "read"}
  BY <1>0 DEF StreamTypes, BufferTypes, Stream!Room
<1>6. list = <<>> => \A u \in Threads : count[u] = 0
  BY <1>2, EmptyList
<1>7. CASE op[t] = "write"
  <2>1. PICK n : n = Stream!Lesser(remaining[t], StreamCapacity - size)
    OBVIOUS
  <2>2. /\ pc[t] = "serve" /\ pc' = [pc EXCEPT ![t] = "finish"]
        /\ Stream!Store(n) /\ remaining' = [remaining EXCEPT ![t] = @ - n]
    BY <1>7, <2>1 DEF Stream!LoopEnds, Stream!Step
  <2>3. /\ n \in 0..StreamCapacity - size /\ n \in Nat /\ n <= remaining[t]
        /\ n < remaining[t] => n = StreamCapacity - size
    <3>1. StreamCapacity - size \in Nat
      BY <1>5
    <3>2. QED
      BY <1>5, <2>1, <3>1 DEF Stream!Lesser
  <2>4. BufferTypes' /\ BufferHolds' /\ size' = size + n /\ written' = written + n
    BY <1>0, <1>1, <1>4, <2>2, <2>3, StoreOK
  <2>5. WaiterTypes' /\ WaitersOK(NoThread)'
    BY <1>0, <1>1, <1>2, <2>2, MoveOK, Zenon
  <2>6. WaitersOK(served)'
    BY <1>1, <1>2, <2>5, InHand
  <2>7. /\ remaining'[t] = remaining[t] - n /\ remaining'[t] \in Nat
        /\ \A x \in Threads \ {t} : remaining'[x] = remaining[x] /\ pc'[x] = pc[x]
        /\ pc'[t] = "finish"
        /\ remaining' \in [Threads -> Nat] /\ remaining'[t] <= asked[t]
    <3>1. remaining[t] - n \in Nat /\ remaining \in [Threads -> Nat] /\ remaining[t] <= asked[t]
      BY <1>0, <1>5, <2>3 DEF StreamTypes
    <3>2. QED
      BY <1>0, <1>5, <2>2, <2>3, <3>1 DEF WaiterTypes
  <2>8. StreamTypes'
    BY <1>0, <1>1, <2>7 DEF StreamTypes
  <2>9. OwnerOK'
    BY <1>0, <1>1, <1>2, <2>2, <2>7 DEF OwnerOK
  <2>10. \A x \in Threads : /\ pc'[x] \in {"serve", "fill", "finish"} => x = t
                            /\ Beside(x)' = Beside(x)
    BY <1>1, <1>2, <2>7 DEF Beside
  <2>11. WaitersFit'
    <3> SUFFICES ASSUME NEW u \in Threads, count[u] = 1 PROVE size' = Beside(u)
      BY <1>1, <2>7, <2>10 DEF WaitersFit
    <3>1. remaining[t] = 0
      BY <1>3, <1>5, <1>6, <2>2
    <3>2. op[u] = "read" /\ size = 0
      BY <1>0, <1>7, <2>2 DEF WaitersFit
    <3>3. QED
      BY <2>3, <2>4, <3>1, <3>2 DEF Beside
  <2>12. OwnerFits'
    <3>1. remaining'[t] > 0 => size' = StreamCapacity
      BY <1>5, <2>3, <2>4, <2>7
    <3>2. Beside(t) = StreamCapacity
      BY <1>7 DEF Beside
    <3>3. QED
      BY <1>2, <2>7, <2>10, <3>1, <3>2 DEF OwnerFits
  <2>13. Stream!TransfersAddUp'
    <3>1. \A way \in {"write", "read"} : reported[way] \in Nat
      BY <1>0 DEF StreamTypes
    <3>2. \A way \in {"write", "read"} :
            /\ \A x \in Threads \ {t} : Stream!Moved(x, way)' = Stream!Moved(x, way)
            /\ Stream!Moved(t, way) = IF way = "write" THEN asked[t] - remaining[t] ELSE 0
            /\ Stream!Moved(t, way)' = IF way = "write" THEN asked[t] - (remaining[t] - n) ELSE 0
      BY <1>1, <1>7, <2>7 DEF Stream!Moved
    <3>3. \A way \in {"write", "read"} :
            reported'[way] + Stream!Moved(t, way)' - (reported[way] + Stream!Moved(t, way))
                = IF way = "write" THEN written' - written ELSE delivered' - delivered
      BY <1>1, <1>5, <2>3, <2>4, <3>1, <3>2
    <3>4. written' \in Nat /\ delivered' \in Nat
      BY <1>1, <1>5, <2>3, <2>4
    <3>5. QED
      BY <1>0, <1>5, <2>8, <3>2, <3>3, <3>4, TotalsOK
  <2>14. QED
    BY <1>0, <1>1, <2>4, <2>5, <2>6, <2>8, <2>9, <2>11, <2>12, <2>13 DEF StreamInv
<1>8. CASE op[t] = "read"
  <2> DEFINE p == IF pc[t] = "serve" THEN "fill" ELSE "finish"
  <2>1. /\ pc' = [pc EXCEPT ![t] = p] /\ UNCHANGED <<items, tail, size, written, remaining>>
    BY <1>8 DEF Stream!LoopEnds, Stream!Step
  <2>2. p \in {"fill", "finish"}
    OBVIOUS
  <2> HIDE DEF p
  <2>3. WaiterTypes' /\ WaitersOK(NoThread)'
    BY <1>0, <1>1, <1>2, <2>1, <2>2, MoveOK, Zenon
  <2>4. WaitersOK(served)'
    BY <1>1, <1>2, <2>3, InHand
  <2>5. pc'[t] = p /\ \A x \in Threads \ {t} : pc'[x] = pc[x]
    BY <1>0, <2>1 DEF WaiterTypes
  <2>6. StreamTypes'
    BY <1>0, <1>1, <2>1 DEF StreamTypes
  <2>7. OwnerOK'
    BY <1>0, <1>1, <1>2, <2>1, <2>2, <2>5 DEF OwnerOK
  <2>8. \A x \in Threads : /\ pc'[x] \in {"serve", "fill", "finish"} => x = t
                           /\ Beside(x)' = Beside(x) /\ op'[x] = op[x]
                           /\ remaining'[x] = remaining[x]
    BY <1>1, <1>2, <2>1, <2>5 DEF Beside
  <2>9. ASSUME pc[t] = "serve" PROVE WaitersFit' /\ OwnerFits'
    <3>1. p = "fill"
      BY <2>9 DEF p
    <3>2. \A u \in Threads : count[u] = 1 => op[u] = "write"
      BY <1>0, <1>8, <2>9 DEF WaitersFit
    <3>3. WaitersFit'
      <4> SUFFICES ASSUME NEW u \in Threads, count[u] = 1
                   PROVE  /\ ~\A x \in Threads : pc'[x] \notin {"serve", "fill"}
                          /\ op[u] = "write" /\ \A x \in Threads : pc'[x] # "serve"
        BY <1>1, <2>8 DEF WaitersFit
      <4>1. QED
        BY <2>5, <2>8, <3>1, <3>2
    <3>4. remaining[t] > 0 => size = 0 /\ list = <<>>
      BY <1>0, <1>3, <1>5, <1>8, <2>9 DEF OwnerFits
    <3>5. OwnerFits'
      BY <1>1, <1>2, <1>8, <2>1, <2>5, <2>8, <3>1, <3>4 DEF OwnerFits
    <3>6. QED
      BY <3>3, <3>5
  <2>10. ASSUME pc[t] = "fill" PROVE WaitersFit' /\ OwnerFits'
    <3>1. p = "finish"
      BY <2>10 DEF p
    <3>2. \A u \in Threads : count[u] = 1 => op[u] = "write" /\ size = StreamCapacity
      BY <1>0, <1>3, <1>5, <1>6, <2>10 DEF WaitersFit
    <3>3. WaitersFit'
      <4> SUFFICES ASSUME NEW u \in Threads, count[u] = 1
                   PROVE  /\ size = Beside(u)
                          /\ \A x \in Threads : pc'[x] \notin {"serve", "fill"}
        BY <1>1, <2>1, <2>8 DEF WaitersFit
      <4>1. QED
        BY <2>5, <2>8, <3>1, <3>2 DEF Beside
    <3>4. (remaining[t] > 0 => size = 0) /\ Beside(t) = 0
      BY <1>0, <1>8, <2>10 DEF OwnerFits, Beside
    <3>5. OwnerFits'
      BY <2>1, <2>5, <2>8, <3>1, <3>4 DEF OwnerFits
    <3>6. QED
      BY <3>3, <3>5
  <2>11. WaitersFit' /\ OwnerFits'
    BY <1>2, <2>9, <2>10
  <2>12. BufferTypes' /\ BufferHolds'
    BY <1>0, <1>1, <1>4, <2>1 DEF BufferTypes, BufferHolds
  <2>13. Stream!TransfersAddUp'
    BY <1>0, <1>1, <2>1, TotalsPrime, Totals DEF Stream!Moved
  <2>14. QED
    BY <1>0, <1>1, <2>3, <2>4, <2>6, <2>7, <2>11, <2>12, <2>13 DEF StreamInv
<1>9. QED
  BY <1>5, <1>7, <1>8

\* What a call has moved is reported when it ends.
LEMMA ReportOK ==
  ASSUME StreamInv, NEW t \in Threads, Stream!Report(t), served' \in Threads \cup {NoThread},
         owner' \in Threads \cup {NoThread}
  PROVE  /\ StreamTypes' /\ Stream!TransfersAddUp' /\ op' = op
         /\ written' = written /\ delivered' = delivered /\ ordered'
         /\ asked'[t] = 0 /\ remaining'[t] = 0
         /\ \A x \in Threads \ {t} : asked'[x] = asked[x] /\ remaining'[x] = remaining[x]
<1>0. /\ StreamTypes /\ BufferTypes /\ ordered /\ Stream!TransfersAddUp
  BY DEF StreamInv
<1>1. /\ reported' = [reported EXCEPT ![op[t]] = @ + asked[t] - remaining[t]]
      /\ asked' = [asked EXCEPT ![t] = 0] /\ remaining' = [remaining EXCEPT ![t] = 0]
      /\ UNCHANGED <<op, written, delivered, ordered>>
  BY DEF Stream!Report
<1>2. /\ asked'[t] = 0 /\ remaining'[t] = 0
      /\ \A x \in Threads \ {t} : asked'[x] = asked[x] /\ remaining'[x] = remaining[x]
      /\ op[t] \in {"write", "read"} /\ asked[t] \in Nat /\ remaining[t] \in Nat
      /\ remaining[t] <= asked[t] /\ \A way \in {"write", "read"} : reported[way] \in Nat
  BY <1>0, <1>1 DEF StreamTypes
<1>3. /\ reported' \in [{"write", "read"} -> Nat]
      /\ \A way \in {"write", "read"} : reported'[way] =
           reported[way] + IF way = op[t] THEN asked[t] - remaining[t] ELSE 0
  <2>1. reported[op[t]] + asked[t] - remaining[t] \in Nat /\ asked[t] - remaining[t] \in Nat
    BY <1>2
  <2>2. QED
    BY <1>0, <1>1, <1>2, <2>1 DEF StreamTypes
<1>4. StreamTypes'
  BY <1>0, <1>1, <1>2, <1>3 DEF StreamTypes
<1>5. \A way \in {"write", "read"} :
        /\ \A x \in Threads \ {t} : Stream!Moved(x, way)' = Stream!Moved(x, way)
        /\ Stream!Moved(t, way) = IF way = op[t] THEN asked[t] - remaining[t] ELSE 0
        /\ Stream!Moved(t, way)' = 0
  BY <1>1, <1>2 DEF Stream!Moved
<1>6. \A way \in {"write", "read"} :
        reported'[way] + Stream!Moved(t, way)' - (reported[way] + Stream!Moved(t, way))
            = IF way = "write" THEN written' - written ELSE delivered' - delivered
  <2>1. written' - written = 0 /\ delivered' - delivered = 0
    BY <1>0, <1>1 DEF BufferTypes
  <2>2. QED
    BY <1>2, <1>3, <1>5, <2>1
<1>7. written \in Nat /\ delivered \in Nat /\ written' \in Nat /\ delivered' \in Nat
  BY <1>0, <1>1 DEF BufferTypes
<1>8. Stream!TransfersAddUp'
  BY <1>0, <1>4, <1>5, <1>6, <1>7, TotalsOK
<1>9. QED
  BY <1>0, <1>1, <1>2, <1>4, <1>8

LEMMA FinishStep == ASSUME StreamInv, NEW t \in Threads, Stream!Finish(t) PROVE StreamInv'
<1> USE ChannelsAssumption DEF ChannelsAssumption
<1>0. /\ WaiterTypes /\ WaitersOK(served) /\ StreamTypes /\ OwnerOK /\ WaitersFit /\ OwnerFits
      /\ BufferTypes /\ (~disposed => BufferHolds) /\ ordered /\ Stream!TransfersAddUp
  BY DEF StreamInv
<1>1. /\ pc[t] = "finish" /\ owner' = NoThread
      /\ UNCHANGED <<wake, served, disposed, items, head, tail, size>>
  BY DEF Stream!Finish, Stream!bufferVars
<1>2. /\ owner = t /\ ~disposed /\ served = NoThread
      /\ \A x \in Threads \ {t} : pc[x] \notin {"serve", "fill", "finish"}
  BY <1>0, <1>1 DEF OwnerOK
<1>3. WaitersOK(NoThread)
  BY <1>0, <1>2
<1>4. \A u \in Threads : count[u] = 1 => size = Beside(u)
  BY <1>0, <1>1, <1>2 DEF WaitersFit
<1>5. CASE /\ pc' = [pc EXCEPT ![t] = "wake"] /\ Stream!Report(t)
           /\ UNCHANGED <<count, status, unparked, unlinked, list>>
  <2>1. WaiterTypes' /\ WaitersOK(NoThread)'
    BY <1>0, <1>1, <1>3, <1>5, MoveOK, Zenon
  <2>2. WaitersOK(served)'
    BY <1>1, <1>2, <2>1, InHand
  <2>3. served' \in Threads \cup {NoThread} /\ owner' \in Threads \cup {NoThread}
    BY <1>1, <1>2
  <2>4. /\ StreamTypes' /\ Stream!TransfersAddUp' /\ op' = op
        /\ written' = written /\ delivered' = delivered /\ ordered'
        /\ asked'[t] = 0 /\ remaining'[t] = 0
        /\ \A x \in Threads \ {t} : asked'[x] = asked[x] /\ remaining'[x] = remaining[x]
    BY <1>5, <2>3, ReportOK
  <2>5. pc'[t] = "wake" /\ \A x \in Threads \ {t} : pc'[x] = pc[x]
    BY <1>0, <1>5 DEF WaiterTypes
  <2>6. \A x \in Threads : pc'[x] \notin {"serve", "fill", "finish"}
    BY <1>2, <2>5
  <2>7. OwnerOK'
    BY <1>0, <1>1, <1>2, <2>4, <2>5, <2>6 DEF OwnerOK
  <2>8. WaitersFit' /\ OwnerFits'
    <3>1. \A x \in Threads : Beside(x)' = Beside(x)
      BY <2>4 DEF Beside
    <3>2. QED
      BY <1>1, <1>4, <1>5, <2>6, <3>1 DEF WaitersFit, OwnerFits
  <2>9. BufferTypes' /\ (~disposed' => BufferHolds')
    BY <1>0, <1>1, <2>4 DEF BufferTypes, BufferHolds
  <2>10. QED
    BY <2>1, <2>2, <2>4, <2>7, <2>8, <2>9 DEF StreamInv
<1>6. CASE /\ remaining[t] > 0 /\ list' = Append(list, t)
           /\ pc' = [pc EXCEPT ![t] = "parked"]
           /\ count' = [count EXCEPT ![t] = 1] /\ status' = [status EXCEPT ![t] = "none"]
           /\ unparked' = [unparked EXCEPT ![t] = 0] /\ unlinked' = [unlinked EXCEPT ![t] = 0]
           /\ UNCHANGED <<op, asked, remaining, written, delivered, ordered, reported>>
  <2>1. WaiterTypes' /\ WaitersOK(NoThread)'
    <3>1. pc[t] \notin {"parked", "unlink"} /\ wake' = wake
      BY <1>1
    <3>2. QED
      BY <1>0, <1>3, <1>6, <3>1, WaitOK, Zenon
  <2>2. WaitersOK(served)'
    BY <1>1, <1>2, <2>1, InHand
  <2>3. StreamTypes'
    BY <1>0, <1>1, <1>6 DEF StreamTypes
  <2>4. /\ pc'[t] = "parked" /\ \A x \in Threads \ {t} : pc'[x] = pc[x] /\ count'[x] = count[x]
    BY <1>0, <1>6 DEF WaiterTypes
  <2>5. \A x \in Threads : pc'[x] \notin {"serve", "fill", "finish"}
    BY <1>2, <2>4
  <2>6. OwnerOK'
    BY <1>0, <1>1, <1>2, <1>6, <2>4, <2>5 DEF OwnerOK
  <2>7. WaitersFit' /\ OwnerFits'
    <3>1. \A x \in Threads : Beside(x)' = Beside(x)
      BY <1>6 DEF Beside
    <3>2. size = Beside(t)
      BY <1>0, <1>1, <1>6 DEF OwnerFits
    <3>3. \A x \in Threads : count'[x] = 1 => size' = Beside(x)'
      BY <1>1, <1>4, <2>4, <3>1, <3>2
    <3>4. QED
      BY <2>5, <3>3 DEF WaitersFit, OwnerFits
  <2>8. BufferTypes' /\ (~disposed' => BufferHolds') /\ ordered'
    BY <1>0, <1>1, <1>6 DEF BufferTypes, BufferHolds
  <2>9. Stream!TransfersAddUp'
    BY <1>0, <1>6, TotalsPrime, Totals DEF Stream!Moved
  <2>10. QED
    BY <2>1, <2>2, <2>3, <2>6, <2>7, <2>8, <2>9 DEF StreamInv
<1>7. QED
  BY <1>5, <1>6 DEF Stream!Finish, Stream!callVars, Stream!ghostVars

LEMMA ReturnsStep == ASSUME StreamInv, NEW t \in Threads, Stream!Returns(t) PROVE StreamInv'
<1> USE ChannelsAssumption DEF ChannelsAssumption
<1>0. /\ WaiterTypes /\ WaitersOK(served) /\ StreamTypes /\ OwnerOK /\ WaitersFit /\ OwnerFits
      /\ BufferTypes /\ (~disposed => BufferHolds) /\ ordered /\ Stream!TransfersAddUp
  BY DEF StreamInv
<1>1. /\ Stream!Report(t) /\ UNCHANGED <<owner, served, disposed, items, head, tail, size>>
  BY DEF Stream!Returns, Stream!bufferVars
<1>2. PICK y : y = served
  OBVIOUS
<1>3. WaitersOK(y)
  BY <1>0, <1>2
<1>4. /\ WaiterTypes' /\ WaitersOK(y)' /\ pc[t] \in {"parked", "unlink"}
      /\ pc' = [pc EXCEPT ![t] = "out"] /\ count' = count
      /\ list' = list \/ (owner = NoThread /\ \A x : In(x, list') => In(x, list))
  <2>1. CASE (\E s \in {"success", "disposed"} : Stream!Unparked(t, s)) /\ UNCHANGED list
    <3>1. (\E s \in {"success", "disposed"} : Unparked(t, s)) /\ list' = list
      BY <2>1 DEF Stream!Unparked, Unparked, Stream!Step, Step
    <3>2. pc[t] = "parked" /\ pc' = [pc EXCEPT ![t] = "out"] /\ count' = count
      BY <3>1 DEF Unparked, Step
    <3>3. QED
      BY <1>0, <1>3, <3>1, <3>2, UnparkedOK
  <2>2. CASE owner = NoThread /\ Stream!UnlinkEntryList(t, list)
    <3>1. UnlinkEntryList(t, list)
      BY <2>2 DEF Stream!UnlinkEntryList, UnlinkEntryList, Stream!Step, Step,
                  Stream!Without, Without, Stream!In, In
    <3>2. y = NoThread
      BY <1>0, <1>2, <2>2 DEF OwnerOK
    <3>3. /\ WaiterTypes' /\ WaitersOK(NoThread)' /\ pc[t] = "unlink"
          /\ \A x : In(x, list') <=> x # t /\ In(x, list)
      BY <1>0, <1>3, <3>1, <3>2, UnlinkOK
    <3>4. pc' = [pc EXCEPT ![t] = "out"] /\ count' = count
      BY <3>1 DEF UnlinkEntryList, Step
    <3>5. QED
      BY <2>2, <3>2, <3>3, <3>4
  <2>3. QED
    BY <2>1, <2>2 DEF Stream!Returns
<1>5. WaitersOK(served)'
  BY <1>1, <1>2, <1>4, InHand
<1>6. /\ StreamTypes' /\ Stream!TransfersAddUp' /\ op' = op
      /\ written' = written /\ delivered' = delivered /\ ordered'
      /\ asked'[t] = 0 /\ remaining'[t] = 0
      /\ \A x \in Threads \ {t} : asked'[x] = asked[x] /\ remaining'[x] = remaining[x]
  <2>1. served' \in Threads \cup {NoThread} /\ owner' \in Threads \cup {NoThread}
    BY <1>0, <1>1 DEF StreamTypes
  <2>2. QED
    BY <1>1, <2>1, ReportOK
<1>7. pc'[t] = "out" /\ \A x \in Threads \ {t} : pc'[x] = pc[x]
  BY <1>0, <1>4 DEF WaiterTypes
<1>8. OwnerOK'
  <2>1. \A x \in Threads : pc'[x] \in {"serve", "fill", "finish"} <=> owner' = x
    BY <1>0, <1>1, <1>4, <1>7 DEF OwnerOK
  <2>2. served' # NoThread =>
           /\ \E x \in Threads : owner' = x /\ pc'[x] \in {"serve", "fill"}
           /\ remaining'[served'] = 0
    <3> SUFFICES ASSUME served # NoThread
                 PROVE  /\ \E x \in Threads : owner = x /\ pc'[x] \in {"serve", "fill"}
                        /\ remaining'[served] = 0
      BY <1>1
    <3>1. PICK x \in Threads : owner = x /\ pc[x] \in {"serve", "fill"}
      BY <1>0 DEF OwnerOK
    <3>2. x # t
      BY <1>4, <3>1
    <3>3. served \in Threads /\ remaining[served] = 0
      BY <1>0 DEF OwnerOK, StreamTypes
    <3>4. remaining'[served] = 0
      BY <1>6, <3>3
    <3>5. QED
      BY <1>7, <3>1, <3>2, <3>4
  <2>3. \A x \in Threads : pc'[x] \in {"out", "wake"} => asked'[x] = 0 /\ remaining'[x] = 0
    BY <1>0, <1>6, <1>7 DEF OwnerOK
  <2>4. QED
    BY <1>0, <1>1, <2>1, <2>2, <2>3 DEF OwnerOK
<1>9. \A x \in Threads : /\ Beside(x)' = Beside(x)
                         /\ pc'[x] = "serve" <=> pc[x] = "serve"
                         /\ pc'[x] = "fill" <=> pc[x] = "fill"
                         /\ pc'[x] = "finish" <=> pc[x] = "finish"
  BY <1>4, <1>6, <1>7 DEF Beside
<1>10. WaitersFit'
  BY <1>0, <1>1, <1>4, <1>6, <1>9 DEF WaitersFit
<1>11. OwnerFits'
  <2>1. \A x \in Threads : pc[x] \in {"serve", "fill", "finish"} =>
          x # t /\ remaining'[x] = remaining[x] /\ list' = list
    <3>1. \A x \in Threads : pc[x] \in {"serve", "fill", "finish"} => owner # NoThread
      BY <1>0 DEF OwnerOK
    <3>2. QED
      BY <1>4, <1>6, <3>1
  <2>2. QED
    BY <1>0, <1>1, <1>6, <1>9, <2>1 DEF OwnerFits
<1>12. BufferTypes' /\ (~disposed' => BufferHolds')
  BY <1>0, <1>1, <1>6 DEF BufferTypes, BufferHolds
<1>13. QED
  BY <1>4, <1>5, <1>6, <1>8, <1>10, <1>11, <1>12 DEF StreamInv

LEMMA DisposeStep == ASSUME StreamInv, NEW t \in Threads, Stream!Dispose(t) PROVE StreamInv'
<1> USE ChannelsAssumption DEF ChannelsAssumption
<1>0. /\ WaiterTypes /\ WaitersOK(served) /\ StreamTypes /\ OwnerOK /\ WaitersFit /\ OwnerFits
      /\ BufferTypes /\ ordered /\ Stream!TransfersAddUp
  BY DEF StreamInv
<1>1. /\ owner = NoThread /\ disposed' = TRUE /\ Stream!LockAll(t, list, "disposed")
      /\ list' = <<>> /\ size' = 0
      /\ UNCHANGED <<owner, served, items, head, tail, op, asked, remaining, written, delivered,
                     ordered, reported>>
  BY DEF Stream!Dispose, Stream!callVars, Stream!ghostVars
<1>2. served = NoThread /\ \A x \in Threads : pc[x] \notin {"serve", "fill", "finish"}
  BY <1>0, <1>1 DEF OwnerOK
<1>3. LockAll(t, list, "disposed")
  <2>1. Stream!Lockable(list) = Lockable(list)
    BY DEF Stream!Lockable, Lockable
  <2>2. \A L : Stream!Picked(list, L) = Picked(list, L)
    <3>0. \A S : Stream!Cardinality(S) = Cardinality(S)
      BY DEF Stream!Cardinality, Cardinality
    <3>1. \A L, i : Stream!Rank(L, i) = Rank(L, i)
      BY <3>0 DEF Stream!Rank, Rank
    <3>2. \A L, k : Stream!Position(L, k) = Position(L, k)
      BY <3>1 DEF Stream!Position, Position
    <3>3. QED
      BY <3>0, <3>2, Zenon DEF Stream!Picked, Picked
  <2>3. QED
    BY <1>1, <2>1, <2>2, Zenon DEF Stream!LockAll, LockAll, Stream!Step, Step
<1>4. pc[t] = "out" /\ pc' = [pc EXCEPT ![t] = "wake"]
  BY <1>3 DEF LockAll, Step
<1>5. WaiterTypes' /\ WaitersOK(NoThread)'
  BY <1>0, <1>1, <1>2, <1>3, LockAllOK
<1>6. WaitersOK(served)'
  BY <1>1, <1>2, <1>5, InHand
<1>7. \A x \in Threads : count'[x] # 1
  <2>1. \A x \in Threads : ~In(x, list') /\ x # NoThread
    BY <1>1, SmallStacks
  <2>2. QED
    BY <1>5, <2>1 DEF WaitersOK, Waits
<1>8. pc'[t] = "wake" /\ \A x \in Threads \ {t} : pc'[x] = pc[x]
  BY <1>0, <1>4 DEF WaiterTypes
<1>9. StreamTypes' /\ OwnerOK'
  BY <1>0, <1>1, <1>2, <1>4, <1>8 DEF StreamTypes, OwnerOK
<1>10. WaitersFit' /\ OwnerFits'
  BY <1>2, <1>7, <1>8 DEF WaitersFit, OwnerFits
<1>11. BufferTypes'
  BY <1>0, <1>1 DEF BufferTypes
<1>12. Stream!TransfersAddUp'
  BY <1>0, <1>1, TotalsPrime, Totals DEF Stream!Moved
<1>13. QED
  BY <1>0, <1>1, <1>5, <1>6, <1>9, <1>10, <1>11, <1>12 DEF StreamInv

LEMMA StreamStep == ASSUME StreamInv, Stream!Next PROVE StreamInv'
  BY WriteExOK, ReadExOK, SkipStep, CopyStep, TryLockStep, LoopEndsStep, FinishStep,
     ReturnsStep, DisposeStep, StreamWaiters DEF Stream!Next

LEMMA StreamBytes == ASSUME StreamInv PROVE Stream!BytesInOrder
  BY DEF StreamInv, BufferHolds, Stream!BytesInOrder

LEMMA StreamNobodyStuck == ASSUME StreamInv PROVE Stream!NobodyStuck
<1> USE ChannelsAssumption DEF ChannelsAssumption
<1> SUFFICES ASSUME owner = NoThread, NEW i \in 1..Len(list), count[list[i]] = 1
             PROVE  size = IF op[list[i]] = "write" THEN StreamCapacity ELSE 0
  BY DEF Stream!NobodyStuck, Stream!Lockable
<1>1. list[i] \in Threads
  BY DEF StreamInv, WaiterTypes
<1>2. \A x \in Threads : pc[x] \notin {"serve", "fill"}
  BY DEF StreamInv, OwnerOK
<1>3. QED
  BY <1>1, <1>2 DEF StreamInv, WaitersFit, Beside

\* With a waiter in hand, an entry is still only that of a thread that waits.
LEMMA StreamEntries == ASSUME StreamInv PROVE EntriesLeave(list)
<1> USE ChannelsAssumption DEF ChannelsAssumption
<1>0. WaiterTypes /\ WaitersOK(served)
  BY DEF StreamInv
<1>1. \A t \in Threads : pc[t] \notin {"parked", "unlink"} =>
        ~In(t, list) /\ \A u \in Threads : ~In(t, wake[u])
  BY <1>0 DEF WaitersOK, Waits
<1>2. QED
  BY <1>1 DEF EntriesLeave, In

-----------------------------------------------------------------------------
(* The rendezvous channel: senders and receivers. *)

RvTypes ==
  /\ pc \in [Threads -> {"out", "wake", "parked", "unlink", "serving"}]
  /\ count \in [Threads -> {0, 1}] /\ unparked \in [Threads -> {0, 1}]
  /\ status \in [Threads -> {"none", "message", "block", "reply"}]
  /\ unlinked \in [Threads -> {0, 1}] /\ wake \in [Threads -> Seq(Threads)]
  /\ sendList \in Seq(Threads) /\ recvList \in Seq(Threads)
  /\ kind \in [Threads -> {"SEND_ONLY", "SEND_AND_WAIT_REPLY", "RECEIVE"}]
  /\ channel \in [Threads -> Nat \cup Threads] /\ message \in [Threads -> Nat]
  /\ token \in [Threads -> Threads \cup {NoThread}]
  /\ sent \in Nat /\ received \in Seq(Nat)
  /\ told \in [success : SUBSET Nat, failure : SUBSET Nat]

\* An entry in one of the lists is that of a waiter that was not served; a parker that
\* is not locked belongs to such an entry.
Listed(t) == In(t, sendList) \/ In(t, recvList)
RvLists ==
  /\ Distinct(sendList) /\ Distinct(recvList)
  /\ \A t \in Threads :
       /\ In(t, sendList) => kind[t] # "RECEIVE"
       /\ In(t, recvList) => kind[t] = "RECEIVE"
       /\ Listed(t) => /\ pc[t] \in {"parked", "unlink"} /\ status[t] = "none"
                       /\ unparked[t] = 0 /\ unlinked[t] = 0
       /\ count[t] = 1 => pc[t] = "parked" /\ Listed(t)
       /\ pc[t] = "unlink" => status[t] = "none"

\* Only a receiver that was served is in the hands of an unparker.
RvWake ==
  /\ \A t \in Threads : /\ pc[t] \in {"out", "unlink", "serving"} => wake[t] = <<>>
                        /\ Distinct(wake[t])
  /\ \A t, u \in Threads :
       In(t, wake[u]) => /\ pc[t] = "parked" /\ count[t] = 0 /\ unparked[t] = 0
                         /\ kind[t] = "RECEIVE" /\ status[t] \in {"message", "block"}
  /\ \A t, u, v \in Threads : In(t, wake[u]) /\ In(t, wake[v]) => u = v

\* The receiver r has the wait block of the sender t, before or after it knows.
HasBlock(r, t) == pc[r] = "parked" /\ status[r] = "block" /\ channel[r] = t
Holds(r, t) == (pc[r] = "serving" /\ token[r] = t) \/ HasBlock(r, t)
RvHolds ==
  /\ \A r \in Threads : /\ pc[r] = "serving" => token[r] \in Threads
                        /\ pc[r] = "parked" /\ status[r] = "block" => channel[r] \in Threads
  /\ \A r, t \in Threads :
       Holds(r, t) => /\ pc[t] = "parked" /\ count[t] = 0 /\ status[t] = "none"
                      /\ unparked[t] = 0 /\ ~Listed(t) /\ kind[t] # "RECEIVE"
  /\ \A r, s, t \in Threads : Holds(r, t) /\ Holds(s, t) => r = s

\* The message of a sender that has not been received.
Pending(t) ==
  /\ kind[t] # "RECEIVE"
  /\ \/ pc[t] = "unlink" \/ count[t] = 1 \/ \E r \in Threads : HasBlock(r, t)
RvMessages ==
  /\ \A t \in Threads : Pending(t) =>
       /\ channel[t] = message[t] /\ message[t] \in 1..sent
       /\ message[t] \notin told.failure /\ ~In(message[t], received)
  /\ \A t, u \in Threads : Pending(t) /\ Pending(u) /\ message[t] = message[u] => t = u
  /\ \A t \in Threads : /\ pc[t] = "serving" => In(message[token[t]], received)
                        /\ unparked[t] = 1 /\ status[t] = "reply" => In(message[t], received)
  /\ Distinct(received) /\ \A m : In(m, received) => m \in 1..sent
  /\ \A m \in told.success : In(m, received)
  /\ \A m \in told.failure : m \in 1..sent /\ ~In(m, received)

\* Senders and receivers do not wait side by side.
RvOneSide ==
  \A t, u \in Threads :
    count[t] = 1 /\ count[u] = 1 => (kind[t] = "RECEIVE" <=> kind[u] = "RECEIVE")

RvInv == RvTypes /\ RvLists /\ RvWake /\ RvHolds /\ RvMessages /\ RvOneSide

LEMMA RvInit == ASSUME Rendezvous!Init PROVE RvInv
<1> USE ChannelsAssumption DEF ChannelsAssumption, Rendezvous!Init, Rendezvous!ListInit
<1>1. (\A x : ~In(x, <<>>)) /\ Distinct(<<>>)
  BY SmallStacks
<1>2. RvTypes
  <2>1. told \in [success : SUBSET Nat, failure : SUBSET Nat]
    OBVIOUS
  <2>2. received \in Seq(Nat) /\ sendList \in Seq(Threads) /\ recvList \in Seq(Threads)
    OBVIOUS
  <2>3. wake \in [Threads -> Seq(Threads)]
    OBVIOUS
  <2>4. QED
    BY <2>1, <2>2, <2>3 DEF RvTypes
<1>3. RvLists /\ RvWake
  BY <1>1 DEF RvLists, RvWake, Listed
<1>4. \A r, t \in Threads : ~Holds(r, t) /\ ~HasBlock(r, t)
  BY DEF Holds, HasBlock
<1>5. RvHolds
  BY <1>4 DEF RvHolds
<1>6. \A t \in Threads : ~Pending(t)
  BY <1>4 DEF Pending
<1>7. RvMessages
  BY <1>1, <1>6 DEF RvMessages
<1>8. QED
  BY <1>2, <1>3, <1>5, <1>7 DEF RvInv, RvOneSide

\* The first waiter of a list that can be locked, and the entries that stay.
LEMMA RvFirst ==
  ASSUME NEW l \in Seq(Threads), Distinct(l), Rendezvous!HasLive(l), Rendezvous!Skip(l),
         unlinked \in [Threads -> {0, 1}], NEW u, u = Rendezvous!Live(l),
         NEW r, r = Rendezvous!Rest(l)
  PROVE  /\ u \in Threads /\ In(u, l) /\ count[u] = 1
         /\ r \in Seq(Threads) /\ Distinct(r) /\ ~In(u, r)
         /\ \A x : In(x, r) => In(x, l)
         /\ \A x \in Threads : In(x, l) /\ count[x] = 1 => x = u \/ In(x, r)
         /\ unlinked' \in [Threads -> {0, 1}]
         /\ \A x \in Threads : In(x, r) \/ ~In(x, l) => unlinked'[x] = unlinked[x]
<1>1. Rendezvous!Lockable(l) = Lockable(l)
  BY DEF Rendezvous!Lockable, Lockable
<1>2. \A S : Rendezvous!Min(S) = Min(S)
  BY DEF Rendezvous!Min, Min
<1>3. HasLive(l) /\ Rendezvous!FirstLive(l) = FirstLive(l)
  BY <1>1, <1>2 DEF Rendezvous!HasLive, HasLive, Rendezvous!FirstLive, FirstLive
<1>4. u = Live(l) /\ r = Rest(l)
  BY <1>3 DEF Rendezvous!Live, Live, Rendezvous!Rest, Rest
<1>5. /\ FirstLive(l) \in 1..Len(l)
      /\ u \in Threads /\ In(u, l) /\ count[u] = 1
      /\ r \in Seq(Threads) /\ Distinct(r) /\ ~In(u, r)
      /\ \A x : In(x, r) => In(x, l)
      /\ \A x \in Threads : In(x, l) /\ count[x] = 1 => x = u \/ In(x, r)
      /\ \A x : In(x, r) \/ x = u => ~\E i \in 1..FirstLive(l) - 1 : l[i] = x
  BY <1>3, <1>4, FirstLemma
<1>6. unlinked' = [x \in Threads |->
        IF \E i \in 1..FirstLive(l) - 1 : l[i] = x THEN 1 ELSE unlinked[x]]
  BY <1>3 DEF Rendezvous!Skip
<1>7. unlinked' \in [Threads -> {0, 1}]
  BY <1>6
<1>8. ASSUME NEW x \in Threads, In(x, r) \/ ~In(x, l) PROVE unlinked'[x] = unlinked[x]
  <2>1. ~\E i \in 1..FirstLive(l) - 1 : l[i] = x
    <3>1. CASE In(x, r)
      BY <1>5, <3>1
    <3>2. CASE ~In(x, l)
      BY <1>5, <3>2 DEF In
    <3>3. QED
      BY <1>8, <3>1, <3>2
  <2>2. QED
    BY <1>6, <2>1
<1>9. QED
  BY <1>5, <1>7, <1>8

\* A list without such a waiter.
LEMMA RvNobody ==
  ASSUME NEW l, ~Rendezvous!HasLive(l) PROVE \A x : In(x, l) => count[x] # 1
  BY DEF Rendezvous!HasLive, Rendezvous!Lockable, In

\* A thread that takes no part.
LEMMA RvOut ==
  ASSUME RvInv, NEW t \in Threads, pc[t] \notin {"parked", "unlink"}
  PROVE  /\ ~Listed(t) /\ count[t] = 0 /\ (\A v \in Threads : ~In(t, wake[v]))
         /\ \A r \in Threads : ~Holds(r, t) /\ ~HasBlock(r, t)
         /\ ~Pending(t)
<1>1. ~Listed(t) /\ count[t] = 0
  BY DEF RvInv, RvLists, RvTypes
<1>2. \A v \in Threads : ~In(t, wake[v])
  BY DEF RvInv, RvWake
<1>3. \A r \in Threads : ~Holds(r, t) /\ ~HasBlock(r, t)
  BY DEF RvInv, RvHolds, Holds
<1>4. ~Pending(t)
  BY <1>1, <1>3 DEF Pending
<1>5. QED
  BY <1>1, <1>2, <1>3, <1>4

\* A waiter with an entry, that is not served.
LEMMA RvListed ==
  ASSUME RvInv, NEW u \in Threads, Listed(u)
  PROVE  /\ pc[u] \in {"parked", "unlink"} /\ status[u] = "none" /\ unparked[u] = 0
         /\ unlinked[u] = 0 /\ (\A v \in Threads : ~In(u, wake[v]))
         /\ \A r \in Threads : ~Holds(r, u) /\ ~Holds(u, r) /\ ~HasBlock(r, u) /\ ~HasBlock(u, r)
         /\ (kind[u] = "RECEIVE") <=> In(u, recvList)
         /\ (kind[u] # "RECEIVE") <=> In(u, sendList)
<1>1. pc[u] \in {"parked", "unlink"} /\ status[u] = "none" /\ unparked[u] = 0 /\ unlinked[u] = 0
  BY DEF RvInv, RvLists
<1>2. \A v \in Threads : ~In(u, wake[v])
  BY <1>1 DEF RvInv, RvWake
<1>3. \A r \in Threads : ~Holds(r, u) /\ ~HasBlock(r, u)
  BY DEF RvInv, RvHolds, Holds
<1>4. \A r \in Threads : ~Holds(u, r) /\ ~HasBlock(u, r)
  BY <1>1 DEF Holds, HasBlock
<1>5. /\ (kind[u] = "RECEIVE") <=> In(u, recvList)
      /\ (kind[u] # "RECEIVE") <=> In(u, sendList)
  BY DEF RvInv, RvLists, Listed
<1>6. QED
  BY <1>1, <1>2, <1>3, <1>4, <1>5

\* A send finds a receiver that waits.
LEMMA SendToReceiverOK ==
  ASSUME RvInv, NEW t \in Threads, Rendezvous!SendToReceiver(t) PROVE RvInv'
<1> USE ChannelsAssumption DEF ChannelsAssumption
<1>0. RvTypes /\ RvLists /\ RvWake /\ RvHolds /\ RvMessages /\ RvOneSide
  BY DEF RvInv
<1>1. PICK u : u = Rendezvous!Live(recvList)
  OBVIOUS
<1>2. PICK l : l = Rendezvous!Rest(recvList)
  OBVIOUS
<1>3. PICK m : m = sent + 1
  OBVIOUS
<1>4. /\ Rendezvous!HasLive(recvList) /\ Rendezvous!Skip(recvList)
      /\ pc[t] = "out" /\ pc' = [pc EXCEPT ![t] = "wake"]
      /\ count' = [count EXCEPT ![u] = 0] /\ status' = [status EXCEPT ![u] = "message"]
      /\ wake' = [wake EXCEPT ![t] = <<u>>] /\ recvList' = l
      /\ channel' = [channel EXCEPT ![u] = m] /\ kind' = [kind EXCEPT ![t] = "SEND_ONLY"]
      /\ message' = [message EXCEPT ![t] = m] /\ sent' = m /\ received' = Append(received, m)
      /\ told' = [told EXCEPT !.success = @ \cup {m}]
      /\ UNCHANGED <<unparked, sendList, token>>
  BY <1>1, <1>2, <1>3, Zenon DEF Rendezvous!SendToReceiver, Rendezvous!NewMessage,
     Rendezvous!LockFirst, Rendezvous!Step
<1>5. /\ u \in Threads /\ In(u, recvList) /\ count[u] = 1
      /\ l \in Seq(Threads) /\ Distinct(l) /\ ~In(u, l)
      /\ \A x : In(x, l) => In(x, recvList)
      /\ \A x \in Threads : In(x, recvList) /\ count[x] = 1 => x = u \/ In(x, l)
      /\ unlinked' \in [Threads -> {0, 1}]
      /\ \A x \in Threads : In(x, l) \/ ~In(x, recvList) => unlinked'[x] = unlinked[x]
  <2>1. recvList \in Seq(Threads) /\ Distinct(recvList) /\ unlinked \in [Threads -> {0, 1}]
    BY <1>0 DEF RvTypes, RvLists
  <2>2. QED
    BY <1>1, <1>2, <1>4, <2>1, RvFirst
<1>6. /\ ~Listed(t) /\ count[t] = 0 /\ (\A v \in Threads : ~In(t, wake[v]))
      /\ (\A r \in Threads : ~Holds(r, t) /\ ~HasBlock(r, t)) /\ ~Pending(t) /\ wake[t] = <<>>
  BY <1>0, <1>4, RvOut DEF RvWake
<1>7. /\ Listed(u) /\ pc[u] = "parked" /\ kind[u] = "RECEIVE" /\ status[u] = "none" /\ unparked[u] = 0
      /\ (\A v \in Threads : ~In(u, wake[v])) /\ ~In(u, sendList)
      /\ (\A r \in Threads : ~Holds(r, u) /\ ~Holds(u, r) /\ ~HasBlock(u, r)) /\ u # t
  <2>1. Listed(u) /\ pc[u] = "parked"
    BY <1>0, <1>5 DEF Listed, RvLists
  <2>2. QED
    BY <1>4, <1>5, <1>6, <2>1, RvListed
<1>8. m \in Nat /\ m > sent /\ sent \in Nat
  BY <1>0, <1>3 DEF RvTypes
<1>9. /\ received' \in Seq(Nat) /\ \A x : In(x, received') <=> x = m \/ In(x, received)
      /\ ~In(m, received) /\ Distinct(received')
  <2>1. received \in Seq(Nat) /\ ~In(m, received) /\ Distinct(received)
    BY <1>0, <1>8 DEF RvTypes, RvMessages
  <2>2. QED
    BY <1>4, <1>8, <2>1, AppendLemma
<1>10. /\ told' \in [success : SUBSET Nat, failure : SUBSET Nat]
       /\ told'.success = told.success \cup {m} /\ told'.failure = told.failure
  BY <1>0, <1>4, <1>8, Zenon DEF RvTypes
<1>11. RvTypes'
  <2>1. <<u>> \in Seq(Threads)
    BY <1>5
  <2>2. QED
    BY <1>0, <1>4, <1>5, <1>8, <1>9, <1>10, <2>1, Zenon DEF RvTypes
<1>12. \A x \in Threads :
         /\ pc'[x] = (IF x = t THEN "wake" ELSE pc[x]) /\ count'[x] = (IF x = u THEN 0 ELSE count[x])
         /\ status'[x] = (IF x = u THEN "message" ELSE status[x])
         /\ wake'[x] = (IF x = t THEN <<u>> ELSE wake[x])
         /\ channel'[x] = (IF x = u THEN m ELSE channel[x])
         /\ kind'[x] = (IF x = t THEN "SEND_ONLY" ELSE kind[x])
         /\ message'[x] = (IF x = t THEN m ELSE message[x])
         /\ unparked'[x] = unparked[x] /\ token'[x] = token[x]
  BY <1>0, <1>4 DEF RvTypes
<1>13. \A x \in Threads : Listed(x)' <=> Listed(x) /\ (In(x, l) \/ In(x, sendList))
  BY <1>4, <1>5 DEF Listed
<1>14. \A x, y \in Threads : HasBlock(x, y)' <=> HasBlock(x, y)
  BY <1>4, <1>7, <1>12 DEF HasBlock
<1>15. \A x, y \in Threads : Holds(x, y)' <=> Holds(x, y)
  BY <1>4, <1>12, <1>14 DEF Holds
<1>16. RvLists'
  <2>1. Distinct(sendList') /\ Distinct(recvList')
    BY <1>0, <1>4, <1>5 DEF RvLists
  <2>2. ASSUME NEW x \in Threads
        PROVE  /\ In(x, sendList') => kind'[x] # "RECEIVE"
               /\ In(x, recvList') => kind'[x] = "RECEIVE"
               /\ Listed(x)' => /\ pc'[x] \in {"parked", "unlink"} /\ status'[x] = "none"
                                /\ unparked'[x] = 0 /\ unlinked'[x] = 0
               /\ count'[x] = 1 => pc'[x] = "parked" /\ Listed(x)'
               /\ pc'[x] = "unlink" => status'[x] = "none"
    <3>1. In(x, sendList') => kind'[x] # "RECEIVE"
      BY <1>0, <1>4, <1>6, <1>12 DEF RvLists, Listed
    <3>2. In(x, recvList') => kind'[x] = "RECEIVE"
      BY <1>0, <1>4, <1>5, <1>6, <1>12 DEF RvLists, Listed
    <3>3. Listed(x)' => x # t /\ x # u /\ Listed(x) /\ unlinked'[x] = unlinked[x]
      BY <1>0, <1>5, <1>6, <1>7, <1>13 DEF RvLists
    <3>4. count'[x] = 1 => count[x] = 1 /\ Listed(x)' /\ x # t
      BY <1>0, <1>5, <1>6, <1>12, <1>13 DEF RvLists, Listed
    <3>5. QED
      BY <1>0, <1>7, <1>12, <3>1, <3>2, <3>3, <3>4 DEF RvLists
  <2>3. QED
    BY <2>1, <2>2 DEF RvLists
<1>17. RvWake'
  <2>1. \A x : In(x, <<u>>) <=> x = u
    BY SmallStacks
  <2>2. Distinct(<<u>>)
    BY DEF Distinct
  <2>3. \A x, v \in Threads : In(x, wake'[v]) <=> (v = t /\ x = u) \/ In(x, wake[v])
    BY <1>6, <1>12, <2>1, SmallStacks
  <2>4. \A x \in Threads : /\ pc'[x] \in {"out", "unlink", "serving"} => wake'[x] = <<>>
                           /\ Distinct(wake'[x])
    BY <1>0, <1>12, <2>2 DEF RvWake
  <2>5. \A x, v \in Threads : In(x, wake'[v]) =>
           /\ pc'[x] = "parked" /\ count'[x] = 0 /\ unparked'[x] = 0
           /\ kind'[x] = "RECEIVE" /\ status'[x] \in {"message", "block"}
    <3> SUFFICES ASSUME NEW x \in Threads, NEW v \in Threads, In(x, wake'[v])
                 PROVE  /\ pc'[x] = "parked" /\ count'[x] = 0 /\ unparked'[x] = 0
                        /\ kind'[x] = "RECEIVE" /\ status'[x] \in {"message", "block"}
      OBVIOUS
    <3>1. CASE x = u
      BY <1>7, <1>12, <3>1
    <3>2. CASE x # u
      <4>1. In(x, wake[v]) /\ x # t
        BY <1>6, <2>3, <3>2
      <4>2. QED
        BY <1>0, <1>12, <3>2, <4>1 DEF RvWake
    <3>3. QED
      BY <3>1, <3>2
  <2>6. \A x, v, w \in Threads : In(x, wake'[v]) /\ In(x, wake'[w]) => v = w
    BY <1>0, <1>7, <2>3 DEF RvWake
  <2>7. QED
    BY <2>4, <2>5, <2>6 DEF RvWake
<1>18. RvHolds'
  <2>1. \A x \in Threads : /\ pc'[x] = "serving" => token'[x] \in Threads
                           /\ pc'[x] = "parked" /\ status'[x] = "block" => channel'[x] \in Threads
    BY <1>0, <1>12 DEF RvHolds
  <2>2. ASSUME NEW x \in Threads, NEW y \in Threads, Holds(x, y)
        PROVE  /\ pc'[y] = "parked" /\ count'[y] = 0 /\ status'[y] = "none"
               /\ unparked'[y] = 0 /\ ~Listed(y)' /\ kind'[y] # "RECEIVE"
    <3>1. y # u /\ y # t
      BY <1>6, <1>7, <2>2
    <3>2. QED
      BY <1>0, <1>12, <1>13, <2>2, <3>1 DEF RvHolds
  <2>3. QED
    BY <1>0, <1>15, <2>1, <2>2 DEF RvHolds
<1>19. \A x \in Threads : Pending(x)' => Pending(x) /\ x # t /\ x # u
  <2> SUFFICES ASSUME NEW x \in Threads, Pending(x)' PROVE Pending(x) /\ x # t /\ x # u
    OBVIOUS
  <2>1. x # u
    BY <1>7, <1>12 DEF Pending
  <2>2. x # t
    BY <1>6, <1>7, <1>12, <1>14 DEF Pending
  <2>3. QED
    BY <1>12, <1>14, <2>1, <2>2 DEF Pending
<1>20. RvMessages'
  <2>1. \A x \in Threads : Pending(x)' =>
          /\ channel'[x] = message'[x] /\ message'[x] \in 1..sent'
          /\ message'[x] \notin told'.failure /\ ~In(message'[x], received')
    <3> SUFFICES ASSUME NEW x \in Threads, Pending(x), x # t, x # u
                 PROVE  /\ channel'[x] = message'[x] /\ message'[x] \in 1..sent'
                        /\ message'[x] \notin told'.failure /\ ~In(message'[x], received')
      BY <1>19
    <3>1. /\ channel[x] = message[x] /\ message[x] \in 1..sent
          /\ message[x] \notin told.failure /\ ~In(message[x], received)
      BY <1>0 DEF RvMessages
    <3>2. channel'[x] = channel[x] /\ message'[x] = message[x] /\ sent' = m
      BY <1>4, <1>12
    <3>3. message[x] # m /\ message[x] \in 1..m
      BY <1>8, <3>1
    <3>4. QED
      BY <1>9, <1>10, <3>1, <3>2, <3>3
  <2>2. \A x, y \in Threads : Pending(x)' /\ Pending(y)' /\ message'[x] = message'[y] => x = y
    BY <1>0, <1>12, <1>19 DEF RvMessages
  <2>3. \A x \in Threads :
          /\ pc'[x] = "serving" => In(message'[token'[x]], received')
          /\ unparked'[x] = 1 /\ status'[x] = "reply" => In(message'[x], received')
    <3> SUFFICES ASSUME NEW x \in Threads
                 PROVE  /\ pc'[x] = "serving" => In(message'[token'[x]], received')
                        /\ unparked'[x] = 1 /\ status'[x] = "reply" => In(message'[x], received')
      OBVIOUS
    <3>1. ASSUME pc'[x] = "serving" PROVE In(message'[token'[x]], received')
      <4>1. pc[x] = "serving" /\ token'[x] = token[x] /\ token[x] \in Threads
        BY <1>0, <1>12, <3>1 DEF RvHolds
      <4>2. token[x] # t
        BY <1>6, <4>1 DEF Holds
      <4>3. In(message[token[x]], received)
        BY <1>0, <4>1 DEF RvMessages
      <4>4. QED
        BY <1>9, <1>12, <4>1, <4>2, <4>3
    <3>2. unparked'[x] = 1 /\ status'[x] = "reply" => In(message'[x], received')
      BY <1>0, <1>9, <1>12 DEF RvMessages
    <3>3. QED
      BY <3>1, <3>2
  <2>4. \A y : In(y, received') => y \in 1..sent'
    BY <1>0, <1>4, <1>8, <1>9 DEF RvMessages
  <2>5. \A y \in told'.success : In(y, received')
    BY <1>0, <1>9, <1>10 DEF RvMessages
  <2>6. \A y \in told'.failure : y \in 1..sent' /\ ~In(y, received')
    BY <1>0, <1>4, <1>8, <1>9, <1>10 DEF RvMessages
  <2>7. QED
    BY <1>9, <2>1, <2>2, <2>3, <2>4, <2>5, <2>6 DEF RvMessages
<1>21. RvOneSide'
  BY <1>0, <1>6, <1>12 DEF RvOneSide
<1>22. QED
  BY <1>11, <1>16, <1>17, <1>18, <1>20, <1>21 DEF RvInv

\* A step that receives no message and sends none.
LEMMA RvKeepsMessages ==
  ASSUME RvInv, UNCHANGED <<sent, received, message>>,
         \A x \in Threads : Pending(x)' => Pending(x) /\ channel'[x] = channel[x],
         \A x \in Threads : pc'[x] = "serving" => pc[x] = "serving" /\ token'[x] = token[x],
         \A x \in Threads : unparked'[x] = 1 /\ status'[x] = "reply" =>
           \/ unparked[x] = 1 /\ status[x] = "reply"
           \/ In(message[x], received),
         \A m \in told'.success : In(m, received),
         \A m \in told'.failure :
           \/ m \in told.failure
           \/ m \in 1..sent /\ ~In(m, received) /\ \A x \in Threads : Pending(x)' => message[x] # m
  PROVE  RvMessages'
<1>0. RvMessages
  BY DEF RvInv
<1>1. \A x \in Threads : Pending(x)' =>
        /\ channel'[x] = message'[x] /\ message'[x] \in 1..sent'
        /\ message'[x] \notin told'.failure /\ ~In(message'[x], received')
  BY <1>0 DEF RvMessages
<1>2. \A x, y \in Threads : Pending(x)' /\ Pending(y)' /\ message'[x] = message'[y] => x = y
  BY <1>0 DEF RvMessages
<1>3. \A x \in Threads :
        /\ pc'[x] = "serving" => In(message'[token'[x]], received')
        /\ unparked'[x] = 1 /\ status'[x] = "reply" => In(message'[x], received')
  BY <1>0 DEF RvMessages
<1>4. \A m \in told'.failure : m \in 1..sent' /\ ~In(m, received')
  BY <1>0 DEF RvMessages
<1>5. QED
  BY <1>0, <1>1, <1>2, <1>3, <1>4 DEF RvMessages

\* A sender comes that has to wait.
LEMMA RvNewMessage ==
  ASSUME RvInv, NEW t \in Threads, NEW m \in Nat, m = sent + 1, sent' = m,
         UNCHANGED <<received, told>>, message' = [message EXCEPT ![t] = m], channel'[t] = m,
         \A x \in Threads : ~Holds(x, t),
         \A x \in Threads : Pending(x)' => x = t \/ (Pending(x) /\ channel'[x] = channel[x]),
         \A x \in Threads : pc'[x] = "serving" => pc[x] = "serving" /\ token'[x] = token[x],
         \A x \in Threads : unparked'[x] = 1 /\ status'[x] = "reply" =>
           x # t /\ unparked[x] = 1 /\ status[x] = "reply"
  PROVE  RvMessages'
<1>0. RvMessages /\ RvTypes /\ RvHolds
  BY DEF RvInv
<1>1. sent \in Nat /\ message'[t] = m /\ \A x \in Threads \ {t} : message'[x] = message[x]
  BY <1>0 DEF RvTypes
<1>2. ~In(m, received) /\ m \notin told.failure /\ \A x \in Threads : Pending(x) => message[x] # m
  BY <1>0, <1>1 DEF RvMessages
<1>3. \A x \in Threads : Pending(x)' =>
        /\ channel'[x] = message'[x] /\ message'[x] \in 1..sent'
        /\ message'[x] \notin told'.failure /\ ~In(message'[x], received')
  <2> SUFFICES ASSUME NEW x \in Threads, Pending(x)'
               PROVE  /\ channel'[x] = message'[x] /\ message'[x] \in 1..m
                      /\ message'[x] \notin told.failure /\ ~In(message'[x], received)
    OBVIOUS
  <2>1. CASE x = t
    BY <1>1, <1>2, <2>1
  <2>2. CASE x # t
    <3>1. Pending(x) /\ channel'[x] = channel[x] /\ message'[x] = message[x]
      BY <1>1, <2>2
    <3>2. message[x] \in 1..sent
      BY <1>0, <3>1 DEF RvMessages
    <3>3. QED
      BY <1>0, <1>1, <3>1, <3>2 DEF RvMessages
  <2>3. QED
    BY <2>1, <2>2
<1>4. \A x, y \in Threads : Pending(x)' /\ Pending(y)' /\ message'[x] = message'[y] => x = y
  <2> SUFFICES ASSUME NEW x \in Threads, NEW y \in Threads, Pending(x)', Pending(y)',
                      message'[x] = message'[y]
               PROVE  x = y
    OBVIOUS
  <2>1. CASE x # t /\ y # t
    BY <1>0, <1>1, <2>1 DEF RvMessages
  <2>2. CASE x = t \/ y = t
    BY <1>1, <1>2, <2>2
  <2>3. QED
    BY <2>1, <2>2
<1>5. \A x \in Threads :
        /\ pc'[x] = "serving" => In(message'[token'[x]], received')
        /\ unparked'[x] = 1 /\ status'[x] = "reply" => In(message'[x], received')
  <2> SUFFICES ASSUME NEW x \in Threads
               PROVE  /\ pc'[x] = "serving" => In(message'[token'[x]], received)
                      /\ unparked'[x] = 1 /\ status'[x] = "reply" => In(message'[x], received)
    OBVIOUS
  <2>1. ASSUME pc'[x] = "serving" PROVE In(message'[token'[x]], received)
    <3>1. pc[x] = "serving" /\ token'[x] = token[x] /\ token[x] \in Threads
      BY <1>0, <2>1 DEF RvHolds
    <3>2. token[x] # t
      BY <3>1 DEF Holds
    <3>3. In(message[token[x]], received)
      BY <1>0, <3>1 DEF RvMessages
    <3>4. QED
      BY <1>1, <3>1, <3>2, <3>3
  <2>2. unparked'[x] = 1 /\ status'[x] = "reply" => In(message'[x], received)
    BY <1>0, <1>1 DEF RvMessages
  <2>3. QED
    BY <2>1, <2>2
<1>6. /\ \A y : In(y, received') => y \in 1..sent'
      /\ \A y \in told'.failure : y \in 1..sent' /\ ~In(y, received')
  BY <1>0, <1>1 DEF RvMessages
<1>7. QED
  BY <1>0, <1>3, <1>4, <1>5, <1>6 DEF RvMessages

\* The receiver t gets the message of u, and its wait block as the token.
LEMMA RvReceives ==
  ASSUME RvInv, NEW t \in Threads, NEW u \in Threads, Pending(u),
         pc' = [pc EXCEPT ![t] = "serving"], token' = [token EXCEPT ![t] = u],
         received' = Append(received, channel[u]),
         UNCHANGED <<sent, told, message, channel, status, unparked>>,
         \A x \in Threads : Pending(x)' => Pending(x) /\ x # u
  PROVE  RvMessages' /\ received' \in Seq(Nat)
<1>0. RvMessages /\ RvTypes
  BY DEF RvInv
<1>1. /\ channel[u] = message[u] /\ message[u] \in 1..sent /\ message[u] \notin told.failure
      /\ ~In(message[u], received)
  BY <1>0 DEF RvMessages
<1>2. PICK m : m = message[u]
  OBVIOUS
<1>3. /\ m \in 1..sent /\ m \notin told.failure /\ ~In(m, received)
      /\ received' = Append(received, m) /\ m \in Nat
  BY <1>0, <1>1, <1>2 DEF RvTypes
<1>4. /\ received' \in Seq(Nat) /\ \A x : In(x, received') <=> x = m \/ In(x, received)
      /\ Distinct(received')
  <2>1. received \in Seq(Nat) /\ Distinct(received)
    BY <1>0 DEF RvTypes, RvMessages
  <2>2. QED
    BY <1>3, <2>1, AppendLemma
<1>5. \A x \in Threads : Pending(x)' =>
        /\ channel'[x] = message'[x] /\ message'[x] \in 1..sent'
        /\ message'[x] \notin told'.failure /\ ~In(message'[x], received')
  <2> SUFFICES ASSUME NEW x \in Threads, Pending(x), x # u
               PROVE  /\ channel[x] = message[x] /\ message[x] \in 1..sent
                      /\ message[x] \notin told.failure /\ ~In(message[x], received')
    OBVIOUS
  <2>1. message[x] # m
    BY <1>0, <1>2 DEF RvMessages
  <2>2. QED
    BY <1>0, <1>4, <2>1 DEF RvMessages
<1>6. \A x, y \in Threads : Pending(x)' /\ Pending(y)' /\ message'[x] = message'[y] => x = y
  BY <1>0 DEF RvMessages
<1>7. \A x \in Threads :
        /\ pc'[x] = "serving" => In(message'[token'[x]], received')
        /\ unparked'[x] = 1 /\ status'[x] = "reply" => In(message'[x], received')
  <2>1. \A x \in Threads : pc'[x] = "serving" =>
           \/ x = t /\ token'[x] = u
           \/ pc[x] = "serving" /\ token'[x] = token[x]
    BY <1>0 DEF RvTypes
  <2>2. QED
    BY <1>0, <1>2, <1>4, <2>1 DEF RvMessages
<1>8. /\ \A y : In(y, received') => y \in 1..sent'
      /\ \A y \in told'.success : In(y, received')
      /\ \A y \in told'.failure : y \in 1..sent' /\ ~In(y, received')
  BY <1>0, <1>3, <1>4 DEF RvMessages
<1>9. QED
  BY <1>4, <1>5, <1>6, <1>7, <1>8 DEF RvMessages

\* A send that expects a reply finds a receiver that waits.
LEMMA SendForReplyOK ==
  ASSUME RvInv, NEW t \in Threads, Rendezvous!SendForReply(t) PROVE RvInv'
<1> USE ChannelsAssumption DEF ChannelsAssumption
<1>0. RvTypes /\ RvLists /\ RvWake /\ RvHolds /\ RvMessages /\ RvOneSide
  BY DEF RvInv
<1>1. PICK u : u = Rendezvous!Live(recvList)
  OBVIOUS
<1>2. PICK l : l = Rendezvous!Rest(recvList)
  OBVIOUS
<1>3. PICK m : m = sent + 1
  OBVIOUS
<1>4. /\ Rendezvous!HasLive(recvList) /\ Rendezvous!Skip(recvList)
      /\ pc[t] = "out" /\ pc' = [pc EXCEPT ![t] = "parked"]
      /\ count' = [count EXCEPT ![u] = 0, ![t] = 0]
      /\ status' = [status EXCEPT ![u] = "block", ![t] = "none"]
      /\ unparked' = [unparked EXCEPT ![t] = 0]
      /\ wake' = [wake EXCEPT ![t] = <<u>>] /\ recvList' = l
      /\ channel' = [channel EXCEPT ![u] = t, ![t] = m]
      /\ kind' = [kind EXCEPT ![t] = "SEND_AND_WAIT_REPLY"]
      /\ message' = [message EXCEPT ![t] = m] /\ sent' = m
      /\ UNCHANGED <<sendList, token, received, told>>
  BY <1>1, <1>2, <1>3, Zenon DEF Rendezvous!SendForReply, Rendezvous!NewMessage, Rendezvous!Step
<1>5. /\ u \in Threads /\ In(u, recvList) /\ count[u] = 1
      /\ l \in Seq(Threads) /\ Distinct(l) /\ ~In(u, l)
      /\ \A x : In(x, l) => In(x, recvList)
      /\ \A x \in Threads : In(x, recvList) /\ count[x] = 1 => x = u \/ In(x, l)
      /\ unlinked' \in [Threads -> {0, 1}]
      /\ \A x \in Threads : In(x, l) \/ ~In(x, recvList) => unlinked'[x] = unlinked[x]
  <2>1. recvList \in Seq(Threads) /\ Distinct(recvList) /\ unlinked \in [Threads -> {0, 1}]
    BY <1>0 DEF RvTypes, RvLists
  <2>2. QED
    BY <1>1, <1>2, <1>4, <2>1, RvFirst
<1>6. /\ ~Listed(t) /\ count[t] = 0 /\ (\A v \in Threads : ~In(t, wake[v]))
      /\ (\A r \in Threads : ~Holds(r, t) /\ ~HasBlock(r, t)) /\ ~Pending(t) /\ wake[t] = <<>>
  BY <1>0, <1>4, RvOut DEF RvWake
<1>7. /\ Listed(u) /\ pc[u] = "parked" /\ kind[u] = "RECEIVE" /\ status[u] = "none" /\ unparked[u] = 0
      /\ (\A v \in Threads : ~In(u, wake[v])) /\ ~In(u, sendList)
      /\ (\A r \in Threads : ~Holds(r, u) /\ ~Holds(u, r) /\ ~HasBlock(u, r)) /\ u # t
  <2>1. Listed(u) /\ pc[u] = "parked"
    BY <1>0, <1>5 DEF Listed, RvLists
  <2>2. QED
    BY <1>4, <1>5, <1>6, <2>1, RvListed
<1>8. m \in Nat /\ m > sent /\ sent \in Nat
  BY <1>0, <1>3 DEF RvTypes
<1>9. \A x \in Threads :
         /\ pc'[x] = (IF x = t THEN "parked" ELSE pc[x]) /\ count'[x] = (IF x = u THEN 0 ELSE count[x])
         /\ status'[x] = (IF x = u THEN "block" ELSE IF x = t THEN "none" ELSE status[x])
         /\ wake'[x] = (IF x = t THEN <<u>> ELSE wake[x])
         /\ channel'[x] = (IF x = u THEN t ELSE IF x = t THEN m ELSE channel[x])
         /\ kind'[x] = (IF x = t THEN "SEND_AND_WAIT_REPLY" ELSE kind[x])
         /\ unparked'[x] = (IF x = t THEN 0 ELSE unparked[x]) /\ token'[x] = token[x]
  BY <1>0, <1>4, <1>5, <1>6, <1>7 DEF RvTypes
<1>10. RvTypes'
  <2>1. <<u>> \in Seq(Threads)
    BY <1>5
  <2>2. channel' \in [Threads -> Nat \cup Threads]
    BY <1>0, <1>4, <1>8, Zenon DEF RvTypes
  <2>3. QED
    BY <1>0, <1>4, <1>5, <1>8, <2>1, <2>2, Zenon DEF RvTypes
<1>11. \A x \in Threads : Listed(x)' <=> Listed(x) /\ (In(x, l) \/ In(x, sendList))
  BY <1>4, <1>5 DEF Listed
<1>12. \A x, y \in Threads : HasBlock(x, y)' <=> HasBlock(x, y) \/ (x = u /\ y = t)
  <2> SUFFICES ASSUME NEW x \in Threads, NEW y \in Threads
               PROVE  HasBlock(x, y)' <=> HasBlock(x, y) \/ (x = u /\ y = t)
    OBVIOUS
  <2>1. CASE x = u
    <3>1. pc'[u] = "parked" /\ status'[u] = "block" /\ channel'[u] = t /\ ~HasBlock(u, y)
      BY <1>5, <1>7, <1>9
    <3>2. QED
      BY <2>1, <3>1 DEF HasBlock
  <2>2. CASE x = t
    <3>1. status'[t] = "none" /\ pc[t] = "out"
      BY <1>4, <1>7, <1>9, Zenon
    <3>2. QED
      BY <1>7, <2>2, <3>1 DEF HasBlock
  <2>3. CASE x # u /\ x # t
    <3>1. pc'[x] = pc[x] /\ status'[x] = status[x] /\ channel'[x] = channel[x]
      BY <1>9, <2>3
    <3>2. QED
      BY <2>3, <3>1 DEF HasBlock
  <2>4. QED
    BY <2>1, <2>2, <2>3
<1>13. \A x, y \in Threads : Holds(x, y)' <=> Holds(x, y) \/ (x = u /\ y = t)
  BY <1>4, <1>7, <1>9, <1>12 DEF Holds
<1>14. RvLists'
  <2>1. Distinct(sendList') /\ Distinct(recvList')
    BY <1>0, <1>4, <1>5 DEF RvLists
  <2>2. ASSUME NEW x \in Threads
        PROVE  /\ In(x, sendList') => kind'[x] # "RECEIVE"
               /\ In(x, recvList') => kind'[x] = "RECEIVE"
               /\ Listed(x)' => /\ pc'[x] \in {"parked", "unlink"} /\ status'[x] = "none"
                                /\ unparked'[x] = 0 /\ unlinked'[x] = 0
               /\ count'[x] = 1 => pc'[x] = "parked" /\ Listed(x)'
               /\ pc'[x] = "unlink" => status'[x] = "none"
    <3>1. In(x, sendList') => kind'[x] # "RECEIVE"
      BY <1>0, <1>4, <1>6, <1>9 DEF RvLists, Listed
    <3>2. In(x, recvList') => kind'[x] = "RECEIVE"
      BY <1>0, <1>4, <1>5, <1>6, <1>9 DEF RvLists, Listed
    <3>3. Listed(x)' => x # t /\ x # u /\ Listed(x) /\ unlinked'[x] = unlinked[x]
      BY <1>0, <1>5, <1>6, <1>7, <1>11 DEF RvLists
    <3>4. count'[x] = 1 => count[x] = 1 /\ Listed(x)' /\ x # t
      BY <1>0, <1>5, <1>6, <1>9, <1>11 DEF RvLists, Listed
    <3>5. QED
      BY <1>0, <1>7, <1>9, <3>1, <3>2, <3>3, <3>4 DEF RvLists
  <2>3. QED
    BY <2>1, <2>2 DEF RvLists
<1>15. RvWake'
  <2>1. \A x : In(x, <<u>>) <=> x = u
    BY SmallStacks
  <2>2. Distinct(<<u>>)
    BY DEF Distinct
  <2>3. \A x, v \in Threads : In(x, wake'[v]) <=> (v = t /\ x = u) \/ In(x, wake[v])
    BY <1>6, <1>9, <2>1, SmallStacks
  <2>4. \A x \in Threads : /\ pc'[x] \in {"out", "unlink", "serving"} => wake'[x] = <<>>
                           /\ Distinct(wake'[x])
    BY <1>0, <1>9, <2>2 DEF RvWake
  <2>5. \A x, v \in Threads : In(x, wake'[v]) =>
           /\ pc'[x] = "parked" /\ count'[x] = 0 /\ unparked'[x] = 0
           /\ kind'[x] = "RECEIVE" /\ status'[x] \in {"message", "block"}
    <3> SUFFICES ASSUME NEW x \in Threads, NEW v \in Threads, In(x, wake'[v])
                 PROVE  /\ pc'[x] = "parked" /\ count'[x] = 0 /\ unparked'[x] = 0
                        /\ kind'[x] = "RECEIVE" /\ status'[x] \in {"message", "block"}
      OBVIOUS
    <3>1. CASE x = u
      BY <1>7, <1>9, <3>1
    <3>2. CASE x # u
      <4>1. In(x, wake[v]) /\ x # t
        BY <1>6, <2>3, <3>2
      <4>2. QED
        BY <1>0, <1>9, <3>2, <4>1 DEF RvWake
    <3>3. QED
      BY <3>1, <3>2
  <2>6. \A x, v, w \in Threads : In(x, wake'[v]) /\ In(x, wake'[w]) => v = w
    BY <1>0, <1>7, <2>3 DEF RvWake
  <2>7. QED
    BY <2>4, <2>5, <2>6 DEF RvWake
<1>16. RvHolds'
  <2>1. \A x \in Threads : /\ pc'[x] = "serving" => token'[x] \in Threads
                           /\ pc'[x] = "parked" /\ status'[x] = "block" => channel'[x] \in Threads
    BY <1>0, <1>9 DEF RvHolds
  <2>2. ASSUME NEW x \in Threads, NEW y \in Threads, Holds(x, y)'
        PROVE  /\ pc'[y] = "parked" /\ count'[y] = 0 /\ status'[y] = "none"
               /\ unparked'[y] = 0 /\ ~Listed(y)' /\ kind'[y] # "RECEIVE"
    <3>1. CASE y = t
      BY <1>6, <1>7, <1>9, <1>11, <3>1
    <3>2. CASE y # t
      <4>1. Holds(x, y) /\ y # u
        BY <1>7, <1>13, <2>2, <3>2
      <4>2. QED
        BY <1>0, <1>9, <1>11, <3>2, <4>1 DEF RvHolds
    <3>3. QED
      BY <3>1, <3>2
  <2>3. \A x, v, y \in Threads : Holds(x, y)' /\ Holds(v, y)' => x = v
    BY <1>0, <1>6, <1>13 DEF RvHolds
  <2>4. QED
    BY <2>1, <2>2, <2>3 DEF RvHolds
<1>17. \A x \in Threads : Pending(x)' => x = t \/ (Pending(x) /\ channel'[x] = channel[x])
  <2> SUFFICES ASSUME NEW x \in Threads, Pending(x)', x # t
               PROVE  Pending(x) /\ channel'[x] = channel[x]
    OBVIOUS
  <2>1. x # u
    BY <1>7, <1>9 DEF Pending
  <2>2. Pending(x)
    BY <1>9, <1>12, <2>1 DEF Pending
  <2>3. QED
    BY <1>9, <2>1, <2>2
<1>18. RvMessages'
  <2>1. channel'[t] = m
    BY <1>7, <1>9
  <2>2. \A x \in Threads : unparked'[x] = 1 /\ status'[x] = "reply" =>
           x # t /\ unparked[x] = 1 /\ status[x] = "reply"
    BY <1>9
  <2>3. \A x \in Threads : pc'[x] = "serving" => pc[x] = "serving" /\ token'[x] = token[x]
    BY <1>9
  <2>4. \A x \in Threads : ~Holds(x, t)
    BY <1>6
  <2>5. message' = [message EXCEPT ![t] = m] /\ sent' = m /\ UNCHANGED <<received, told>>
    BY <1>4
  <2>6. QED
    BY <1>3, <1>8, <1>17, <2>1, <2>2, <2>3, <2>4, <2>5, RvNewMessage, Zenon
<1>19. RvOneSide'
  BY <1>0, <1>6, <1>9 DEF RvOneSide
<1>20. QED
  BY <1>10, <1>14, <1>15, <1>16, <1>18, <1>19 DEF RvInv

\* Nobody receives: the sender waits.
LEMMA SendWaitsOK ==
  ASSUME RvInv, NEW t \in Threads, Rendezvous!SendWaits(t) PROVE RvInv'
<1> USE ChannelsAssumption DEF ChannelsAssumption
<1>0. RvTypes /\ RvLists /\ RvWake /\ RvHolds /\ RvMessages /\ RvOneSide
  BY DEF RvInv
<1>1. PICK m : m = sent + 1
  OBVIOUS
<1>2. PICK k \in {"SEND_ONLY", "SEND_AND_WAIT_REPLY"} : Rendezvous!NewMessage(t, k)
  BY DEF Rendezvous!SendWaits
<1>3. /\ ~Rendezvous!HasLive(recvList) /\ recvList' = <<>>
      /\ pc[t] = "out" /\ pc' = [pc EXCEPT ![t] = "parked"]
      /\ count' = [count EXCEPT ![t] = 1] /\ status' = [status EXCEPT ![t] = "none"]
      /\ unparked' = [unparked EXCEPT ![t] = 0]
      /\ unlinked' = [x \in Threads |-> IF x = t THEN 0
           ELSE IF \E i \in 1..Len(recvList) : recvList[i] = x THEN 1 ELSE unlinked[x]]
      /\ sendList' = Append(sendList, t) /\ channel' = [channel EXCEPT ![t] = m]
      /\ kind' = [kind EXCEPT ![t] = k] /\ message' = [message EXCEPT ![t] = m] /\ sent' = m
      /\ UNCHANGED <<wake, token, received, told>>
  BY <1>1, <1>2, Zenon DEF Rendezvous!SendWaits, Rendezvous!NewMessage, Rendezvous!Step
<1>4. /\ ~Listed(t) /\ count[t] = 0 /\ (\A v \in Threads : ~In(t, wake[v]))
      /\ (\A r \in Threads : ~Holds(r, t) /\ ~HasBlock(r, t)) /\ ~Pending(t) /\ wake[t] = <<>>
  BY <1>0, <1>3, RvOut DEF RvWake
<1>5. m \in Nat /\ m > sent /\ sent \in Nat
  BY <1>0, <1>1 DEF RvTypes
<1>6. \A x \in Threads :
         /\ pc'[x] = (IF x = t THEN "parked" ELSE pc[x]) /\ count'[x] = (IF x = t THEN 1 ELSE count[x])
         /\ status'[x] = (IF x = t THEN "none" ELSE status[x]) /\ wake'[x] = wake[x]
         /\ channel'[x] = (IF x = t THEN m ELSE channel[x])
         /\ kind'[x] = (IF x = t THEN k ELSE kind[x])
         /\ unparked'[x] = (IF x = t THEN 0 ELSE unparked[x]) /\ token'[x] = token[x]
         /\ unlinked'[x] \in {0, 1} /\ (x = t => unlinked'[x] = 0)
         /\ (x # t /\ ~In(x, recvList) => unlinked'[x] = unlinked[x])
  BY <1>0, <1>3 DEF RvTypes, In
<1>7. /\ sendList' \in Seq(Threads) /\ Distinct(sendList')
      /\ \A x : In(x, sendList') <=> x = t \/ In(x, sendList)
  <2>1. sendList \in Seq(Threads) /\ Distinct(sendList) /\ ~In(t, sendList)
    BY <1>0, <1>4 DEF RvTypes, RvLists, Listed
  <2>2. QED
    BY <1>3, <2>1, AppendLemma
<1>8. (\A x : ~In(x, recvList')) /\ Distinct(recvList') /\ recvList' \in Seq(Threads)
  BY <1>3, SmallStacks
<1>9. \A x \in Threads : In(x, recvList) => count[x] # 1
  BY <1>3, RvNobody
<1>10. RvTypes'
  <2>1. unlinked' \in [Threads -> {0, 1}]
    BY <1>3, <1>6
  <2>2. QED
    BY <1>0, <1>3, <1>5, <1>7, <1>8, <2>1, Zenon DEF RvTypes
<1>11. \A x \in Threads : Listed(x)' <=> x = t \/ In(x, sendList)
  BY <1>7, <1>8 DEF Listed
<1>12. \A x, y \in Threads : (HasBlock(x, y)' <=> HasBlock(x, y)) /\ (Holds(x, y)' <=> Holds(x, y))
  <2>1. \A x, y \in Threads : HasBlock(x, y)' <=> HasBlock(x, y)
    BY <1>3, <1>6 DEF HasBlock
  <2>2. QED
    BY <1>3, <1>6, <2>1 DEF Holds
<1>13. RvLists'
  <2>1. ASSUME NEW x \in Threads
        PROVE  /\ In(x, sendList') => kind'[x] # "RECEIVE"
               /\ In(x, recvList') => kind'[x] = "RECEIVE"
               /\ Listed(x)' => /\ pc'[x] \in {"parked", "unlink"} /\ status'[x] = "none"
                                /\ unparked'[x] = 0 /\ unlinked'[x] = 0
               /\ count'[x] = 1 => pc'[x] = "parked" /\ Listed(x)'
               /\ pc'[x] = "unlink" => status'[x] = "none"
    <3>1. CASE x = t
      BY <1>2, <1>6, <1>7, <1>8, <1>11, <3>1
    <3>2. CASE x # t
      <4>1. In(x, sendList) => ~In(x, recvList) /\ Listed(x)
        BY <1>0 DEF RvLists, Listed
      <4>2. count[x] = 1 => In(x, sendList)
        BY <1>0, <1>9 DEF RvLists, Listed
      <4>3. QED
        BY <1>0, <1>6, <1>7, <1>8, <1>11, <3>2, <4>1, <4>2 DEF RvLists
    <3>3. QED
      BY <3>1, <3>2
  <2>2. QED
    BY <1>7, <1>8, <2>1 DEF RvLists
<1>14. RvWake'
  BY <1>0, <1>3, <1>4, <1>6 DEF RvWake
<1>15. RvHolds'
  <2>1. ASSUME NEW x \in Threads, NEW y \in Threads, Holds(x, y)
        PROVE  /\ pc'[y] = "parked" /\ count'[y] = 0 /\ status'[y] = "none"
               /\ unparked'[y] = 0 /\ ~Listed(y)' /\ kind'[y] # "RECEIVE"
    <3>1. y # t /\ ~Listed(y)
      BY <1>0, <1>4, <2>1 DEF RvHolds
    <3>2. QED
      BY <1>0, <1>6, <1>11, <2>1, <3>1 DEF RvHolds, Listed
  <2>2. \A x \in Threads : /\ pc'[x] = "serving" => token'[x] \in Threads
                           /\ pc'[x] = "parked" /\ status'[x] = "block" => channel'[x] \in Threads
    BY <1>0, <1>6 DEF RvHolds
  <2>3. QED
    BY <1>0, <1>12, <2>1, <2>2 DEF RvHolds
<1>16. RvMessages'
  <2>1. \A x \in Threads : Pending(x)' => x = t \/ (Pending(x) /\ channel'[x] = channel[x])
    BY <1>6, <1>12 DEF Pending
  <2>2. channel'[t] = m
    BY <1>6
  <2>3. \A x \in Threads : unparked'[x] = 1 /\ status'[x] = "reply" =>
           x # t /\ unparked[x] = 1 /\ status[x] = "reply"
    BY <1>6
  <2>4. \A x \in Threads : pc'[x] = "serving" => pc[x] = "serving" /\ token'[x] = token[x]
    BY <1>6
  <2>5. \A x \in Threads : ~Holds(x, t)
    BY <1>4
  <2>6. message' = [message EXCEPT ![t] = m] /\ sent' = m /\ UNCHANGED <<received, told>>
    BY <1>3
  <2>7. QED
    BY <1>1, <1>5, <2>1, <2>2, <2>3, <2>4, <2>5, <2>6, RvNewMessage, Zenon
<1>17. RvOneSide'
  <2>1. \A x \in Threads : count'[x] = 1 => kind'[x] # "RECEIVE"
    BY <1>0, <1>2, <1>6, <1>9 DEF RvLists, Listed
  <2>2. QED
    BY <2>1 DEF RvOneSide
<1>18. QED
  BY <1>10, <1>13, <1>14, <1>15, <1>16, <1>17 DEF RvInv

\* A receive finds a sender that waits, and has its wait block as the token.
LEMMA ReceiveFromSenderOK ==
  ASSUME RvInv, NEW t \in Threads, Rendezvous!ReceiveFromSender(t) PROVE RvInv'
<1> USE ChannelsAssumption DEF ChannelsAssumption
<1>0. RvTypes /\ RvLists /\ RvWake /\ RvHolds /\ RvMessages /\ RvOneSide
  BY DEF RvInv
<1>1. PICK u : u = Rendezvous!Live(sendList)
  OBVIOUS
<1>2. PICK l : l = Rendezvous!Rest(sendList)
  OBVIOUS
<1>3. /\ Rendezvous!HasLive(sendList) /\ Rendezvous!Skip(sendList)
      /\ pc[t] = "out" /\ pc' = [pc EXCEPT ![t] = "serving"]
      /\ count' = [count EXCEPT ![u] = 0] /\ sendList' = l
      /\ token' = [token EXCEPT ![t] = u] /\ received' = Append(received, channel[u])
      /\ UNCHANGED <<status, unparked, wake, recvList, kind, channel, message, sent, told>>
  BY <1>1, <1>2, Zenon DEF Rendezvous!ReceiveFromSender, Rendezvous!Step
<1>4. /\ u \in Threads /\ In(u, sendList) /\ count[u] = 1
      /\ l \in Seq(Threads) /\ Distinct(l) /\ ~In(u, l)
      /\ \A x : In(x, l) => In(x, sendList)
      /\ \A x \in Threads : In(x, sendList) /\ count[x] = 1 => x = u \/ In(x, l)
      /\ unlinked' \in [Threads -> {0, 1}]
      /\ \A x \in Threads : In(x, l) \/ ~In(x, sendList) => unlinked'[x] = unlinked[x]
  <2>1. sendList \in Seq(Threads) /\ Distinct(sendList) /\ unlinked \in [Threads -> {0, 1}]
    BY <1>0 DEF RvTypes, RvLists
  <2>2. QED
    BY <1>1, <1>2, <1>3, <2>1, RvFirst
<1>5. /\ ~Listed(t) /\ count[t] = 0 /\ (\A v \in Threads : ~In(t, wake[v]))
      /\ (\A r \in Threads : ~Holds(r, t) /\ ~HasBlock(r, t)) /\ ~Pending(t) /\ wake[t] = <<>>
  BY <1>0, <1>3, RvOut DEF RvWake
<1>6. /\ Listed(u) /\ pc[u] = "parked" /\ kind[u] # "RECEIVE" /\ status[u] = "none"
      /\ unparked[u] = 0 /\ ~In(u, recvList)
      /\ (\A r \in Threads : ~Holds(r, u) /\ ~HasBlock(r, u)) /\ u # t
  <2>1. Listed(u) /\ pc[u] = "parked"
    BY <1>0, <1>4 DEF Listed, RvLists
  <2>2. QED
    BY <1>3, <1>4, <1>5, <2>1, RvListed
<1>7. \A x \in Threads :
         /\ pc'[x] = (IF x = t THEN "serving" ELSE pc[x])
         /\ count'[x] = (IF x = u THEN 0 ELSE count[x])
         /\ token'[x] = (IF x = t THEN u ELSE token[x])
         /\ status'[x] = status[x] /\ wake'[x] = wake[x] /\ channel'[x] = channel[x]
         /\ kind'[x] = kind[x] /\ message'[x] = message[x] /\ unparked'[x] = unparked[x]
  BY <1>0, <1>3, <1>4 DEF RvTypes
<1>8. \A x \in Threads : Listed(x)' <=> In(x, l) \/ In(x, recvList)
  BY <1>3 DEF Listed
<1>9. \A x, y \in Threads : HasBlock(x, y)' <=> HasBlock(x, y)
  BY <1>3, <1>7 DEF HasBlock
<1>10. \A x, y \in Threads : Holds(x, y)' <=> Holds(x, y) \/ (x = t /\ y = u)
  <2> SUFFICES ASSUME NEW x \in Threads, NEW y \in Threads
               PROVE  Holds(x, y)' <=> Holds(x, y) \/ (x = t /\ y = u)
    OBVIOUS
  <2>1. CASE x = t
    <3>1. pc'[t] = "serving" /\ token'[t] = u /\ pc[t] = "out"
      BY <1>3, <1>7
    <3>2. ~HasBlock(t, y)'
      BY <3>1 DEF HasBlock
    <3>3. ~Holds(t, y)
      BY <3>1 DEF Holds, HasBlock
    <3>4. QED
      BY <2>1, <3>1, <3>2, <3>3 DEF Holds
  <2>2. CASE x # t
    BY <1>7, <1>9, <2>2 DEF Holds
  <2>3. QED
    BY <2>1, <2>2
<1>11. \A x \in Threads : Pending(x)' => Pending(x) /\ x # u
  <2> SUFFICES ASSUME NEW x \in Threads, Pending(x)' PROVE Pending(x) /\ x # u
    OBVIOUS
  <2>1. x # u
    BY <1>6, <1>7, <1>9 DEF Pending
  <2>2. Pending(x)
    BY <1>7, <1>9, <2>1 DEF Pending
  <2>3. QED
    BY <2>1, <2>2
<1>12. RvMessages' /\ received' \in Seq(Nat)
  <2>1. Pending(u)
    BY <1>4, <1>6 DEF Pending
  <2>2. QED
    BY <1>3, <1>4, <1>11, <2>1, RvReceives, Zenon
<1>13. RvTypes'
  BY <1>0, <1>3, <1>4, <1>12, Zenon DEF RvTypes
<1>14. RvLists'
  <2>1. Distinct(sendList') /\ Distinct(recvList')
    BY <1>0, <1>3, <1>4 DEF RvLists
  <2>2. ASSUME NEW x \in Threads
        PROVE  /\ In(x, sendList') => kind'[x] # "RECEIVE"
               /\ In(x, recvList') => kind'[x] = "RECEIVE"
               /\ Listed(x)' => /\ pc'[x] \in {"parked", "unlink"} /\ status'[x] = "none"
                                /\ unparked'[x] = 0 /\ unlinked'[x] = 0
               /\ count'[x] = 1 => pc'[x] = "parked" /\ Listed(x)'
               /\ pc'[x] = "unlink" => status'[x] = "none"
    <3>1. In(x, sendList') => kind'[x] # "RECEIVE"
      BY <1>0, <1>3, <1>4, <1>7 DEF RvLists
    <3>2. In(x, recvList') => kind'[x] = "RECEIVE" /\ ~In(x, sendList)
      BY <1>0, <1>3, <1>7 DEF RvLists
    <3>3. Listed(x)' => x # t /\ x # u /\ Listed(x) /\ unlinked'[x] = unlinked[x]
      BY <1>3, <1>4, <1>5, <1>6, <1>8, <3>2 DEF Listed
    <3>4. count'[x] = 1 => count[x] = 1 /\ Listed(x)' /\ x # t
      BY <1>0, <1>4, <1>5, <1>7, <1>8 DEF RvLists, Listed
    <3>5. QED
      BY <1>0, <1>7, <3>1, <3>2, <3>3, <3>4 DEF RvLists
  <2>3. QED
    BY <2>1, <2>2 DEF RvLists
<1>15. RvWake'
  <2>1. \A x, v \in Threads : In(x, wake[v]) => x # u /\ x # t
    BY <1>0, <1>4, <1>5 DEF RvWake
  <2>2. QED
    BY <1>0, <1>3, <1>5, <1>7, <2>1 DEF RvWake
<1>16. RvHolds'
  <2>1. \A x \in Threads : /\ pc'[x] = "serving" => token'[x] \in Threads
                           /\ pc'[x] = "parked" /\ status'[x] = "block" => channel'[x] \in Threads
    BY <1>0, <1>4, <1>7 DEF RvHolds
  <2>2. ASSUME NEW x \in Threads, NEW y \in Threads, Holds(x, y)'
        PROVE  /\ pc'[y] = "parked" /\ count'[y] = 0 /\ status'[y] = "none"
               /\ unparked'[y] = 0 /\ ~Listed(y)' /\ kind'[y] # "RECEIVE"
    <3>1. CASE y = u
      BY <1>4, <1>6, <1>7, <1>8, <3>1
    <3>2. CASE y # u
      <4>1. Holds(x, y) /\ y # t
        BY <1>5, <1>10, <2>2, <3>2
      <4>2. ~Listed(y)
        BY <1>0, <4>1 DEF RvHolds
      <4>3. ~Listed(y)'
        BY <1>4, <1>8, <4>2 DEF Listed
      <4>4. QED
        BY <1>0, <1>7, <3>2, <4>1, <4>3 DEF RvHolds
    <3>3. QED
      BY <3>1, <3>2
  <2>3. \A x, v, y \in Threads : Holds(x, y)' /\ Holds(v, y)' => x = v
    BY <1>0, <1>6, <1>10 DEF RvHolds
  <2>4. QED
    BY <2>1, <2>2, <2>3 DEF RvHolds
<1>17. RvOneSide'
  BY <1>0, <1>7 DEF RvOneSide
<1>18. QED
  BY <1>12, <1>13, <1>14, <1>15, <1>16, <1>17 DEF RvInv

\* Nobody sends: the receiver waits.
LEMMA ReceiveWaitsOK ==
  ASSUME RvInv, NEW t \in Threads, Rendezvous!ReceiveWaits(t) PROVE RvInv'
<1> USE ChannelsAssumption DEF ChannelsAssumption
<1>0. RvTypes /\ RvLists /\ RvWake /\ RvHolds /\ RvMessages /\ RvOneSide
  BY DEF RvInv
<1>1. /\ ~Rendezvous!HasLive(sendList) /\ sendList' = <<>>
      /\ pc[t] = "out" /\ pc' = [pc EXCEPT ![t] = "parked"]
      /\ count' = [count EXCEPT ![t] = 1] /\ status' = [status EXCEPT ![t] = "none"]
      /\ unparked' = [unparked EXCEPT ![t] = 0]
      /\ unlinked' = [x \in Threads |-> IF x = t THEN 0
           ELSE IF \E i \in 1..Len(sendList) : sendList[i] = x THEN 1 ELSE unlinked[x]]
      /\ recvList' = <<t>> \o recvList \/ recvList' = Append(recvList, t)
      /\ kind' = [kind EXCEPT ![t] = "RECEIVE"] /\ channel' = [channel EXCEPT ![t] = 0]
      /\ UNCHANGED <<wake, message, token, sent, received, told>>
  BY DEF Rendezvous!ReceiveWaits, Rendezvous!Step, Rendezvous!ghostVars
<1>2. /\ ~Listed(t) /\ count[t] = 0 /\ (\A v \in Threads : ~In(t, wake[v]))
      /\ (\A r \in Threads : ~Holds(r, t) /\ ~HasBlock(r, t)) /\ ~Pending(t) /\ wake[t] = <<>>
  BY <1>0, <1>1, RvOut DEF RvWake
<1>3. \A x \in Threads :
         /\ pc'[x] = (IF x = t THEN "parked" ELSE pc[x]) /\ count'[x] = (IF x = t THEN 1 ELSE count[x])
         /\ status'[x] = (IF x = t THEN "none" ELSE status[x]) /\ wake'[x] = wake[x]
         /\ channel'[x] = (IF x = t THEN 0 ELSE channel[x])
         /\ kind'[x] = (IF x = t THEN "RECEIVE" ELSE kind[x])
         /\ unparked'[x] = (IF x = t THEN 0 ELSE unparked[x]) /\ token'[x] = token[x]
         /\ unlinked'[x] \in {0, 1} /\ (x = t => unlinked'[x] = 0)
         /\ (x # t /\ ~In(x, sendList) => unlinked'[x] = unlinked[x])
  BY <1>0, <1>1 DEF RvTypes, In
<1>4. /\ recvList' \in Seq(Threads) /\ Distinct(recvList')
      /\ \A x : In(x, recvList') <=> x = t \/ In(x, recvList)
  <2>1. recvList \in Seq(Threads) /\ Distinct(recvList) /\ ~In(t, recvList)
    BY <1>0, <1>2 DEF RvTypes, RvLists, Listed
  <2>2. CASE recvList' = Append(recvList, t)
    BY <2>1, <2>2, AppendLemma
  <2>3. CASE recvList' = <<t>> \o recvList
    BY <2>1, <2>3, PushLemma
  <2>4. QED
    BY <1>1, <2>2, <2>3
<1>5. (\A x : ~In(x, sendList')) /\ Distinct(sendList') /\ sendList' \in Seq(Threads)
  BY <1>1, SmallStacks
<1>6. \A x \in Threads : In(x, sendList) => count[x] # 1
  BY <1>1, RvNobody
<1>7. RvTypes'
  <2>1. unlinked' \in [Threads -> {0, 1}]
    BY <1>1, <1>3
  <2>2. QED
    BY <1>0, <1>1, <1>4, <1>5, <2>1, Zenon DEF RvTypes
<1>8. \A x \in Threads : Listed(x)' <=> x = t \/ In(x, recvList)
  BY <1>4, <1>5 DEF Listed
<1>9. \A x, y \in Threads : (HasBlock(x, y)' <=> HasBlock(x, y)) /\ (Holds(x, y)' <=> Holds(x, y))
  <2>1. \A x, y \in Threads : HasBlock(x, y)' <=> HasBlock(x, y)
    BY <1>1, <1>3 DEF HasBlock
  <2>2. QED
    BY <1>1, <1>3, <2>1 DEF Holds
<1>10. RvLists'
  <2>1. ASSUME NEW x \in Threads
        PROVE  /\ In(x, sendList') => kind'[x] # "RECEIVE"
               /\ In(x, recvList') => kind'[x] = "RECEIVE"
               /\ Listed(x)' => /\ pc'[x] \in {"parked", "unlink"} /\ status'[x] = "none"
                                /\ unparked'[x] = 0 /\ unlinked'[x] = 0
               /\ count'[x] = 1 => pc'[x] = "parked" /\ Listed(x)'
               /\ pc'[x] = "unlink" => status'[x] = "none"
    <3>1. CASE x = t
      BY <1>3, <1>4, <1>5, <1>8, <3>1
    <3>2. CASE x # t
      <4>1. In(x, recvList) => ~In(x, sendList) /\ Listed(x)
        BY <1>0 DEF RvLists, Listed
      <4>2. count[x] = 1 => In(x, recvList)
        BY <1>0, <1>6 DEF RvLists, Listed
      <4>3. QED
        BY <1>0, <1>3, <1>4, <1>5, <1>8, <3>2, <4>1, <4>2 DEF RvLists
    <3>3. QED
      BY <3>1, <3>2
  <2>2. QED
    BY <1>4, <1>5, <2>1 DEF RvLists
<1>11. RvWake'
  BY <1>0, <1>1, <1>2, <1>3 DEF RvWake
<1>12. RvHolds'
  <2>1. ASSUME NEW x \in Threads, NEW y \in Threads, Holds(x, y)
        PROVE  /\ pc'[y] = "parked" /\ count'[y] = 0 /\ status'[y] = "none"
               /\ unparked'[y] = 0 /\ ~Listed(y)' /\ kind'[y] # "RECEIVE"
    <3>1. y # t /\ ~Listed(y)
      BY <1>0, <1>2, <2>1 DEF RvHolds
    <3>2. QED
      BY <1>0, <1>3, <1>8, <2>1, <3>1 DEF RvHolds, Listed
  <2>2. \A x \in Threads : /\ pc'[x] = "serving" => token'[x] \in Threads
                           /\ pc'[x] = "parked" /\ status'[x] = "block" => channel'[x] \in Threads
    BY <1>0, <1>3 DEF RvHolds
  <2>3. QED
    BY <1>0, <1>9, <2>1, <2>2 DEF RvHolds
<1>13. RvMessages'
  <2>1. \A x \in Threads : Pending(x)' => Pending(x) /\ channel'[x] = channel[x]
    <3> SUFFICES ASSUME NEW x \in Threads, Pending(x)' PROVE Pending(x) /\ channel'[x] = channel[x]
      OBVIOUS
    <3>1. x # t
      BY <1>3 DEF Pending
    <3>2. Pending(x)
      BY <1>3, <1>9, <3>1 DEF Pending
    <3>3. QED
      BY <1>3, <3>1, <3>2
  <2>2. \A x \in Threads : pc'[x] = "serving" => pc[x] = "serving" /\ token'[x] = token[x]
    BY <1>3
  <2>3. \A x \in Threads : unparked'[x] = 1 /\ status'[x] = "reply" =>
           unparked[x] = 1 /\ status[x] = "reply"
    BY <1>3
  <2>4. \A m \in told'.success : In(m, received)
    BY <1>0, <1>1 DEF RvMessages
  <2>5. UNCHANGED <<sent, received, message, told>>
    BY <1>1
  <2>6. QED
    BY <2>1, <2>2, <2>3, <2>4, <2>5, RvKeepsMessages
<1>14. RvOneSide'
  <2>1. \A x \in Threads : count'[x] = 1 => kind'[x] = "RECEIVE"
    BY <1>0, <1>3, <1>6 DEF RvLists, Listed
  <2>2. QED
    BY <2>1 DEF RvOneSide
<1>15. QED
  BY <1>7, <1>10, <1>11, <1>12, <1>13, <1>14 DEF RvInv

\* A waiter that was unparked.
LEMMA RvUnparked ==
  ASSUME RvInv, NEW t \in Threads, pc[t] = "parked", unparked[t] = 1
  PROVE  /\ ~Listed(t) /\ count[t] = 0 /\ (\A v \in Threads : ~In(t, wake[v]))
         /\ (\A r \in Threads : ~Holds(r, t) /\ ~HasBlock(r, t)) /\ ~Pending(t)
<1>1. ~Listed(t)
  BY DEF RvInv, RvLists
<1>2. count[t] = 0
  BY <1>1 DEF RvInv, RvLists, RvTypes
<1>3. \A v \in Threads : ~In(t, wake[v])
  BY DEF RvInv, RvWake
<1>4. \A r \in Threads : ~Holds(r, t) /\ ~HasBlock(r, t)
  BY DEF RvInv, RvHolds, Holds
<1>5. ~Pending(t)
  BY <1>2, <1>4 DEF Pending
<1>6. QED
  BY <1>1, <1>2, <1>3, <1>4, <1>5

\* A waiter returns with a message or a reply.
LEMMA RvReturns ==
  ASSUME RvInv, NEW t \in Threads, pc[t] = "parked", unparked[t] = 1, wake[t] = <<>>,
         status[t] \in {"message", "reply"}, pc' = [pc EXCEPT ![t] = "out"],
         UNCHANGED <<count, status, unparked, unlinked, wake, sendList, recvList, kind,
                     channel, message, token, sent, received>>,
         \/ told' = told
         \/ status[t] = "reply" /\ told' = [told EXCEPT !.success = @ \cup {message[t]}]
  PROVE  RvInv'
<1> USE ChannelsAssumption DEF ChannelsAssumption
<1>0. RvTypes /\ RvLists /\ RvWake /\ RvHolds /\ RvMessages /\ RvOneSide
  BY DEF RvInv
<1>1. /\ ~Listed(t) /\ count[t] = 0 /\ (\A v \in Threads : ~In(t, wake[v]))
      /\ (\A r \in Threads : ~Holds(r, t) /\ ~HasBlock(r, t)) /\ ~Pending(t)
  BY RvUnparked
<1>2. \A x \in Threads : pc'[x] = (IF x = t THEN "out" ELSE pc[x])
  BY <1>0 DEF RvTypes
<1>3. /\ told' \in [success : SUBSET Nat, failure : SUBSET Nat] /\ told'.failure = told.failure
      /\ told'.success = told.success
         \/ (status[t] = "reply" /\ told'.success = told.success \cup {message[t]})
  <2>1. told \in [success : SUBSET Nat, failure : SUBSET Nat] /\ message[t] \in Nat
    BY <1>0 DEF RvTypes
  <2>2. CASE told' = told
    BY <2>1, <2>2
  <2>3. CASE status[t] = "reply" /\ told' = [told EXCEPT !.success = @ \cup {message[t]}]
    BY <2>1, <2>3
  <2>4. QED
    BY <2>2, <2>3
<1>4. RvTypes'
  BY <1>0, <1>3, Zenon DEF RvTypes
<1>5. \A x, y \in Threads : HasBlock(x, y)' <=> HasBlock(x, y)
  BY <1>2 DEF HasBlock
<1>6. \A x, y \in Threads : Holds(x, y)' <=> Holds(x, y)
  BY <1>2, <1>5 DEF Holds
<1>7. \A x \in Threads : Listed(x)' <=> Listed(x)
  BY DEF Listed
<1>8. RvLists'
  BY <1>0, <1>1, <1>2, <1>7 DEF RvLists
<1>9. RvWake'
  BY <1>0, <1>1, <1>2 DEF RvWake
<1>10. RvHolds'
  BY <1>0, <1>1, <1>2, <1>6, <1>7 DEF RvHolds
<1>11. RvMessages'
  <2>1. \A x \in Threads : Pending(x)' => Pending(x) /\ channel'[x] = channel[x]
    BY <1>2, <1>5 DEF Pending
  <2>2. \A x \in Threads : pc'[x] = "serving" => pc[x] = "serving" /\ token'[x] = token[x]
    BY <1>2
  <2>3. \A m \in told'.success : In(m, received)
    BY <1>0, <1>3 DEF RvMessages
  <2>4. QED
    BY <1>3, <2>1, <2>2, <2>3, RvKeepsMessages
<1>12. RvOneSide'
  BY <1>0 DEF RvOneSide
<1>13. QED
  BY <1>4, <1>8, <1>9, <1>10, <1>11, <1>12 DEF RvInv

\* A receiver returns with a message.
LEMMA ReceivesMessageOK ==
  ASSUME RvInv, NEW t \in Threads, Rendezvous!ReceivesMessage(t) PROVE RvInv'
BY RvReturns, Zenon DEF Rendezvous!ReceivesMessage, Rendezvous!Unparked, Rendezvous!Step,
   Rendezvous!blockVars, Rendezvous!ghostVars

\* A sender returns with its reply.
LEMMA SendReturnsOK ==
  ASSUME RvInv, NEW t \in Threads, Rendezvous!SendReturns(t) PROVE RvInv'
BY RvReturns, Zenon DEF Rendezvous!SendReturns, Rendezvous!Unparked, Rendezvous!Step,
   Rendezvous!blockVars

\* A receiver that was unparked with a sender's wait block.
LEMMA ReceivesBlockOK ==
  ASSUME RvInv, NEW t \in Threads, Rendezvous!ReceivesBlock(t) PROVE RvInv'
<1> USE ChannelsAssumption DEF ChannelsAssumption
<1>0. RvTypes /\ RvLists /\ RvWake /\ RvHolds /\ RvMessages /\ RvOneSide
  BY DEF RvInv
<1>1. PICK u : u = channel[t]
  OBVIOUS
<1>2. /\ wake[t] = <<>> /\ unparked[t] = 1 /\ status[t] = "block"
      /\ pc[t] = "parked" /\ pc' = [pc EXCEPT ![t] = "serving"]
      /\ token' = [token EXCEPT ![t] = u] /\ received' = Append(received, channel[u])
      /\ UNCHANGED <<count, status, unparked, unlinked, wake, sendList, recvList,
                     kind, channel, message, sent, told>>
  BY <1>1 DEF Rendezvous!ReceivesBlock, Rendezvous!Step
<1>3. /\ ~Listed(t) /\ count[t] = 0 /\ (\A v \in Threads : ~In(t, wake[v]))
      /\ (\A r \in Threads : ~Holds(r, t) /\ ~HasBlock(r, t)) /\ ~Pending(t)
  BY <1>2, RvUnparked
<1>4. u \in Threads /\ HasBlock(t, u) /\ Holds(t, u)
  BY <1>0, <1>1, <1>2 DEF RvHolds, HasBlock, Holds
<1>5. /\ pc[u] = "parked" /\ count[u] = 0 /\ kind[u] # "RECEIVE" /\ u # t
      /\ \A r \in Threads : Holds(r, u) => r = t
  BY <1>0, <1>3, <1>4 DEF RvHolds
<1>6. \A x \in Threads : /\ pc'[x] = (IF x = t THEN "serving" ELSE pc[x])
                         /\ token'[x] = (IF x = t THEN u ELSE token[x])
  BY <1>0, <1>2 DEF RvTypes
<1>7. \A x, y \in Threads : HasBlock(x, y)' <=> HasBlock(x, y) /\ x # t
  BY <1>2, <1>6 DEF HasBlock
<1>8. \A x, y \in Threads : Holds(x, y)' <=> Holds(x, y)
  <2> SUFFICES ASSUME NEW x \in Threads, NEW y \in Threads PROVE Holds(x, y)' <=> Holds(x, y)
    OBVIOUS
  <2>1. CASE x = t
    <3>1. Holds(t, y) <=> y = u
      BY <1>1, <1>2 DEF Holds, HasBlock
    <3>2. Holds(t, y)' <=> y = u
      BY <1>6, <1>7 DEF Holds
    <3>3. QED
      BY <2>1, <3>1, <3>2
  <2>2. CASE x # t
    BY <1>6, <1>7, <2>2 DEF Holds
  <2>3. QED
    BY <2>1, <2>2
<1>9. \A x \in Threads : Listed(x)' <=> Listed(x)
  BY <1>2 DEF Listed
<1>10. \A x \in Threads : Pending(x)' => Pending(x) /\ x # u
  <2>1. \A r \in Threads : HasBlock(r, u) => Holds(r, u)
    BY DEF Holds
  <2>2. \A r \in Threads : HasBlock(r, u)' => HasBlock(r, u) /\ r # t
    BY <1>4, <1>7
  <2>3. \A r \in Threads : ~HasBlock(r, u)'
    BY <1>5, <2>1, <2>2
  <2>4. ~Pending(u)'
    BY <1>2, <1>5, <1>6, <2>3 DEF Pending
  <2>5. \A x \in Threads : Pending(x)' => Pending(x)
    BY <1>2, <1>6, <1>7 DEF Pending
  <2>6. QED
    BY <2>4, <2>5
<1>11. RvMessages' /\ received' \in Seq(Nat)
  <2>1. Pending(u)
    BY <1>4, <1>5 DEF Pending
  <2>2. QED
    BY <1>2, <1>4, <1>10, <2>1, RvReceives, Zenon
<1>12. RvTypes'
  BY <1>0, <1>2, <1>4, <1>11, Zenon DEF RvTypes
<1>13. RvLists'
  BY <1>0, <1>2, <1>3, <1>6, <1>9 DEF RvLists
<1>14. RvWake'
  BY <1>0, <1>2, <1>3, <1>6 DEF RvWake
<1>15. RvHolds'
  <2>1. \A x \in Threads : /\ pc'[x] = "serving" => token'[x] \in Threads
                           /\ pc'[x] = "parked" /\ status'[x] = "block" => channel'[x] \in Threads
    BY <1>0, <1>2, <1>4, <1>6 DEF RvHolds
  <2>2. \A x, y \in Threads : Holds(x, y) =>
          /\ pc'[y] = "parked" /\ count'[y] = 0 /\ status'[y] = "none"
          /\ unparked'[y] = 0 /\ ~Listed(y)' /\ kind'[y] # "RECEIVE"
    BY <1>0, <1>2, <1>3, <1>6, <1>9 DEF RvHolds
  <2>3. QED
    BY <1>0, <1>8, <2>1, <2>2 DEF RvHolds
<1>16. RvOneSide'
  BY <1>0, <1>2 DEF RvOneSide
<1>17. QED
  BY <1>11, <1>12, <1>13, <1>14, <1>15, <1>16 DEF RvInv

\* The receiver replies to the sender whose token it has.
LEMMA ReplyOK ==
  ASSUME RvInv, NEW t \in Threads, Rendezvous!Reply(t) PROVE RvInv'
<1> USE ChannelsAssumption DEF ChannelsAssumption
<1>0. RvTypes /\ RvLists /\ RvWake /\ RvHolds /\ RvMessages /\ RvOneSide
  BY DEF RvInv
<1>1. PICK u : u = token[t]
  OBVIOUS
<1>2. /\ pc[t] = "serving" /\ pc' = [pc EXCEPT ![t] = "out"]
      /\ unparked' = [unparked EXCEPT ![u] = 1] /\ status' = [status EXCEPT ![u] = "reply"]
      /\ token' = [token EXCEPT ![t] = NoThread]
      /\ UNCHANGED <<count, unlinked, wake, sendList, recvList, kind, channel, message,
                     sent, received, told>>
  BY <1>1 DEF Rendezvous!Reply, Rendezvous!Step, Rendezvous!ghostVars
<1>3. /\ ~Listed(t) /\ count[t] = 0 /\ (\A v \in Threads : ~In(t, wake[v]))
      /\ (\A r \in Threads : ~Holds(r, t) /\ ~HasBlock(r, t)) /\ ~Pending(t) /\ wake[t] = <<>>
  BY <1>0, <1>2, RvOut DEF RvWake
<1>4. u \in Threads /\ Holds(t, u) /\ In(message[u], received)
  BY <1>0, <1>1, <1>2 DEF RvHolds, Holds, RvMessages
<1>5. /\ pc[u] = "parked" /\ count[u] = 0 /\ status[u] = "none" /\ ~Listed(u) /\ u # t
      /\ \A r \in Threads : Holds(r, u) => r = t
  BY <1>0, <1>3, <1>4 DEF RvHolds
<1>6. \A x \in Threads : /\ pc'[x] = (IF x = t THEN "out" ELSE pc[x])
                         /\ token'[x] = (IF x = t THEN NoThread ELSE token[x])
                         /\ unparked'[x] = (IF x = u THEN 1 ELSE unparked[x])
                         /\ status'[x] = (IF x = u THEN "reply" ELSE status[x])
  BY <1>0, <1>2 DEF RvTypes
<1>7. \A x, y \in Threads : HasBlock(x, y)' <=> HasBlock(x, y)
  BY <1>2, <1>5, <1>6 DEF HasBlock
<1>8. \A x, y \in Threads : Holds(x, y)' => Holds(x, y) /\ y # u
  <2> SUFFICES ASSUME NEW x \in Threads, NEW y \in Threads, Holds(x, y)'
               PROVE  Holds(x, y) /\ y # u
    OBVIOUS
  <2>1. x # t
    BY <1>2, <1>6, <1>7 DEF Holds, HasBlock
  <2>2. Holds(x, y)
    BY <1>6, <1>7, <2>1 DEF Holds
  <2>3. QED
    BY <1>5, <2>1, <2>2
<1>9. \A x \in Threads : Listed(x)' <=> Listed(x)
  BY <1>2 DEF Listed
<1>10. RvTypes'
  BY <1>0, <1>2, Zenon DEF RvTypes
<1>11. RvLists'
  BY <1>0, <1>2, <1>3, <1>5, <1>6, <1>9 DEF RvLists
<1>12. RvWake'
  <2>1. \A x, v \in Threads : In(x, wake[v]) => x # u /\ x # t
    BY <1>0, <1>3, <1>5 DEF RvWake
  <2>2. QED
    BY <1>0, <1>2, <1>3, <1>6, <2>1 DEF RvWake
<1>13. RvHolds'
  <2>1. \A x \in Threads : /\ pc'[x] = "serving" => token'[x] \in Threads
                           /\ pc'[x] = "parked" /\ status'[x] = "block" => channel'[x] \in Threads
    BY <1>0, <1>2, <1>6 DEF RvHolds
  <2>2. \A x, y \in Threads : Holds(x, y) /\ y # u =>
          /\ pc'[y] = "parked" /\ count'[y] = 0 /\ status'[y] = "none"
          /\ unparked'[y] = 0 /\ ~Listed(y)' /\ kind'[y] # "RECEIVE"
    BY <1>0, <1>2, <1>3, <1>6, <1>9 DEF RvHolds
  <2>3. QED
    BY <1>0, <1>8, <2>1, <2>2 DEF RvHolds
<1>14. RvMessages'
  <2>1. \A x \in Threads : Pending(x)' => Pending(x) /\ channel'[x] = channel[x]
    BY <1>2, <1>6, <1>7 DEF Pending
  <2>2. \A x \in Threads : pc'[x] = "serving" => pc[x] = "serving" /\ token'[x] = token[x]
    BY <1>6
  <2>3. \A x \in Threads : unparked'[x] = 1 /\ status'[x] = "reply" =>
           \/ unparked[x] = 1 /\ status[x] = "reply"
           \/ In(message[x], received)
    BY <1>4, <1>6
  <2>4. \A m \in told'.success : In(m, received)
    BY <1>0, <1>2 DEF RvMessages
  <2>5. UNCHANGED <<sent, received, message, told>>
    BY <1>2
  <2>6. QED
    BY <2>1, <2>2, <2>3, <2>4, <2>5, RvKeepsMessages
<1>15. RvOneSide'
  BY <1>0, <1>2 DEF RvOneSide
<1>16. QED
  BY <1>10, <1>11, <1>12, <1>13, <1>14, <1>15 DEF RvInv

\* A cancelled call unlinks its entry.
LEMMA GivesUpOK ==
  ASSUME RvInv, NEW t \in Threads, Rendezvous!GivesUp(t) PROVE RvInv'
<1> USE ChannelsAssumption DEF ChannelsAssumption
<1>0. RvTypes /\ RvLists /\ RvWake /\ RvHolds /\ RvMessages /\ RvOneSide
  BY DEF RvInv
<1>1. \A l : Rendezvous!Without(l, t) = Without(l, t)
  BY DEF Rendezvous!Without, Without, Rendezvous!In, In
<1>2. /\ pc[t] = "unlink" /\ pc' = [pc EXCEPT ![t] = "out"]
      /\ UNCHANGED <<count, status, unparked, unlinked, wake, kind, channel, message, token,
                     sent, received>>
      /\ \/ /\ kind[t] = "RECEIVE" /\ UNCHANGED <<sendList, told>>
            /\ recvList' = IF unlinked[t] = 1 THEN recvList ELSE Without(recvList, t)
         \/ /\ kind[t] # "RECEIVE" /\ UNCHANGED recvList
            /\ sendList' = IF unlinked[t] = 1 THEN sendList ELSE Without(sendList, t)
            /\ told' = [told EXCEPT !.failure = @ \cup {message[t]}]
  BY <1>1 DEF Rendezvous!GivesUp, Rendezvous!UnlinkEntryList, Rendezvous!Step, Rendezvous!blockVars
<1>3. /\ count[t] = 0 /\ (\A v \in Threads : ~In(t, wake[v])) /\ wake[t] = <<>> /\ status[t] = "none"
      /\ \A r \in Threads : ~Holds(r, t)
  BY <1>0, <1>2 DEF RvTypes, RvLists, RvWake, RvHolds
<1>4. /\ sendList' \in Seq(Threads) /\ Distinct(sendList')
      /\ \A x \in Threads : In(x, sendList') <=> x # t /\ In(x, sendList)
  <2>1. /\ sendList \in Seq(Threads) /\ Distinct(sendList)
        /\ unlinked[t] = 1 \/ kind[t] = "RECEIVE" => ~In(t, sendList)
    BY <1>0 DEF RvTypes, RvLists, Listed
  <2>2. CASE sendList' = sendList /\ (unlinked[t] = 1 \/ kind[t] = "RECEIVE")
    BY <2>1, <2>2
  <2>3. CASE sendList' = Without(sendList, t)
    BY <2>1, <2>3, WithoutLemma
  <2>4. QED
    BY <1>2, <2>2, <2>3
<1>5. /\ recvList' \in Seq(Threads) /\ Distinct(recvList')
      /\ \A x \in Threads : In(x, recvList') <=> x # t /\ In(x, recvList)
  <2>1. /\ recvList \in Seq(Threads) /\ Distinct(recvList)
        /\ unlinked[t] = 1 \/ kind[t] # "RECEIVE" => ~In(t, recvList)
    BY <1>0 DEF RvTypes, RvLists, Listed
  <2>2. CASE recvList' = recvList /\ (unlinked[t] = 1 \/ kind[t] # "RECEIVE")
    BY <2>1, <2>2
  <2>3. CASE recvList' = Without(recvList, t)
    BY <2>1, <2>3, WithoutLemma
  <2>4. QED
    BY <1>2, <2>2, <2>3
<1>6. /\ told' \in [success : SUBSET Nat, failure : SUBSET Nat] /\ told'.success = told.success
      /\ \/ told'.failure = told.failure
         \/ kind[t] # "RECEIVE" /\ told'.failure = told.failure \cup {message[t]}
  <2>1. told \in [success : SUBSET Nat, failure : SUBSET Nat] /\ message[t] \in Nat
    BY <1>0 DEF RvTypes
  <2>2. CASE told' = told
    BY <2>1, <2>2
  <2>3. CASE kind[t] # "RECEIVE" /\ told' = [told EXCEPT !.failure = @ \cup {message[t]}]
    BY <2>1, <2>3
  <2>4. QED
    BY <1>2, <2>2, <2>3
<1>7. \A x \in Threads : pc'[x] = (IF x = t THEN "out" ELSE pc[x])
  BY <1>0, <1>2 DEF RvTypes
<1>8. \A x \in Threads : Listed(x)' <=> x # t /\ Listed(x)
  BY <1>4, <1>5 DEF Listed
<1>9. \A x, y \in Threads : HasBlock(x, y)' <=> HasBlock(x, y)
  BY <1>2, <1>7 DEF HasBlock
<1>10. \A x, y \in Threads : Holds(x, y)' <=> Holds(x, y)
  BY <1>2, <1>7, <1>9 DEF Holds
<1>11. RvTypes'
  BY <1>0, <1>2, <1>4, <1>5, <1>6, Zenon DEF RvTypes
<1>12. RvLists'
  BY <1>0, <1>2, <1>3, <1>4, <1>5, <1>7, <1>8 DEF RvLists
<1>13. RvWake'
  BY <1>0, <1>2, <1>3, <1>7 DEF RvWake
<1>14. RvHolds'
  BY <1>0, <1>2, <1>3, <1>7, <1>8, <1>10 DEF RvHolds
<1>15. \A x \in Threads : Pending(x)' => Pending(x) /\ x # t
  <2>1. \A r \in Threads : ~HasBlock(r, t)
    BY <1>3 DEF Holds
  <2>2. ~Pending(t)'
    BY <1>2, <1>3, <1>7, <1>9, <2>1 DEF Pending
  <2>3. \A x \in Threads : Pending(x)' => Pending(x)
    BY <1>2, <1>7, <1>9 DEF Pending
  <2>4. QED
    BY <2>2, <2>3
<1>16. RvMessages'
  <2>1. \A x \in Threads : pc'[x] = "serving" => pc[x] = "serving" /\ token'[x] = token[x]
    BY <1>2, <1>7
  <2>2. \A m \in told'.success : In(m, received)
    BY <1>0, <1>6 DEF RvMessages
  <2>3. ASSUME NEW m \in told'.failure, m \notin told.failure
        PROVE  m \in 1..sent /\ ~In(m, received) /\ \A x \in Threads : Pending(x)' => message[x] # m
    <3>1. kind[t] # "RECEIVE" /\ m = message[t]
      BY <1>6, <2>3
    <3>2. Pending(t)
      BY <1>2, <3>1 DEF Pending
    <3>3. m \in 1..sent /\ ~In(m, received)
      BY <1>0, <3>1, <3>2 DEF RvMessages
    <3>4. \A x \in Threads : Pending(x)' => message[x] # m
      BY <1>0, <1>15, <3>1, <3>2 DEF RvMessages
    <3>5. QED
      BY <3>3, <3>4
  <2>4. \A x \in Threads : Pending(x)' => Pending(x) /\ channel'[x] = channel[x]
    BY <1>2, <1>15
  <2>5. UNCHANGED <<sent, received, message, status, unparked>>
    BY <1>2
  <2>6. QED
    BY <2>1, <2>2, <2>3, <2>4, <2>5, RvKeepsMessages
<1>17. RvOneSide'
  BY <1>0, <1>2 DEF RvOneSide
<1>18. QED
  BY <1>11, <1>12, <1>13, <1>14, <1>16, <1>17 DEF RvInv

\* The receiver that was served is unparked.
LEMMA RvUnparkThread ==
  ASSUME RvInv, NEW t \in Threads, Rendezvous!UnparkThread(t),
         UNCHANGED <<sendList, recvList, kind, channel, message, token, sent, received, told>>
  PROVE  RvInv'
<1> USE ChannelsAssumption DEF ChannelsAssumption
<1>0. RvTypes /\ RvLists /\ RvWake /\ RvHolds /\ RvMessages /\ RvOneSide
  BY DEF RvInv
<1>1. PICK u : u = Head(wake[t])
  OBVIOUS
<1>2. PICK w : w = Tail(wake[t])
  BY Zenon
<1>3. /\ wake[t] # <<>> /\ unparked' = [unparked EXCEPT ![u] = 1] /\ wake' = [wake EXCEPT ![t] = w]
      /\ UNCHANGED <<pc, count, status, unlinked>>
  BY <1>1, <1>2 DEF Rendezvous!UnparkThread
<1>4. /\ u \in Threads /\ w \in Seq(Threads) /\ Distinct(w) /\ ~In(u, w)
      /\ \A x : In(x, wake[t]) <=> x = u \/ In(x, w)
  <2>1. wake[t] \in Seq(Threads) /\ Distinct(wake[t])
    BY <1>0 DEF RvTypes, RvWake
  <2>2. QED
    BY <1>1, <1>2, <1>3, <2>1, PopLemma
<1>5. /\ pc[u] = "parked" /\ count[u] = 0 /\ kind[u] = "RECEIVE" /\ status[u] \in {"message", "block"}
      /\ pc[t] \notin {"out", "unlink", "serving"}
      /\ \A v \in Threads : In(u, wake[v]) => v = t
  BY <1>0, <1>3, <1>4 DEF RvWake
<1>6. \A x \in Threads : /\ unparked'[x] = (IF x = u THEN 1 ELSE unparked[x])
                         /\ wake'[x] = (IF x = t THEN w ELSE wake[x])
  BY <1>0, <1>3 DEF RvTypes
<1>7. \A x, v \in Threads : In(x, wake'[v]) => In(x, wake[v]) /\ x # u
  <2> SUFFICES ASSUME NEW x \in Threads, NEW v \in Threads, In(x, wake'[v])
               PROVE  In(x, wake[v]) /\ x # u
    OBVIOUS
  <2>1. CASE v = t
    BY <1>4, <1>6, <2>1
  <2>2. CASE v # t
    BY <1>5, <1>6, <2>2
  <2>3. QED
    BY <2>1, <2>2
<1>8. ~Listed(u) /\ \A r \in Threads : ~Holds(r, u)
  <2>1. status[u] # "none"
    BY <1>5
  <2>2. \A r \in Threads : ~Holds(r, u)
    BY <1>0, <1>4, <2>1 DEF RvHolds
  <2>3. QED
    BY <1>0, <1>4, <2>1, <2>2 DEF RvLists
<1>9. \A x \in Threads : Listed(x)' <=> Listed(x)
  BY DEF Listed
<1>10. \A x, y \in Threads : (HasBlock(x, y)' <=> HasBlock(x, y)) /\ (Holds(x, y)' <=> Holds(x, y))
  BY <1>3 DEF HasBlock, Holds
<1>11. RvTypes'
  BY <1>0, <1>3, <1>4, Zenon DEF RvTypes
<1>12. RvLists'
  BY <1>0, <1>3, <1>6, <1>8, <1>9 DEF RvLists
<1>13. RvWake'
  <2>1. \A x \in Threads : /\ pc'[x] \in {"out", "unlink", "serving"} => wake'[x] = <<>>
                           /\ Distinct(wake'[x])
    BY <1>0, <1>3, <1>4, <1>5, <1>6 DEF RvWake
  <2>2. \A x, v \in Threads : In(x, wake'[v]) =>
          /\ pc'[x] = "parked" /\ count'[x] = 0 /\ unparked'[x] = 0
          /\ kind'[x] = "RECEIVE" /\ status'[x] \in {"message", "block"}
    BY <1>0, <1>3, <1>6, <1>7 DEF RvWake
  <2>3. QED
    BY <1>0, <1>7, <2>1, <2>2 DEF RvWake
<1>14. RvHolds'
  BY <1>0, <1>3, <1>6, <1>8, <1>9, <1>10 DEF RvHolds
<1>15. RvMessages'
  <2>1. \A x \in Threads : Pending(x)' => Pending(x) /\ channel'[x] = channel[x]
    BY <1>3, <1>10 DEF Pending
  <2>2. \A x \in Threads : unparked'[x] = 1 /\ status'[x] = "reply" =>
           unparked[x] = 1 /\ status[x] = "reply"
    BY <1>3, <1>5, <1>6
  <2>3. \A m \in told'.success : In(m, received)
    BY <1>0 DEF RvMessages
  <2>4. QED
    BY <1>3, <2>1, <2>2, <2>3, RvKeepsMessages
<1>16. RvOneSide'
  BY <1>0, <1>3 DEF RvOneSide
<1>17. QED
  BY <1>11, <1>12, <1>13, <1>14, <1>15, <1>16 DEF RvInv

\* An unparker has done with its waiter.
LEMMA RvWakeDone ==
  ASSUME RvInv, NEW t \in Threads, Rendezvous!WakeDone(t),
         UNCHANGED <<sendList, recvList, kind, channel, message, token, sent, received, told>>
  PROVE  RvInv'
<1> USE ChannelsAssumption DEF ChannelsAssumption
<1>0. RvTypes /\ RvLists /\ RvWake /\ RvHolds /\ RvMessages /\ RvOneSide
  BY DEF RvInv
<1>1. /\ wake[t] = <<>> /\ pc[t] = "wake" /\ pc' = [pc EXCEPT ![t] = "out"]
      /\ UNCHANGED <<count, status, unparked, unlinked, wake>>
  BY DEF Rendezvous!WakeDone, Rendezvous!Step
<1>2. /\ ~Listed(t) /\ count[t] = 0 /\ (\A v \in Threads : ~In(t, wake[v]))
      /\ (\A r \in Threads : ~Holds(r, t) /\ ~HasBlock(r, t)) /\ ~Pending(t)
  BY <1>1, RvOut
<1>3. \A x \in Threads : pc'[x] = (IF x = t THEN "out" ELSE pc[x])
  BY <1>0, <1>1 DEF RvTypes
<1>4. \A x, y \in Threads : (HasBlock(x, y)' <=> HasBlock(x, y)) /\ (Holds(x, y)' <=> Holds(x, y))
  <2>1. \A x, y \in Threads : HasBlock(x, y)' <=> HasBlock(x, y)
    BY <1>1, <1>3 DEF HasBlock
  <2>2. QED
    BY <1>1, <1>3, <2>1 DEF Holds
<1>5. \A x \in Threads : Listed(x)' <=> Listed(x)
  BY DEF Listed
<1>6. RvTypes' /\ RvOneSide'
  BY <1>0, <1>1 DEF RvTypes, RvOneSide
<1>7. RvLists' /\ RvWake'
  BY <1>0, <1>1, <1>2, <1>3, <1>5 DEF RvLists, RvWake
<1>8. RvHolds'
  BY <1>0, <1>1, <1>2, <1>3, <1>4, <1>5 DEF RvHolds
<1>9. RvMessages'
  <2>1. \A x \in Threads : Pending(x)' => Pending(x) /\ channel'[x] = channel[x]
    BY <1>1, <1>3, <1>4 DEF Pending
  <2>2. \A x \in Threads : pc'[x] = "serving" => pc[x] = "serving" /\ token'[x] = token[x]
    BY <1>3
  <2>3. \A m \in told'.success : In(m, received)
    BY <1>0 DEF RvMessages
  <2>4. QED
    BY <1>1, <2>1, <2>2, <2>3, RvKeepsMessages
<1>10. QED
  BY <1>6, <1>7, <1>8, <1>9 DEF RvInv

\* A waiter gives up.
LEMMA RvCancelled ==
  ASSUME RvInv, NEW t \in Threads, Rendezvous!Cancelled(t),
         UNCHANGED <<sendList, recvList, kind, channel, message, token, sent, received, told>>
  PROVE  RvInv'
<1> USE ChannelsAssumption DEF ChannelsAssumption
<1>0. RvTypes /\ RvLists /\ RvWake /\ RvHolds /\ RvMessages /\ RvOneSide
  BY DEF RvInv
<1>1. /\ wake[t] = <<>> /\ count[t] = 1 /\ count' = [count EXCEPT ![t] = 0]
      /\ pc[t] = "parked" /\ pc' = [pc EXCEPT ![t] = "unlink"]
      /\ UNCHANGED <<status, unparked, unlinked, wake>>
  BY DEF Rendezvous!Cancelled, Rendezvous!Step
<1>2. Listed(t)
  BY <1>0, <1>1 DEF RvLists
<1>3. /\ status[t] = "none" /\ (\A v \in Threads : ~In(t, wake[v]))
      /\ \A r \in Threads : ~Holds(r, t)
  BY <1>2, RvListed
<1>4. \A x \in Threads : /\ pc'[x] = (IF x = t THEN "unlink" ELSE pc[x])
                         /\ count'[x] = (IF x = t THEN 0 ELSE count[x])
  BY <1>0, <1>1 DEF RvTypes
<1>5. \A x, y \in Threads : (HasBlock(x, y)' <=> HasBlock(x, y)) /\ (Holds(x, y)' <=> Holds(x, y))
  <2>1. \A x, y \in Threads : HasBlock(x, y)' <=> HasBlock(x, y)
    BY <1>1, <1>3, <1>4 DEF HasBlock
  <2>2. QED
    BY <1>1, <1>4, <2>1 DEF Holds
<1>6. \A x \in Threads : Listed(x)' <=> Listed(x)
  BY DEF Listed
<1>7. RvTypes' /\ RvOneSide'
  BY <1>0, <1>1, <1>4 DEF RvTypes, RvOneSide
<1>8. RvLists'
  BY <1>0, <1>1, <1>3, <1>4, <1>6 DEF RvLists
<1>9. RvWake'
  BY <1>0, <1>1, <1>3, <1>4 DEF RvWake
<1>10. RvHolds'
  BY <1>0, <1>1, <1>3, <1>4, <1>5, <1>6 DEF RvHolds
<1>11. RvMessages'
  <2>1. \A x \in Threads : Pending(x)' => Pending(x) /\ channel'[x] = channel[x]
    BY <1>1, <1>4, <1>5 DEF Pending
  <2>2. \A x \in Threads : pc'[x] = "serving" => pc[x] = "serving" /\ token'[x] = token[x]
    BY <1>4
  <2>3. \A m \in told'.success : In(m, received)
    BY <1>0 DEF RvMessages
  <2>4. QED
    BY <1>1, <2>1, <2>2, <2>3, RvKeepsMessages
<1>12. QED
  BY <1>7, <1>8, <1>9, <1>10, <1>11 DEF RvInv

LEMMA RvStep == ASSUME RvInv, Rendezvous!Next PROVE RvInv'
<1> SUFFICES ASSUME NEW t \in Threads,
       \/ Rendezvous!SendToReceiver(t) \/ Rendezvous!SendForReply(t) \/ Rendezvous!SendWaits(t)
       \/ Rendezvous!ReceiveFromSender(t) \/ Rendezvous!ReceiveWaits(t)
       \/ Rendezvous!ReceivesMessage(t) \/ Rendezvous!ReceivesBlock(t) \/ Rendezvous!Reply(t)
       \/ Rendezvous!SendReturns(t) \/ Rendezvous!GivesUp(t) \/ Rendezvous!Unparking(t)
             PROVE  RvInv'
  BY DEF Rendezvous!Next
<1>1. CASE Rendezvous!SendToReceiver(t)
  BY <1>1, SendToReceiverOK
<1>2. CASE Rendezvous!SendForReply(t)
  BY <1>2, SendForReplyOK
<1>3. CASE Rendezvous!SendWaits(t)
  BY <1>3, SendWaitsOK
<1>4. CASE Rendezvous!ReceiveFromSender(t)
  BY <1>4, ReceiveFromSenderOK
<1>5. CASE Rendezvous!ReceiveWaits(t)
  BY <1>5, ReceiveWaitsOK
<1>6. CASE Rendezvous!ReceivesMessage(t)
  BY <1>6, ReceivesMessageOK
<1>7. CASE Rendezvous!ReceivesBlock(t)
  BY <1>7, ReceivesBlockOK
<1>8. CASE Rendezvous!Reply(t)
  BY <1>8, ReplyOK
<1>9. CASE Rendezvous!SendReturns(t)
  BY <1>9, SendReturnsOK
<1>10. CASE Rendezvous!GivesUp(t)
  BY <1>10, GivesUpOK
<1>11. CASE Rendezvous!Unparking(t)
  <2>1. UNCHANGED <<sendList, recvList, kind, channel, message, token, sent, received, told>>
    BY <1>11 DEF Rendezvous!Unparking, Rendezvous!blockVars, Rendezvous!ghostVars
  <2>2. Rendezvous!UnparkThread(t) \/ Rendezvous!WakeDone(t) \/ Rendezvous!Cancelled(t)
    BY <1>11, Zenon DEF Rendezvous!Unparking
  <2>3. QED
    BY <2>1, <2>2, RvUnparkThread, RvWakeDone, RvCancelled
<1>12. QED
  BY <1>1, <1>2, <1>3, <1>4, <1>5, <1>6, <1>7, <1>8, <1>9, <1>10, <1>11

\* A message is received once at most, and not when its sender gave up.
LEMMA RvOnce == ASSUME RvInv PROVE Rendezvous!MessagesOnce
<1> DEFINE n == Len(received)
           R == {received[i] : i \in 1..n}
<1>0. RvTypes /\ RvLists /\ RvMessages
  BY DEF RvInv
<1>1. received \in Seq(Nat) /\ n \in Nat
  BY <1>0 DEF RvTypes
<1>2. Rendezvous!Received = R
  BY DEF Rendezvous!Received
<1>3. \A m : m \in R <=> In(m, received)
  BY DEF In
<1>4. Rendezvous!Cardinality(R) = Len(received)
  <2> DEFINE f == [i \in 1..n |-> received[i]]
  <2>1. f \in Injection(1..n, R)
    BY <1>0 DEF RvMessages, Distinct, Injection, IsInjective
  <2>2. f \in Surjection(1..n, R)
    BY DEF Surjection
  <2>3. IsFiniteSet(1..n) /\ Cardinality(1..n) = n
    <3>1. \A k \in Nat : IsFiniteSet(1..k) /\ Cardinality(1..k) = k
      BY FS_Interval
    <3>2. QED
      BY <1>1, <3>1
  <2>4. Cardinality(R) = n
    <3> HIDE DEF f, R, n
    <3>1. QED
      BY <2>1, <2>2, <2>3, FS_Surjection
  <2>5. Rendezvous!Cardinality(R) = Cardinality(R)
    <3> HIDE DEF R
    <3>1. QED
      BY DEF Rendezvous!Cardinality, Cardinality
  <2>6. QED
    BY <2>4, <2>5, Zenon
<1> HIDE DEF R
<1>5. told.failure \cap (R \cup told.success) = {}
  <2>1. \A m \in told.failure : ~In(m, received)
    BY <1>0 DEF RvMessages
  <2>2. \A m \in told.success : In(m, received)
    BY <1>0 DEF RvMessages
  <2>3. QED
    BY <1>3, <2>1, <2>2
<1>6. \A t \in Threads : unparked[t] = 1 /\ status[t] = "reply" => message[t] \in R
  BY <1>0, <1>3 DEF RvMessages
<1>7. QED
  BY <1>2, <1>4, <1>5, <1>6 DEF Rendezvous!MessagesOnce

\* Nobody waits beside a partner, and a token is that of a sender that waits.
LEMMA RvNobodyStuck == ASSUME RvInv PROVE Rendezvous!NobodyStuck /\ Rendezvous!TokensAlive
<1>0. RvTypes /\ RvLists /\ RvHolds /\ RvOneSide
  BY DEF RvInv
<1>1. Rendezvous!NobodyStuck
  <2> SUFFICES ASSUME NEW i \in 1..Len(sendList), count[sendList[i]] = 1,
                      NEW j \in 1..Len(recvList), count[recvList[j]] = 1
               PROVE  FALSE
    BY DEF Rendezvous!NobodyStuck, Rendezvous!HasLive, Rendezvous!Lockable
  <2>1. sendList[i] \in Threads /\ recvList[j] \in Threads
    BY <1>0 DEF RvTypes
  <2>2. In(sendList[i], sendList) /\ In(recvList[j], recvList)
    BY DEF In
  <2>3. kind[sendList[i]] # "RECEIVE" /\ kind[recvList[j]] = "RECEIVE"
    BY <1>0, <2>1, <2>2 DEF RvLists
  <2>4. QED
    BY <1>0, <2>1, <2>3 DEF RvOneSide
<1>2. Rendezvous!TokensAlive
  <2>1. \A r \in Threads : pc[r] = "serving" => token[r] \in Threads /\ Holds(r, token[r])
    BY <1>0 DEF RvHolds, Holds
  <2>2. \A r \in Threads : pc[r] = "serving" =>
          pc[token[r]] = "parked" /\ count[token[r]] = 0 /\ unparked[token[r]] = 0
    BY <1>0, <2>1 DEF RvHolds
  <2>3. \A r, s \in Threads :
          pc[r] = "serving" /\ pc[s] = "serving" /\ token[s] = token[r] => r = s
    BY <1>0, <2>1 DEF RvHolds
  <2>4. QED
    BY <2>2, <2>3 DEF Rendezvous!TokensAlive
<1>3. QED
  BY <1>1, <1>2

\* No entry stays behind.
LEMMA RvLeaves == ASSUME RvInv PROVE Rendezvous!BlocksLeave
<1>0. RvTypes /\ RvLists /\ RvWake
  BY DEF RvInv
<1>1. \A x : In(x, sendList \o recvList) <=> In(x, sendList) \/ In(x, recvList)
  BY <1>0, ConcatLemma DEF RvTypes
<1>2. ASSUME NEW t \in Threads, pc[t] \notin {"parked", "unlink"}
      PROVE  ~In(t, sendList \o recvList) /\ \A v \in Threads : ~In(t, wake[v])
  <2>1. ~Listed(t) /\ \A v \in Threads : ~In(t, wake[v])
    BY <1>2, RvOut
  <2>2. QED
    BY <1>1, <2>1 DEF Listed
<1>3. Rendezvous!EntriesLeave(sendList \o recvList)
  BY <1>2 DEF Rendezvous!EntriesLeave, In
<1>4. QED
  BY <1>3 DEF Rendezvous!BlocksLeave

-----------------------------------------------------------------------------
(* The linked queues: adders that serve, and takers that wait in several.  *)

\* What holds of the positions up to some place holds of an initial segment.
LEMMA Segment ==
  ASSUME NEW n \in Nat, NEW D \in SUBSET (1..n),
         \A i, j \in 1..n : i \in D /\ j <= i => j \in D
  PROVE  Cardinality(D) \in 0..n /\ D = 1..Cardinality(D)
<1>1. \A k \in Nat : Cardinality(1..k) = k
  BY FS_Interval
<1>2. \E k \in 0..n : D = 1..k
  <2>1. CASE D = 1..n
    BY <2>1
  <2>2. CASE D # 1..n
    <3> DEFINE M == (1..n) \ D
    <3>1. M \in SUBSET Nat /\ M # {}
      <4>1. \E x \in 1..n : x \notin D
        BY <2>2, Zenon
      <4>2. \A x \in 1..n : x \in Nat
        OBVIOUS
      <4>3. QED
        BY <4>1, <4>2, Zenon
    <3>2. PICK k : k = Min(M)
      OBVIOUS
    <3>3. k \in M /\ \A y \in M : k <= y
      BY <3>1, <3>2, MinLemma
    <3>0. k \in 1..n /\ k \notin D /\ \A y \in 1..n : y \in D \/ k <= y
      BY <3>3
    <3> HIDE DEF M
    <3>4. D = 1..k - 1
      <4>1. \A x \in D : x \in 1..n /\ ~(k <= x)
        BY <3>0
      <4>2. \A x \in D : x \in 1..k - 1
        BY <3>0, <4>1
      <4>3. \A x \in 1..k - 1 : x \in 1..n /\ ~(k <= x)
        BY <3>0
      <4>4. QED
        BY <3>0, <4>2, <4>3, Zenon
    <3>5. k - 1 \in 0..n
      BY <3>0
    <3>6. QED
      BY <3>4, <3>5
  <2>3. QED
    BY <2>1, <2>2
<1>3. QED
  BY <1>1, <1>2

\* The positions with less than m of the positions L before them.
Before(n, L, m) == {i \in 1..n : Rank(L, i - 1) < m}

\* They are the first ones, and they hold m of the positions L, or all of them.
LEMMA PassedLemma ==
  ASSUME NEW n \in Nat, NEW L \in SUBSET (1..n), NEW m \in Nat
  PROVE  /\ Cardinality(Before(n, L, m)) \in 0..n
         /\ Before(n, L, m) = 1..Cardinality(Before(n, L, m))
         /\ Cardinality(L \cap Before(n, L, m)) \in 0..m
         /\ Cardinality(L \cap Before(n, L, m)) < m => L \cap Before(n, L, m) = L
<1>1. PICK P : P = Before(n, L, m)
  OBVIOUS
<1>2. PICK S : S = L \cap P
  BY Zenon
<1>3. \A j \in L : j \in 1..n /\ j \in Int
  OBVIOUS
<1>4. P \in SUBSET (1..n) /\ \A i \in 1..n : i \in P <=> Rank(L, i - 1) < m
  BY <1>1 DEF Before
<1>5. IsFiniteSet(L)
  BY RankLemma
<1>6. ASSUME NEW i \in Int
      PROVE  /\ IsFiniteSet({j \in L : j <= i}) /\ Rank(L, i) = Cardinality({j \in L : j <= i})
             /\ Rank(L, i) \in Nat
  <2>1. {j \in L : j <= i} \in SUBSET L
    OBVIOUS
  <2>2. IsFiniteSet({j \in L : j <= i})
    BY <1>5, <2>1, FS_Subset
  <2>3. Cardinality({j \in L : j <= i}) \in Nat
    BY <2>2, FS_CardinalityType
  <2>4. QED
    BY <2>2, <2>3 DEF Rank
<1>7. ASSUME NEW i \in Int, NEW k \in Int, i <= k PROVE Rank(L, i) <= Rank(L, k)
  <2>1. \A j \in L : j <= i => j <= k
    BY <1>3, <1>7
  <2>2. PICK A : A = {j \in L : j <= i}
    BY Zenon
  <2>3. PICK B : B = {j \in L : j <= k}
    BY Zenon
  <2>4. A \in SUBSET B
    BY <2>1, <2>2, <2>3, Zenon
  <2>5. IsFiniteSet(B) /\ Rank(L, i) = Cardinality(A) /\ Rank(L, k) = Cardinality(B)
    BY <1>6, <2>2, <2>3
  <2>6. QED
    BY <2>4, <2>5, FS_Subset
<1>8. \A i, j \in 1..n : i \in P /\ j <= i => j \in P
  <2> SUFFICES ASSUME NEW i \in 1..n, NEW j \in 1..n, i \in P, j <= i PROVE j \in P
    OBVIOUS
  <2>1. Rank(L, i - 1) < m
    BY <1>4
  <2>2. Rank(L, j - 1) <= Rank(L, i - 1)
    <3>1. i - 1 \in Int /\ j - 1 \in Int /\ j - 1 <= i - 1
      OBVIOUS
    <3>2. QED
      BY <1>7, <3>1
  <2>3. Rank(L, i - 1) \in Nat /\ Rank(L, j - 1) \in Nat
    <3>1. i - 1 \in Int /\ j - 1 \in Int
      OBVIOUS
    <3>2. QED
      BY <1>6, <3>1, Zenon
  <2>4. QED
    BY <1>4, <2>1, <2>2, <2>3
<1>9. Cardinality(P) \in 0..n /\ P = 1..Cardinality(P)
  <2>1. P \in SUBSET (1..n)
    BY <1>4
  <2>2. QED
    BY <1>8, <2>1, Segment
<1>10. PICK p \in 0..n : P = 1..p
  BY <1>9
<1>11. S = {j \in L : j <= p}
  <2>1. \A j \in L : j \in P <=> j <= p
    BY <1>3, <1>10
  <2>2. QED
    BY <1>2, <2>1, Zenon
<1>12. Cardinality(S) = Rank(L, p) /\ Cardinality(S) \in Nat
  <2>1. p \in Int
    OBVIOUS
  <2>2. QED
    BY <1>6, <1>11, <2>1
<1>13. Cardinality(S) <= m
  <2>1. CASE p = 0
    <3>1. S = {}
      BY <1>10, <1>2, <2>1
    <3>2. Cardinality(S) = 0
      BY <3>1, FS_EmptySet
    <3>3. QED
      BY <3>2
  <2>2. CASE p # 0
    <3>1. PICK T : T = {j \in L : j <= p - 1}
      BY Zenon
    <3>2. p - 1 \in Int /\ p \in 1..n /\ p \in 1..p /\ p \in P
      <4>1. p - 1 \in Int /\ p \in 1..n /\ p \in 1..p
        BY <2>2
      <4>2. QED
        BY <1>10, <4>1
    <3>3. IsFiniteSet(T) /\ Cardinality(T) = Rank(L, p - 1) /\ Cardinality(T) \in Nat
      BY <1>6, <3>1, <3>2, Zenon
    <3>4. Cardinality(T) < m
      BY <1>4, <3>2, <3>3
    <3>5. IsFiniteSet(T \cup {p}) /\ Cardinality(T \cup {p}) <= Cardinality(T) + 1
      <4>1. /\ IsFiniteSet(T \cup {p})
            /\ Cardinality(T \cup {p}) = IF p \in T THEN Cardinality(T) ELSE Cardinality(T) + 1
        BY <3>3, FS_AddElement
      <4>2. PICK c \in Nat : c = Cardinality(T)
        BY <3>3
      <4>3. QED
        BY <4>1, <4>2
    <3>6. S \in SUBSET (T \cup {p})
      <4>1. \A j \in L : j <= p => j <= p - 1 \/ j = p
        BY <1>3
      <4>2. QED
        BY <1>11, <3>1, <4>1, Zenon
    <3>7. Cardinality(S) <= Cardinality(T \cup {p}) /\ Cardinality(T \cup {p}) \in Nat
      BY <3>5, <3>6, FS_Subset, FS_CardinalityType
    <3>8. QED
      BY <1>12, <3>3, <3>4, <3>5, <3>7
  <2>3. QED
    BY <2>1, <2>2
<1>14. ASSUME Cardinality(S) < m PROVE S = L
  <2>1. p = n
    <3> SUFFICES ASSUME p # n PROVE FALSE
      OBVIOUS
    <3>1. p + 1 \in 1..n /\ p + 1 \notin 1..p /\ p + 1 - 1 = p
      OBVIOUS
    <3>2. ~(Rank(L, p) < m)
      <4>1. p + 1 \notin P
        BY <1>10, <3>1
      <4>2. ~(Rank(L, p + 1 - 1) < m)
        BY <1>4, <3>1, <4>1
      <4>3. QED
        BY <3>1, <4>2
    <3>3. QED
      BY <1>12, <1>14, <3>2
  <2>2. \A j \in L : j \in P
    BY <1>3, <1>10, <2>1
  <2>3. QED
    BY <1>2, <2>2, Zenon
<1>15. QED
  BY <1>9, <1>12, <1>13, <1>14, <1>1, <1>2

LkTypes ==
  /\ pc \in [Threads -> {"out", "wake", "try", "test", "prologue", "parked", "result", "cancel"}]
  /\ range \in [Threads -> {<<0, 0>>, <<1, 2>>, <<0, 1>>}]
  /\ iter \in [Threads -> Nat] /\ last \in [Threads -> Nat]
  /\ count \in [Threads -> {0, 1}] /\ unparked \in [Threads -> {0, 1}]
  /\ results \in [Threads -> {"none", "object", "disposed"} \X Linked!Queues]
  /\ entry \in [Threads -> [Linked!Queues -> {"none", "linked", "removed", "unlinked"}]]
  /\ channels \in [Threads -> [Linked!Queues -> Nat]]
  /\ wake \in [Threads -> Seq(Threads)]
  /\ first \in [Linked!Queues -> Seq(Nat)] /\ lists \in [Linked!Queues -> Seq(Threads)]
  /\ added \in Nat /\ gone \in SUBSET Nat

\* A call of TakeAnyEx that has initialised its parker, and the queues of its first loops.
Busy(t) == pc[t] \in {"test", "prologue", "parked", "result", "cancel"}
Loop(r, i) == (r[1] + i - 1) % Length
Visited(r, q, n) == \E i \in 1..n : Loop(r, i) = q

\* The loops of a call.
LkCalls ==
  \A t \in Threads :
    /\ pc[t] \notin {"out", "wake"} => range[t] \in {<<1, 2>>, <<0, 1>>}
    /\ pc[t] = "try" => iter[t] >= 1 /\ last[t] = 0
    /\ pc[t] \in {"test", "prologue"} => iter[t] = last[t] + 1
    /\ Busy(t) => last[t] <= range[t][2]
    /\ pc[t] = "prologue" => iter[t] <= range[t][2]
    /\ pc[t] = "cancel" => iter[t] >= 1

\* A wait block is in the list of a queue exactly when its entry says so; the loops of the
\* clean-up leave no entry behind them, and the entry that an adder removed is the one of
\* the queue that the wait status names.
LkEntries ==
  /\ \A q \in Linked!Queues : Distinct(lists[q])
  /\ \A t \in Threads, q \in Linked!Queues :
       /\ In(t, lists[q]) <=> entry[t][q] = "linked"
       /\ entry[t][q] # "none" => Busy(t) /\ Visited(range[t], q, last[t])
       /\ entry[t][q] = "linked" /\ pc[t] = "cancel" =>
            \E i \in 1..last[t] : i >= iter[t] /\ Loop(range[t], i) = q
       /\ entry[t][q] = "removed" => results[t][1] # "none" /\ results[t][2] = q

\* A parker that is not locked belongs to a call that was not served, and what a call was
\* served with comes from a queue that it visits.
LkResults ==
  \A t \in Threads :
    /\ count[t] = 1 => /\ pc[t] \in {"test", "prologue", "parked"}
                       /\ results[t][1] = "none" /\ unparked[t] = 0
    /\ ~Busy(t) => unparked[t] = 0
    /\ results[t][1] # "none" => /\ Busy(t) /\ entry[t][results[t][2]] # "linked"
                                 /\ Visited(range[t], results[t][2], range[t][2])
                                 /\ pc[t] \in {"test", "prologue"} =>
                                      Visited(range[t], results[t][2], last[t])

\* Only a call that was served is in the hands of an adder.
LkWake ==
  /\ \A t \in Threads : /\ pc[t] # "wake" => wake[t] = <<>>
                        /\ Distinct(wake[t])
  /\ \A t, u \in Threads :
       In(t, wake[u]) => /\ pc[t] \in {"test", "prologue", "parked"} /\ count[t] = 0
                         /\ unparked[t] = 0 /\ results[t][1] # "none"
  /\ \A t, u, v \in Threads : In(t, wake[u]) /\ In(t, wake[v]) => u = v

\* The item that a call was served with and has not yet taken.
Hand(t) == pc[t] \in {"test", "prologue", "parked", "result"} /\ results[t][1] = "object"
Item(t) == channels[t][results[t][2]]
Queued(i) == \E q \in Linked!Queues : In(i, first[q])
LkItems ==
  /\ \A q \in Linked!Queues : Distinct(first[q])
  /\ \A q \in Linked!Queues : \A i : In(i, first[q]) => i \in 1..added /\ i \notin gone
  /\ \A q, r \in Linked!Queues : \A i : In(i, first[q]) /\ In(i, first[r]) => q = r
  /\ \A t \in Threads : Hand(t) => Item(t) \in 1..added /\ Item(t) \notin gone /\ ~Queued(Item(t))
  /\ \A t, u \in Threads : Hand(t) /\ Hand(u) /\ Item(t) = Item(u) => t = u
  /\ \A i \in gone : i \in 1..added
  /\ \A i \in 1..added :
       i \in gone \/ Queued(i) \/ \E t \in Threads : Hand(t) /\ Item(t) = i

\* A call that can be served waits at empty queues that are not disposed.
LkStuck ==
  \A t \in Threads, q \in Linked!Queues :
    In(t, lists[q]) /\ count[t] = 1 => first[q] = <<>> /\ ~closed[q]

LkKept == LkTypes /\ LkCalls /\ LkEntries /\ LkResults /\ LkWake
LkInv == /\ LkKept /\ LkItems /\ LkStuck
         /\ closed \in [Linked!Queues -> BOOLEAN] /\ corrupt = FALSE

LEMMA LkInit == ASSUME Linked!Init PROVE LkInv
<1> USE ChannelsAssumption DEF ChannelsAssumption
<1>0. 0 \in Linked!Queues
  BY DEF Linked!Queues
<1>1. (\A x : ~In(x, <<>>)) /\ Distinct(<<>>)
  BY SmallStacks
<1>2. /\ first = [q \in Linked!Queues |-> <<>>] /\ closed = [q \in Linked!Queues |-> FALSE]
      /\ lists = [q \in Linked!Queues |-> <<>>]
      /\ pc = [t \in Threads |-> "out"] /\ range = [t \in Threads |-> <<0, 0>>]
      /\ iter = [t \in Threads |-> 0] /\ last = [t \in Threads |-> 0]
      /\ count = [t \in Threads |-> 0] /\ unparked = [t \in Threads |-> 0]
      /\ results = [t \in Threads |-> <<"none", 0>>]
      /\ entry = [t \in Threads |-> [q \in Linked!Queues |-> "none"]]
      /\ channels = [t \in Threads |-> [q \in Linked!Queues |-> 0]]
      /\ wake = [t \in Threads |-> <<>>]
      /\ added = 0 /\ gone = {} /\ corrupt = FALSE
  BY DEF Linked!Init
<1>3. LkTypes
  <2>1. /\ results \in [Threads -> {"none", "object", "disposed"} \X Linked!Queues]
        /\ channels \in [Threads -> [Linked!Queues -> Nat]]
    BY <1>0, <1>2
  <2>2. entry \in [Threads -> [Linked!Queues -> {"none", "linked", "removed", "unlinked"}]]
    BY <1>2
  <2>3. QED
    BY <1>2, <2>1, <2>2 DEF LkTypes
<1>4. LkCalls
  BY <1>2 DEF LkCalls, Busy
<1>5. LkEntries
  BY <1>1, <1>2 DEF LkEntries
<1>6. LkResults
  BY <1>2 DEF LkResults
<1>7. LkWake
  BY <1>1, <1>2 DEF LkWake
<1>8. \A t \in Threads : ~Hand(t)
  BY <1>2 DEF Hand
<1>9. LkItems
  BY <1>1, <1>2, <1>8 DEF LkItems
<1>10. LkStuck
  BY <1>1, <1>2 DEF LkStuck
<1>11. closed \in [Linked!Queues -> BOOLEAN]
  BY <1>2
<1>12. QED
  BY <1>2, <1>3, <1>4, <1>5, <1>6, <1>7, <1>9, <1>10, <1>11 DEF LkInv, LkKept

\* The queues of a call are different, and the index of each is less than Count.
LEMMA LoopLemma ==
  ASSUME LkTypes, LkCalls, NEW t \in Threads, pc[t] \notin {"out", "wake"}
  PROVE  /\ range[t][2] \in Nat
         /\ \A i \in 1..range[t][2] : /\ Loop(range[t], i) \in Linked!Queues
                                      /\ Loop(range[t], i) < range[t][2]
         /\ \A i, j \in 1..range[t][2] : Loop(range[t], i) = Loop(range[t], j) => i = j
         /\ \A i : Linked!At(t, i) = Loop(range[t], i)
<1> USE ChannelsAssumption DEF ChannelsAssumption
<1>1. Linked!Queues = 0..1
  BY DEF Linked!Queues
<1>2. ASSUME range[t] = <<1, 2>>
      PROVE  /\ range[t][2] \in Nat
             /\ \A i \in 1..range[t][2] : /\ Loop(range[t], i) \in Linked!Queues
                                          /\ Loop(range[t], i) < range[t][2]
             /\ \A i, j \in 1..range[t][2] : Loop(range[t], i) = Loop(range[t], j) => i = j
  <2>1. Loop(range[t], 1) = 1 /\ Loop(range[t], 2) = 0
    BY <1>2 DEF Loop
  <2>2. range[t][2] = 2 /\ \A i \in 1..2 : i = 1 \/ i = 2
    BY <1>2
  <2>3. QED
    BY <1>1, <2>1, <2>2
<1>3. ASSUME range[t] = <<0, 1>>
      PROVE  /\ range[t][2] \in Nat
             /\ \A i \in 1..range[t][2] : /\ Loop(range[t], i) \in Linked!Queues
                                          /\ Loop(range[t], i) < range[t][2]
             /\ \A i, j \in 1..range[t][2] : Loop(range[t], i) = Loop(range[t], j) => i = j
  <2>1. Loop(range[t], 1) = 0
    BY <1>3 DEF Loop
  <2>2. range[t][2] = 1 /\ \A i \in 1..1 : i = 1
    BY <1>3
  <2>3. QED
    BY <1>1, <2>1, <2>2
<1>4. \A i : Linked!At(t, i) = Loop(range[t], i)
  BY DEF Linked!At, Loop
<1>5. QED
  BY <1>2, <1>3, <1>4 DEF LkCalls

\* What Serve does: G are the waiters that are served, in the order of k, and R those that
\* cannot be locked.
Served(t, q, what, n, gifts, G, R, k) ==
  /\ G \in SUBSET Threads /\ R \in SUBSET Threads
  /\ \A x \in G : In(x, lists[q]) /\ count[x] = 1
  /\ \A x \in R : In(x, lists[q]) /\ count[x] # 1
  /\ pc[t] = "out" /\ pc' = [pc EXCEPT ![t] = "wake"] /\ UNCHANGED <<range, iter, last, unparked>>
  /\ LkTypes'
  /\ \A x \in Threads :
       /\ count'[x] = (IF x \in G THEN 0 ELSE count[x])
       /\ results'[x] = (IF x \in G THEN <<what, q>> ELSE results[x])
  /\ \A x \in Threads, r \in Linked!Queues :
       /\ channels'[x][r] = (IF r = q /\ x \in G THEN gifts[k[x]] ELSE channels[x][r])
       /\ entry'[x][r] = (IF r = q /\ x \in G THEN "removed"
                          ELSE IF r = q /\ x \in R THEN "unlinked" ELSE entry[x][r])
  /\ \A r \in Linked!Queues : r # q => lists'[r] = lists[r]
  /\ Distinct(lists'[q])
  /\ \A x : In(x, lists'[q]) <=> In(x, lists[q]) /\ x \notin G /\ x \notin R
  /\ Distinct(wake'[t]) /\ \A x : In(x, wake'[t]) <=> x \in G
  /\ \A x \in Threads : x # t => wake'[x] = wake[x]
  /\ \A x \in G : k[x] \in 1..Cardinality(Linked!Served(q, n))
  /\ \A x, y \in G : k[x] = k[y] => x = y
  /\ \A j \in 1..Cardinality(Linked!Served(q, n)) : \E x \in G : k[x] = j
  /\ Cardinality(Linked!Served(q, n)) \in 0..n
  /\ Cardinality(Linked!Served(q, n)) < n =>
       \A x \in Threads : In(x, lists[q]) /\ count[x] = 1 => x \in G

LEMMA ServeLemma ==
  ASSUME LkTypes, LkEntries, NEW t \in Threads, NEW q \in Linked!Queues,
         NEW what \in {"object", "disposed"}, NEW n \in Nat, NEW gifts \in [1..n -> Nat],
         Linked!Serve(t, q, what, gifts),
         added' \in Nat, gone' \in SUBSET Nat, first' \in [Linked!Queues -> Seq(Nat)]
  PROVE  \E G, R, k : Served(t, q, what, n, gifts, G, R, k)
<1>1. Len(gifts) = n
  BY DEF Len
<1>2. PICK l : l = lists[q]
  OBVIOUS
<1>3. l \in Seq(Threads) /\ Distinct(l)
  BY <1>2 DEF LkTypes, LkEntries
<1>4. PICK L : L = {i \in 1..Len(l) : count[l[i]] = 1}
  BY Zenon
<1>5. PICK P : P = {i \in 1..Len(l) : Rank(L, i - 1) < n}
  BY Zenon
<1>6. PICK S : S = L \cap P
  BY Zenon
<1>7. /\ \A A, i : Linked!Rank(A, i) = Rank(A, i)
      /\ \A A : Linked!Cardinality(A) = Cardinality(A)
  <2>1. \A A : Linked!Cardinality(A) = Cardinality(A)
    BY DEF Linked!Cardinality, Cardinality
  <2>2. QED
    BY <2>1 DEF Linked!Rank, Rank
<1>8. \A s, A : Linked!Picked(s, A) = Picked(s, A)
  <2>1. \A A, k : Linked!Position(A, k) = Position(A, k)
    BY <1>7 DEF Linked!Position, Position
  <2>2. QED
    BY <1>7, <2>1 DEF Linked!Picked, Picked
<1>9. Linked!LiveIn(q) = L
  BY <1>2, <1>4 DEF Linked!LiveIn
<1>10. Linked!Passed(q, n) = P
  BY <1>2, <1>5, <1>7, <1>9 DEF Linked!Passed
<1>11. Linked!Served(q, n) = S
  BY <1>6, <1>9, <1>10 DEF Linked!Served
<1>12. PICK W : W = [x \in Threads |-> CHOOSE i \in 1..Len(l) : l[i] = x]
  BY Zenon
<1>13. PICK G : G = {x \in Threads : \E i \in S : l[i] = x}
  BY Zenon
<1>14. PICK R : R = {x \in Threads : x \notin G /\ \E i \in P : l[i] = x}
  BY Zenon
<1>15. PICK k : k = [x \in G |-> Rank(S, W[x])]
  BY Zenon
<1>16. /\ lists' = [lists EXCEPT ![q] = SubSeq(l, Cardinality(P) + 1, Len(l))]
       /\ count' = [x \in Threads |-> IF \E i \in S : l[i] = x THEN 0 ELSE count[x]]
       /\ results' = [x \in Threads |-> IF \E i \in S : l[i] = x THEN <<what, q>> ELSE results[x]]
       /\ channels' = [x \in Threads |-> channels'[x]]
       /\ \A x \in Threads : channels'[x] = IF \E i \in S : l[i] = x
            THEN [channels[x] EXCEPT ![q] = gifts[Rank(S, W[x])]] ELSE channels[x]
       /\ entry' = [x \in Threads |-> [entry[x] EXCEPT ![q] =
            IF \E i \in S : l[i] = x THEN "removed"
            ELSE IF \E i \in P : l[i] = x THEN "unlinked" ELSE @]]
       /\ wake' = [wake EXCEPT ![t] = Picked(l, S)]
       /\ pc[t] = "out" /\ pc' = [pc EXCEPT ![t] = "wake"]
       /\ UNCHANGED <<range, iter, last, unparked>>
  <2>1. /\ Linked!Passed(q, Len(gifts)) = P /\ Linked!Served(q, Len(gifts)) = S
    BY <1>1, <1>10, <1>11
  <2>2. /\ lists' = [lists EXCEPT ![q] = SubSeq(l, Cardinality(P) + 1, Len(l))]
        /\ wake' = [wake EXCEPT ![t] = Picked(l, S)]
    BY <1>2, <1>7, <1>8, <2>1, Zenon DEF Linked!Serve
  <2>3. /\ count' = [x \in Threads |-> IF \E i \in S : l[i] = x THEN 0 ELSE count[x]]
        /\ results' = [x \in Threads |-> IF \E i \in S : l[i] = x THEN <<what, q>> ELSE results[x]]
        /\ pc[t] = "out" /\ pc' = [pc EXCEPT ![t] = "wake"]
        /\ UNCHANGED <<range, iter, last, unparked>>
    BY <1>2, <2>1 DEF Linked!Serve, Linked!Step, Linked!takeVars
  <2>4. entry' = [x \in Threads |-> [entry[x] EXCEPT ![q] =
            IF \E i \in S : l[i] = x THEN "removed"
            ELSE IF \E i \in P : l[i] = x THEN "unlinked" ELSE @]]
    BY <1>2, <2>1 DEF Linked!Serve
  <2>5. channels' = [x \in Threads |-> IF \E i \in S : l[i] = x
            THEN [channels[x] EXCEPT ![q] =
                   gifts[Linked!Rank(S, CHOOSE i \in 1..Len(l) : l[i] = x)]]
            ELSE channels[x]]
    BY <1>2, <2>1 DEF Linked!Serve
  <2>6. \A x \in Threads : Linked!Rank(S, CHOOSE i \in 1..Len(l) : l[i] = x) = Rank(S, W[x])
    BY <1>7, <1>12
  <2>7. \A x \in Threads : channels'[x] = IF \E i \in S : l[i] = x
            THEN [channels[x] EXCEPT ![q] = gifts[Rank(S, W[x])]] ELSE channels[x]
    <3> SUFFICES ASSUME NEW x \in Threads
                 PROVE  channels'[x] = IF \E i \in S : l[i] = x
            THEN [channels[x] EXCEPT ![q] = gifts[Rank(S, W[x])]] ELSE channels[x]
      BY Zenon
    <3>1. PICK j : j = Linked!Rank(S, CHOOSE i \in 1..Len(l) : l[i] = x)
      BY Zenon
    <3>2. channels'[x] = IF \E i \in S : l[i] = x
            THEN [channels[x] EXCEPT ![q] = gifts[j]] ELSE channels[x]
      BY <2>5, <3>1
    <3>3. j = Rank(S, W[x])
      BY <2>6, <3>1, Zenon
    <3>4. QED
      BY <3>2, <3>3
  <2>8. channels' = [x \in Threads |-> channels'[x]]
    BY <2>5
  <2>9. QED
    BY <2>2, <2>3, <2>4, <2>7, <2>8
<1>17. Len(l) \in Nat /\ L \in SUBSET (1..Len(l))
  BY <1>3, <1>4
<1>18. /\ Cardinality(P) \in 0..Len(l) /\ P = 1..Cardinality(P)
       /\ Cardinality(S) \in 0..n /\ (Cardinality(S) < n => S = L)
  <2>1. P = Before(Len(l), L, n)
    BY <1>5 DEF Before
  <2>2. QED
    BY <1>6, <1>17, <2>1, PassedLemma, Zenon
<1>19. S \in SUBSET (1..Len(l))
  BY <1>6, <1>17, Zenon
<1>20. \A i \in 1..Len(l) : l[i] \in Threads /\ W[l[i]] = i
  <2> SUFFICES ASSUME NEW i \in 1..Len(l) PROVE l[i] \in Threads /\ W[l[i]] = i
    OBVIOUS
  <2>1. l[i] \in Threads
    BY <1>3
  <2>2. W[l[i]] \in 1..Len(l) /\ l[W[l[i]]] = l[i]
    BY <1>12, <2>1, Zenon
  <2>3. QED
    BY <1>3, <2>1, <2>2, Zenon DEF Distinct
<1>21. \A x \in Threads : /\ x \in G <=> \E i \in S : l[i] = x
                          /\ x \in G <=> (\E i \in 1..Len(l) : l[i] = x) /\ W[x] \in S
  BY <1>13, <1>19, <1>20
<1>22. \A x \in G : x \in Threads /\ W[x] \in S /\ l[W[x]] = x /\ k[x] = Rank(S, W[x])
  BY <1>13, <1>15, <1>19, <1>20
<1>23. /\ \A x \in G : k[x] \in 1..Cardinality(S)
       /\ \A x, y \in G : k[x] = k[y] => x = y
       /\ \A j \in 1..Cardinality(S) : \E x \in G : k[x] = j
  <2>1. /\ Cardinality(S) \in Nat /\ \A i \in S : Rank(S, i) \in 1..Cardinality(S)
        /\ \A i, j \in S : i < j => Rank(S, i) < Rank(S, j)
        /\ \A j \in 1..Cardinality(S) : \E i \in S : Rank(S, i) = j
    BY <1>17, <1>19, RankLemma, Zenon
  <2>2. \A i, j \in S : Rank(S, i) = Rank(S, j) => i = j
    <3> SUFFICES ASSUME NEW i \in S, NEW j \in S, Rank(S, i) = Rank(S, j) PROVE i = j
      OBVIOUS
    <3>1. i \in Int /\ j \in Int
      BY <1>17, <1>19
    <3>2. Rank(S, i) \in 1..Cardinality(S) /\ Rank(S, j) \in 1..Cardinality(S)
      BY <2>1
    <3>3. ~(i < j) /\ ~(j < i)
      BY <2>1, <3>2
    <3>4. QED
      BY <3>1, <3>3
  <2>3. \A x \in G : k[x] \in 1..Cardinality(S)
    BY <1>22, <2>1, Zenon
  <2>4. \A x, y \in G : k[x] = k[y] => x = y
    <3> SUFFICES ASSUME NEW x \in G, NEW y \in G, k[x] = k[y] PROVE x = y
      OBVIOUS
    <3>1. W[x] = W[y]
      BY <1>22, <2>2
    <3>2. QED
      BY <1>22, <3>1
  <2>5. ASSUME NEW j \in 1..Cardinality(S) PROVE \E x \in G : k[x] = j
    <3>1. PICK i \in S : Rank(S, i) = j
      BY <2>1
    <3>2. l[i] \in G /\ W[l[i]] = i
      BY <1>19, <1>20, <1>21, <3>1
    <3>3. QED
      BY <1>22, <3>1, <3>2, Zenon
  <2>6. QED
    BY <2>3, <2>4, <2>5
<1>24. /\ \A x \in G : In(x, l) /\ count[x] = 1
       /\ \A x \in R : In(x, l) /\ count[x] # 1
  <2>1. \A x \in G : In(x, l) /\ count[x] = 1
    BY <1>4, <1>6, <1>19, <1>22, Zenon DEF In
  <2>2. ASSUME NEW x \in R PROVE In(x, l) /\ count[x] # 1
    <3>1. PICK i \in P : l[i] = x
      BY <1>14
    <3>2. i \in 1..Len(l) /\ i \notin S
      BY <1>5, <1>14, <1>21, <3>1
    <3>3. QED
      BY <1>4, <1>6, <3>1, <3>2 DEF In
  <2>3. QED
    BY <2>1, <2>2
<1>25. Cardinality(S) < n => \A x \in Threads : In(x, l) /\ count[x] = 1 => x \in G
  BY <1>4, <1>18, <1>21, Zenon DEF In
<1>26. /\ lists'[q] \in Seq(Threads) /\ Distinct(lists'[q])
       /\ \A x : In(x, lists'[q]) <=> In(x, l) /\ x \notin G /\ x \notin R
  <2>1. PICK p \in 0..Len(l) : p = Cardinality(P)
    BY <1>18
  <2>2. lists'[q] = SubSeq(l, p + 1, Len(l))
    BY <1>16, <2>1, Zenon DEF LkTypes
  <2>3. /\ lists'[q] \in Seq(Threads) /\ Distinct(lists'[q])
        /\ \A x : In(x, lists'[q]) <=> \E i \in p + 1..Len(l) : l[i] = x
    BY <1>3, <2>2, RestLemma
  <2>4. ASSUME NEW x, NEW i \in p + 1..Len(l), l[i] = x PROVE In(x, l) /\ x \notin G /\ x \notin R
    <3>1. i \in 1..Len(l) /\ i \notin P
      BY <1>17, <1>18, <2>1
    <3>2. \A j \in P : l[j] # x
      <4>1. \A j \in P : j \in 1..Len(l)
        BY <1>5
      <4>2. QED
        BY <1>3, <2>4, <3>1, <4>1 DEF Distinct
    <3>3. QED
      BY <1>6, <1>13, <1>14, <2>4, <3>1, <3>2 DEF In
  <2>5. ASSUME NEW x, In(x, l), x \notin G, x \notin R PROVE \E i \in p + 1..Len(l) : l[i] = x
    <3>1. PICK i \in 1..Len(l) : l[i] = x
      BY <2>5 DEF In
    <3>2. i \notin P
      BY <1>3, <1>14, <2>5, <3>1
    <3>3. i \in p + 1..Len(l)
      BY <1>17, <1>18, <2>1, <3>2
    <3>4. QED
      BY <3>1, <3>3
  <2>6. QED
    BY <2>3, <2>4, <2>5
<1>27. /\ wake'[t] \in Seq(Threads) /\ Distinct(wake'[t]) /\ \A x : In(x, wake'[t]) <=> x \in G
  <2>1. wake'[t] = Picked(l, S)
    BY <1>16 DEF LkTypes
  <2>2. /\ wake'[t] \in Seq(Threads) /\ Distinct(wake'[t])
        /\ \A x : In(x, wake'[t]) <=> \E i \in S : l[i] = x
    BY <1>3, <1>19, <2>1, PickedLemma
  <2>3. QED
    BY <1>13, <1>19, <1>20, <2>2, Zenon
<1>28. \A x \in Threads :
         /\ count'[x] = (IF x \in G THEN 0 ELSE count[x])
         /\ results'[x] = (IF x \in G THEN <<what, q>> ELSE results[x])
  BY <1>16, <1>21
<1>29. \A x \in Threads, r \in Linked!Queues :
         channels'[x][r] = (IF r = q /\ x \in G THEN gifts[k[x]] ELSE channels[x][r])
  <2> SUFFICES ASSUME NEW x \in Threads, NEW r \in Linked!Queues
               PROVE  channels'[x][r] = (IF r = q /\ x \in G THEN gifts[k[x]] ELSE channels[x][r])
    OBVIOUS
  <2>1. channels[x] \in [Linked!Queues -> Nat]
    BY DEF LkTypes
  <2>2. CASE x \in G
    <3>1. channels'[x] = [channels[x] EXCEPT ![q] = gifts[Rank(S, W[x])]]
      BY <1>16, <1>21, <2>2
    <3>2. QED
      BY <1>22, <2>1, <2>2, <3>1
  <2>3. CASE x \notin G
    BY <1>16, <1>21, <2>3
  <2>4. QED
    BY <2>2, <2>3
<1>30. \A x \in Threads, r \in Linked!Queues :
         entry'[x][r] = (IF r = q /\ x \in G THEN "removed"
                         ELSE IF r = q /\ x \in R THEN "unlinked" ELSE entry[x][r])
  <2> SUFFICES ASSUME NEW x \in Threads, NEW r \in Linked!Queues
               PROVE  entry'[x][r] = (IF r = q /\ x \in G THEN "removed"
                         ELSE IF r = q /\ x \in R THEN "unlinked" ELSE entry[x][r])
    OBVIOUS
  <2>1. entry[x] \in [Linked!Queues -> {"none", "linked", "removed", "unlinked"}]
    BY DEF LkTypes
  <2>2. (\E i \in S : l[i] = x) <=> x \in G
    BY <1>21
  <2>3. x \notin G => ((\E i \in P : l[i] = x) <=> x \in R)
    BY <1>14
  <2>4. entry'[x] = [entry[x] EXCEPT ![q] =
            IF x \in G THEN "removed" ELSE IF \E i \in P : l[i] = x THEN "unlinked" ELSE @]
    BY <1>16, <2>2, Zenon
  <2>5. QED
    BY <2>1, <2>3, <2>4
<1>31. LkTypes'
  <2>1. results' \in [Threads -> {"none", "object", "disposed"} \X Linked!Queues]
    BY <1>16, Zenon DEF LkTypes
  <2>2. entry' \in [Threads -> [Linked!Queues -> {"none", "linked", "removed", "unlinked"}]]
    BY <1>16, ZenonT(30) DEF LkTypes
  <2>3. channels' \in [Threads -> [Linked!Queues -> Nat]]
    <3> SUFFICES ASSUME NEW x \in Threads PROVE channels'[x] \in [Linked!Queues -> Nat]
      BY <1>16
    <3>1. channels[x] \in [Linked!Queues -> Nat]
      BY DEF LkTypes
    <3>2. CASE x \in G
      <4>1. k[x] \in 1..n
        BY <1>18, <1>23, <3>2
      <4>2. gifts[Rank(S, W[x])] \in Nat
        BY <1>22, <3>2, <4>1
      <4>3. channels'[x] = [channels[x] EXCEPT ![q] = gifts[Rank(S, W[x])]]
        BY <1>16, <1>21, <3>2
      <4>4. QED
        BY <3>1, <4>2, <4>3
    <3>3. CASE x \notin G
      BY <1>16, <1>21, <3>1, <3>3, Zenon
    <3>4. QED
      BY <3>2, <3>3
  <2>4. wake' \in [Threads -> Seq(Threads)] /\ lists' \in [Linked!Queues -> Seq(Threads)]
    <3>1. Picked(l, S) \in Seq(Threads) /\ SubSeq(l, Cardinality(P) + 1, Len(l)) \in Seq(Threads)
      BY <1>16, <1>26, <1>27, Zenon DEF LkTypes
    <3>2. QED
      BY <1>16, <3>1, Zenon DEF LkTypes
  <2>5. count' \in [Threads -> {0, 1}] /\ pc' \in [Threads -> {"out", "wake", "try", "test", "prologue", "parked", "result", "cancel"}]
    BY <1>16, Zenon DEF LkTypes
  <2>6. QED
    BY <1>16, <2>1, <2>2, <2>3, <2>4, <2>5, Zenon DEF LkTypes
<1>32. /\ \A r \in Linked!Queues : r # q => lists'[r] = lists[r]
       /\ \A x \in Threads : x # t => wake'[x] = wake[x]
  BY <1>16 DEF LkTypes
<1>33. Served(t, q, what, n, gifts, G, R, k)
  <2>1. /\ G \in SUBSET Threads /\ R \in SUBSET Threads
        /\ (\A x \in G : In(x, lists[q]) /\ count[x] = 1)
        /\ \A x \in R : In(x, lists[q]) /\ count[x] # 1
    BY <1>2, <1>13, <1>14, <1>24
  <2>2. /\ pc[t] = "out" /\ pc' = [pc EXCEPT ![t] = "wake"]
        /\ UNCHANGED <<range, iter, last, unparked>>
    BY <1>16
  <2>3. \A x : In(x, lists'[q]) <=> In(x, lists[q]) /\ x \notin G /\ x \notin R
    BY <1>2, <1>26
  <2>4. PICK c : c = Cardinality(Linked!Served(q, n))
    OBVIOUS
  <2>5. c = Cardinality(S)
    BY <1>11, <2>4
  <2>6. /\ (\A x \in G : k[x] \in 1..c) /\ (\A x, y \in G : k[x] = k[y] => x = y)
        /\ (\A j \in 1..c : \E x \in G : k[x] = j) /\ c \in 0..n
        /\ (c < n => \A x \in Threads : In(x, lists[q]) /\ count[x] = 1 => x \in G)
    BY <1>2, <1>18, <1>23, <1>25, <2>5
  <2>7. /\ (\A x \in G : k[x] \in 1..Cardinality(Linked!Served(q, n)))
        /\ (\A x, y \in G : k[x] = k[y] => x = y)
        /\ (\A j \in 1..Cardinality(Linked!Served(q, n)) : \E x \in G : k[x] = j)
        /\ Cardinality(Linked!Served(q, n)) \in 0..n
        /\ (Cardinality(Linked!Served(q, n)) < n =>
              \A x \in Threads : In(x, lists[q]) /\ count[x] = 1 => x \in G)
    BY <2>4, <2>6
  <2>8. Distinct(lists'[q]) /\ Distinct(wake'[t]) /\ \A x : In(x, wake'[t]) <=> x \in G
    BY <1>26, <1>27
  <2>9. \A x \in Threads, r \in Linked!Queues :
          /\ channels'[x][r] = (IF r = q /\ x \in G THEN gifts[k[x]] ELSE channels[x][r])
          /\ entry'[x][r] = (IF r = q /\ x \in G THEN "removed"
                             ELSE IF r = q /\ x \in R THEN "unlinked" ELSE entry[x][r])
    BY <1>29, <1>30, Zenon
  <2>10. QED
    BY <1>28, <1>31, <1>32, <2>1, <2>2, <2>3, <2>7, <2>8, <2>9, Zenon DEF Served
<1>34. QED
  BY <1>33

\* The calls that are served, and those that are passed over.
LEMMA ServeKept ==
  ASSUME LkInv, NEW t \in Threads, NEW q \in Linked!Queues, NEW what \in {"object", "disposed"},
         NEW n \in Nat, NEW gifts \in [1..n -> Nat], NEW G, NEW R, NEW k,
         Served(t, q, what, n, gifts, G, R, k)
  PROVE  /\ LkKept'
         /\ \A x \in G : x \in Threads /\ x # t /\ results[x][1] = "none"
                         /\ pc[x] \in {"test", "prologue", "parked"}
<1>0. LkTypes /\ LkCalls /\ LkEntries /\ LkResults /\ LkWake
  BY DEF LkInv, LkKept
<1>1. /\ G \in SUBSET Threads /\ R \in SUBSET Threads
      /\ (\A x \in G : In(x, lists[q]) /\ count[x] = 1)
      /\ (\A x \in R : In(x, lists[q]) /\ count[x] # 1)
      /\ pc[t] = "out" /\ pc' = [pc EXCEPT ![t] = "wake"] /\ UNCHANGED <<range, iter, last, unparked>>
      /\ LkTypes'
  BY DEF Served
<1>2. \A x \in Threads :
        /\ count'[x] = (IF x \in G THEN 0 ELSE count[x])
        /\ results'[x] = (IF x \in G THEN <<what, q>> ELSE results[x])
  BY Zenon DEF Served
<1>3. \A x \in Threads, r \in Linked!Queues :
        entry'[x][r] = (IF r = q /\ x \in G THEN "removed"
                        ELSE IF r = q /\ x \in R THEN "unlinked" ELSE entry[x][r])
  BY DEF Served
<1>4. /\ \A r \in Linked!Queues : r # q => lists'[r] = lists[r]
      /\ Distinct(lists'[q])
      /\ \A x : In(x, lists'[q]) <=> In(x, lists[q]) /\ x \notin G /\ x \notin R
  BY DEF Served
<1>5. /\ Distinct(wake'[t]) /\ \A x : In(x, wake'[t]) <=> x \in G
      /\ \A x \in Threads : x # t => wake'[x] = wake[x]
  BY DEF Served
<1>6. \A x \in Threads : pc'[x] = (IF x = t THEN "wake" ELSE pc[x])
  BY <1>0, <1>1 DEF LkTypes
<1>7. \A x \in Threads : Busy(x)' <=> Busy(x)
  BY <1>1, <1>6 DEF Busy
<1>8. ~Busy(t) /\ count[t] = 0 /\ wake[t] = <<>> /\ (\A r \in Linked!Queues : ~In(t, lists[r]))
      /\ results[t][1] = "none" /\ \A v \in Threads : ~In(t, wake[v])
  <2>0. count[t] \in {0, 1}
    BY <1>0 DEF LkTypes
  <2>4. ~Busy(t)
    BY <1>1 DEF Busy
  <2>5. count[t] # 1
    BY <1>0, <1>1 DEF LkResults
  <2>6. wake[t] = <<>> /\ \A v \in Threads : ~In(t, wake[v])
    BY <1>0, <1>1 DEF LkWake
  <2>1. ~Busy(t) /\ wake[t] = <<>> /\ count[t] = 0 /\ \A v \in Threads : ~In(t, wake[v])
    BY <2>0, <2>4, <2>5, <2>6
  <2>2. results[t][1] = "none" /\ \A r \in Linked!Queues : ~In(t, lists[r])
    BY <1>0, <2>1 DEF LkEntries, LkResults, LkTypes
  <2>3. QED
    BY <2>1, <2>2
<1>9. \A x \in G : /\ x \in Threads /\ x # t /\ entry[x][q] = "linked"
                   /\ pc[x] \in {"test", "prologue", "parked"} /\ results[x][1] = "none"
                   /\ unparked[x] = 0 /\ Busy(x) /\ Visited(range[x], q, last[x])
                   /\ \A v \in Threads : ~In(x, wake[v])
  <2> SUFFICES ASSUME NEW x \in G
               PROVE  /\ x \in Threads /\ x # t /\ entry[x][q] = "linked"
                      /\ pc[x] \in {"test", "prologue", "parked"} /\ results[x][1] = "none"
                      /\ unparked[x] = 0 /\ Busy(x) /\ Visited(range[x], q, last[x])
                      /\ \A v \in Threads : ~In(x, wake[v])
    OBVIOUS
  <2>1. x \in Threads /\ x # t /\ entry[x][q] = "linked" /\ count[x] = 1
    BY <1>0, <1>1, <1>8 DEF LkEntries
  <2>2. Busy(x) /\ Visited(range[x], q, last[x])
    BY <1>0, <2>1 DEF LkEntries
  <2>3. pc[x] \in {"test", "prologue", "parked"} /\ results[x][1] = "none" /\ unparked[x] = 0
    BY <1>0, <2>1 DEF LkResults
  <2>4. \A v \in Threads : ~In(x, wake[v])
    BY <1>0, <2>1 DEF LkWake
  <2>5. QED
    BY <2>1, <2>2, <2>3, <2>4
<1>10. \A x \in R : x \in Threads /\ x # t /\ entry[x][q] = "linked" /\ x \notin G
  BY <1>0, <1>1, <1>8 DEF LkEntries
<1>11. LkCalls'
  BY <1>0, <1>1, <1>6, <1>7 DEF LkCalls
<1>12. LkEntries'
  <2>1. \A r \in Linked!Queues : Distinct(lists'[r])
    BY <1>0, <1>4 DEF LkEntries
  <2>2. ASSUME NEW x \in Threads, NEW r \in Linked!Queues
        PROVE  /\ In(x, lists'[r]) <=> entry'[x][r] = "linked"
               /\ entry'[x][r] # "none" => Busy(x)' /\ Visited(range'[x], r, last'[x])
               /\ entry'[x][r] = "linked" /\ pc'[x] = "cancel" =>
                    \E i \in 1..last'[x] : i >= iter'[x] /\ Loop(range'[x], i) = r
               /\ entry'[x][r] = "removed" => results'[x][1] # "none" /\ results'[x][2] = r
    <3>1. In(x, lists'[r]) <=> entry'[x][r] = "linked"
      BY <1>0, <1>3, <1>4 DEF LkEntries
    <3>2. entry'[x][r] # "none" => entry[x][r] # "none"
      BY <1>3, <1>9, <1>10
    <3>3. entry'[x][r] = "linked" => entry[x][r] = "linked"
      BY <1>3
    <3>4. entry'[x][r] = "removed" => results'[x][1] # "none" /\ results'[x][2] = r
      <4>1. CASE r = q /\ x \in G
        BY <1>2, <4>1
      <4>2. CASE ~(r = q /\ x \in G)
        <5>1. entry'[x][r] = "removed" => results[x][1] # "none" /\ results[x][2] = r
          BY <1>0, <1>3, <4>2 DEF LkEntries
        <5>2. results[x][1] # "none" => x \notin G
          BY <1>9
        <5>3. QED
          BY <1>2, <5>1, <5>2
      <4>3. QED
        BY <4>1, <4>2
    <3>5. pc'[x] = "cancel" => pc[x] = "cancel"
      BY <1>6
    <3>6. QED
      BY <1>0, <1>1, <1>7, <3>1, <3>2, <3>3, <3>4, <3>5 DEF LkEntries
  <2>3. QED
    BY <2>1, <2>2 DEF LkEntries
<1>13. LkResults'
  <2> SUFFICES ASSUME NEW x \in Threads
               PROVE  /\ count'[x] = 1 => /\ pc'[x] \in {"test", "prologue", "parked"}
                                          /\ results'[x][1] = "none" /\ unparked'[x] = 0
                      /\ ~Busy(x)' => unparked'[x] = 0
                      /\ results'[x][1] # "none" =>
                           /\ Busy(x)' /\ entry'[x][results'[x][2]] # "linked"
                           /\ Visited(range'[x], results'[x][2], range'[x][2])
                           /\ pc'[x] \in {"test", "prologue"} =>
                                Visited(range'[x], results'[x][2], last'[x])
    BY DEF LkResults
  <2>1. CASE x \in G
    <3>1. results'[x][1] = what /\ results'[x][2] = q /\ count'[x] = 0 /\ Busy(x)'
      BY <1>2, <1>7, <1>9, <2>1
    <3>2. entry'[x][q] = "removed"
      BY <1>3, <2>1
    <3>3. Visited(range[x], q, last[x]) /\ Visited(range[x], q, range[x][2])
      <4>1. Visited(range[x], q, last[x]) /\ last[x] \in Nat /\ last[x] <= range[x][2]
            /\ range[x][2] \in Nat
        BY <1>0, <1>9, <2>1, LoopLemma, Zenon DEF LkTypes, LkCalls, Busy
      <4>2. QED
        BY <4>1 DEF Visited
    <3>4. QED
      BY <1>1, <3>1, <3>2, <3>3
  <2>2. CASE x \notin G
    <3>1. results'[x] = results[x] /\ count'[x] = count[x]
      BY <1>2, <2>2
    <3>2. results[x][2] \in Linked!Queues
      BY <1>0 DEF LkTypes
    <3>3. entry'[x][results[x][2]] = "linked" => entry[x][results[x][2]] = "linked"
      BY <1>3, <3>2
    <3>4. pc[x] # "wake" /\ x # t => pc'[x] = pc[x]
      BY <1>6
    <3>5. pc'[x] = pc[x] \/ (x = t /\ pc'[x] = "wake" /\ count[x] = 0)
      BY <1>6, <1>8
    <3>6. QED
      BY <1>0, <1>1, <1>7, <3>1, <3>3, <3>5 DEF LkResults
  <2>3. QED
    BY <2>1, <2>2
<1>14. LkWake'
  <2>1. \A x \in Threads : /\ pc'[x] # "wake" => wake'[x] = <<>>
                           /\ Distinct(wake'[x])
    BY <1>0, <1>5, <1>6 DEF LkWake
  <2>2. ASSUME NEW x \in Threads, NEW v \in Threads, In(x, wake'[v])
        PROVE  /\ pc'[x] \in {"test", "prologue", "parked"} /\ count'[x] = 0
               /\ unparked'[x] = 0 /\ results'[x][1] # "none"
               /\ \A w \in Threads : In(x, wake'[w]) => w = v
    <3>1. CASE x \in G
      <4>1. results'[x][1] # "none" /\ count'[x] = 0
        BY <1>2, <3>1
      <4>2. v = t /\ \A w \in Threads : In(x, wake'[w]) => w = t
        BY <1>5, <1>9, <2>2, <3>1
      <4>3. QED
        BY <1>1, <1>6, <1>9, <3>1, <4>1, <4>2
    <3>2. CASE x \notin G
      <4>1. v # t /\ In(x, wake[v]) /\ \A w \in Threads : In(x, wake'[w]) => w # t /\ In(x, wake[w])
        BY <1>5, <2>2, <3>2
      <4>2. x # t
        BY <1>8, <4>1
      <4>3. QED
        BY <1>0, <1>1, <1>2, <1>6, <3>2, <4>1, <4>2 DEF LkWake
    <3>3. QED
      BY <3>1, <3>2
  <2>3. QED
    BY <2>1, <2>2 DEF LkWake
<1>15. QED
  BY <1>1, <1>9, <1>11, <1>12, <1>13, <1>14 DEF LkKept

\* How many are served.
LEMMA ServedCount ==
  ASSUME LkTypes, NEW q \in Linked!Queues, NEW n \in Nat
  PROVE  /\ Linked!Cardinality(Linked!Served(q, n)) = Cardinality(Linked!Served(q, n))
         /\ Cardinality(Linked!Served(q, n)) \in 0..n
<1>1. PICK l : l = lists[q]
  OBVIOUS
<1>2. l \in Seq(Threads)
  BY <1>1 DEF LkTypes
<1>3. PICK L : L = {i \in 1..Len(l) : count[l[i]] = 1}
  BY Zenon
<1>4. PICK P : P = {i \in 1..Len(l) : Rank(L, i - 1) < n}
  BY Zenon
<1>5. \A A : Linked!Cardinality(A) = Cardinality(A)
  BY DEF Linked!Cardinality, Cardinality
<1>6. \A A, i : Linked!Rank(A, i) = Rank(A, i)
  BY <1>5 DEF Linked!Rank, Rank
<1>7. Linked!LiveIn(q) = L
  BY <1>1, <1>3 DEF Linked!LiveIn
<1>8. Linked!Passed(q, n) = P
  BY <1>1, <1>4, <1>6, <1>7 DEF Linked!Passed
<1>9. Linked!Served(q, n) = L \cap P
  BY <1>7, <1>8 DEF Linked!Served
<1>10. Len(l) \in Nat /\ L \in SUBSET (1..Len(l)) /\ P = Before(Len(l), L, n)
  BY <1>2, <1>3, <1>4 DEF Before
<1>11. Cardinality(L \cap P) \in 0..n
  BY <1>10, PassedLemma, Zenon
<1>12. QED
  BY <1>5, <1>9, <1>11

\* The items that are queued: a + m + 1 to a + n, in order.
LEMMA TailLemma ==
  ASSUME NEW a \in Nat, NEW n \in Nat, NEW m \in 0..n
  PROVE  LET s == [k \in 1..n - m |-> a + m + k] IN
         /\ s \in Seq(Nat) /\ Distinct(s) /\ (m = n => s = <<>>)
         /\ \A i : In(i, s) <=> i \in a + m + 1..a + n
<1> DEFINE s == [k \in 1..n - m |-> a + m + k]
<1>1. n - m \in Nat
  OBVIOUS
<1>2. s \in Seq(Nat) /\ Len(s) = n - m
  BY <1>1
<1>3. \A k \in 1..n - m : s[k] = a + m + k
  OBVIOUS
<1>4. m = n => s = <<>>
  BY <1>2
<1> HIDE DEF s
<1>5. Distinct(s)
  BY <1>2, <1>3 DEF Distinct
<1>6. ASSUME NEW i \in a + m + 1..a + n PROVE In(i, s)
  <2>1. i - a - m \in 1..n - m /\ a + m + (i - a - m) = i
    OBVIOUS
  <2>2. QED
    BY <1>2, <1>3, <2>1, Zenon DEF In
<1>7. ASSUME NEW i, In(i, s) PROVE i \in a + m + 1..a + n
  BY <1>2, <1>3, <1>7 DEF In
<1>8. QED
  BY <1>2, <1>4, <1>5, <1>6, <1>7 DEF s

LEMMA LkAddList ==
  ASSUME LkInv, NEW t \in Threads, NEW q \in Linked!Queues, NEW n \in 1..2, Linked!AddList(t, q, n)
  PROVE  LkInv'
<1>0. LkTypes /\ LkCalls /\ LkEntries /\ LkResults /\ LkWake /\ LkItems /\ LkStuck
      /\ closed \in [Linked!Queues -> BOOLEAN] /\ corrupt = FALSE
  BY DEF LkInv, LkKept
<1>1. n \in Nat /\ n >= 1
  OBVIOUS
<1>2. PICK m : m = Cardinality(Linked!Served(q, n))
  OBVIOUS
<1>3. m \in 0..n /\ Linked!Cardinality(Linked!Served(q, n)) = m
  BY <1>0, <1>1, <1>2, ServedCount
<1>4. PICK gifts : gifts = [k \in 1..n |-> added + k]
  BY Zenon
<1>5. PICK s : s = [k \in 1..n - m |-> added + m + k]
  BY Zenon
<1>6. added \in Nat /\ gone \in SUBSET Nat
  BY <1>0 DEF LkTypes
<1>7. /\ ~closed[q] /\ added' = added + n /\ Linked!Serve(t, q, "object", gifts)
      /\ UNCHANGED <<closed, gone, corrupt>>
  BY <1>4 DEF Linked!AddList
<1>8. first' = [first EXCEPT ![q] = first[q] \o s]
  BY <1>3, <1>5 DEF Linked!AddList
<1>9. gifts \in [1..n -> Nat] /\ \A j \in 1..n : gifts[j] = added + j
  BY <1>1, <1>4, <1>6
<1>10. /\ s \in Seq(Nat) /\ Distinct(s) /\ (m = n => s = <<>>)
       /\ \A i : In(i, s) <=> i \in added + m + 1..added + n
  BY <1>1, <1>3, <1>5, <1>6, TailLemma, Zenon
<1>11. first[q] \in Seq(Nat) /\ Distinct(first[q])
  BY <1>0 DEF LkTypes, LkItems
<1>12. \A i : In(i, first[q]) => i \in 1..added
  BY <1>0 DEF LkItems
<1>13. /\ first[q] \o s \in Seq(Nat)
       /\ \A i : In(i, first[q] \o s) <=> In(i, first[q]) \/ In(i, s)
       /\ (\A i : ~(In(i, first[q]) /\ In(i, s))) => Distinct(first[q] \o s)
  BY <1>10, <1>11, ConcatLemma
<1>14. \A i : ~(In(i, first[q]) /\ In(i, s))
  BY <1>3, <1>6, <1>10, <1>12
<1>15. /\ first' \in [Linked!Queues -> Seq(Nat)] /\ first'[q] = first[q] \o s
       /\ \A r \in Linked!Queues : r # q => first'[r] = first[r]
  BY <1>0, <1>8, <1>13, Zenon DEF LkTypes
<1>16. added' \in Nat /\ gone' \in SUBSET Nat
  BY <1>6, <1>7
<1>17. PICK G, R, k : Served(t, q, "object", n, gifts, G, R, k)
  BY <1>0, <1>1, <1>7, <1>9, <1>15, <1>16, ServeLemma, Zenon
<1>18. /\ LkKept'
       /\ \A x \in G : x \in Threads /\ x # t /\ results[x][1] = "none"
                       /\ pc[x] \in {"test", "prologue", "parked"}
  BY <1>1, <1>9, <1>17, ServeKept
<1>19. /\ pc[t] = "out" /\ pc' = [pc EXCEPT ![t] = "wake"]
       /\ (\A x \in G : In(x, lists[q]) /\ count[x] = 1)
       /\ \A x \in Threads :
            /\ count'[x] = (IF x \in G THEN 0 ELSE count[x])
            /\ results'[x] = (IF x \in G THEN <<"object", q>> ELSE results[x])
  BY <1>17 DEF Served
<1>20. \A x \in Threads, r \in Linked!Queues :
         channels'[x][r] = (IF r = q /\ x \in G THEN gifts[k[x]] ELSE channels[x][r])
  BY <1>17 DEF Served
<1>21. /\ \A x \in G : k[x] \in 1..m
       /\ \A x, y \in G : k[x] = k[y] => x = y
       /\ \A j \in 1..m : \E x \in G : k[x] = j
       /\ m < n => \A x \in Threads : In(x, lists[q]) /\ count[x] = 1 => x \in G
  BY <1>2, <1>17 DEF Served
<1>22. /\ \A r \in Linked!Queues : r # q => lists'[r] = lists[r]
       /\ \A x : In(x, lists'[q]) => In(x, lists[q])
  BY <1>17 DEF Served
<1>23. \A x \in Threads : pc'[x] = (IF x = t THEN "wake" ELSE pc[x])
  BY <1>0, <1>19 DEF LkTypes
<1>24. \A x \in G : x \in Threads /\ Hand(x)' /\ Item(x)' = added + k[x] /\ k[x] \in 1..m /\ ~Hand(x)
  <2> SUFFICES ASSUME NEW x \in G
               PROVE  x \in Threads /\ Hand(x)' /\ Item(x)' = added + k[x] /\ k[x] \in 1..m /\ ~Hand(x)
    OBVIOUS
  <2>1. x \in Threads /\ results'[x][1] = "object" /\ results'[x][2] = q /\ k[x] \in 1..m
        /\ x # t /\ results[x][1] = "none"
    BY <1>18, <1>19, <1>21
  <2>2. k[x] \in 1..n
    BY <1>3, <2>1
  <2>3. channels'[x][q] = added + k[x]
    BY <1>9, <1>20, <2>1, <2>2
  <2>4. pc'[x] \in {"test", "prologue", "parked"}
    BY <1>18, <1>23, <2>1
  <2>5. QED
    BY <2>1, <2>3, <2>4 DEF Hand, Item
<1>25. \A x \in Threads : x \notin G => (Hand(x)' <=> Hand(x)) /\ Item(x)' = Item(x)
  <2> SUFFICES ASSUME NEW x \in Threads, x \notin G
               PROVE  (Hand(x)' <=> Hand(x)) /\ Item(x)' = Item(x)
    OBVIOUS
  <2>1. results'[x] = results[x] /\ results[x][2] \in Linked!Queues
    BY <1>0, <1>19, Zenon DEF LkTypes
  <2>2. channels'[x][results[x][2]] = channels[x][results[x][2]]
    BY <1>20, <2>1
  <2>3. pc'[x] = pc[x] \/ (pc[x] = "out" /\ pc'[x] = "wake")
    BY <1>19, <1>23
  <2>4. QED
    BY <2>1, <2>2, <2>3 DEF Hand, Item
<1>26. \A i : Queued(i)' <=> Queued(i) \/ i \in added + m + 1..added + n
  <2>1. \A i : In(i, first'[q]) <=> In(i, first[q]) \/ i \in added + m + 1..added + n
    BY <1>10, <1>13, <1>15
  <2>2. \A i : Queued(i)' <=> \E r \in Linked!Queues : In(i, first'[r])
    BY DEF Queued
  <2>3. QED
    BY <1>15, <2>1, <2>2, Zenon DEF Queued
<1>26a. \A i : (\E r \in Linked!Queues : In(i, first'[r]))
                <=> Queued(i) \/ i \in added + m + 1..added + n
  BY <1>26 DEF Queued
<1>27. /\ \A i \in 1..added : i \in Nat /\ i <= added
       /\ \A i \in added + m + 1..added + n : i \in Nat /\ i > added + m /\ i <= added + n
       /\ \A i \in 1..added + n : i \in 1..added \/ i - added \in 1..m \/ i \in added + m + 1..added + n
  BY <1>1, <1>3, <1>6
<1>28. LkItems'
  <2>1. \A r \in Linked!Queues : Distinct(first'[r])
    BY <1>0, <1>13, <1>14, <1>15, Zenon DEF LkItems
  <2>2. \A r \in Linked!Queues : \A i : In(i, first'[r]) => i \in 1..added' /\ i \notin gone'
    <3> SUFFICES ASSUME NEW r \in Linked!Queues, NEW i, In(i, first'[r])
                 PROVE  i \in 1..added' /\ i \notin gone'
      OBVIOUS
    <3>1. CASE In(i, first[r])
      <4>1. i \in 1..added /\ i \notin gone
        BY <1>0, <3>1 DEF LkItems
      <4>2. QED
        BY <1>1, <1>6, <1>7, <4>1
    <3>2. CASE ~In(i, first[r])
      <4>1. i \in added + m + 1..added + n
        BY <1>10, <1>13, <1>15, <3>2, Zenon
      <4>2. i \notin gone
        BY <1>0, <1>3, <1>6, <4>1 DEF LkItems
      <4>3. i \in 1..added + n
        BY <1>1, <1>3, <1>6, <4>1
      <4>4. QED
        BY <1>7, <4>2, <4>3
    <3>3. QED
      BY <3>1, <3>2
  <2>3. \A r, p \in Linked!Queues : \A i : In(i, first'[r]) /\ In(i, first'[p]) => r = p
    <3> SUFFICES ASSUME NEW r \in Linked!Queues, NEW p \in Linked!Queues, NEW i,
                        In(i, first'[r]), In(i, first'[p])
                 PROVE  r = p
      OBVIOUS
    <3>1. CASE i \in 1..added
      <4>1. ~In(i, s)
        BY <1>3, <1>6, <1>10, <3>1
      <4>2. In(i, first[r]) /\ In(i, first[p])
        BY <1>13, <1>15, <4>1, Zenon
      <4>3. QED
        BY <1>0, <4>2, Zenon DEF LkItems
    <3>2. CASE i \notin 1..added
      <4>1. ~In(i, first[r]) /\ ~In(i, first[p])
        BY <1>0, <3>2 DEF LkItems
      <4>2. QED
        BY <1>15, <4>1
    <3>3. QED
      BY <3>1, <3>2
  <2>4. ASSUME NEW x \in Threads, Hand(x)'
        PROVE  /\ Item(x)' \in 1..added' /\ Item(x)' \notin gone'
               /\ ~\E r \in Linked!Queues : In(Item(x)', first'[r])
               /\ x \notin G => Item(x)' \in 1..added
    <3>1. CASE x \in G
      <4>1. Item(x)' = added + k[x] /\ k[x] \in 1..m
        BY <1>24, <3>1
      <4>2. Item(x)' \in 1..added + n /\ Item(x)' \notin 1..added /\ Item(x)' \notin added + m + 1..added + n
        BY <1>1, <1>3, <1>6, <4>1
      <4>3. Item(x)' \notin gone /\ ~Queued(Item(x)')
        BY <1>0, <4>2 DEF LkItems, Queued
      <4>4. QED
        BY <1>7, <1>26a, <3>1, <4>2, <4>3
    <3>2. CASE x \notin G
      <4>1. Hand(x) /\ Item(x)' = Item(x)
        BY <1>25, <2>4, <3>2
      <4>2. Item(x) \in 1..added /\ Item(x) \notin gone /\ ~Queued(Item(x))
        BY <1>0, <4>1 DEF LkItems
      <4>3. Item(x) \notin added + m + 1..added + n /\ Item(x) \in 1..added + n
        BY <1>1, <1>3, <1>6, <4>2
      <4>4. QED
        BY <1>7, <1>26a, <4>1, <4>2, <4>3
    <3>3. QED
      BY <3>1, <3>2
  <2>5. ASSUME NEW x \in Threads, NEW y \in Threads, Hand(x)', Hand(y)', Item(x)' = Item(y)'
        PROVE  x = y
    <3>1. CASE x \in G /\ y \in G
      <4>1. PICK kx, ky : kx = k[x] /\ ky = k[y]
        OBVIOUS
      <4>2. added + kx = added + ky /\ kx \in 1..m /\ ky \in 1..m
        BY <1>24, <2>5, <3>1, <4>1
      <4>3. kx = ky
        BY <1>3, <1>6, <4>2
      <4>4. QED
        BY <1>21, <3>1, <4>1, <4>3, Zenon
    <3>2. CASE x \notin G /\ y \notin G
      BY <1>0, <1>25, <2>5, <3>2 DEF LkItems
    <3>3. CASE x \in G /\ y \notin G
      <4>1. Item(x)' = added + k[x] /\ k[x] \in 1..m /\ Item(y)' \in 1..added
        BY <1>24, <2>4, <2>5, <3>3
      <4>2. QED
        BY <1>3, <1>6, <2>5, <4>1
    <3>4. CASE x \notin G /\ y \in G
      <4>1. Item(y)' = added + k[y] /\ k[y] \in 1..m /\ Item(x)' \in 1..added
        BY <1>24, <2>4, <2>5, <3>4
      <4>2. QED
        BY <1>3, <1>6, <2>5, <4>1
    <3>5. QED
      BY <3>1, <3>2, <3>3, <3>4
  <2>6. \A i \in gone' : i \in 1..added'
    <3>1. \A i \in gone : i \in 1..added
      BY <1>0 DEF LkItems
    <3>2. \A i \in 1..added : i \in 1..added + n
      BY <1>1, <1>6
    <3>3. QED
      BY <1>7, <3>1, <3>2
  <2>7. ASSUME NEW i \in 1..added'
        PROVE  i \in gone' \/ Queued(i)' \/ \E x \in Threads : Hand(x)' /\ Item(x)' = i
    <3>0. i \in 1..added + n
      BY <1>7, <2>7
    <3>1. CASE i \in 1..added
      <4>1. i \in gone \/ Queued(i) \/ \E x \in Threads : Hand(x) /\ Item(x) = i
        BY <1>0, <3>1 DEF LkItems
      <4>2. ASSUME NEW x \in Threads, Hand(x), Item(x) = i PROVE Hand(x)' /\ Item(x)' = i
        BY <1>24, <1>25, <4>2
      <4>3. QED
        BY <1>7, <1>26, <4>1, <4>2
    <3>2. CASE i - added \in 1..m
      <4>1. PICK x \in G : k[x] = i - added
        BY <1>21, <3>2
      <4>2. Hand(x)' /\ Item(x)' = added + k[x] /\ x \in Threads
        BY <1>24
      <4>3. added + (i - added) = i
        BY <1>1, <1>6, <3>0
      <4>4. QED
        BY <4>1, <4>2, <4>3
    <3>3. CASE i \in added + m + 1..added + n
      BY <1>26, <3>3
    <3>4. QED
      BY <1>27, <3>0, <3>1, <3>2, <3>3
  <2>8. QED
    <3>1. \A x \in Threads : Hand(x)' =>
            Item(x)' \in 1..added' /\ Item(x)' \notin gone' /\ ~Queued(Item(x))'
      BY <2>4 DEF Queued
    <3>2. QED
      BY <2>1, <2>2, <2>3, <2>5, <2>6, <2>7, <3>1, Zenon DEF LkItems
<1>29. LkStuck'
  <2> SUFFICES ASSUME NEW x \in Threads, NEW r \in Linked!Queues, In(x, lists'[r]), count'[x] = 1
               PROVE  first'[r] = <<>> /\ ~closed'[r]
    BY DEF LkStuck
  <2>1. x \notin G /\ count[x] = 1
    BY <1>19
  <2>2. In(x, lists[r])
    BY <1>22
  <2>3. first[r] = <<>> /\ ~closed[r]
    BY <1>0, <2>1, <2>2 DEF LkStuck
  <2>4. r = q => s = <<>>
    <3>1. r = q => ~(m < n)
      BY <1>21, <2>1, <2>2
    <3>2. QED
      BY <1>1, <1>3, <1>10, <3>1
  <2>5. <<>> \o <<>> = <<>>
    OBVIOUS
  <2>6. QED
    BY <1>7, <1>15, <2>3, <2>4, <2>5
<1>30. QED
  BY <1>0, <1>7, <1>18, <1>28, <1>29 DEF LkInv

\* The items of a queue.
LEMMA ItemsOf ==
  ASSUME NEW s \in Seq(Nat)
  PROVE  \A i : i \in Linked!ToSet(s) <=> In(i, s)
BY DEF Linked!ToSet, In

\* There are more offers than waiters.
LEMMA EnoughOffers ==
  ASSUME NEW t \in Threads, NEW G \in SUBSET Threads, t \notin G, NEW k,
         NEW m \in Nat, \A j \in 1..m : \E x \in G : k[x] = j, \A x \in G : k[x] \in 1..m
  PROVE  Cardinality(Threads) \in Nat /\ m < Cardinality(Threads)
<1> DEFINE f == [x \in G |-> k[x]]
<1>1. IsFiniteSet(Threads)
  BY ChannelsAssumption DEF ChannelsAssumption
<1>2. /\ IsFiniteSet(Threads \ {t}) /\ Cardinality(Threads) \in Nat
      /\ Cardinality(Threads \ {t}) = Cardinality(Threads) - 1
  BY <1>1, FS_RemoveElement, FS_CardinalityType
<1>3. G \in SUBSET (Threads \ {t})
  OBVIOUS
<1>4. IsFiniteSet(G) /\ Cardinality(G) <= Cardinality(Threads \ {t}) /\ Cardinality(G) \in Nat
  BY <1>2, <1>3, FS_Subset, FS_CardinalityType
<1>5. f \in Surjection(G, 1..m)
  BY DEF Surjection
<1>6. Cardinality(1..m) <= Cardinality(G)
  BY <1>4, <1>5, FS_Surjection
<1>7. Cardinality(1..m) = m
  BY FS_Interval
<1>8. QED
  BY <1>2, <1>4, <1>6, <1>7

LEMMA LkDispose ==
  ASSUME LkInv, NEW t \in Threads, NEW q \in Linked!Queues, Linked!Dispose(t, q)
  PROVE  LkInv'
<1>0. LkTypes /\ LkCalls /\ LkEntries /\ LkResults /\ LkWake /\ LkItems /\ LkStuck
      /\ closed \in [Linked!Queues -> BOOLEAN] /\ corrupt = FALSE
  BY DEF LkInv, LkKept
<1>1. PICK n : n = Cardinality(Threads)
  OBVIOUS
<1>2. n \in Nat
  BY <1>1, ChannelsAssumption, FS_CardinalityType DEF ChannelsAssumption
<1>3. Linked!Cardinality(Threads) = n
  BY <1>1 DEF Linked!Cardinality, Cardinality
<1>4. PICK gifts : gifts = [k \in 1..n |-> 0]
  BY Zenon
<1>5. first[q] \in Seq(Nat) /\ \A i : i \in Linked!ToSet(first[q]) <=> In(i, first[q])
  BY <1>0, ItemsOf DEF LkTypes
<1>6. PICK Q : Q = Linked!ToSet(first[q])
  OBVIOUS
<1>7. \A i : i \in Q <=> In(i, first[q])
  BY <1>5, <1>6
<1>8. /\ closed' = [closed EXCEPT ![q] = TRUE]
      /\ Linked!Serve(t, q, "disposed", gifts)
      /\ gone' = gone \cup Q /\ first' = [first EXCEPT ![q] = <<>>]
      /\ UNCHANGED <<added, corrupt>>
  BY <1>3, <1>4, <1>6 DEF Linked!Dispose
<1>9. added \in Nat /\ gone \in SUBSET Nat /\ \A i \in Q : i \in 1..added /\ i \notin gone
  BY <1>0, <1>7 DEF LkTypes, LkItems
<1>10. gifts \in [1..n -> Nat]
  BY <1>4
<1>11. /\ first' \in [Linked!Queues -> Seq(Nat)] /\ first'[q] = <<>>
       /\ \A r \in Linked!Queues : r # q => first'[r] = first[r]
  BY <1>0, <1>8 DEF LkTypes
<1>12. added' \in Nat /\ gone' \in SUBSET Nat
  <2>1. \A i \in Q : i \in Nat
    BY <1>9
  <2>2. QED
    BY <1>8, <1>9, <2>1, Zenon
<1>13. PICK G, R, k : Served(t, q, "disposed", n, gifts, G, R, k)
  BY <1>0, <1>2, <1>8, <1>10, <1>11, <1>12, ServeLemma
<1>14. /\ LkKept'
       /\ \A x \in G : x \in Threads /\ x # t /\ results[x][1] = "none"
                       /\ pc[x] \in {"test", "prologue", "parked"}
  BY <1>2, <1>10, <1>13, ServeKept
<1>15. /\ pc[t] = "out" /\ pc' = [pc EXCEPT ![t] = "wake"]
       /\ \A x \in Threads :
            /\ count'[x] = (IF x \in G THEN 0 ELSE count[x])
            /\ results'[x] = (IF x \in G THEN <<"disposed", q>> ELSE results[x])
  BY <1>13 DEF Served
<1>16. \A x \in Threads, r \in Linked!Queues :
         channels'[x][r] = (IF r = q /\ x \in G THEN gifts[k[x]] ELSE channels[x][r])
  BY <1>13 DEF Served
<1>17. PICK m : m = Cardinality(Linked!Served(q, n))
  OBVIOUS
<1>18. /\ G \in SUBSET Threads /\ m \in 0..n
       /\ \A x \in G : k[x] \in 1..m
       /\ \A j \in 1..m : \E x \in G : k[x] = j
       /\ m < n => \A x \in Threads : In(x, lists[q]) /\ count[x] = 1 => x \in G
  BY <1>13, <1>17 DEF Served
<1>19. m < n
  <2>1. t \notin G /\ m \in Nat
    BY <1>2, <1>14, <1>18
  <2>2. QED
    BY <1>1, <1>18, <2>1, EnoughOffers
<1>20. /\ \A r \in Linked!Queues : r # q => lists'[r] = lists[r]
       /\ \A x : In(x, lists'[q]) => In(x, lists[q])
  BY <1>13 DEF Served
<1>21. \A x \in Threads : pc'[x] = (IF x = t THEN "wake" ELSE pc[x])
  BY <1>0, <1>15 DEF LkTypes
<1>22. \A x \in Threads : (Hand(x)' <=> Hand(x)) /\ (Hand(x) => Item(x)' = Item(x))
  <2> SUFFICES ASSUME NEW x \in Threads
               PROVE  (Hand(x)' <=> Hand(x)) /\ (Hand(x) => Item(x)' = Item(x))
    OBVIOUS
  <2>1. CASE x \in G
    BY <1>14, <1>15, <2>1 DEF Hand
  <2>2. CASE x \notin G
    <3>1. results'[x] = results[x] /\ results[x][2] \in Linked!Queues
      BY <1>0, <1>15, <2>2, Zenon DEF LkTypes
    <3>2. channels'[x][results[x][2]] = channels[x][results[x][2]]
      BY <1>16, <2>2, <3>1
    <3>3. pc'[x] = pc[x] \/ (pc[x] = "out" /\ pc'[x] = "wake")
      BY <1>15, <1>21
    <3>4. QED
      BY <3>1, <3>2, <3>3 DEF Hand, Item
  <2>3. QED
    BY <2>1, <2>2
<1>23. \A i : Queued(i)' <=> Queued(i) /\ i \notin Q
  <2>1. \A i : Queued(i)' <=> \E r \in Linked!Queues : In(i, first'[r])
    BY DEF Queued
  <2>2. \A i : ~In(i, first'[q])
    BY <1>11, SmallStacks
  <2>3. \A i, r : r \in Linked!Queues /\ In(i, first[r]) /\ i \in Q => r = q
    BY <1>0, <1>7 DEF LkItems
  <2>4. QED
    BY <1>7, <1>11, <2>1, <2>2, <2>3, Zenon DEF Queued
<1>24. LkItems'
  <2>1. \A r \in Linked!Queues : Distinct(first'[r])
    BY <1>0, <1>11, SmallStacks, Zenon DEF LkItems
  <2>2. \A r \in Linked!Queues : \A i : In(i, first'[r]) => r # q /\ In(i, first[r]) /\ i \notin Q
    <3>1. \A i : ~In(i, first'[q])
      BY <1>11, SmallStacks
    <3>2. \A r \in Linked!Queues : r # q => \A i : In(i, first[r]) => i \notin Q
      BY <1>0, <1>7 DEF LkItems
    <3>3. QED
      BY <1>11, <3>1, <3>2
  <2>3. \A r \in Linked!Queues : \A i : In(i, first'[r]) => i \in 1..added' /\ i \notin gone'
    BY <1>0, <1>8, <2>2 DEF LkItems
  <2>4. \A r, p \in Linked!Queues : \A i : In(i, first'[r]) /\ In(i, first'[p]) => r = p
    BY <1>0, <2>2, Zenon DEF LkItems
  <2>5. \A x \in Threads : Hand(x)' =>
          Item(x)' \in 1..added' /\ Item(x)' \notin gone' /\ ~Queued(Item(x))'
    <3> SUFFICES ASSUME NEW x \in Threads, Hand(x)'
                 PROVE  Item(x)' \in 1..added' /\ Item(x)' \notin gone' /\ ~Queued(Item(x))'
      OBVIOUS
    <3>1. Item(x)' = Item(x) /\ Item(x) \in 1..added /\ Item(x) \notin gone /\ ~Queued(Item(x))
      BY <1>0, <1>22 DEF LkItems
    <3>2. Item(x) \notin Q /\ ~\E r \in Linked!Queues : In(Item(x), first'[r])
      BY <1>7, <2>2, <3>1 DEF Queued
    <3>3. ~\E r \in Linked!Queues : In(Item(x)', first'[r])
      BY <3>1, <3>2
    <3>4. ~Queued(Item(x))'
      BY <3>3 DEF Queued
    <3>5. QED
      BY <1>8, <3>1, <3>2, <3>4
  <2>6. \A x, y \in Threads : Hand(x)' /\ Hand(y)' /\ Item(x)' = Item(y)' => x = y
    BY <1>0, <1>22 DEF LkItems
  <2>7. \A i \in gone' : i \in 1..added'
    BY <1>0, <1>8, <1>9 DEF LkItems
  <2>8. \A i \in 1..added' :
          i \in gone' \/ Queued(i)' \/ \E x \in Threads : Hand(x)' /\ Item(x)' = i
    <3> SUFFICES ASSUME NEW i \in 1..added', i \notin gone', ~Queued(i)'
                 PROVE  \E x \in Threads : Hand(x)' /\ Item(x)' = i
      OBVIOUS
    <3>1. i \in 1..added /\ i \notin gone /\ i \notin Q
      BY <1>8
    <3>2. \E x \in Threads : Hand(x) /\ Item(x) = i
      BY <1>0, <1>23, <3>1 DEF LkItems
    <3>3. QED
      BY <1>22, <3>2
  <2>9. QED
    BY <2>1, <2>3, <2>4, <2>5, <2>6, <2>7, <2>8 DEF LkItems
<1>25. LkStuck'
  <2> SUFFICES ASSUME NEW x \in Threads, NEW r \in Linked!Queues, In(x, lists'[r]), count'[x] = 1
               PROVE  first'[r] = <<>> /\ ~closed'[r]
    BY DEF LkStuck
  <2>1. x \notin G /\ count[x] = 1 /\ In(x, lists[r])
    BY <1>15, <1>20
  <2>2. r # q
    BY <1>18, <1>19, <2>1
  <2>3. first[r] = <<>> /\ ~closed[r]
    BY <1>0, <2>1 DEF LkStuck
  <2>4. QED
    BY <1>0, <1>8, <1>11, <2>2, <2>3
<1>26. closed' \in [Linked!Queues -> BOOLEAN]
  BY <1>0, <1>8
<1>27. QED
  BY <1>0, <1>8, <1>14, <1>24, <1>25, <1>26 DEF LkInv

\* A thread that is in no call of TakeAnyEx, or has not initialised its parker.
LEMMA OutLemma ==
  ASSUME LkKept, NEW t \in Threads, ~Busy(t)
  PROVE  /\ count[t] = 0 /\ unparked[t] = 0 /\ results[t][1] = "none"
         /\ \A q \in Linked!Queues : entry[t][q] = "none" /\ ~In(t, lists[q])
         /\ \A v \in Threads : ~In(t, wake[v])
<1>1. LkTypes /\ LkEntries /\ LkResults /\ LkWake
  BY DEF LkKept
<1>2. count[t] \in {0, 1}
  BY <1>1 DEF LkTypes
<1>3. pc[t] \notin {"test", "prologue", "parked", "result", "cancel"}
  BY DEF Busy
<1>4. count[t] # 1
  BY <1>1, <1>3 DEF LkResults
<1>5. unparked[t] = 0 /\ results[t][1] = "none"
  BY <1>1 DEF LkResults
<1>6. \A q \in Linked!Queues : entry[t][q] = "none" /\ ~In(t, lists[q])
  BY <1>1 DEF LkEntries
<1>7. \A v \in Threads : ~In(t, wake[v])
  BY <1>1, <1>3 DEF LkWake
<1>8. QED
  BY <1>2, <1>4, <1>5, <1>6, <1>7

\* Items that leave a queue are gone; with none of them, nothing happens to the items.
LEMMA ItemsGo ==
  ASSUME LkItems, NEW q \in Linked!Queues, NEW D, \A i \in D : In(i, first[q]),
         Distinct(first'[q]), \A i : In(i, first'[q]) <=> In(i, first[q]) /\ i \notin D,
         \A r \in Linked!Queues : r # q => first'[r] = first[r],
         gone' = gone \cup D, added' = added,
         \A x \in Threads : (Hand(x)' <=> Hand(x)) /\ (Hand(x) => Item(x)' = Item(x))
  PROVE  LkItems'
<1>1. \A i \in D : i \in 1..added /\ i \notin gone /\ Queued(i)
  BY DEF LkItems, Queued
<1>2. \A i : Queued(i)' <=> \E r \in Linked!Queues : In(i, first'[r])
  BY DEF Queued
<1>3. \A r \in Linked!Queues : \A i : In(i, first'[r]) <=> In(i, first[r]) /\ i \notin D
  <2>1. \A r \in Linked!Queues : r # q => \A i : In(i, first[r]) => i \notin D
    BY DEF LkItems
  <2>2. QED
    BY <2>1
<1>4. \A r \in Linked!Queues : Distinct(first'[r])
  BY DEF LkItems
<1>5. \A r \in Linked!Queues : \A i : In(i, first'[r]) => i \in 1..added' /\ i \notin gone'
  BY <1>3 DEF LkItems
<1>6. \A r, p \in Linked!Queues : \A i : In(i, first'[r]) /\ In(i, first'[p]) => r = p
  BY <1>3 DEF LkItems
<1>7. \A x \in Threads : Hand(x)' =>
        Item(x)' \in 1..added' /\ Item(x)' \notin gone' /\ ~Queued(Item(x))'
  <2> SUFFICES ASSUME NEW x \in Threads, Hand(x)'
               PROVE  Item(x)' \in 1..added' /\ Item(x)' \notin gone' /\ ~Queued(Item(x))'
    OBVIOUS
  <2>1. Item(x)' = Item(x) /\ Item(x) \in 1..added /\ Item(x) \notin gone /\ ~Queued(Item(x))
    BY DEF LkItems
  <2>2. Item(x) \notin D /\ ~\E r \in Linked!Queues : In(Item(x), first'[r])
    BY <1>1, <1>3, <2>1 DEF Queued
  <2>3. ~\E r \in Linked!Queues : In(Item(x)', first'[r])
    BY <2>1, <2>2
  <2>4. ~Queued(Item(x))'
    BY <2>3 DEF Queued
  <2>5. QED
    BY <2>1, <2>2, <2>4
<1>8. \A x, y \in Threads : Hand(x)' /\ Hand(y)' /\ Item(x)' = Item(y)' => x = y
  BY DEF LkItems
<1>9. \A i \in gone' : i \in 1..added'
  BY <1>1 DEF LkItems
<1>10. \A i \in 1..added' :
         i \in gone' \/ Queued(i)' \/ \E x \in Threads : Hand(x)' /\ Item(x)' = i
  <2> SUFFICES ASSUME NEW i \in 1..added', i \notin gone', ~Queued(i)'
               PROVE  \E x \in Threads : Hand(x)' /\ Item(x)' = i
    OBVIOUS
  <2>1. i \in 1..added /\ i \notin gone /\ i \notin D
    OBVIOUS
  <2>2. ~Queued(i)
    BY <1>2, <1>3, <2>1 DEF Queued
  <2>3. \E x \in Threads : Hand(x) /\ Item(x) = i
    BY <2>1, <2>2 DEF LkItems
  <2>4. QED
    BY <2>3
<1>11. QED
  BY <1>4, <1>5, <1>6, <1>7, <1>8, <1>9, <1>10, Zenon DEF LkItems

LEMMA ItemsStay ==
  ASSUME LkItems, UNCHANGED <<first, gone, added>>,
         \A x \in Threads : (Hand(x)' <=> Hand(x)) /\ (Hand(x) => Item(x)' = Item(x))
  PROVE  LkItems'
<1>1. 0 \in Linked!Queues
  BY ChannelsAssumption DEF ChannelsAssumption, Linked!Queues
<1>2. Distinct(first'[0])
  BY <1>1 DEF LkItems
<1>3. PICK D : D = {}
  BY Zenon
<1>4. /\ \A i \in D : In(i, first[0])
      /\ \A i : In(i, first'[0]) <=> In(i, first[0]) /\ i \notin D
      /\ \A r \in Linked!Queues : r # 0 => first'[r] = first[r]
      /\ gone' = gone \cup D /\ added' = added
  BY <1>3
<1>5. QED
  BY <1>1, <1>2, <1>4, ItemsGo

\* A call that returns leaves no trace.
LEMMA ReturnKept ==
  ASSUME LkKept, NEW t \in Threads, pc[t] \in {"try", "cancel"}, Linked!Return(t),
         \A q \in Linked!Queues : entry[t][q] # "linked", UNCHANGED <<lists, wake>>,
         added' \in Nat, gone' \in SUBSET Nat, first' \in [Linked!Queues -> Seq(Nat)]
  PROVE  /\ LkKept' /\ \A x \in Threads : count'[x] = 1 => count[x] = 1
         /\ \A x \in Threads : (Hand(x)' <=> Hand(x)) /\ (Hand(x) => Item(x)' = Item(x))
<1>0. LkTypes /\ LkCalls /\ LkEntries /\ LkResults /\ LkWake
  BY DEF LkKept
<1>1. /\ pc' = [pc EXCEPT ![t] = "out"] /\ range' = [range EXCEPT ![t] = <<0, 0>>]
      /\ iter' = [iter EXCEPT ![t] = 0] /\ last' = [last EXCEPT ![t] = 0]
      /\ count' = [count EXCEPT ![t] = 0] /\ unparked' = [unparked EXCEPT ![t] = 0]
      /\ results' = [results EXCEPT ![t] = <<"none", 0>>]
      /\ channels' = [channels EXCEPT ![t] = [q \in Linked!Queues |-> 0]]
      /\ entry' = [entry EXCEPT ![t] = [q \in Linked!Queues |-> "none"]]
  BY DEF Linked!Return
<1>2. 0 \in Linked!Queues
  BY ChannelsAssumption DEF ChannelsAssumption, Linked!Queues
<1>3. LkTypes'
  <2>1. results' \in [Threads -> {"none", "object", "disposed"} \X Linked!Queues]
    BY <1>0, <1>1, <1>2 DEF LkTypes
  <2>2. entry' \in [Threads -> [Linked!Queues -> {"none", "linked", "removed", "unlinked"}]]
    BY <1>0, <1>1 DEF LkTypes
  <2>3. channels' \in [Threads -> [Linked!Queues -> Nat]]
    BY <1>0, <1>1 DEF LkTypes
  <2>4. /\ pc' \in [Threads -> {"out", "wake", "try", "test", "prologue", "parked", "result", "cancel"}]
        /\ range' \in [Threads -> {<<0, 0>>, <<1, 2>>, <<0, 1>>}]
    BY <1>0, <1>1, Zenon DEF LkTypes
  <2>5. /\ iter' \in [Threads -> Nat] /\ last' \in [Threads -> Nat]
        /\ count' \in [Threads -> {0, 1}] /\ unparked' \in [Threads -> {0, 1}]
    BY <1>0, <1>1 DEF LkTypes
  <2>6. QED
    BY <1>0, <2>1, <2>2, <2>3, <2>4, <2>5, Zenon DEF LkTypes
<1>4. \A x \in Threads : x # t =>
        /\ pc'[x] = pc[x] /\ range'[x] = range[x] /\ iter'[x] = iter[x] /\ last'[x] = last[x]
        /\ count'[x] = count[x] /\ unparked'[x] = unparked[x] /\ results'[x] = results[x]
        /\ channels'[x] = channels[x] /\ entry'[x] = entry[x]
  BY <1>0, <1>1 DEF LkTypes
<1>5. /\ pc'[t] = "out" /\ count'[t] = 0 /\ unparked'[t] = 0 /\ results'[t] = <<"none", 0>>
      /\ results'[t][1] = "none" /\ \A q \in Linked!Queues : entry'[t][q] = "none"
  BY <1>0, <1>1 DEF LkTypes
<1>6. ~Busy(t)' /\ \A x \in Threads : x # t => (Busy(x)' <=> Busy(x))
  BY <1>4, <1>5 DEF Busy
<1>7. LkCalls'
  <2> SUFFICES ASSUME NEW x \in Threads
               PROVE  /\ pc'[x] \notin {"out", "wake"} => range'[x] \in {<<1, 2>>, <<0, 1>>}
                      /\ pc'[x] = "try" => iter'[x] >= 1 /\ last'[x] = 0
                      /\ pc'[x] \in {"test", "prologue"} => iter'[x] = last'[x] + 1
                      /\ Busy(x)' => last'[x] <= range'[x][2]
                      /\ pc'[x] = "prologue" => iter'[x] <= range'[x][2]
                      /\ pc'[x] = "cancel" => iter'[x] >= 1
    BY DEF LkCalls
  <2>1. CASE x = t
    BY <1>5, <1>6, <2>1
  <2>2. CASE x # t
    BY <1>0, <1>4, <1>6, <2>2 DEF LkCalls
  <2>3. QED
    BY <2>1, <2>2
<1>8. LkEntries'
  <2>1. \A q \in Linked!Queues : Distinct(lists'[q])
    BY <1>0 DEF LkEntries
  <2>2. ASSUME NEW x \in Threads, NEW q \in Linked!Queues
        PROVE  /\ In(x, lists'[q]) <=> entry'[x][q] = "linked"
               /\ entry'[x][q] # "none" => Busy(x)' /\ Visited(range'[x], q, last'[x])
               /\ entry'[x][q] = "linked" /\ pc'[x] = "cancel" =>
                    \E i \in 1..last'[x] : i >= iter'[x] /\ Loop(range'[x], i) = q
               /\ entry'[x][q] = "removed" => results'[x][1] # "none" /\ results'[x][2] = q
    <3>1. CASE x = t
      BY <1>0, <1>5, <3>1 DEF LkEntries
    <3>2. CASE x # t
      <4>1. /\ In(x, lists[q]) <=> entry[x][q] = "linked"
            /\ entry[x][q] # "none" => Busy(x) /\ Visited(range[x], q, last[x])
            /\ entry[x][q] = "linked" /\ pc[x] = "cancel" =>
                 \E i \in 1..last[x] : i >= iter[x] /\ Loop(range[x], i) = q
            /\ entry[x][q] = "removed" => results[x][1] # "none" /\ results[x][2] = q
        BY <1>0 DEF LkEntries
      <4>2. lists'[q] = lists[q]
        OBVIOUS
      <4>3. QED
        BY <1>4, <1>6, <3>2, <4>1, <4>2, Zenon
    <3>3. QED
      BY <3>1, <3>2
  <2>3. QED
    BY <2>1, <2>2 DEF LkEntries
<1>9. LkResults'
  <2> SUFFICES ASSUME NEW x \in Threads
               PROVE  /\ count'[x] = 1 => /\ pc'[x] \in {"test", "prologue", "parked"}
                                          /\ results'[x][1] = "none" /\ unparked'[x] = 0
                      /\ ~Busy(x)' => unparked'[x] = 0
                      /\ results'[x][1] # "none" =>
                           /\ Busy(x)' /\ entry'[x][results'[x][2]] # "linked"
                           /\ Visited(range'[x], results'[x][2], range'[x][2])
                           /\ pc'[x] \in {"test", "prologue"} =>
                                Visited(range'[x], results'[x][2], last'[x])
    BY DEF LkResults
  <2>1. CASE x = t
    BY <1>5, <2>1
  <2>2. CASE x # t
    BY <1>0, <1>4, <1>6, <2>2 DEF LkResults
  <2>3. QED
    BY <2>1, <2>2
<1>10. LkWake'
  <2>1. \A v \in Threads : ~In(t, wake[v])
    BY <1>0 DEF LkWake
  <2>2. wake[t] = <<>>
    BY <1>0 DEF LkWake
  <2>3. \A x, u \in Threads : In(x, wake'[u]) =>
          /\ pc'[x] \in {"test", "prologue", "parked"} /\ count'[x] = 0
          /\ unparked'[x] = 0 /\ results'[x][1] # "none"
    BY <1>0, <1>4, <2>1 DEF LkWake
  <2>4. \A x \in Threads : (pc'[x] # "wake" => wake'[x] = <<>>) /\ Distinct(wake'[x])
    BY <1>0, <1>4, <2>2 DEF LkWake
  <2>5. \A x, u, v \in Threads : In(x, wake'[u]) /\ In(x, wake'[v]) => u = v
    BY <1>0 DEF LkWake
  <2>6. QED
    BY <2>3, <2>4, <2>5 DEF LkWake
<1>11. \A x \in Threads : (Hand(x)' <=> Hand(x)) /\ (Hand(x) => Item(x)' = Item(x))
  <2> SUFFICES ASSUME NEW x \in Threads
               PROVE  (Hand(x)' <=> Hand(x)) /\ (Hand(x) => Item(x)' = Item(x))
    OBVIOUS
  <2>1. CASE x = t
    BY <1>5, <2>1 DEF Hand
  <2>2. CASE x # t
    BY <1>4, <2>2 DEF Hand, Item
  <2>3. QED
    BY <2>1, <2>2
<1>12. \A x \in Threads : count'[x] = 1 => count[x] = 1
  BY <1>4, <1>5
<1>13. QED
  BY <1>3, <1>7, <1>8, <1>9, <1>10, <1>11, <1>12 DEF LkKept

\* What the invariant says of one thread.
Own(t) ==
  /\ pc[t] \notin {"out", "wake"} => range[t] \in {<<1, 2>>, <<0, 1>>}
  /\ pc[t] = "try" => iter[t] >= 1 /\ last[t] = 0
  /\ pc[t] \in {"test", "prologue"} => iter[t] = last[t] + 1
  /\ Busy(t) => last[t] <= range[t][2]
  /\ pc[t] = "prologue" => iter[t] <= range[t][2]
  /\ pc[t] = "cancel" => iter[t] >= 1
  /\ \A q \in Linked!Queues :
       /\ In(t, lists[q]) <=> entry[t][q] = "linked"
       /\ entry[t][q] # "none" => Busy(t) /\ Visited(range[t], q, last[t])
       /\ entry[t][q] = "linked" /\ pc[t] = "cancel" =>
            \E i \in 1..last[t] : i >= iter[t] /\ Loop(range[t], i) = q
       /\ entry[t][q] = "removed" => results[t][1] # "none" /\ results[t][2] = q
  /\ count[t] = 1 => /\ pc[t] \in {"test", "prologue", "parked"}
                     /\ results[t][1] = "none" /\ unparked[t] = 0
  /\ ~Busy(t) => unparked[t] = 0
  /\ results[t][1] # "none" => /\ Busy(t) /\ entry[t][results[t][2]] # "linked"
                               /\ Visited(range[t], results[t][2], range[t][2])
                               /\ pc[t] \in {"test", "prologue"} =>
                                    Visited(range[t], results[t][2], last[t])
  /\ pc[t] # "wake" => wake[t] = <<>>
  /\ \A u \in Threads :
       In(t, wake[u]) => /\ pc[t] \in {"test", "prologue", "parked"} /\ count[t] = 0
                         /\ unparked[t] = 0 /\ results[t][1] # "none"

LEMMA OwnLemma == ASSUME LkKept, NEW t \in Threads PROVE Own(t)
BY DEF LkKept, LkCalls, LkEntries, LkResults, LkWake, Own

\* What the step of t leaves alone.
OthersKept(t) ==
  /\ UNCHANGED <<wake, closed>>
  /\ \A x \in Threads : x # t =>
       /\ pc'[x] = pc[x] /\ range'[x] = range[x] /\ iter'[x] = iter[x] /\ last'[x] = last[x]
       /\ count'[x] = count[x] /\ unparked'[x] = unparked[x] /\ results'[x] = results[x]
       /\ channels'[x] = channels[x] /\ entry'[x] = entry[x]
  /\ \A q \in Linked!Queues :
       /\ Distinct(lists'[q])
       /\ first[q] = <<>> => first'[q] = <<>>
       /\ \A x \in Threads : x # t => (In(x, lists'[q]) <=> In(x, lists[q]))

\* A step that changes what is of one thread keeps what is of the others.
LEMMA OwnStep ==
  ASSUME LkKept, LkStuck, NEW t \in Threads, LkTypes', OthersKept(t), Own(t)',
         \A q \in Linked!Queues : In(t, lists'[q]) /\ count'[t] = 1 => first'[q] = <<>> /\ ~closed[q]
  PROVE  /\ LkKept' /\ LkStuck'
         /\ \A x \in Threads : x # t => (Hand(x)' <=> Hand(x)) /\ Item(x)' = Item(x)
<1>1. \A x \in Threads : Own(x)
  BY OwnLemma
<1>2. UNCHANGED <<wake, closed>>
  BY DEF OthersKept
<1>3. \A x \in Threads : x # t =>
       /\ pc'[x] = pc[x] /\ range'[x] = range[x] /\ iter'[x] = iter[x] /\ last'[x] = last[x]
       /\ count'[x] = count[x] /\ unparked'[x] = unparked[x] /\ results'[x] = results[x]
       /\ channels'[x] = channels[x] /\ entry'[x] = entry[x]
  BY DEF OthersKept
<1>4. \A q \in Linked!Queues :
       /\ Distinct(lists'[q])
       /\ first[q] = <<>> => first'[q] = <<>>
       /\ \A x \in Threads : x # t => (In(x, lists'[q]) <=> In(x, lists[q]))
  BY DEF OthersKept
<1>5. ASSUME NEW x \in Threads PROVE Own(x)'
  <2>1. CASE x = t
    BY <2>1
  <2>2. CASE x # t
    <3>1. Own(x)
      BY <1>1
    <3>2. Busy(x)' <=> Busy(x)
      BY <1>3, <2>2 DEF Busy
    <3>3. /\ pc'[x] \notin {"out", "wake"} => range'[x] \in {<<1, 2>>, <<0, 1>>}
          /\ pc'[x] = "try" => iter'[x] >= 1 /\ last'[x] = 0
          /\ pc'[x] \in {"test", "prologue"} => iter'[x] = last'[x] + 1
          /\ Busy(x)' => last'[x] <= range'[x][2]
          /\ pc'[x] = "prologue" => iter'[x] <= range'[x][2]
          /\ pc'[x] = "cancel" => iter'[x] >= 1
      BY <1>3, <2>2, <3>1, <3>2 DEF Own
    <3>4. ASSUME NEW q \in Linked!Queues
          PROVE  /\ In(x, lists'[q]) <=> entry'[x][q] = "linked"
                 /\ entry'[x][q] # "none" => Busy(x)' /\ Visited(range'[x], q, last'[x])
                 /\ entry'[x][q] = "linked" /\ pc'[x] = "cancel" =>
                      \E i \in 1..last'[x] : i >= iter'[x] /\ Loop(range'[x], i) = q
                 /\ entry'[x][q] = "removed" => results'[x][1] # "none" /\ results'[x][2] = q
      <4>1. /\ In(x, lists[q]) <=> entry[x][q] = "linked"
            /\ entry[x][q] # "none" => Busy(x) /\ Visited(range[x], q, last[x])
            /\ entry[x][q] = "linked" /\ pc[x] = "cancel" =>
                 \E i \in 1..last[x] : i >= iter[x] /\ Loop(range[x], i) = q
            /\ entry[x][q] = "removed" => results[x][1] # "none" /\ results[x][2] = q
        BY <3>1 DEF Own
      <4>2. QED
        BY <1>3, <1>4, <2>2, <3>2, <4>1
    <3>5. /\ count'[x] = 1 => /\ pc'[x] \in {"test", "prologue", "parked"}
                              /\ results'[x][1] = "none" /\ unparked'[x] = 0
          /\ ~Busy(x)' => unparked'[x] = 0
          /\ results'[x][1] # "none" => /\ Busy(x)' /\ entry'[x][results'[x][2]] # "linked"
                                        /\ Visited(range'[x], results'[x][2], range'[x][2])
                                        /\ pc'[x] \in {"test", "prologue"} =>
                                             Visited(range'[x], results'[x][2], last'[x])
      BY <1>3, <2>2, <3>1, <3>2 DEF Own
    <3>6. /\ pc'[x] # "wake" => wake'[x] = <<>>
          /\ \A u \in Threads :
               In(x, wake'[u]) => /\ pc'[x] \in {"test", "prologue", "parked"} /\ count'[x] = 0
                                  /\ unparked'[x] = 0 /\ results'[x][1] # "none"
      BY <1>2, <1>3, <2>2, <3>1 DEF Own
    <3>7. QED
      BY <3>3, <3>4, <3>5, <3>6 DEF Own
  <2>3. QED
    BY <2>1, <2>2
<1>6. LkCalls'
  BY <1>5 DEF Own, LkCalls
<1>7. LkEntries'
  <2>1. \A q \in Linked!Queues : Distinct(lists'[q])
    BY <1>4
  <2>2. ASSUME NEW x \in Threads, NEW q \in Linked!Queues
        PROVE  /\ In(x, lists'[q]) <=> entry'[x][q] = "linked"
               /\ entry'[x][q] # "none" => Busy(x)' /\ Visited(range'[x], q, last'[x])
               /\ entry'[x][q] = "linked" /\ pc'[x] = "cancel" =>
                    \E i \in 1..last'[x] : i >= iter'[x] /\ Loop(range'[x], i) = q
               /\ entry'[x][q] = "removed" => results'[x][1] # "none" /\ results'[x][2] = q
    BY <1>5 DEF Own
  <2>3. QED
    BY <2>1, <2>2 DEF LkEntries
<1>8. LkResults'
  BY <1>5 DEF Own, LkResults
<1>9. LkWake'
  <2>1. LkWake
    BY DEF LkKept
  <2>2. \A x \in Threads : Distinct(wake'[x])
    BY <1>2, <2>1 DEF LkWake
  <2>3. \A x, u, v \in Threads : In(x, wake'[u]) /\ In(x, wake'[v]) => u = v
    BY <1>2, <2>1 DEF LkWake
  <2>4. QED
    BY <1>5, <2>2, <2>3 DEF Own, LkWake
<1>10. LkStuck'
  <2> SUFFICES ASSUME NEW x \in Threads, NEW r \in Linked!Queues, In(x, lists'[r]), count'[x] = 1
               PROVE  first'[r] = <<>> /\ ~closed'[r]
    BY DEF LkStuck
  <2>1. CASE x = t
    BY <1>2, <2>1
  <2>2. CASE x # t
    <3>1. In(x, lists[r]) /\ count[x] = 1
      BY <1>3, <1>4, <2>2
    <3>2. first[r] = <<>> /\ ~closed[r]
      BY <3>1 DEF LkStuck
    <3>3. QED
      BY <1>2, <1>4, <3>2
  <2>3. QED
    BY <2>1, <2>2
<1>11. \A x \in Threads : x # t => (Hand(x)' <=> Hand(x)) /\ Item(x)' = Item(x)
  BY <1>3 DEF Hand, Item
<1>12. QED
  BY <1>6, <1>7, <1>8, <1>9, <1>10, <1>11 DEF LkKept

LEMMA LkUnpark ==
  ASSUME LkInv, NEW t \in Threads, Linked!UnparkThread(t)
  PROVE  LkInv'
<1>0. LkKept /\ LkTypes /\ LkCalls /\ LkEntries /\ LkResults /\ LkWake /\ LkItems /\ LkStuck
      /\ closed \in [Linked!Queues -> BOOLEAN] /\ corrupt = FALSE
  BY DEF LkInv, LkKept
<1>1. /\ pc[t] = "wake" /\ ~Busy(t)
      /\ UNCHANGED <<first, closed, lists, range, iter, last, count, results, entry, channels,
                     added, gone, corrupt>>
  BY DEF Linked!UnparkThread, Linked!queueVars, Linked!takeVars, Linked!blockVars,
         Linked!ghostVars, Busy
<1>2. CASE /\ wake[t] # <<>> /\ wake' = [wake EXCEPT ![t] = Tail(wake[t])]
           /\ unparked' = [unparked EXCEPT ![Head(wake[t])] = 1] /\ UNCHANGED pc
  <2>1. wake[t] \in Seq(Threads) /\ Distinct(wake[t])
    BY <1>0 DEF LkTypes, LkWake
  <2>2. PICK h : h = Head(wake[t])
    OBVIOUS
  <2>3. PICK s : s = Tail(wake[t])
    BY Zenon
  <2>4. /\ h \in Threads /\ s \in Seq(Threads) /\ Distinct(s) /\ ~In(h, s)
        /\ \A x : In(x, wake[t]) <=> x = h \/ In(x, s)
    BY <1>2, <2>1, <2>2, <2>3, PopLemma
  <2>5. /\ pc[h] \in {"test", "prologue", "parked"} /\ count[h] = 0 /\ Busy(h)
        /\ \A v \in Threads : In(h, wake[v]) => v = t
    BY <1>0, <2>4 DEF LkWake, Busy
  <2>6. /\ unparked' \in [Threads -> {0, 1}] /\ wake' \in [Threads -> Seq(Threads)]
        /\ \A x \in Threads : x # h => unparked'[x] = unparked[x]
        /\ \A x \in Threads : wake'[x] = (IF x = t THEN s ELSE wake[x])
    BY <1>0, <1>2, <2>2, <2>3, <2>4, Zenon DEF LkTypes
  <2>7. LkTypes'
    BY <1>0, <1>1, <1>2, <2>6, Zenon DEF LkTypes
  <2>8. \A x \in Threads : Busy(x)' <=> Busy(x)
    BY <1>2 DEF Busy
  <2>9. LkCalls'
    BY <1>0, <1>1, <1>2, <2>8 DEF LkCalls
  <2>10. LkEntries'
    BY <1>0, <1>1, <1>2, <2>8 DEF LkEntries
  <2>11. LkResults'
    BY <1>0, <1>1, <1>2, <2>5, <2>6, <2>8 DEF LkResults
  <2>12. \A x, u \in Threads : In(x, wake'[u]) => In(x, wake[u]) /\ x # h
    BY <2>4, <2>5, <2>6, Zenon
  <2>13. LkWake'
    <3>1. \A x \in Threads : (pc'[x] # "wake" => wake'[x] = <<>>) /\ Distinct(wake'[x])
      BY <1>0, <1>1, <1>2, <2>4, <2>6 DEF LkWake
    <3>2. \A x, u \in Threads : In(x, wake'[u]) =>
            /\ pc'[x] \in {"test", "prologue", "parked"} /\ count'[x] = 0
            /\ unparked'[x] = 0 /\ results'[x][1] # "none"
      BY <1>0, <1>1, <1>2, <2>6, <2>12 DEF LkWake
    <3>3. \A x, u, v \in Threads : In(x, wake'[u]) /\ In(x, wake'[v]) => u = v
      BY <1>0, <2>12 DEF LkWake
    <3>4. QED
      BY <3>1, <3>2, <3>3 DEF LkWake
  <2>14. LkItems'
    <3>1. \A x \in Threads : (Hand(x)' <=> Hand(x)) /\ (Hand(x) => Item(x)' = Item(x))
      BY <1>1, <1>2 DEF Hand, Item
    <3>2. QED
      BY <1>0, <1>1, <3>1, ItemsStay
  <2>15. LkStuck'
    BY <1>0, <1>1 DEF LkStuck
  <2>16. QED
    BY <1>0, <1>1, <2>7, <2>9, <2>10, <2>11, <2>13, <2>14, <2>15 DEF LkInv, LkKept
<1>3. CASE wake[t] = <<>> /\ pc' = [pc EXCEPT ![t] = "out"] /\ UNCHANGED <<wake, unparked>>
  <2>1. Own(t)
    BY <1>0, OwnLemma
  <2>2. pc'[t] = "out" /\ \A x \in Threads : x # t => pc'[x] = pc[x]
    BY <1>0, <1>3 DEF LkTypes
  <2>3. LkTypes'
    BY <1>0, <1>1, <1>3, Zenon DEF LkTypes
  <2>4. \A q \in Linked!Queues : Distinct(lists[q])
    BY <1>0 DEF LkEntries
  <2>5. OthersKept(t)
    BY <1>1, <1>3, <2>2, <2>4 DEF OthersKept
  <2>6. ~Busy(t)' /\ count[t] = 0 /\ unparked[t] = 0 /\ results[t][1] = "none"
        /\ (\A q \in Linked!Queues : entry[t][q] = "none" /\ ~In(t, lists[q]))
        /\ \A v \in Threads : ~In(t, wake[v])
    BY <1>0, <1>1, <2>2, OutLemma DEF Busy
  <2>7. Own(t)'
    BY <1>1, <1>3, <2>2, <2>6 DEF Own
  <2>8. LkKept' /\ LkStuck' /\ \A x \in Threads : x # t => (Hand(x)' <=> Hand(x)) /\ Item(x)' = Item(x)
    BY <1>0, <1>1, <2>3, <2>5, <2>6, <2>7, OwnStep
  <2>9. ~Hand(t) /\ ~Hand(t)'
    BY <1>1, <2>2 DEF Hand
  <2>10. LkItems'
    BY <1>0, <1>1, <2>8, <2>9, ItemsStay
  <2>11. QED
    BY <1>0, <1>1, <2>8, <2>10 DEF LkInv
<1>4. QED
  BY <1>2, <1>3 DEF Linked!UnparkThread

LEMMA LkTakeAnyEx ==
  ASSUME LkInv, NEW t \in Threads, Linked!TakeAnyEx(t)
  PROVE  LkInv'
<1>0. LkKept /\ LkTypes /\ LkEntries /\ LkItems /\ LkStuck
      /\ closed \in [Linked!Queues -> BOOLEAN] /\ corrupt = FALSE
  BY DEF LkInv, LkKept
<1>1. /\ pc[t] = "out" /\ pc' = [pc EXCEPT ![t] = "try"] /\ iter' = [iter EXCEPT ![t] = 1]
      /\ last' = [last EXCEPT ![t] = 0]
      /\ UNCHANGED <<first, closed, lists, count, unparked, results, entry, channels, wake,
                     added, gone, corrupt>>
  BY DEF Linked!TakeAnyEx, Linked!Step, Linked!queueVars, Linked!parkVars, Linked!blockVars,
         Linked!ghostVars
<1>2. PICK r \in {<<1, 2>>, <<0, 1>>} : range' = [range EXCEPT ![t] = r]
  BY Zenon DEF Linked!TakeAnyEx
<1>3. Own(t)
  BY <1>0, OwnLemma
<1>4. LkTypes'
  BY <1>0, <1>1, <1>2, Zenon DEF LkTypes
<1>5. /\ pc'[t] = "try" /\ iter'[t] = 1 /\ last'[t] = 0 /\ range'[t] = r
      /\ \A x \in Threads : x # t => pc'[x] = pc[x] /\ iter'[x] = iter[x] /\ last'[x] = last[x]
                                     /\ range'[x] = range[x]
  BY <1>0, <1>1, <1>2 DEF LkTypes
<1>6. OthersKept(t)
  BY <1>0, <1>1, <1>5 DEF OthersKept, LkEntries
<1>7. ~Busy(t) /\ ~Busy(t)'
  BY <1>1, <1>5 DEF Busy
<1>8. count[t] = 0 /\ unparked[t] = 0 /\ results[t][1] = "none"
      /\ (\A q \in Linked!Queues : entry[t][q] = "none" /\ ~In(t, lists[q]))
      /\ \A v \in Threads : ~In(t, wake[v])
  BY <1>0, <1>7, OutLemma
<1>9. Own(t)'
  BY <1>1, <1>3, <1>5, <1>7, <1>8 DEF Own
<1>10. LkKept' /\ LkStuck' /\ \A x \in Threads : x # t => (Hand(x)' <=> Hand(x)) /\ Item(x)' = Item(x)
  BY <1>0, <1>1, <1>4, <1>6, <1>8, <1>9, OwnStep
<1>11. ~Hand(t) /\ ~Hand(t)'
  BY <1>1, <1>5 DEF Hand
<1>12. LkItems'
  BY <1>0, <1>1, <1>10, <1>11, ItemsStay
<1>13. QED
  BY <1>0, <1>1, <1>10, <1>12 DEF LkInv

\* The items of a queue leave it.
LEMMA TakenItems ==
  ASSUME LkTypes, LkItems, NEW q \in Linked!Queues, NEW D, NEW s \in Seq(Nat), Distinct(s),
         \A i : In(i, s) <=> In(i, first[q]) /\ i \notin D, \A i \in D : In(i, first[q]),
         first' = [first EXCEPT ![q] = s], gone' = gone \cup D, added' = added,
         \A x \in Threads : (Hand(x)' <=> Hand(x)) /\ (Hand(x) => Item(x)' = Item(x))
  PROVE  LkItems'
<1>1. first'[q] = s /\ \A r \in Linked!Queues : r # q => first'[r] = first[r]
  BY DEF LkTypes
<1>2. QED
  BY <1>1, ItemsGo, Zenon

LEMMA LkTakeAll ==
  ASSUME LkInv, NEW t \in Threads, NEW q \in Linked!Queues, Linked!TakeAll(t, q)
  PROVE  LkInv'
<1>0. LkKept /\ LkTypes /\ LkEntries /\ LkCalls /\ LkResults /\ LkWake /\ LkItems /\ LkStuck
      /\ closed \in [Linked!Queues -> BOOLEAN] /\ corrupt = FALSE
  BY DEF LkInv, LkKept
<1>1. PICK Q : Q = Linked!ToSet(first[q])
  OBVIOUS
<1>2. /\ first' = [first EXCEPT ![q] = <<>>] /\ gone' = gone \cup Q
      /\ UNCHANGED <<pc, closed, lists, range, iter, last, count, unparked, results, entry,
                     channels, wake, added, corrupt>>
  BY <1>1 DEF Linked!TakeAll, Linked!takeVars, Linked!parkVars, Linked!blockVars
<1>3. \A i : i \in Q <=> In(i, first[q])
  BY <1>0, <1>1, ItemsOf DEF LkTypes
<1>4. LkItems'
  <2>1. \A x \in Threads : (Hand(x)' <=> Hand(x)) /\ (Hand(x) => Item(x)' = Item(x))
    BY <1>2 DEF Hand, Item
  <2>2. <<>> \in Seq(Nat) /\ Distinct(<<>>) /\ \A i : ~In(i, <<>>)
    BY SmallStacks
  <2>3. QED
    BY <1>0, <1>2, <1>3, <2>1, <2>2, TakenItems, Zenon
<1>5. LkKept'
  <2>1. \A i \in Q : i \in Nat
    <3>1. \A i \in Q : i \in 1..added
      BY <1>0, <1>3 DEF LkItems
    <3>2. added \in Nat
      BY <1>0 DEF LkTypes
    <3>3. QED
      BY <3>1, <3>2
  <2>2. LkTypes'
    <3>1. gone' \in SUBSET Nat /\ first' \in [Linked!Queues -> Seq(Nat)]
      <4>1. gone \in SUBSET Nat /\ first \in [Linked!Queues -> Seq(Nat)] /\ <<>> \in Seq(Nat)
        BY <1>0 DEF LkTypes
      <4>2. gone' \in SUBSET Nat
        BY <1>2, <2>1, <4>1, Zenon
      <4>3. QED
        BY <1>2, <4>1, <4>2
    <3>2. QED
      BY <1>0, <1>2, <3>1, Zenon DEF LkTypes
  <2>3. \A x \in Threads : Busy(x)' <=> Busy(x)
    BY <1>2 DEF Busy
  <2>4. LkCalls' /\ LkWake'
    BY <1>0, <1>2, <2>3 DEF LkCalls, LkWake
  <2>5. LkEntries'
    BY <1>0, <1>2, <2>3 DEF LkEntries
  <2>6. LkResults'
    BY <1>0, <1>2, <2>3 DEF LkResults
  <2>7. QED
    BY <2>2, <2>4, <2>5, <2>6 DEF LkKept
<1>6. LkStuck'
  BY <1>0, <1>2 DEF LkStuck, LkTypes
<1>7. QED
  BY <1>0, <1>2, <1>4, <1>5, <1>6 DEF LkInv

LEMMA LkTryTake ==
  ASSUME LkInv, NEW t \in Threads, Linked!TryTake(t)
  PROVE  LkInv'
<1>0. LkKept /\ LkTypes /\ LkCalls /\ LkEntries /\ LkItems /\ LkStuck
      /\ closed \in [Linked!Queues -> BOOLEAN] /\ corrupt = FALSE
  BY DEF LkInv, LkKept
<1>1. PICK q : q = Linked!At(t, iter[t])
  OBVIOUS
<1>2. /\ pc[t] = "try" /\ iter[t] <= range[t][2]
      /\ UNCHANGED <<closed, lists, wake, added, corrupt>>
  BY DEF Linked!TryTake
<1>3. \/ /\ first[q] # <<>> /\ Linked!Return(t)
         /\ gone' = gone \cup {Head(first[q])} /\ first' = [first EXCEPT ![q] = Tail(first[q])]
      \/ /\ first[q] = <<>> /\ iter' = [iter EXCEPT ![t] = iter[t] + 1]
         /\ UNCHANGED <<pc, first, gone, range, last, count, results, unparked, entry, channels>>
  BY <1>1 DEF Linked!TryTake, Linked!parkVars, Linked!blockVars
<1>4. Own(t)
  BY <1>0, OwnLemma
<1>5. q \in Linked!Queues
  <2>1. iter[t] \in Nat /\ iter[t] >= 1 /\ range[t][2] \in Nat
    BY <1>0, <1>2, LoopLemma, Zenon DEF LkTypes, LkCalls
  <2>2. iter[t] \in 1..range[t][2]
    BY <1>2, <2>1
  <2>3. QED
    BY <1>0, <1>1, <1>2, <2>2, LoopLemma
<1>6. ~Busy(t)
  BY <1>2 DEF Busy
<1>7. count[t] = 0 /\ unparked[t] = 0 /\ results[t][1] = "none"
      /\ (\A r \in Linked!Queues : entry[t][r] = "none" /\ ~In(t, lists[r]))
      /\ \A v \in Threads : ~In(t, wake[v])
  BY <1>0, <1>6, OutLemma
<1>8. CASE /\ first[q] # <<>> /\ Linked!Return(t)
           /\ gone' = gone \cup {Head(first[q])} /\ first' = [first EXCEPT ![q] = Tail(first[q])]
  <2>1. first[q] \in Seq(Nat) /\ Distinct(first[q])
    BY <1>0, <1>5 DEF LkTypes, LkItems
  <2>2. PICK h : h = Head(first[q])
    OBVIOUS
  <2>3. PICK s : s = Tail(first[q])
    BY Zenon
  <2>4. /\ h \in Nat /\ s \in Seq(Nat) /\ Distinct(s) /\ ~In(h, s)
        /\ \A i : In(i, first[q]) <=> i = h \/ In(i, s)
    BY <1>8, <2>1, <2>2, <2>3, PopLemma
  <2>5. PICK D : D = {h}
    BY Zenon
  <2>6. /\ gone' = gone \cup D /\ first' = [first EXCEPT ![q] = s]
    BY <1>8, <2>2, <2>3, <2>5
  <2>7. /\ gone' \in SUBSET Nat /\ added' \in Nat /\ first' \in [Linked!Queues -> Seq(Nat)]
        /\ first'[q] = s /\ \A r \in Linked!Queues : r # q => first'[r] = first[r]
    BY <1>0, <1>2, <1>5, <2>4, <2>5, <2>6 DEF LkTypes
  <2>8. /\ LkKept' /\ (\A x \in Threads : count'[x] = 1 => count[x] = 1)
        /\ \A x \in Threads : (Hand(x)' <=> Hand(x)) /\ (Hand(x) => Item(x)' = Item(x))
    BY <1>0, <1>2, <1>7, <1>8, <2>7, ReturnKept, Zenon
  <2>9. (\A i : In(i, s) <=> In(i, first[q]) /\ i \notin D) /\ \A i \in D : In(i, first[q])
    BY <2>4, <2>5
  <2>10. LkItems'
    BY <1>0, <1>2, <1>5, <2>4, <2>6, <2>8, <2>9, TakenItems, Zenon
  <2>11. LkStuck'
    <3> SUFFICES ASSUME NEW x \in Threads, NEW r \in Linked!Queues, In(x, lists'[r]), count'[x] = 1
                 PROVE  first'[r] = <<>> /\ ~closed'[r]
      BY DEF LkStuck
    <3>1. first[r] = <<>> /\ ~closed[r]
      BY <1>0, <1>2, <2>8 DEF LkStuck
    <3>2. QED
      BY <1>2, <1>8, <2>7, <3>1
  <2>12. QED
    BY <1>0, <1>2, <2>8, <2>10, <2>11 DEF LkInv
<1>9. CASE /\ first[q] = <<>> /\ iter' = [iter EXCEPT ![t] = iter[t] + 1]
           /\ UNCHANGED <<pc, first, gone, range, last, count, results, unparked, entry, channels>>
  <2>0. iter[t] \in Nat /\ iter[t] >= 1
    BY <1>0, <1>2 DEF LkTypes, LkCalls
  <2>1. iter' \in [Threads -> Nat] /\ iter'[t] = iter[t] + 1
        /\ \A x \in Threads : x # t => iter'[x] = iter[x]
    BY <1>0, <1>9, <2>0 DEF LkTypes
  <2>2. LkTypes'
    BY <1>0, <1>2, <1>9, <2>1, Zenon DEF LkTypes
  <2>3. OthersKept(t)
    BY <1>0, <1>2, <1>9, <2>1 DEF OthersKept, LkEntries
  <2>4. ~Busy(t)' /\ iter'[t] >= 1
    BY <1>6, <1>9, <2>0, <2>1 DEF Busy
  <2>5. Own(t)'
    BY <1>2, <1>4, <1>6, <1>7, <1>9, <2>4 DEF Own
  <2>6. \A r \in Linked!Queues : ~(In(t, lists'[r]) /\ count'[t] = 1)
    BY <1>7, <1>9
  <2>7. LkKept' /\ LkStuck' /\ \A x \in Threads : x # t => (Hand(x)' <=> Hand(x)) /\ Item(x)' = Item(x)
    BY <1>0, <2>2, <2>3, <2>5, <2>6, OwnStep
  <2>8. ~Hand(t) /\ ~Hand(t)'
    BY <1>2, <1>9 DEF Hand
  <2>9. LkItems'
    BY <1>0, <1>2, <1>9, <2>7, <2>8, ItemsStay
  <2>10. QED
    BY <1>0, <1>2, <2>7, <2>9 DEF LkInv
<1>10. QED
  BY <1>3, <1>8, <1>9

LEMMA LkParker ==
  ASSUME LkInv, NEW t \in Threads, Linked!InitializeParker(t)
  PROVE  LkInv'
<1>0. LkKept /\ LkTypes /\ LkCalls /\ LkEntries /\ LkItems /\ LkStuck
      /\ closed \in [Linked!Queues -> BOOLEAN] /\ corrupt = FALSE
  BY DEF LkInv, LkKept
<1>1. /\ pc[t] = "try" /\ pc' = [pc EXCEPT ![t] = "test"] /\ iter' = [iter EXCEPT ![t] = 1]
      /\ count' = [count EXCEPT ![t] = 1]
      /\ UNCHANGED <<first, closed, lists, range, last, unparked, results, entry, channels, wake,
                     added, gone, corrupt>>
  BY DEF Linked!InitializeParker, Linked!Step, Linked!queueVars, Linked!blockVars,
         Linked!ghostVars
<1>2. Own(t)
  BY <1>0, OwnLemma
<1>3. LkTypes'
  BY <1>0, <1>1, Zenon DEF LkTypes
<1>4. /\ pc'[t] = "test" /\ iter'[t] = 1 /\ count'[t] = 1
      /\ \A x \in Threads : x # t => pc'[x] = pc[x] /\ iter'[x] = iter[x] /\ count'[x] = count[x]
  BY <1>0, <1>1 DEF LkTypes
<1>5. OthersKept(t)
  BY <1>0, <1>1, <1>4 DEF OthersKept, LkEntries
<1>6. ~Busy(t) /\ Busy(t)'
  BY <1>1, <1>4 DEF Busy
<1>7. count[t] = 0 /\ unparked[t] = 0 /\ results[t][1] = "none"
      /\ (\A q \in Linked!Queues : entry[t][q] = "none" /\ ~In(t, lists[q]))
      /\ \A v \in Threads : ~In(t, wake[v])
  BY <1>0, <1>6, OutLemma, SMTT(30)
<1>8. last[t] = 0 /\ range[t] \in {<<1, 2>>, <<0, 1>>} /\ range[t][2] \in Nat /\ wake[t] = <<>>
  BY <1>0, <1>1, <1>2, LoopLemma DEF Own
<1>9. Own(t)'
  BY <1>1, <1>4, <1>6, <1>7, <1>8 DEF Own
<1>10. LkKept' /\ LkStuck' /\ \A x \in Threads : x # t => (Hand(x)' <=> Hand(x)) /\ Item(x)' = Item(x)
  <2>1. \A q \in Linked!Queues : ~In(t, lists'[q])
    BY <1>1, <1>7
  <2>2. QED
    BY <1>0, <1>3, <1>5, <1>9, <2>1, OwnStep
<1>11. ~Hand(t) /\ ~Hand(t)'
  BY <1>1, <1>7 DEF Hand
<1>12. LkItems'
  BY <1>0, <1>1, <1>10, <1>11, ItemsStay
<1>13. QED
  BY <1>0, <1>1, <1>10, <1>12, SMTT(30) DEF LkInv

LEMMA LkLoopTest ==
  ASSUME LkInv, NEW t \in Threads, Linked!LoopTest(t)
  PROVE  LkInv'
<1>0. LkKept /\ LkTypes /\ LkCalls /\ LkEntries /\ LkItems /\ LkStuck
      /\ closed \in [Linked!Queues -> BOOLEAN] /\ corrupt = FALSE
  BY DEF LkInv, LkKept
<1>1. PICK to \in {"prologue", "parked"} :
        to = IF count[t] = 1 /\ iter[t] <= range[t][2] THEN "prologue" ELSE "parked"
  OBVIOUS
<1>2. /\ pc[t] = "test" /\ pc' = [pc EXCEPT ![t] = to]
      /\ UNCHANGED <<first, closed, lists, range, iter, last, count, unparked, results, entry,
                     channels, wake, added, gone, corrupt>>
  BY <1>1 DEF Linked!LoopTest, Linked!Step, Linked!queueVars, Linked!takeVars, Linked!parkVars,
         Linked!blockVars, Linked!ghostVars
<1>3. Own(t)
  BY <1>0, OwnLemma
<1>4. LkTypes'
  BY <1>0, <1>2, Zenon DEF LkTypes
<1>5. pc'[t] = to /\ \A x \in Threads : x # t => pc'[x] = pc[x]
  BY <1>0, <1>2 DEF LkTypes
<1>6. OthersKept(t)
  BY <1>0, <1>2, <1>5 DEF OthersKept, LkEntries
<1>7. Busy(t) /\ Busy(t)'
  BY <1>2, <1>5 DEF Busy
<1>8. Own(t)'
  BY <1>1, <1>2, <1>3, <1>5, <1>7 DEF Own
<1>9. LkKept' /\ LkStuck' /\ \A x \in Threads : x # t => (Hand(x)' <=> Hand(x)) /\ Item(x)' = Item(x)
  <2>1. \A q \in Linked!Queues : In(t, lists'[q]) /\ count'[t] = 1 => first'[q] = <<>> /\ ~closed[q]
    BY <1>0, <1>2 DEF LkStuck
  <2>2. QED
    BY <1>0, <1>4, <1>6, <1>8, <2>1, OwnStep
<1>10. (Hand(t)' <=> Hand(t)) /\ Item(t)' = Item(t)
  BY <1>2, <1>5 DEF Hand, Item
<1>11. LkItems'
  BY <1>0, <1>2, <1>9, <1>10, ItemsStay
<1>12. QED
  BY <1>0, <1>2, <1>9, <1>11 DEF LkInv

LEMMA LkParked ==
  ASSUME LkInv, NEW t \in Threads, Linked!Cancelled(t) \/ Linked!Unparked(t)
  PROVE  LkInv'
<1>0. LkKept /\ LkTypes /\ LkCalls /\ LkEntries /\ LkItems /\ LkStuck
      /\ closed \in [Linked!Queues -> BOOLEAN] /\ corrupt = FALSE
  BY DEF LkInv, LkKept
<1>1. /\ pc[t] = "parked" /\ pc' = [pc EXCEPT ![t] = "result"]
      /\ count[t] = 1 \/ unparked[t] = 1
      /\ count' = [count EXCEPT ![t] = 0] \/ UNCHANGED count
      /\ UNCHANGED <<first, closed, lists, range, iter, last, unparked, results, entry, channels,
                     wake, added, gone, corrupt>>
  BY DEF Linked!Cancelled, Linked!Unparked, Linked!Step, Linked!queueVars, Linked!takeVars,
         Linked!parkVars, Linked!blockVars, Linked!ghostVars
<1>2. Own(t)
  BY <1>0, OwnLemma
<1>3. count[t] \in {0, 1} /\ (unparked[t] = 1 => count[t] = 0)
  BY <1>0, <1>2, Zenon DEF LkTypes, Own
<1>4. count'[t] = 0 /\ \A x \in Threads : x # t => count'[x] = count[x]
  <2>1. CASE Linked!Cancelled(t)
    BY <1>0, <2>1 DEF Linked!Cancelled, LkTypes
  <2>2. CASE Linked!Unparked(t)
    BY <1>3, <2>2 DEF Linked!Unparked, Linked!parkVars
  <2>3. QED
    BY <2>1, <2>2
<1>5. LkTypes'
  BY <1>0, <1>1, Zenon DEF LkTypes
<1>6. pc'[t] = "result" /\ \A x \in Threads : x # t => pc'[x] = pc[x]
  BY <1>0, <1>1 DEF LkTypes
<1>7. OthersKept(t)
  BY <1>0, <1>1, <1>4, <1>6 DEF OthersKept, LkEntries
<1>8. Busy(t) /\ Busy(t)'
  BY <1>1, <1>6 DEF Busy
<1>9. \A u \in Threads : ~In(t, wake[u])
  BY <1>1, <1>2, <1>3 DEF Own
<1>10. Own(t)'
  BY <1>1, <1>2, <1>4, <1>6, <1>8, <1>9 DEF Own
<1>11. LkKept' /\ LkStuck' /\ \A x \in Threads : x # t => (Hand(x)' <=> Hand(x)) /\ Item(x)' = Item(x)
  BY <1>0, <1>4, <1>5, <1>7, <1>10, OwnStep
<1>12. (Hand(t)' <=> Hand(t)) /\ Item(t)' = Item(t)
  BY <1>1, <1>6 DEF Hand, Item
<1>13. LkItems'
  BY <1>0, <1>1, <1>11, <1>12, ItemsStay
<1>14. QED
  BY <1>0, <1>1, <1>11, <1>13 DEF LkInv

\* The queue of this loop has not been visited before.
LEMMA ThisLoop ==
  ASSUME LkTypes, LkCalls, NEW t \in Threads, pc[t] = "prologue"
  PROVE  /\ Linked!At(t, iter[t]) \in Linked!Queues
         /\ iter[t] \in 1..range[t][2] /\ range[t][2] \in Nat /\ last[t] \in Nat
         /\ iter[t] = last[t] + 1
         /\ Loop(range[t], iter[t]) = Linked!At(t, iter[t])
         /\ ~Visited(range[t], Linked!At(t, iter[t]), last[t])
<1>1. /\ range[t][2] \in Nat
      /\ \A i \in 1..range[t][2] : Loop(range[t], i) \in Linked!Queues
      /\ \A i, j \in 1..range[t][2] : Loop(range[t], i) = Loop(range[t], j) => i = j
      /\ \A i : Linked!At(t, i) = Loop(range[t], i)
  BY LoopLemma
<1>2. iter[t] \in Nat /\ last[t] \in Nat /\ iter[t] = last[t] + 1 /\ iter[t] <= range[t][2]
  BY DEF LkTypes, LkCalls
<1>3. iter[t] \in 1..range[t][2] /\ \A i \in 1..last[t] : i \in 1..range[t][2] /\ i # iter[t]
  BY <1>1, <1>2
<1>4. ~Visited(range[t], Linked!At(t, iter[t]), last[t])
  BY <1>1, <1>3 DEF Visited
<1>5. QED
  BY <1>1, <1>2, <1>3, <1>4

LEMMA LkInserts ==
  ASSUME LkInv, NEW t \in Threads, Linked!PrologueInserts(t)
  PROVE  LkInv'
<1>0. LkKept /\ LkTypes /\ LkCalls /\ LkEntries /\ LkItems /\ LkStuck
      /\ closed \in [Linked!Queues -> BOOLEAN] /\ corrupt = FALSE
  BY DEF LkInv, LkKept
<1>1. PICK q : q = Linked!At(t, iter[t])
  OBVIOUS
<1>2. /\ pc[t] = "prologue" /\ pc' = [pc EXCEPT ![t] = "test"] /\ first[q] = <<>> /\ ~closed[q]
      /\ lists' = [lists EXCEPT ![q] = IF lifo THEN <<t>> \o lists[q] ELSE Append(lists[q], t)]
      /\ entry' = [entry EXCEPT ![t][q] = "linked"]
      /\ last' = [last EXCEPT ![t] = iter[t]] /\ iter' = [iter EXCEPT ![t] = iter[t] + 1]
      /\ UNCHANGED <<first, closed, range, count, unparked, results, channels, wake, added, gone,
                     corrupt>>
  BY <1>1 DEF Linked!PrologueInserts, Linked!Step, Linked!parkVars, Linked!ghostVars
<1>3. Own(t)
  BY <1>0, OwnLemma
<1>4. /\ q \in Linked!Queues /\ iter[t] \in 1..range[t][2] /\ range[t][2] \in Nat
      /\ last[t] \in Nat /\ iter[t] = last[t] + 1 /\ Loop(range[t], iter[t]) = q
      /\ ~Visited(range[t], q, last[t])
  BY <1>0, <1>1, <1>2, ThisLoop
<1>5. entry[t][q] = "none" /\ ~In(t, lists[q])
  BY <1>0, <1>4 DEF LkEntries
<1>6. PICK s : s = IF lifo THEN <<t>> \o lists[q] ELSE Append(lists[q], t)
  BY Zenon
<1>7. s \in Seq(Threads) /\ Distinct(s) /\ \A x : In(x, s) <=> x = t \/ In(x, lists[q])
  <2>1. lists[q] \in Seq(Threads) /\ Distinct(lists[q])
    BY <1>0, <1>4 DEF LkTypes, LkEntries
  <2>2. CASE lifo
    BY <1>5, <1>6, <2>1, <2>2, PushLemma
  <2>3. CASE ~lifo
    BY <1>5, <1>6, <2>1, <2>3, AppendLemma
  <2>4. QED
    BY <2>2, <2>3
<1>8. /\ lists' \in [Linked!Queues -> Seq(Threads)] /\ lists'[q] = s
      /\ \A r \in Linked!Queues : r # q => lists'[r] = lists[r]
  BY <1>0, <1>2, <1>4, <1>6, <1>7 DEF LkTypes
<1>9. /\ entry' \in [Threads -> [Linked!Queues -> {"none", "linked", "removed", "unlinked"}]]
      /\ \A x \in Threads : x # t => entry'[x] = entry[x]
      /\ \A r \in Linked!Queues : entry'[t][r] = IF r = q THEN "linked" ELSE entry[t][r]
  <2>1. entry[t] \in [Linked!Queues -> {"none", "linked", "removed", "unlinked"}]
    BY <1>0 DEF LkTypes
  <2>2. PICK e : e = [entry[t] EXCEPT ![q] = "linked"]
    BY Zenon
  <2>3. entry' = [entry EXCEPT ![t] = e]
    BY <1>2, <2>2
  <2>4. e \in [Linked!Queues -> {"none", "linked", "removed", "unlinked"}]
        /\ \A r \in Linked!Queues : e[r] = IF r = q THEN "linked" ELSE entry[t][r]
    BY <1>4, <2>1, <2>2
  <2>5. QED
    BY <1>0, <2>3, <2>4 DEF LkTypes
<1>10. /\ pc'[t] = "test" /\ iter'[t] = iter[t] + 1 /\ last'[t] = iter[t]
       /\ iter' \in [Threads -> Nat] /\ last' \in [Threads -> Nat]
       /\ \A x \in Threads : x # t => pc'[x] = pc[x] /\ iter'[x] = iter[x] /\ last'[x] = last[x]
  BY <1>0, <1>2, <1>4, SMTT(30) DEF LkTypes
<1>11. LkTypes'
  BY <1>0, <1>2, <1>8, <1>9, <1>10, Zenon DEF LkTypes
<1>12. OthersKept(t)
  <2>1. \A r \in Linked!Queues :
          /\ Distinct(lists'[r])
          /\ \A x \in Threads : x # t => (In(x, lists'[r]) <=> In(x, lists[r]))
    BY <1>0, <1>7, <1>8 DEF LkEntries
  <2>2. QED
    BY <1>2, <1>9, <1>10, <2>1 DEF OthersKept
<1>13. Busy(t) /\ Busy(t)'
  BY <1>2, <1>10 DEF Busy
<1>14. /\ Visited(range[t], q, iter[t])
       /\ \A r : Visited(range[t], r, last[t]) => Visited(range[t], r, iter[t])
  BY <1>4 DEF Visited
<1>15. Own(t)'
  <2>1. ASSUME NEW r \in Linked!Queues
        PROVE  /\ In(t, lists'[r]) <=> entry'[t][r] = "linked"
               /\ entry'[t][r] # "none" => Visited(range'[t], r, last'[t])
               /\ entry'[t][r] = "removed" => results'[t][1] # "none" /\ results'[t][2] = r
    <3>1. /\ In(t, lists[r]) <=> entry[t][r] = "linked"
          /\ entry[t][r] # "none" => Visited(range[t], r, last[t])
          /\ entry[t][r] = "removed" => results[t][1] # "none" /\ results[t][2] = r
      BY <1>3 DEF Own
    <3>2. CASE r = q
      BY <1>2, <1>7, <1>8, <1>9, <1>10, <1>14, <3>2, Zenon
    <3>3. CASE r # q
      BY <1>2, <1>8, <1>9, <1>10, <1>14, <3>1, <3>3
    <3>4. QED
      BY <3>2, <3>3
  <2>2. results'[t][1] # "none" => /\ entry'[t][results'[t][2]] # "linked"
                                   /\ Visited(range'[t], results'[t][2], range'[t][2])
                                   /\ Visited(range'[t], results'[t][2], last'[t])
    <3>1. results[t][1] # "none" => /\ entry[t][results[t][2]] # "linked"
                                    /\ Visited(range[t], results[t][2], range[t][2])
                                    /\ Visited(range[t], results[t][2], last[t])
      BY <1>2, <1>3 DEF Own
    <3>2. results[t][2] \in Linked!Queues
      BY <1>0 DEF LkTypes
    <3>3. results[t][1] # "none" => results[t][2] # q
      BY <1>4, <3>1
    <3>4. QED
      BY <1>2, <1>9, <1>10, <1>14, <3>1, <3>2, <3>3
  <2>3. /\ range'[t] \in {<<1, 2>>, <<0, 1>>} /\ iter'[t] = last'[t] + 1
        /\ last'[t] <= range'[t][2] /\ wake'[t] = <<>>
    BY <1>2, <1>3, <1>4, <1>10 DEF Own
  <2>4. /\ count'[t] = 1 => results'[t][1] = "none" /\ unparked'[t] = 0
        /\ \A u \in Threads : In(t, wake'[u]) => /\ count'[t] = 0 /\ unparked'[t] = 0
                                                 /\ results'[t][1] # "none"
    BY <1>2, <1>3 DEF Own
  <2>5. QED
    BY <1>10, <1>13, <2>1, <2>2, <2>3, <2>4 DEF Own
<1>16. \A r \in Linked!Queues : In(t, lists'[r]) /\ count'[t] = 1 => first'[r] = <<>> /\ ~closed[r]
  BY <1>0, <1>2, <1>8 DEF LkStuck
<1>17. LkKept' /\ LkStuck' /\ \A x \in Threads : x # t => (Hand(x)' <=> Hand(x)) /\ Item(x)' = Item(x)
  BY <1>0, <1>11, <1>12, <1>15, <1>16, OwnStep
<1>18. (Hand(t)' <=> Hand(t)) /\ Item(t)' = Item(t)
  BY <1>2, <1>10 DEF Hand, Item
<1>19. LkItems'
  BY <1>0, <1>2, <1>17, <1>18, ItemsStay
<1>20. QED
  BY <1>0, <1>2, <1>17, <1>19 DEF LkInv

\* An item goes from the head of a queue into the hands of t.
LEMMA ItemsTaken ==
  ASSUME LkItems, NEW t \in Threads, ~Hand(t), Hand(t)', NEW q \in Linked!Queues, NEW h,
         NEW s \in Seq(Nat), Item(t)' = h, Distinct(s), ~In(h, s),
         \A i : In(i, first[q]) <=> i = h \/ In(i, s),
         first'[q] = s, \A r \in Linked!Queues : r # q => first'[r] = first[r],
         UNCHANGED <<gone, added>>,
         \A x \in Threads : x # t => (Hand(x)' <=> Hand(x)) /\ Item(x)' = Item(x)
  PROVE  LkItems'
<1>1. In(h, first[q]) /\ h \in 1..added /\ h \notin gone /\ Queued(h)
  BY DEF LkItems, Queued
<1>2. \A r \in Linked!Queues : \A i : In(i, first'[r]) <=> In(i, first[r]) /\ i # h
  <2>1. \A r \in Linked!Queues : r # q => ~In(h, first[r])
    BY <1>1, Zenon DEF LkItems
  <2>2. QED
    BY <2>1
<1>3. \A i : Queued(i)' <=> \E r \in Linked!Queues : In(i, first'[r])
  BY DEF Queued
<1>4. \A r \in Linked!Queues : Distinct(first'[r])
  BY DEF LkItems
<1>5. \A r \in Linked!Queues : \A i : In(i, first'[r]) => i \in 1..added' /\ i \notin gone'
  BY <1>2 DEF LkItems
<1>6. \A r, p \in Linked!Queues : \A i : In(i, first'[r]) /\ In(i, first'[p]) => r = p
  BY <1>2 DEF LkItems
<1>7. \A x \in Threads : x # t /\ Hand(x) => Item(x) # h
  BY <1>1 DEF LkItems
<1>8. \A x \in Threads : Hand(x)' =>
        Item(x)' \in 1..added' /\ Item(x)' \notin gone' /\ ~Queued(Item(x))'
  <2> SUFFICES ASSUME NEW x \in Threads, Hand(x)'
               PROVE  Item(x)' \in 1..added' /\ Item(x)' \notin gone' /\ ~Queued(Item(x))'
    OBVIOUS
  <2>1. PICK i : i = Item(x)'
    OBVIOUS
  <2>2. i \in 1..added /\ i \notin gone /\ ~\E r \in Linked!Queues : In(i, first'[r])
    <3>1. CASE x = t
      BY <1>1, <1>2, <2>1, <3>1
    <3>2. CASE x # t
      <4>1. i = Item(x) /\ Hand(x)
        BY <2>1, <3>2
      <4>2. i \in 1..added /\ i \notin gone /\ ~Queued(i)
        BY <4>1 DEF LkItems
      <4>3. QED
        BY <1>2, <4>2 DEF Queued
    <3>3. QED
      BY <3>1, <3>2
  <2>3. ~\E r \in Linked!Queues : In(Item(x)', first'[r])
    BY <2>1, <2>2
  <2>4. ~Queued(Item(x))'
    BY <2>3 DEF Queued
  <2>5. QED
    BY <2>1, <2>2, <2>4
<1>9. \A x, y \in Threads : Hand(x)' /\ Hand(y)' /\ Item(x)' = Item(y)' => x = y
  BY <1>7 DEF LkItems
<1>10. \A i \in gone' : i \in 1..added'
  BY DEF LkItems
<1>11. \A i \in 1..added' :
         i \in gone' \/ Queued(i)' \/ \E x \in Threads : Hand(x)' /\ Item(x)' = i
  <2> SUFFICES ASSUME NEW i \in 1..added', i \notin gone', ~Queued(i)'
               PROVE  \E x \in Threads : Hand(x)' /\ Item(x)' = i
    OBVIOUS
  <2>1. CASE i = h
    BY <2>1
  <2>2. CASE i # h
    <3>1. ~Queued(i)
      BY <1>2, <1>3, <2>2 DEF Queued
    <3>2. PICK x \in Threads : Hand(x) /\ Item(x) = i
      BY <3>1 DEF LkItems
    <3>3. x # t
      BY <3>2
    <3>4. QED
      BY <3>2, <3>3
  <2>3. QED
    BY <2>1, <2>2
<1>12. QED
  BY <1>4, <1>5, <1>6, <1>8, <1>9, <1>10, <1>11, Zenon DEF LkItems

LEMMA LkServes ==
  ASSUME LkInv, NEW t \in Threads, Linked!PrologueServes(t)
  PROVE  LkInv'
<1>0. LkKept /\ LkTypes /\ LkCalls /\ LkEntries /\ LkItems /\ LkStuck
      /\ closed \in [Linked!Queues -> BOOLEAN] /\ corrupt = FALSE
  BY DEF LkInv, LkKept
<1>1. PICK q : q = Linked!At(t, iter[t])
  OBVIOUS
<1>2. /\ pc[t] = "prologue" /\ pc' = [pc EXCEPT ![t] = "parked"]
      /\ UNCHANGED <<closed, lists, range, iter, last, entry, wake, added, gone, corrupt>>
  BY DEF Linked!PrologueServes, Linked!Step, Linked!takeVars, Linked!ghostVars
<1>3. \/ count[t] = 0 /\ UNCHANGED <<first, channels, count, results, unparked>>
      \/ /\ count[t] = 1 /\ count' = [count EXCEPT ![t] = 0]
         /\ unparked' = [unparked EXCEPT ![t] = 1]
         /\ \/ /\ first[q] # <<>> /\ first' = [first EXCEPT ![q] = Tail(first[q])]
               /\ channels' = [channels EXCEPT ![t][q] = Head(first[q])]
               /\ results' = [results EXCEPT ![t] = <<"object", q>>]
            \/ /\ first[q] = <<>> /\ UNCHANGED first
               /\ channels' = [channels EXCEPT ![t][q] = 0]
               /\ results' = [results EXCEPT ![t] = <<"disposed", q>>]
  BY <1>1 DEF Linked!PrologueServes, Linked!parkVars
<1>4. Own(t)
  BY <1>0, OwnLemma
<1>5. /\ q \in Linked!Queues /\ iter[t] \in 1..range[t][2] /\ range[t][2] \in Nat
      /\ last[t] \in Nat /\ iter[t] = last[t] + 1 /\ Loop(range[t], iter[t]) = q
      /\ ~Visited(range[t], q, last[t])
  BY <1>0, <1>1, <1>2, ThisLoop
<1>6. entry[t][q] = "none" /\ ~In(t, lists[q])
  BY <1>0, <1>5 DEF LkEntries
<1>7. pc'[t] = "parked" /\ \A x \in Threads : x # t => pc'[x] = pc[x]
  BY <1>0, <1>2 DEF LkTypes
<1>8. Busy(t) /\ Busy(t)'
  BY <1>2, <1>7 DEF Busy
<1>9. CASE count[t] = 0 /\ UNCHANGED <<first, channels, count, results, unparked>>
  <2>1. LkTypes'
    BY <1>0, <1>2, <1>9, Zenon DEF LkTypes
  <2>2. OthersKept(t)
    BY <1>0, <1>2, <1>7, <1>9 DEF OthersKept, LkEntries
  <2>3. Own(t)'
    BY <1>2, <1>4, <1>7, <1>8, <1>9 DEF Own
  <2>4. count'[t] = 0
    BY <1>9
  <2>5. LkKept' /\ LkStuck' /\ \A x \in Threads : x # t => (Hand(x)' <=> Hand(x)) /\ Item(x)' = Item(x)
    BY <1>0, <2>1, <2>2, <2>3, <2>4, OwnStep
  <2>6. (Hand(t)' <=> Hand(t)) /\ Item(t)' = Item(t)
    BY <1>2, <1>7, <1>9 DEF Hand, Item
  <2>7. LkItems'
    BY <1>0, <1>2, <1>9, <2>5, <2>6, ItemsStay
  <2>8. QED
    BY <1>0, <1>2, <2>5, <2>7 DEF LkInv
<1>10. CASE count[t] = 1
  <2>1. /\ count' = [count EXCEPT ![t] = 0] /\ unparked' = [unparked EXCEPT ![t] = 1]
        /\ results[t][1] = "none" /\ \A u \in Threads : ~In(t, wake[u])
    BY <1>3, <1>4, <1>10 DEF Own
  <2>2. PICK what \in {"object", "disposed"}, h \in Nat :
          /\ channels' = [channels EXCEPT ![t][q] = h]
          /\ results' = [results EXCEPT ![t] = <<what, q>>]
          /\ what = "object" => /\ first[q] # <<>> /\ h = Head(first[q])
                                /\ first' = [first EXCEPT ![q] = Tail(first[q])]
          /\ what = "disposed" => UNCHANGED first
    <3>1. CASE /\ first[q] # <<>> /\ first' = [first EXCEPT ![q] = Tail(first[q])]
               /\ channels' = [channels EXCEPT ![t][q] = Head(first[q])]
               /\ results' = [results EXCEPT ![t] = <<"object", q>>]
      <4>1. first[q] \in Seq(Nat)
        BY <1>0, <1>5 DEF LkTypes
      <4>2. Head(first[q]) \in Nat
        BY <3>1, <4>1, PopLemma
      <4>3. QED
        BY <3>1, <4>2, Zenon
    <3>2. CASE /\ first[q] = <<>> /\ UNCHANGED first
               /\ channels' = [channels EXCEPT ![t][q] = 0]
               /\ results' = [results EXCEPT ![t] = <<"disposed", q>>]
      BY <3>2, Zenon
    <3>3. QED
      BY <1>3, <1>10, <3>1, <3>2
  <2>3. /\ count'[t] = 0 /\ unparked'[t] = 1 /\ results'[t] = <<what, q>>
        /\ count' \in [Threads -> {0, 1}] /\ unparked' \in [Threads -> {0, 1}]
        /\ \A x \in Threads : x # t => /\ count'[x] = count[x] /\ unparked'[x] = unparked[x]
                                       /\ results'[x] = results[x]
    BY <1>0, <2>1, <2>2, Zenon DEF LkTypes
  <2>4. /\ channels' \in [Threads -> [Linked!Queues -> Nat]] /\ channels'[t][q] = h
        /\ \A x \in Threads : x # t => channels'[x] = channels[x]
    <3>1. channels[t] \in [Linked!Queues -> Nat]
      BY <1>0 DEF LkTypes
    <3>2. PICK c : c = [channels[t] EXCEPT ![q] = h]
      BY Zenon
    <3>3. channels' = [channels EXCEPT ![t] = c]
      BY <2>2, <3>2
    <3>4. c \in [Linked!Queues -> Nat] /\ c[q] = h
      BY <1>5, <3>1, <3>2
    <3>5. QED
      BY <1>0, <3>3, <3>4, Zenon DEF LkTypes
  <2>5. results' \in [Threads -> {"none", "object", "disposed"} \X Linked!Queues]
    <3>1. <<what, q>> \in {"none", "object", "disposed"} \X Linked!Queues
      BY <1>5
    <3>2. QED
      BY <1>0, <2>2, <3>1 DEF LkTypes
  <2>6. PICK s \in Seq(Nat) : what = "object" =>
          /\ s = Tail(first[q]) /\ Distinct(s) /\ ~In(h, s)
          /\ \A i : In(i, first[q]) <=> i = h \/ In(i, s)
    <3>1. first[q] \in Seq(Nat) /\ Distinct(first[q]) /\ <<>> \in Seq(Nat)
      BY <1>0, <1>5 DEF LkTypes, LkItems
    <3>2. CASE what = "object"
      BY <2>2, <3>1, <3>2, PopLemma, Zenon
    <3>3. CASE what = "disposed"
      BY <3>1, <3>3
    <3>4. QED
      BY <3>2, <3>3
  <2>7. \A r \in Linked!Queues : r # q => first'[r] = first[r]
    BY <1>0, <1>5, <2>2, <2>6 DEF LkTypes
  <2>15. first' \in [Linked!Queues -> Seq(Nat)] /\ (what = "object" => first'[q] = s)
    <3>1. CASE what = "object"
      <4>1. first' = [first EXCEPT ![q] = s] /\ first \in [Linked!Queues -> Seq(Nat)]
        BY <1>0, <2>2, <2>6, <3>1, Zenon DEF LkTypes
      <4>2. s \in Seq(Nat)
        OBVIOUS
      <4>3. QED
        BY <1>5, <4>1, <4>2
    <3>2. CASE what = "disposed"
      BY <1>0, <2>2, <3>2 DEF LkTypes
    <3>3. QED
      BY <3>1, <3>2
  <2>8. \A r \in Linked!Queues : first[r] = <<>> => first'[r] = <<>>
    BY <1>0, <2>2, <2>7 DEF LkTypes
  <2>9. LkTypes'
    BY <1>0, <1>2, <2>3, <2>4, <2>5, <2>15, Zenon DEF LkTypes
  <2>10. OthersKept(t)
    <3>1. \A r \in Linked!Queues : Distinct(lists'[r])
      BY <1>0, <1>2 DEF LkEntries
    <3>2. QED
      BY <1>2, <1>7, <2>3, <2>4, <2>8, <3>1 DEF OthersKept
  <2>11. Own(t)'
    <3>1. /\ range'[t] \in {<<1, 2>>, <<0, 1>>} /\ last'[t] <= range'[t][2] /\ wake'[t] = <<>>
      BY <1>2, <1>4, <1>8 DEF Own
    <3>2. ASSUME NEW r \in Linked!Queues
          PROVE  /\ In(t, lists'[r]) <=> entry'[t][r] = "linked"
                 /\ entry'[t][r] # "none" => Visited(range'[t], r, last'[t])
                 /\ entry'[t][r] # "removed"
      BY <1>2, <1>4, <2>1 DEF Own
    <3>3. Visited(range'[t], q, range'[t][2]) /\ entry'[t][q] # "linked"
      BY <1>2, <1>5, <1>6 DEF Visited
    <3>4. results'[t][2] = q /\ \A u \in Threads : ~In(t, wake'[u])
      BY <1>2, <2>1, <2>3
    <3>5. QED
      BY <1>7, <1>8, <2>3, <3>1, <3>2, <3>3, <3>4 DEF Own
  <2>12. LkKept' /\ LkStuck' /\ \A x \in Threads : x # t => (Hand(x)' <=> Hand(x)) /\ Item(x)' = Item(x)
    BY <1>0, <2>3, <2>9, <2>10, <2>11, OwnStep
  <2>13. LkItems'
    <3>1. ~Hand(t)
      BY <2>1 DEF Hand
    <3>2. CASE what = "object"
      <4>1. Hand(t)' /\ Item(t)' = h
        BY <1>7, <2>3, <2>4, <3>2 DEF Hand, Item
      <4>2. QED
        BY <1>0, <1>2, <1>5, <2>6, <2>7, <2>12, <2>15, <3>1, <3>2, <4>1, ItemsTaken, Zenon
    <3>3. CASE what = "disposed"
      <4>1. ~Hand(t)'
        BY <2>3, <3>3 DEF Hand
      <4>2. QED
        BY <1>0, <1>2, <2>2, <2>12, <3>1, <3>3, <4>1, ItemsStay
    <3>4. QED
      BY <3>2, <3>3
  <2>14. QED
    BY <1>0, <1>2, <2>12, <2>13 DEF LkInv
<1>11. QED
  BY <1>3, <1>9, <1>10

\* The queue that served the call is found, whatever its offset is.
LEMMA TakenLemma ==
  ASSUME LkKept, NEW t \in Threads
  PROVE  Linked!Taken(t) <=> results[t][1] # "none"
<1>1. LkTypes /\ LkCalls /\ LkResults
  BY DEF LkKept
<1>2. ASSUME results[t][1] # "none" PROVE results[t][2] < range[t][2]
  <2>1. Busy(t) /\ Visited(range[t], results[t][2], range[t][2])
    BY <1>1, <1>2 DEF LkResults
  <2>2. pc[t] \notin {"out", "wake"}
    BY <2>1 DEF Busy
  <2>3. \A i \in 1..range[t][2] : Loop(range[t], i) < range[t][2]
    BY <1>1, <2>2, LoopLemma
  <2>4. QED
    BY <2>1, <2>3 DEF Visited
<1>3. QED
  BY <1>2 DEF Linked!Taken

LEMMA LkResult ==
  ASSUME LkInv, NEW t \in Threads, Linked!Result(t)
  PROVE  LkInv'
<1>0. LkKept /\ LkTypes /\ LkCalls /\ LkEntries /\ LkItems /\ LkStuck
      /\ closed \in [Linked!Queues -> BOOLEAN] /\ corrupt = FALSE
  BY DEF LkInv, LkKept
<1>1. /\ pc[t] = "result" /\ pc' = [pc EXCEPT ![t] = "cancel"] /\ iter' = [iter EXCEPT ![t] = 1]
      /\ gone' = IF Linked!Taken(t) /\ results[t][1] = "object"
                 THEN gone \cup {channels[t][results[t][2]]} ELSE gone
      /\ UNCHANGED <<first, closed, lists, range, last, count, unparked, results, entry, channels,
                     wake, added, corrupt>>
  BY DEF Linked!Result, Linked!Step, Linked!queueVars, Linked!parkVars, Linked!blockVars
<1>2. gone' = IF Hand(t) THEN gone \cup {Item(t)} ELSE gone
  <2>1. Linked!Taken(t) /\ results[t][1] = "object" <=> Hand(t)
    BY <1>0, <1>1, TakenLemma DEF Hand
  <2>2. QED
    BY <1>1, <2>1 DEF Item
<1>3. Own(t)
  BY <1>0, OwnLemma
<1>4. Hand(t) => Item(t) \in Nat /\ Item(t) \in 1..added /\ Item(t) \notin gone /\ ~Queued(Item(t))
  <2>1. Hand(t) => Item(t) \in 1..added /\ Item(t) \notin gone /\ ~Queued(Item(t))
    BY <1>0 DEF LkItems
  <2>2. added \in Nat
    BY <1>0 DEF LkTypes
  <2>3. QED
    BY <2>1, <2>2
<1>5. LkTypes'
  <2>1. gone' \in SUBSET Nat
    BY <1>0, <1>2, <1>4, Zenon DEF LkTypes
  <2>2. QED
    BY <1>0, <1>1, <2>1, Zenon DEF LkTypes
<1>6. /\ pc'[t] = "cancel" /\ iter'[t] = 1
      /\ \A x \in Threads : x # t => pc'[x] = pc[x] /\ iter'[x] = iter[x]
  BY <1>0, <1>1 DEF LkTypes
<1>7. OthersKept(t)
  BY <1>0, <1>1, <1>6 DEF OthersKept, LkEntries
<1>8. Busy(t) /\ Busy(t)'
  BY <1>1, <1>6 DEF Busy
<1>9. count[t] = 0
  BY <1>0, <1>1, <1>3 DEF Own, LkTypes
<1>10. Own(t)'
  <2>1. ASSUME NEW q \in Linked!Queues
        PROVE  /\ In(t, lists'[q]) <=> entry'[t][q] = "linked"
               /\ entry'[t][q] # "none" => Visited(range'[t], q, last'[t])
               /\ entry'[t][q] = "linked" =>
                    \E i \in 1..last'[t] : i >= iter'[t] /\ Loop(range'[t], i) = q
               /\ entry'[t][q] = "removed" => results'[t][1] # "none" /\ results'[t][2] = q
    <3>1. /\ In(t, lists[q]) <=> entry[t][q] = "linked"
          /\ entry[t][q] # "none" => Visited(range[t], q, last[t])
          /\ entry[t][q] = "removed" => results[t][1] # "none" /\ results[t][2] = q
      BY <1>3 DEF Own
    <3>2. entry[t][q] = "linked" => \E i \in 1..last[t] : i >= 1 /\ Loop(range[t], i) = q
      BY <3>1 DEF Visited
    <3>3. QED
      BY <1>1, <1>6, <3>1, <3>2
  <2>2. \A u \in Threads : ~In(t, wake[u])
    BY <1>1, <1>3 DEF Own
  <2>3. QED
    BY <1>1, <1>3, <1>6, <1>8, <1>9, <2>1, <2>2 DEF Own
<1>11. LkKept' /\ LkStuck' /\ \A x \in Threads : x # t => (Hand(x)' <=> Hand(x)) /\ Item(x)' = Item(x)
  <2>1. count'[t] = 0
    BY <1>1, <1>9
  <2>2. QED
    BY <1>0, <1>5, <1>7, <1>10, <2>1, OwnStep
<1>12. ~Hand(t)'
  BY <1>6 DEF Hand
<1>13. \A i : Queued(i)' <=> Queued(i)
  BY <1>1 DEF Queued
<1>14. LkItems'
  <2>1. CASE ~Hand(t)
    BY <1>0, <1>1, <1>2, <1>11, <1>12, <2>1, ItemsStay
  <2>2. CASE Hand(t)
    <3>1. gone' = gone \cup {Item(t)} /\ UNCHANGED <<first, added>>
      BY <1>1, <1>2, <2>2
    <3>2. \A x \in Threads : x # t /\ Hand(x) => Item(x) # Item(t)
      BY <1>0, <2>2 DEF LkItems
    <3>3. /\ (\A q \in Linked!Queues : Distinct(first'[q]))
          /\ \A q, r \in Linked!Queues : \A i : In(i, first'[q]) /\ In(i, first'[r]) => q = r
      BY <1>0, <3>1 DEF LkItems
    <3>4. \A q \in Linked!Queues : \A i : In(i, first'[q]) => i \in 1..added' /\ i \notin gone'
      <4>1. \A q \in Linked!Queues : ~In(Item(t), first[q])
        BY <1>4, <2>2 DEF Queued
      <4>2. QED
        BY <1>0, <3>1, <4>1 DEF LkItems
    <3>5. \A x \in Threads : Hand(x)' =>
            Item(x)' \in 1..added' /\ Item(x)' \notin gone' /\ ~Queued(Item(x))'
      <4> SUFFICES ASSUME NEW x \in Threads, Hand(x)'
                   PROVE  Item(x)' \in 1..added' /\ Item(x)' \notin gone' /\ ~Queued(Item(x))'
        OBVIOUS
      <4>1. x # t /\ Hand(x) /\ Item(x)' = Item(x)
        BY <1>11, <1>12
      <4>2. Item(x) \in 1..added /\ Item(x) \notin gone /\ ~Queued(Item(x)) /\ Item(x) # Item(t)
        BY <1>0, <3>2, <4>1 DEF LkItems
      <4>3. ~\E r \in Linked!Queues : In(Item(x)', first'[r])
        BY <3>1, <4>1, <4>2 DEF Queued
      <4>4. ~Queued(Item(x))'
        BY <4>3 DEF Queued
      <4>5. QED
        BY <3>1, <4>1, <4>2, <4>4
    <3>6. \A x, y \in Threads : Hand(x)' /\ Hand(y)' /\ Item(x)' = Item(y)' => x = y
      BY <1>0, <1>11, <1>12 DEF LkItems
    <3>7. \A i \in gone' : i \in 1..added'
      BY <1>0, <1>4, <2>2, <3>1 DEF LkItems
    <3>8. \A i \in 1..added' :
            i \in gone' \/ Queued(i)' \/ \E x \in Threads : Hand(x)' /\ Item(x)' = i
      <4> SUFFICES ASSUME NEW i \in 1..added', i \notin gone', ~Queued(i)'
                   PROVE  \E x \in Threads : Hand(x)' /\ Item(x)' = i
        OBVIOUS
      <4>1. PICK x \in Threads : Hand(x) /\ Item(x) = i
        BY <1>0, <1>13, <3>1 DEF LkItems
      <4>2. x # t
        BY <3>1, <4>1
      <4>3. QED
        BY <1>11, <4>1, <4>2
    <3>9. QED
      BY <3>3, <3>4, <3>5, <3>6, <3>7, <3>8 DEF LkItems
  <2>3. QED
    BY <2>1, <2>2
<1>15. QED
  BY <1>0, <1>1, <1>11, <1>14 DEF LkInv

LEMMA LkCancel ==
  ASSUME LkInv, NEW t \in Threads, Linked!CancelTake(t)
  PROVE  LkInv'
<1>0. LkKept /\ LkTypes /\ LkCalls /\ LkEntries /\ LkResults /\ LkItems /\ LkStuck
      /\ closed \in [Linked!Queues -> BOOLEAN] /\ corrupt = FALSE
  BY DEF LkInv, LkKept
<1>1. PICK q : q = Linked!At(t, iter[t])
  OBVIOUS
<1>2. pc[t] = "cancel" /\ UNCHANGED <<first, closed, wake, added, gone>>
  BY DEF Linked!CancelTake, Linked!queueVars, Linked!ghostVars
<1>3. Own(t)
  BY <1>0, OwnLemma
<1>4. /\ iter[t] \in Nat /\ iter[t] >= 1 /\ last[t] \in Nat /\ last[t] <= range[t][2]
      /\ range[t][2] \in Nat /\ Busy(t)
  BY <1>0, <1>2, <1>3, LoopLemma, Zenon DEF LkTypes, Own, Busy
<1>5. CASE iter[t] > last[t] /\ Linked!Return(t) /\ UNCHANGED <<lists, corrupt>>
  <2>1. \A r \in Linked!Queues : entry[t][r] # "linked"
    <3> SUFFICES ASSUME NEW r \in Linked!Queues, entry[t][r] = "linked" PROVE FALSE
      OBVIOUS
    <3>1. \E i \in 1..last[t] : i >= iter[t] /\ Loop(range[t], i) = r
      BY <1>2, <1>3 DEF Own
    <3>2. QED
      BY <1>4, <1>5, <3>1
  <2>2. /\ added' \in Nat /\ gone' \in SUBSET Nat /\ first' \in [Linked!Queues -> Seq(Nat)]
    BY <1>0, <1>2 DEF LkTypes
  <2>3. /\ LkKept' /\ (\A x \in Threads : count'[x] = 1 => count[x] = 1)
        /\ \A x \in Threads : (Hand(x)' <=> Hand(x)) /\ (Hand(x) => Item(x)' = Item(x))
    BY <1>0, <1>2, <1>5, <2>1, <2>2, ReturnKept
  <2>4. LkItems'
    BY <1>0, <1>2, <2>3, ItemsStay
  <2>5. LkStuck'
    BY <1>0, <1>2, <1>5, <2>3 DEF LkStuck
  <2>6. QED
    BY <1>0, <1>2, <1>5, <2>3, <2>4, <2>5 DEF LkInv
<1>6. CASE /\ iter[t] <= last[t] /\ iter' = [iter EXCEPT ![t] = iter[t] + 1]
           /\ UNCHANGED <<pc, range, last, count, results, unparked, channels>>
           /\ \/ results[t][1] # "none" /\ results[t][2] = q /\ UNCHANGED <<lists, entry, corrupt>>
              \/ /\ ~(results[t][1] # "none" /\ results[t][2] = q)
                 /\ lists' = [lists EXCEPT ![q] = Without(lists[q], t)]
                 /\ entry' = [entry EXCEPT ![t][q] = "unlinked"]
                 /\ corrupt' = (corrupt \/ entry[t][q] = "removed")
  <2>1. q \in Linked!Queues /\ Loop(range[t], iter[t]) = q /\ Visited(range[t], q, last[t])
    <3>1. iter[t] \in 1..range[t][2] /\ iter[t] \in 1..last[t]
      BY <1>4, <1>6
    <3>2. q \in Linked!Queues /\ Loop(range[t], iter[t]) = q
      BY <1>0, <1>1, <1>2, <3>1, LoopLemma
    <3>3. QED
      BY <3>1, <3>2 DEF Visited
  <2>2. /\ iter' \in [Threads -> Nat] /\ iter'[t] = iter[t] + 1
        /\ \A x \in Threads : x # t => iter'[x] = iter[x]
    BY <1>0, <1>4, <1>6 DEF LkTypes
  <2>3. /\ lists' \in [Linked!Queues -> Seq(Threads)] /\ corrupt' = FALSE
        /\ entry' \in [Threads -> [Linked!Queues -> {"none", "linked", "removed", "unlinked"}]]
        /\ \A x \in Threads : x # t => entry'[x] = entry[x]
        /\ \A r \in Linked!Queues :
             /\ Distinct(lists'[r]) /\ \A x \in Threads : x # t => (In(x, lists'[r]) <=> In(x, lists[r]))
             /\ r # q => lists'[r] = lists[r] /\ entry'[t][r] = entry[t][r]
        /\ entry'[t][q] # "linked" /\ ~In(t, lists'[q])
        /\ entry'[t][q] = "removed" => entry[t][q] = "removed"
    <3>1. CASE results[t][1] # "none" /\ results[t][2] = q /\ UNCHANGED <<lists, entry, corrupt>>
      <4>1. entry[t][q] # "linked" /\ ~In(t, lists[q])
        BY <1>3, <2>1, <3>1 DEF Own
      <4>2. QED
        BY <1>0, <3>1, <4>1 DEF LkTypes, LkEntries
    <3>2. CASE /\ ~(results[t][1] # "none" /\ results[t][2] = q)
               /\ lists' = [lists EXCEPT ![q] = Without(lists[q], t)]
               /\ entry' = [entry EXCEPT ![t][q] = "unlinked"]
               /\ corrupt' = (corrupt \/ entry[t][q] = "removed")
      <4>1. PICK s : s = Without(lists[q], t)
        OBVIOUS
      <4>2. lists[q] \in Seq(Threads) /\ Distinct(lists[q])
        BY <1>0, <2>1 DEF LkTypes, LkEntries
      <4>3. s \in Seq(Threads) /\ Distinct(s) /\ \A x : In(x, s) <=> x # t /\ In(x, lists[q])
        BY <4>1, <4>2, WithoutLemma
      <4>4. /\ lists' \in [Linked!Queues -> Seq(Threads)] /\ lists'[q] = s
            /\ \A r \in Linked!Queues : r # q => lists'[r] = lists[r]
        BY <1>0, <2>1, <3>2, <4>1, <4>3 DEF LkTypes
      <4>5. PICK e : e = [entry[t] EXCEPT ![q] = "unlinked"]
        BY Zenon
      <4>6. entry' = [entry EXCEPT ![t] = e]
        BY <3>2, <4>5
      <4>7. entry[t] \in [Linked!Queues -> {"none", "linked", "removed", "unlinked"}]
        BY <1>0 DEF LkTypes
      <4>8. /\ e \in [Linked!Queues -> {"none", "linked", "removed", "unlinked"}]
            /\ e[q] = "unlinked" /\ \A r \in Linked!Queues : r # q => e[r] = entry[t][r]
        BY <2>1, <4>5, <4>7
      <4>9. /\ entry' \in [Threads -> [Linked!Queues -> {"none", "linked", "removed", "unlinked"}]]
            /\ entry'[t] = e /\ \A x \in Threads : x # t => entry'[x] = entry[x]
        BY <1>0, <4>6, <4>8 DEF LkTypes
      <4>10. entry[t][q] # "removed"
        BY <1>3, <2>1, <3>2 DEF Own
      <4>11. corrupt' = FALSE
        BY <1>0, <3>2, <4>10, Zenon
      <4>12. \A r \in Linked!Queues :
               /\ Distinct(lists'[r])
               /\ \A x \in Threads : x # t => (In(x, lists'[r]) <=> In(x, lists[r]))
        BY <1>0, <4>3, <4>4 DEF LkEntries
      <4>13. ~In(t, lists'[q]) /\ entry'[t][q] = "unlinked"
        BY <4>3, <4>4, <4>8, <4>9
      <4>14. QED
        BY <4>4, <4>8, <4>9, <4>11, <4>12, <4>13
    <3>3. QED
      BY <1>6, <3>1, <3>2, Zenon
  <2>4. LkTypes'
    BY <1>0, <1>2, <1>6, <2>2, <2>3, Zenon DEF LkTypes
  <2>5. OthersKept(t)
    BY <1>2, <1>6, <2>2, <2>3 DEF OthersKept
  <2>6. Busy(t)'
    BY <1>2, <1>6 DEF Busy
  <2>7. count[t] = 0 /\ count'[t] = 0
    BY <1>0, <1>2, <1>3, <1>6 DEF Own, LkTypes
  <2>8. Own(t)'
    <3>1. ASSUME NEW r \in Linked!Queues
          PROVE  /\ In(t, lists'[r]) <=> entry'[t][r] = "linked"
                 /\ entry'[t][r] # "none" => Visited(range'[t], r, last'[t])
                 /\ entry'[t][r] = "linked" =>
                      \E i \in 1..last'[t] : i >= iter'[t] /\ Loop(range'[t], i) = r
                 /\ entry'[t][r] = "removed" => results'[t][1] # "none" /\ results'[t][2] = r
      <4>1. /\ In(t, lists[r]) <=> entry[t][r] = "linked"
            /\ entry[t][r] # "none" => Visited(range[t], r, last[t])
            /\ entry[t][r] = "linked" =>
                 \E i \in 1..last[t] : i >= iter[t] /\ Loop(range[t], i) = r
            /\ entry[t][r] = "removed" => results[t][1] # "none" /\ results[t][2] = r
        BY <1>2, <1>3 DEF Own
      <4>2. CASE r = q
        BY <1>6, <2>1, <2>3, <4>1, <4>2
      <4>3. CASE r # q
        <5>1. lists'[r] = lists[r] /\ entry'[t][r] = entry[t][r]
          BY <2>3, <4>3
        <5>2. entry[t][r] = "linked" =>
                \E i \in 1..last[t] : i >= iter[t] + 1 /\ Loop(range[t], i) = r
          <6> SUFFICES ASSUME entry[t][r] = "linked"
                       PROVE  \E i \in 1..last[t] : i >= iter[t] + 1 /\ Loop(range[t], i) = r
            OBVIOUS
          <6>1. PICK i \in 1..last[t] : i >= iter[t] /\ Loop(range[t], i) = r
            BY <4>1
          <6>2. i # iter[t]
            BY <2>1, <4>3, <6>1
          <6>3. i >= iter[t] + 1
            BY <1>4, <6>1, <6>2
          <6>4. QED
            BY <6>1, <6>3
        <5>3. QED
          BY <1>6, <2>2, <4>1, <5>1, <5>2
      <4>4. QED
        BY <4>2, <4>3
    <3>2. results'[t][1] # "none" => /\ entry'[t][results'[t][2]] # "linked"
                                     /\ Visited(range'[t], results'[t][2], range'[t][2])
      <4>1. results[t][1] # "none" => /\ entry[t][results[t][2]] # "linked"
                                      /\ Visited(range[t], results[t][2], range[t][2])
        BY <1>3 DEF Own
      <4>2. results[t][2] \in Linked!Queues
        BY <1>0 DEF LkTypes
      <4>3. QED
        BY <1>6, <2>3, <4>1, <4>2
    <3>3. /\ range'[t] \in {<<1, 2>>, <<0, 1>>} /\ last'[t] <= range'[t][2]
          /\ wake'[t] = <<>> /\ iter'[t] >= 1 /\ pc'[t] = "cancel"
          /\ \A u \in Threads : ~In(t, wake'[u])
      BY <1>2, <1>3, <1>4, <1>6, <2>2 DEF Own
    <3>4. QED
      BY <2>6, <2>7, <3>1, <3>2, <3>3 DEF Own
  <2>9. LkKept' /\ LkStuck' /\ \A x \in Threads : x # t => (Hand(x)' <=> Hand(x)) /\ Item(x)' = Item(x)
    BY <1>0, <2>4, <2>5, <2>7, <2>8, OwnStep
  <2>10. ~Hand(t) /\ ~Hand(t)'
    BY <1>2, <1>6 DEF Hand
  <2>11. LkItems'
    BY <1>0, <1>2, <2>9, <2>10, ItemsStay
  <2>12. QED
    BY <1>0, <1>2, <2>3, <2>9, <2>11 DEF LkInv
<1>7. \A r : r \in Linked!Queues => Linked!Without(lists[r], t) = Without(lists[r], t)
  BY DEF Linked!Without, Without, Linked!In, In
<1>8. iter[t] <= last[t] => q \in Linked!Queues
  <2>1. iter[t] <= last[t] => iter[t] \in 1..range[t][2]
    BY <1>4
  <2>2. QED
    BY <1>0, <1>1, <1>2, <2>1, LoopLemma
<1>9. QED
  <2>1. Linked!Taken(t) <=> results[t][1] # "none"
    BY <1>0, TakenLemma
  <2>2. CASE iter[t] > last[t]
    <3>1. Linked!Return(t) /\ UNCHANGED <<lists, corrupt>>
      BY <1>4, <2>2 DEF Linked!CancelTake, Linked!queueVars, Linked!ghostVars
    <3>2. QED
      BY <1>5, <2>2, <3>1
  <2>3. CASE iter[t] <= last[t]
    <3>1. /\ iter' = [iter EXCEPT ![t] = iter[t] + 1]
          /\ UNCHANGED <<pc, range, last, count, results, unparked, channels>>
          /\ IF Linked!Taken(t) /\ results[t][2] = q THEN UNCHANGED <<lists, entry, corrupt>>
             ELSE /\ lists' = [lists EXCEPT ![q] = Linked!Without(lists[q], t)]
                  /\ entry' = [entry EXCEPT ![t][q] = "unlinked"]
                  /\ corrupt' = (corrupt \/ entry[t][q] = "removed")
      BY <1>1, <1>4, <2>3 DEF Linked!CancelTake, Linked!parkVars
    <3>2. Linked!Without(lists[q], t) = Without(lists[q], t)
      BY <1>7, <1>8, <2>3
    <3>3. QED
      BY <1>6, <2>1, <2>3, <3>1, <3>2
  <2>4. QED
    BY <1>4, <2>2, <2>3

LEMMA LkStep == ASSUME LkInv, Linked!Next PROVE LkInv'
<1>1. PICK t \in Threads :
        \/ \E q \in Linked!Queues : \/ \E n \in 1..2 : Linked!AddList(t, q, n)
                                    \/ Linked!Dispose(t, q) \/ Linked!TakeAll(t, q)
        \/ Linked!UnparkThread(t) \/ Linked!TakeAnyEx(t) \/ Linked!TryTake(t)
        \/ Linked!InitializeParker(t) \/ Linked!LoopTest(t) \/ Linked!PrologueServes(t)
        \/ Linked!PrologueInserts(t) \/ Linked!Cancelled(t) \/ Linked!Unparked(t)
        \/ Linked!Result(t) \/ Linked!CancelTake(t)
  BY DEF Linked!Next
<1>2. ASSUME NEW q \in Linked!Queues, NEW n \in 1..2, Linked!AddList(t, q, n) PROVE LkInv'
  BY <1>2, LkAddList
<1>3. ASSUME NEW q \in Linked!Queues, Linked!Dispose(t, q) PROVE LkInv'
  BY <1>3, LkDispose
<1>4. ASSUME NEW q \in Linked!Queues, Linked!TakeAll(t, q) PROVE LkInv'
  BY <1>4, LkTakeAll
<1>5. CASE Linked!UnparkThread(t)
  BY <1>5, LkUnpark
<1>6. CASE Linked!TakeAnyEx(t)
  BY <1>6, LkTakeAnyEx
<1>7. CASE Linked!TryTake(t)
  BY <1>7, LkTryTake
<1>8. CASE Linked!InitializeParker(t)
  BY <1>8, LkParker
<1>9. CASE Linked!LoopTest(t)
  BY <1>9, LkLoopTest
<1>10. CASE Linked!PrologueServes(t)
  BY <1>10, LkServes
<1>11. CASE Linked!PrologueInserts(t)
  BY <1>11, LkInserts
<1>12. CASE Linked!Cancelled(t) \/ Linked!Unparked(t)
  BY <1>12, LkParked
<1>13. CASE Linked!Result(t)
  BY <1>13, LkResult
<1>14. CASE Linked!CancelTake(t)
  BY <1>14, LkCancel
<1>15. QED
  BY <1>1, <1>2, <1>3, <1>4, <1>5, <1>6, <1>7, <1>8, <1>9, <1>10, <1>11, <1>12, <1>13, <1>14

\* An item is in one queue, in the hands of one call, or was returned or destroyed.
LEMMA LkItemsOnce == ASSUME LkInv PROVE Linked!ItemsInOnePlace
<1>0. LkTypes /\ LkItems
  BY DEF LkInv, LkKept
<1> SUFFICES ASSUME NEW i \in 1..added PROVE Linked!Places(i) = 1
  BY DEF Linked!ItemsInOnePlace
<1>1. PICK A : A = {q \in Linked!Queues : i \in Linked!ToSet(first[q])}
  BY Zenon
<1>2. PICK B : B = Linked!InChannel(i)
  OBVIOUS
<1>3. Linked!Places(i) = Cardinality(A) + Cardinality(B) + (IF i \in gone THEN 1 ELSE 0)
  <2>1. Linked!Cardinality(A) = Cardinality(A) /\ Linked!Cardinality(B) = Cardinality(B)
    BY DEF Linked!Cardinality, Cardinality
  <2>2. QED
    BY <1>1, <1>2, <2>1 DEF Linked!Places
<1>4. \A q : q \in A <=> q \in Linked!Queues /\ In(i, first[q])
  <2>1. \A q \in Linked!Queues : i \in Linked!ToSet(first[q]) <=> In(i, first[q])
    BY <1>0, ItemsOf DEF LkTypes
  <2>2. QED
    BY <1>1, <2>1
<1>5. \A x : x \in B <=> x \in Threads /\ Hand(x) /\ Item(x) = i
  BY <1>2 DEF Linked!InChannel, Hand, Item
<1>6. /\ \A q, r \in A : q = r
      /\ \A x, y \in B : x = y
      /\ A # {} => i \notin gone /\ B = {}
      /\ B # {} => i \notin gone /\ A = {}
      /\ i \in gone \/ A # {} \/ B # {}
  <2>1. \A q, r \in A : q = r
    BY <1>0, <1>4 DEF LkItems
  <2>2. \A x, y \in B : x = y
    BY <1>0, <1>5 DEF LkItems
  <2>3. \A q \in A : i \notin gone /\ Queued(i)
    BY <1>0, <1>4 DEF LkItems, Queued
  <2>4. \A x \in B : i \notin gone /\ ~Queued(i)
    BY <1>0, <1>5 DEF LkItems
  <2>5. i \in gone \/ A # {} \/ B # {}
    BY <1>0, <1>4, <1>5 DEF LkItems, Queued
  <2>6. QED
    BY <2>1, <2>2, <2>3, <2>4, <2>5
<1>7. \A S : (\A x, y \in S : x = y) => S = {} \/ \E x : S = {x}
  BY Zenon
<1>8. Cardinality({}) = 0 /\ \A x : Cardinality({x}) = 1
  BY FS_EmptySet, FS_Singleton
<1>9. CASE i \in gone
  <2>1. A = {} /\ B = {}
    BY <1>6, <1>9
  <2>2. QED
    BY <1>3, <1>8, <1>9, <2>1
<1>10. CASE A # {}
  <2>1. (\E x : A = {x}) /\ B = {} /\ i \notin gone
    BY <1>6, <1>7, <1>10
  <2>2. Cardinality(A) = 1 /\ Cardinality(B) = 0
    BY <1>8, <2>1, Zenon
  <2>3. QED
    BY <1>3, <2>1, <2>2
<1>11. CASE B # {}
  <2>1. (\E x : B = {x}) /\ A = {} /\ i \notin gone
    BY <1>6, <1>7, <1>11
  <2>2. Cardinality(A) = 0 /\ Cardinality(B) = 1
    BY <1>8, <2>1, Zenon
  <2>3. QED
    BY <1>3, <2>1, <2>2
<1>12. QED
  BY <1>6, <1>9, <1>10, <1>11

\* No thread waits for a queue that has an item or is disposed.
LEMMA LkNobodyStuck == ASSUME LkInv PROVE Linked!NobodyStuck
<1>1. LkTypes /\ LkStuck
  BY DEF LkInv, LkKept
<1> SUFFICES ASSUME NEW q \in Linked!Queues, Linked!LiveIn(q) # {}
             PROVE  first[q] = <<>> /\ ~closed[q]
  BY DEF Linked!NobodyStuck
<1>2. PICK i \in 1..Len(lists[q]) : count[lists[q][i]] = 1
  BY DEF Linked!LiveIn
<1>3. lists[q][i] \in Threads /\ In(lists[q][i], lists[q])
  BY <1>1 DEF LkTypes, In
<1>4. QED
  BY <1>1, <1>2, <1>3 DEF LkStuck

\* No wait block is in a list, nor in the hands of an adder, when its call has returned.
LEMMA LkBlocksLeave == ASSUME LkInv PROVE Linked!BlocksLeave
<1>1. LkKept /\ LkTypes /\ corrupt = FALSE
  BY DEF LkInv, LkKept
<1>2. ASSUME NEW t \in Threads, pc[t] \in {"out", "try", "wake"}
      PROVE  /\ \A q \in Linked!Queues : t \notin Linked!ToSet(lists[q])
             /\ \A u \in Threads : t \notin Linked!ToSet(wake[u])
  <2>1. ~Busy(t)
    BY <1>2 DEF Busy
  <2>2. /\ \A q \in Linked!Queues : ~In(t, lists[q])
        /\ \A u \in Threads : ~In(t, wake[u])
    BY <1>1, <2>1, OutLemma
  <2>3. \A s \in Seq(Threads) : t \in Linked!ToSet(s) => In(t, s)
    BY DEF Linked!ToSet, In
  <2>4. (\A q \in Linked!Queues : lists[q] \in Seq(Threads)) /\ \A u \in Threads : wake[u] \in Seq(Threads)
    BY <1>1 DEF LkTypes
  <2>5. QED
    BY <2>2, <2>3, <2>4
<1>3. QED
  BY <1>1, <1>2 DEF Linked!BlocksLeave

-----------------------------------------------------------------------------
(* All of them, side by side. *)

ChannelsInv ==
  /\ which \in Kinds
  /\ which = "bounded"    => BoundedInv
  /\ which = "linked"     => LkInv
  /\ which = "stream"     => StreamInv
  /\ which = "exchanger"  => ExchangerInv
  /\ which = "rendezvous" => RvInv
  /\ which = "once"       => OnceInv /\ EntriesLeave(list)
  /\ which = "future"     => FutureInv /\ EntriesLeave(list)

channelVars == <<which, vars, linkedOnly, streamOnly, exchangerOnly, rendezvousOnly, onceOnly,
                 futureOnly, offered>>

LEMMA ChannelsInit == ASSUME MCInit PROVE ChannelsInv
<1>1. which \in Kinds /\ Init /\ Linked!Init /\ Stream!Init /\ Exchanges!Init
      /\ Rendezvous!Init /\ Futures!Init /\ Once!Init
  BY DEF MCInit
<1>2. /\ BoundedInv /\ LkInv /\ StreamInv /\ ExchangerInv /\ RvInv /\ OnceInv /\ FutureInv
  BY <1>1, BoundedInit, LkInit, StreamInit, ExchangerInit, RvInit, OnceInit, FutureInit
<1>3. EntriesLeave(list)
  BY <1>2, WaitersLeave DEF BoundedInv
<1>4. QED
  BY <1>1, <1>2, <1>3 DEF ChannelsInv

\* A step of another component, or of none, changes nothing of this one.
LEMMA BoundedKept ==
  ASSUME BoundedInv, UNCHANGED <<waiterVars, buffer, disposed, list, channel, added, taken, ended>>
  PROVE  BoundedInv'
BY DEF waiterVars, BoundedInv, WaiterTypes, WaitersOK, Waits, BoundedTypes, AcceptedInOrder,
       Accepted, KeptOnce, Keeps, LiveOK

LEMMA LinkedKept ==
  ASSUME LkInv, UNCHANGED <<linkedOnly, pc, count, unparked, wake, added>>
  PROVE  LkInv'
<1> USE DEF linkedOnly
<1>0. LkTypes /\ LkCalls /\ LkEntries /\ LkResults /\ LkWake /\ LkItems /\ LkStuck
      /\ closed \in [Linked!Queues -> BOOLEAN] /\ corrupt = FALSE
  BY DEF LkInv, LkKept
<1>1. LkTypes'
  BY <1>0 DEF LkTypes
<1>2. LkCalls' /\ LkEntries' /\ LkResults' /\ LkWake' /\ LkStuck'
  BY <1>0 DEF LkCalls, LkEntries, LkResults, LkWake, LkStuck, Busy
<1>3. \A x \in Threads : (Hand(x)' <=> Hand(x)) /\ (Hand(x) => Item(x)' = Item(x))
  BY DEF Hand, Item
<1>4. LkItems'
  BY <1>0, <1>3, ItemsStay
<1>5. QED
  BY <1>0, <1>1, <1>2, <1>4 DEF LkInv, LkKept

LEMMA StreamKept ==
  ASSUME StreamInv, UNCHANGED <<waiterVars, streamOnly, disposed, list, offered>>
  PROVE  StreamInv'
<1> USE DEF waiterVars, streamOnly
<1>1. WaiterTypes' /\ WaitersOK(served)'
  BY DEF StreamInv, WaiterTypes, WaitersOK, Waits
<1>2. StreamTypes' /\ OwnerOK' /\ WaitersFit' /\ OwnerFits'
  BY DEF StreamInv, StreamTypes, OwnerOK, WaitersFit, OwnerFits, Beside
<1>3. BufferTypes' /\ (~disposed => BufferHolds)' /\ ordered'
  BY DEF StreamInv, BufferTypes, BufferHolds
<1>4. Stream!TransfersAddUp'
  BY DEF StreamInv, Stream!TransfersAddUp, Stream!Moved
<1>5. QED
  BY <1>1, <1>2, <1>3, <1>4 DEF StreamInv

LEMMA ExchangerKept ==
  ASSUME ExchangerInv, UNCHANGED <<exchangerOnly, pc, channel, count, unparked, unlinked, offered>>
  PROVE  ExchangerInv'
BY DEF exchangerOnly, ExchangerInv, ExchangerTypes, ExchangerBlocks, BlockOK, ExchangerItems,
       Exchanges!Mutual

LEMMA RendezvousKept ==
  ASSUME RvInv, UNCHANGED <<waiterVars, rendezvousOnly, channel>>
  PROVE  RvInv'
<1> USE DEF waiterVars, rendezvousOnly
<1>1. RvTypes' /\ RvLists' /\ RvWake'
  BY DEF RvInv, RvTypes, RvLists, Listed, RvWake
<1>2. RvHolds' /\ RvOneSide'
  BY DEF RvInv, RvHolds, Holds, HasBlock, Listed, RvOneSide
<1>3. RvMessages'
  BY DEF RvInv, RvMessages, Pending, HasBlock
<1>4. QED
  BY <1>1, <1>2, <1>3 DEF RvInv

LEMMA OnceKept == ASSUME OnceInv, UNCHANGED onceOnly PROVE OnceInv'
BY DEF onceOnly, OnceInv, OnceTypes, SyncInv, AsyncInv, HasObject, Initialising

LEMMA FutureKept == ASSUME FutureInv, UNCHANGED futureOnly PROVE FutureInv'
BY DEF futureOnly, FutureInv, FutureTypes

LEMMA EntriesKept ==
  ASSUME EntriesLeave(list), UNCHANGED <<waiterVars, list>> PROVE EntriesLeave(list)'
BY DEF waiterVars, EntriesLeave

LEMMA ChannelsStep == ASSUME ChannelsInv, [MCNext]_channelVars PROVE ChannelsInv'
<1>1. ASSUME MCNext PROVE ChannelsInv'
  <2>0. /\ UNCHANGED which /\ which \in Kinds /\ Others
        /\ \/ which = "bounded" /\ Next
           \/ which = "linked" /\ Linked!Next
           \/ which = "stream" /\ Stream!Next
           \/ which = "exchanger" /\ Exchanges!Next
           \/ which = "rendezvous" /\ Rendezvous!Next
           \/ which = "once" /\ Once!Next
           \/ which = "future" /\ Futures!Next
    BY <1>1 DEF MCNext, ChannelsInv
  <2>1. CASE which = "bounded" /\ Next
    BY <2>0, <2>1, BoundedStep DEF ChannelsInv
  <2>2. CASE which = "linked" /\ Linked!Next
    BY <2>0, <2>2, LkStep DEF ChannelsInv
  <2>3. CASE which = "stream" /\ Stream!Next
    BY <2>0, <2>3, StreamStep DEF ChannelsInv
  <2>4. CASE which = "exchanger" /\ Exchanges!Next
    BY <2>0, <2>4, ExchangerStep DEF ChannelsInv
  <2>5. CASE which = "rendezvous" /\ Rendezvous!Next
    BY <2>0, <2>5, RvStep DEF ChannelsInv
  <2>6. which \in {"once", "future"} => UNCHANGED <<waiterVars, list>>
    BY <2>0 DEF Others, vars, queueVars
  <2>7. CASE which = "once" /\ Once!Next
    BY <2>0, <2>6, <2>7, OnceStep, EntriesKept DEF ChannelsInv
  <2>8. CASE which = "future" /\ Futures!Next
    BY <2>0, <2>6, <2>8, FutureStep, EntriesKept DEF ChannelsInv
  <2>9. QED
    BY <2>0, <2>1, <2>2, <2>3, <2>4, <2>5, <2>7, <2>8
<1>2. ASSUME UNCHANGED channelVars PROVE ChannelsInv'
  <2>1. /\ UNCHANGED which
        /\ UNCHANGED <<waiterVars, buffer, disposed, list, channel, added, taken, ended>>
        /\ UNCHANGED <<linkedOnly, pc, count, unparked, wake, added>>
        /\ UNCHANGED <<waiterVars, streamOnly, disposed, list, offered>>
        /\ UNCHANGED <<exchangerOnly, pc, channel, count, unparked, unlinked, offered>>
        /\ UNCHANGED <<waiterVars, rendezvousOnly, channel>>
        /\ UNCHANGED onceOnly /\ UNCHANGED futureOnly /\ UNCHANGED <<waiterVars, list>>
    BY <1>2 DEF channelVars, vars, waiterVars, queueVars
  <2>2. which' = which
    BY <2>1
  <2>3. (which = "bounded" => BoundedInv') /\ (which = "linked" => LkInv')
    BY <2>1, BoundedKept, LinkedKept DEF ChannelsInv
  <2>4. (which = "stream" => StreamInv') /\ (which = "exchanger" => ExchangerInv')
    BY <2>1, StreamKept, ExchangerKept DEF ChannelsInv
  <2>5. (which = "rendezvous" => RvInv')
    BY <2>1, RendezvousKept DEF ChannelsInv
  <2>6. (which = "once" => OnceInv' /\ EntriesLeave(list)')
        /\ (which = "future" => FutureInv' /\ EntriesLeave(list)')
    BY <2>1, OnceKept, FutureKept, EntriesKept DEF ChannelsInv
  <2>7. QED
    BY <2>2, <2>3, <2>4, <2>5, <2>6 DEF ChannelsInv
<1>3. QED
  BY <1>1, <1>2

LEMMA ChannelsInvariant == MCSpec => []ChannelsInv
<1>1. MCInit => ChannelsInv
  BY ChannelsInit
<1>2. ChannelsInv /\ [MCNext]_channelVars => ChannelsInv'
  BY ChannelsStep
<1>3. QED
  BY <1>1, <1>2, PTL DEF MCSpec, channelVars

\* What is offered is in one place and is got once, by whom it was for: the items of the
\* bounded and of the linked queues, the bytes of a stream, the items that are exchanged, the
\* messages of the rendezvous channel; and all threads get the one target, or value.
THEOREM NothingIsLostOrTwice == MCSpec => []NothingLostOrTwice
<1>1. ChannelsInv => NothingLostOrTwice
  <2> SUFFICES ASSUME ChannelsInv PROVE NothingLostOrTwice
    OBVIOUS
  <2>1. /\ which = "bounded" => ItemsInOnePlace
        /\ which = "linked" => Linked!ItemsInOnePlace
        /\ which = "stream" => Stream!TransfersAddUp
        /\ which = "exchanger" => Exchanges!Mutual
        /\ which = "rendezvous" => Rendezvous!MessagesOnce
        /\ which = "once" => Once!OneTarget
        /\ which = "future" => Futures!OneValue
    BY BoundedItems, LkItemsOnce, RvOnce, OnceTarget, FutureValue
       DEF ChannelsInv, StreamInv, ExchangerInv
  <2>2. which \in Kinds
    BY DEF ChannelsInv
  <2>3. QED
    BY <2>1, <2>2, Zenon DEF NothingLostOrTwice, Kinds
<1>2. QED
  BY <1>1, ChannelsInvariant, PTL

\* The bounded queue and the stream are first in, first out: through the waiting adders,
\* the circular buffer and the waiting takers.
THEOREM FirstInIsFirstOut == MCSpec => []InOrder
<1>1. ChannelsInv => InOrder
  BY BoundedInOrder, StreamBytes DEF ChannelsInv, InOrder
<1>2. QED
  BY <1>1, ChannelsInvariant, PTL

\* Nobody who can still be served waits beside what it waits for: an item, room in the
\* buffer, bytes, a sender, a receiver, or a queue that was disposed.
THEOREM NobodyIsStuckBeside == MCSpec => []NobodyStuckBeside
<1>1. ChannelsInv => NobodyStuckBeside
  <2> SUFFICES ASSUME ChannelsInv PROVE NobodyStuckBeside
    OBVIOUS
  <2>1. /\ which = "bounded" => NobodyStuck /\ NobodyLost(list)
        /\ which = "linked" => Linked!NobodyStuck
        /\ which = "stream" => Stream!NobodyStuck
        /\ which = "rendezvous" => Rendezvous!NobodyStuck /\ Rendezvous!TokensAlive
    <3>1. which = "bounded" => NobodyStuck /\ NobodyLost(list)
      BY BoundedNobodyStuck, WaitersLeave DEF ChannelsInv, BoundedInv
    <3>2. QED
      BY <3>1, LkNobodyStuck, StreamNobodyStuck, RvNobodyStuck DEF ChannelsInv
  <2>2. QED
    BY <2>1 DEF NobodyStuckBeside
<1>2. QED
  BY <1>1, ChannelsInvariant, PTL

\* The wait block of a call, which is in its frame, is out of every list, slot and
\* unparker before the call returns.
THEOREM WaitBlocksLeave == MCSpec => []BlocksLeave
<1>1. ChannelsInv => BlocksLeave
  <2> SUFFICES ASSUME ChannelsInv PROVE BlocksLeave
    OBVIOUS
  <2>1. /\ which = "linked" => Linked!BlocksLeave
        /\ which = "exchanger" => Exchanges!BlocksLeave
        /\ which = "rendezvous" => Rendezvous!BlocksLeave
        /\ which \in {"once", "future"} => EntriesLeave(list)
    BY LkBlocksLeave, ExchangerBlocksLeave, RvLeaves DEF ChannelsInv
  <2>2. which = "bounded" => EntriesLeave(list)
    BY WaitersLeave DEF ChannelsInv, BoundedInv
  <2>3. which = "stream" => EntriesLeave(list)
    BY StreamEntries DEF ChannelsInv
  <2>4. which \in Kinds
    BY DEF ChannelsInv
  <2>5. QED
    BY <2>1, <2>2, <2>3, <2>4 DEF BlocksLeave, Kinds
<1>2. QED
  BY <1>1, ChannelsInvariant, PTL
=============================================================================
