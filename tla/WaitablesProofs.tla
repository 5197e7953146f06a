-------------------------- MODULE WaitablesProofs ---------------------------
(***************************************************************************)
(* Theorems about the waits on several objects of MCWaits, for any finite  *)
(* set of threads, any semaphores and any arrays, with the inductive       *)
(* invariant they need.                                                    *)
(***************************************************************************)
EXTENDS WaitsProofs, Integers

-----------------------------------------------------------------------------
(* Waits on several objects. *)

\* Where a releaser has a block in its hands.
Handing   == {"lockAny", "unparkAny", "lockAll", "unparkAll", "markAll"}
\* Where a thread holds the lock of a queue.
Releasing == Handing \cup {"release"}
\* Where a thread is in its own call.
Points == {"out", "tryAny", "prologueAny", "lockSelf", "signal", "park", "parkUndo", "cancel",
           "return", "tryAll", "prologueAll", "spinUnlinked", "undo"}
\* Where it goes on after a release loop.
Resumes == {"out", "signal", "park", "return", "cancel", "undo"}
Ops    == {"none", "any", "all", "signalAndWait"}
Keys   == {"none", "acquired", "changed", "timeout", "failed"}
Blocks == Threads \X Nat

\* The types of the state.
WaitsTypes ==
  /\ permits \in [Waitables -> Nat] /\ queue \in [Waitables -> Seq(Blocks)]
  /\ holder \in [Waitables -> Threads \cup {NoThread}]
  /\ pc \in [Threads -> Points \cup Releasing] /\ op \in [Threads -> Ops]
  /\ array \in [Threads -> Seq(Waitables)] /\ index \in [Threads -> Nat]
  /\ visited \in [Threads -> Nat] /\ count \in [Threads -> Nat] /\ key \in [Threads -> Keys]
  /\ linked \in [Threads -> SUBSET Nat] /\ got \in [Threads -> SUBSET Nat]
  /\ serving \in [Threads -> (Waitables \X Resumes) \cup {<<>>}]
  /\ front \in [Threads -> Blocks \cup {NoBlock}]
  /\ total \in [Waitables -> Int]

\* Where a thread is in its own call, also while it releases waiters of others.
At(t) == IF serving[t] = <<>> THEN pc[t] ELSE serving[t][2]

\* A releaser holds the lock of one queue, and has the block that it unlinked in hand.
ReleaserInv ==
  /\ \A t \in Threads : /\ pc[t] \in Releasing <=> serving[t] # <<>>
                        /\ pc[t] \in Handing <=> front[t] # NoBlock
  /\ \A t \in Threads, w \in Waitables :
       holder[w] = t <=> serving[t] # <<>> /\ serving[t][1] = w

\* Where the parker of a wait-any can be locked by others.
Waiting == {"prologueAny", "lockSelf", "signal", "park", "parkUndo"}
IsAny(t) == op[t] \in {"any", "signalAndWait"}

\* Where the control of a call can be, and what its index is there.
CallOK(t) ==
  /\ op[t] = "none" => At(t) = "out" /\ array[t] = <<>>
  /\ op[t] = "any" => At(t) \in {"tryAny", "prologueAny", "lockSelf", "park", "cancel", "return"}
  /\ op[t] = "signalAndWait" =>
       /\ At(t) \in {"prologueAny", "lockSelf", "signal", "park", "parkUndo", "cancel", "return"}
       /\ Len(array[t]) = 1
  /\ op[t] = "all" =>
       At(t) \in {"tryAll", "prologueAll", "park", "spinUnlinked", "cancel", "undo", "return"}
  /\ op[t] # "none" => array[t] # <<>>
  /\ Distinct(array[t])
  /\ At(t) \in {"tryAny", "prologueAny", "lockSelf", "prologueAll"} =>
       index[t] \in 1..Len(array[t])
  /\ At(t) = "tryAll" => index[t] \in 1..(Len(array[t]) + 1)
  /\ At(t) = "undo" => index[t] \in 0..Len(array[t])
CallInv == \A t \in Threads : CallOK(t)

\* The indices whose block was inserted, and those that were acquired.
IndexOK(t) ==
  /\ linked[t] \subseteq 1..Len(array[t]) /\ got[t] \subseteq 1..Len(array[t])
  /\ IsAny(t) => linked[t] \subseteq 1..visited[t]
  /\ At(t) \in {"prologueAny", "lockSelf"} => visited[t] = index[t] - 1
  /\ At(t) = "tryAny" => visited[t] = 0
  /\ At(t) = "out" => visited[t] = 0
  /\ At(t) = "prologueAll" => linked[t] \subseteq 1..(index[t] - 1)
  /\ At(t) \in {"out", "tryAny", "tryAll", "undo"} => linked[t] = {}
  /\ op[t] = "all" /\ At(t) = "return" => linked[t] = {}
  /\ At(t) \in {"out", "tryAny"} => got[t] = {}
  /\ At(t) \in {"prologueAny", "lockSelf"} => got[t] \subseteq 1..visited[t]
  /\ op[t] = "all" =>
       got[t] = IF At(t) = "tryAll" THEN 1..(index[t] - 1)
                ELSE IF At(t) = "undo" THEN 1..index[t] ELSE {}
IndexInv == \A t \in Threads : IndexOK(t)

\* A block is in the queue of its object, or in the hands of one releaser of it, and there
\* is none of an index that was acquired or of a call that returns.
Valid(s, i, w) == i \in linked[s] /\ i \notin got[s] /\ array[s][i] = w /\ At(s) # "return"
QueueInv ==
  \A w \in Waitables :
    /\ Distinct(queue[w])
    /\ \A s \in Threads, i \in Nat : In(<<s, i>>, queue[w]) => Valid(s, i, w)
\* What holds of a block in the hands of t: of the index i of the call of s.
FrontOK(t, s, i) ==
  /\ Valid(s, i, serving[t][1]) /\ ~In(<<s, i>>, queue[serving[t][1]])
  /\ IF pc[t] \in {"lockAny", "unparkAny"} THEN IsAny(s) ELSE op[s] = "all"
  /\ pc[t] = "unparkAny" => count[s] = 0 /\ key[s] = "none" /\ At(s) \in Waiting
\* One releaser at most unparks a wait-any.
OneUnparker(s) ==
  \A t, r \in Threads, i, j \in Nat :
    /\ pc[t] = "unparkAny" /\ front[t] = <<s, i>> /\ pc[r] = "unparkAny" /\ front[r] = <<s, j>>
    => t = r
FrontInv ==
  /\ \A t, s \in Threads, i \in Nat : front[t] = <<s, i>> => FrontOK(t, s, i)
  /\ \A s \in Threads : OneUnparker(s)

Held(s, i) == \E t \in Threads : front[t] = <<s, i>>
\* Where the block of an index in use is.
LinkedOK(t, i) ==
  \/ In(<<t, i>>, queue[array[t][i]]) \/ Held(t, i)
  \/ IsAny(t) /\ (i \in got[t] \/ At(t) = "return")
LinkedInv == \A t \in Threads, i \in Nat : i \in linked[t] => LinkedOK(t, i)

\* The parker of a wait-any, until it is parked and when it is; the one who locked it
\* unparks it.
BeingUnparked(t, how) == \E s \in Threads, i \in Nat : pc[s] = how /\ front[s] = <<t, i>>
ParkerOK(t) ==
  /\ IsAny(t) => /\ count[t] \in {0, 1} /\ key[t] # "changed"
                 /\ count[t] = 1 /\ At(t) # "return" => key[t] = "none" /\ got[t] = {}
  /\ At(t) = "tryAny" => count[t] = 1
  /\ At(t) = "out" => key[t] = "none"
  /\ IsAny(t) /\ At(t) \in Waiting =>
       /\ key[t] \in {"none", "acquired"} /\ (key[t] = "acquired" <=> got[t] # {})
       /\ count[t] = 1 => linked[t] = IF At(t) \in {"prologueAny", "lockSelf"}
                                        THEN 1..(index[t] - 1) ELSE 1..Len(array[t])
       /\ count[t] = 0 /\ key[t] = "none" => BeingUnparked(t, "unparkAny")
  /\ IsAny(t) /\ At(t) \in {"parkUndo", "cancel"} => count[t] = 0
ParkerInv == \A t \in Threads : ParkerOK(t)

\* What is still to be done before a wait-all is unparked.
Pending(t) ==
  {i \in linked[t] : \/ In(<<t, i>>, queue[array[t][i]])
                     \/ \E s \in Threads : pc[s] = "lockAll" /\ front[s] = <<t, i>>}
\* The count of a wait-all is what is pending, and the prologues that are left.
CountOK(t) ==
  op[t] = "all" /\ At(t) \in {"prologueAll", "park"} =>
    /\ count[t] = Cardinality(Pending(t)) +
                    (IF At(t) = "prologueAll" THEN Len(array[t]) - index[t] + 1 ELSE 0)
    /\ count[t] = 0 => key[t] = "changed" \/ BeingUnparked(t, "unparkAll")
CountInv == \A t \in Threads : CountOK(t)

\* A permit and a waiter: somebody is looking.
PermitInv ==
  \A w \in Waitables : permits[w] > 0 /\ queue[w] # <<>> => holder[w] # NoThread

\* The permits in the hands of calls.
Used(w)    == {p \in Threads \X Nat : p[2] \in got[p[1]] /\ array[p[1]][p[2]] = w}
\* A releaser, or a call that locks itself, has a permit in its hands.
InHand(t, w) == \/ pc[t] \in {"lockAny", "unparkAny"} /\ serving[t][1] = w
                \/ pc[t] = "lockSelf" /\ array[t][index[t]] = w
InHands(w) == {t \in Threads : InHand(t, w)}
\* Each permit is free, in use, or in hand.
TotalOK(w) ==
  /\ IsFiniteSet(Used(w))
  /\ total[w] = permits[w] + Cardinality(Used(w)) + Cardinality(InHands(w))
TotalInv == \A w \in Waitables : TotalOK(w)

\* The inductive invariant.
WaitsInv ==
  /\ WaitsTypes /\ ReleaserInv /\ CallInv /\ IndexInv /\ QueueInv /\ FrontInv /\ LinkedInv
  /\ ParkerInv /\ CountInv /\ PermitInv /\ TotalInv

\* WaitAny is called with no object twice.
NoDuplicates == \A a \in AnyArrays : Distinct(a)

\* What the other threads see of a step.
SameLocal(s) ==
  /\ At(s)' = At(s) /\ op'[s] = op[s] /\ array'[s] = array[s] /\ index'[s] = index[s]
  /\ visited'[s] = visited[s] /\ count'[s] = count[s] /\ key'[s] = key[s]
  /\ linked'[s] = linked[s] /\ got'[s] = got[s]

\* A call of which a step changes nothing keeps what the invariant says of it.
LEMMA FrameLemma ==
  \A s : SameLocal(s) =>
    /\ CallOK(s) => CallOK(s)'
    /\ IndexOK(s) => IndexOK(s)'
    /\ \A i, w : Valid(s, i, w) => Valid(s, i, w)'
    /\ (BeingUnparked(s, "unparkAny") => BeingUnparked(s, "unparkAny")') =>
         (ParkerOK(s) => ParkerOK(s)')
    /\ (BeingUnparked(s, "unparkAll") => BeingUnparked(s, "unparkAll")')
       /\ (op[s] = "all" => Pending(s)' = Pending(s)) => (CountOK(s) => CountOK(s)')
<1> SUFFICES ASSUME NEW s, SameLocal(s)
             PROVE /\ CallOK(s) => CallOK(s)'
                   /\ IndexOK(s) => IndexOK(s)'
                   /\ \A i, w : Valid(s, i, w) => Valid(s, i, w)'
                   /\ (BeingUnparked(s, "unparkAny") => BeingUnparked(s, "unparkAny")') =>
                        (ParkerOK(s) => ParkerOK(s)')
                   /\ (BeingUnparked(s, "unparkAll") => BeingUnparked(s, "unparkAll")')
                      /\ (op[s] = "all" => Pending(s)' = Pending(s)) =>
                           (CountOK(s) => CountOK(s)')
  OBVIOUS
<1>1. CallOK(s) => CallOK(s)'
  BY DEF SameLocal, CallOK, Distinct
<1>2. IndexOK(s) => IndexOK(s)'
  BY DEF SameLocal, IndexOK, IsAny
<1>3. \A i, w : Valid(s, i, w) => Valid(s, i, w)'
  BY DEF SameLocal, Valid
<1>4. ASSUME BeingUnparked(s, "unparkAny") => BeingUnparked(s, "unparkAny")', ParkerOK(s)
      PROVE  ParkerOK(s)'
  BY <1>4 DEF SameLocal, ParkerOK, IsAny
<1>5. ASSUME BeingUnparked(s, "unparkAll") => BeingUnparked(s, "unparkAll")',
             op[s] = "all" => Pending(s)' = Pending(s), CountOK(s)
      PROVE  CountOK(s)'
  BY <1>5 DEF SameLocal, CountOK
<1>6. QED
  BY <1>1, <1>2, <1>3, <1>4, <1>5

\* The types of what looking for a waiter changes.
LookTypes ==
  /\ permits \in [Waitables -> Nat] /\ holder \in [Waitables -> Threads \cup {NoThread}]
  /\ pc \in [Threads -> Points \cup Releasing]
  /\ serving \in [Threads -> (Waitables \X Resumes) \cup {<<>>}]

\* Looking for a waiter, after a change of the state word: the lock of the queue is
\* taken when there is somebody to release, and the thread goes on there or at to.
LEMMA LookLemma ==
  ASSUME WaitsTypes, ReleaserInv, PermitInv, NEW t \in Threads, NEW w \in Waitables,
         NEW p \in Nat, NEW to \in Resumes, pc[t] \in Points, Look(t, w, p, to),
         UNCHANGED <<queue, front>>, NoThread \notin Threads
  PROVE  /\ At(t) = pc[t] /\ At(t)' = to /\ pc'[t] \in {to, "release"}
         /\ permits'[w] = p /\ \A r \in Waitables \ {w} : permits'[r] = permits[r]
         /\ \A r \in Threads \ {t} : pc'[r] = pc[r] /\ serving'[r] = serving[r]
         /\ LookTypes' /\ ReleaserInv' /\ PermitInv'
<1>1. serving[t] = <<>> /\ pc[t] \notin Handing /\ front[t] = NoBlock
  BY DEF ReleaserInv, Points, Releasing, Handing
<1>2. permits'[w] = p /\ \A r \in Waitables \ {w} : permits'[r] = permits[r]
  BY DEF Look, WaitsTypes
<1>3. CASE ReleasePending(w, p)
  <2>1. /\ holder' = [holder EXCEPT ![w] = t] /\ pc' = [pc EXCEPT ![t] = "release"]
        /\ serving' = [serving EXCEPT ![t] = <<w, to>>] /\ permits' = [permits EXCEPT ![w] = p]
        /\ holder[w] = NoThread
    BY <1>3 DEF Look, Goto, ReleasePending
  <2>2. /\ holder'[w] = t /\ pc'[t] = "release" /\ serving'[t] = <<w, to>> /\ serving'[t] # <<>>
        /\ serving'[t][1] = w /\ serving'[t][2] = to
        /\ \A r \in Waitables \ {w} : holder'[r] = holder[r]
        /\ \A r \in Threads \ {t} : pc'[r] = pc[r] /\ serving'[r] = serving[r]
    BY <2>1 DEF WaitsTypes
  <2>3. At(t) = pc[t] /\ At(t)' = to
    BY <1>1, <2>2 DEF At
  <2>4. LookTypes'
    BY <2>1 DEF LookTypes, WaitsTypes, Releasing, Handing
  <2>5. ReleaserInv'
    BY <1>1, <2>1, <2>2 DEF ReleaserInv, Releasing, Handing
  <2>6. PermitInv'
    BY <1>2, <2>2 DEF PermitInv
  <2>7. QED
    BY <1>2, <2>2, <2>3, <2>4, <2>5, <2>6
<1>4. CASE ~ReleasePending(w, p)
  <2>1. /\ UNCHANGED <<holder, serving>> /\ pc' = [pc EXCEPT ![t] = to]
        /\ permits' = [permits EXCEPT ![w] = p]
    BY <1>4 DEF Look, Goto
  <2>2. /\ pc'[t] = to /\ \A r \in Threads \ {t} : pc'[r] = pc[r]
        /\ to \in Points /\ to \notin Releasing
    BY <2>1 DEF WaitsTypes, Resumes, Points, Releasing, Handing
  <2>3. At(t) = pc[t] /\ At(t)' = to
    BY <1>1, <2>1, <2>2 DEF At
  <2>4. LookTypes'
    BY <2>1, <2>2 DEF LookTypes, WaitsTypes
  <2>5. ReleaserInv'
    BY <1>1, <2>1, <2>2 DEF ReleaserInv, Releasing, Points, Handing
  <2>6. PermitInv'
    BY <1>2, <1>4, <2>1 DEF PermitInv, ReleasePending, WaitsTypes
  <2>7. QED
    BY <1>2, <2>1, <2>2, <2>3, <2>4, <2>5, <2>6
<1>5. QED
  BY <1>3, <1>4

\* Who has a block in hand holds the lock of the queue that it was in.
LEMMA HoldsFront ==
  ASSUME WaitsTypes, ReleaserInv, NoThread \notin Threads, NEW r \in Threads, NEW q \in Threads,
         NEW j, front[r] = <<q, j>>
  PROVE  pc[r] \in Handing /\ serving[r] # <<>> /\ serving[r][1] \in Waitables
<1>1. front[r] # NoBlock
  BY DEF NoBlock
<1>2. pc[r] \in Handing /\ pc[r] \in Releasing
  BY <1>1 DEF ReleaserInv, Releasing
<1>3. serving[r] # <<>>
  BY <1>2 DEF ReleaserInv
<1>4. serving[r] \in Waitables \X Resumes
  BY <1>3 DEF WaitsTypes
<1>5. QED
  BY <1>2, <1>3, <1>4

\* Who has a block in its hands holds the lock of one queue.
LEMMA HandsLemma ==
  ASSUME WaitsTypes, ReleaserInv, NEW r \in Threads, pc[r] \in Handing
  PROVE  \E s0 \in Threads, i0 \in Nat, w0 \in Waitables, to0 \in Resumes :
           front[r] = <<s0, i0>> /\ serving[r] = <<w0, to0>> /\ holder[w0] = r
<1>1. front[r] # NoBlock /\ serving[r] # <<>>
  BY DEF ReleaserInv, Releasing
<1>2. front[r] \in Threads \X Nat /\ serving[r] \in Waitables \X Resumes
  BY <1>1 DEF WaitsTypes, Blocks
<1>3. PICK w0 \in Waitables, to0 \in Resumes : serving[r] = <<w0, to0>>
  BY <1>2
<1>4. holder[w0] = r
  BY <1>1, <1>3 DEF ReleaserInv
<1>5. QED
  BY <1>2, <1>3, <1>4

\* The indices of an array are finitely many.
LEMMA UpToIsFinite == ASSUME NEW n \in Nat PROVE IsFiniteSet(1..n)
  BY FS_Interval

\* Outside a release loop a thread is where its pc says.
LEMMA AtLemma ==
  ASSUME ReleaserInv, NEW t \in Threads, pc[t] \notin Releasing, UNCHANGED serving,
         \A r \in Threads \ {t} : pc'[r] = pc[r]
  PROVE  /\ At(t) = pc[t] /\ At(t)' = pc'[t] /\ \A r \in Threads \ {t} : At(r)' = At(r)
<1>1. serving[t] = <<>>
  BY DEF ReleaserInv
<1>2. QED
  BY <1>1 DEF At

\* The parts of the invariant, and the assumptions that the proofs use.
LEMMA WaitsParts ==
  ASSUME WaitsInv
  PROVE  /\ WaitsTypes /\ ReleaserInv /\ CallInv /\ IndexInv /\ QueueInv /\ FrontInv
         /\ LinkedInv /\ ParkerInv /\ CountInv /\ PermitInv /\ TotalInv
         /\ NoThread \notin Threads /\ IsFiniteSet(Threads) /\ MaxCount \in Nat
  BY WaitsAssumption DEF WaitsAssumption, WaitablesAssumption, WaitsInv, IsFiniteSet

\* The indices in use are indices of objects.
LEMMA Indices ==
  ASSUME WaitsTypes, IndexInv
  PROVE  \A r \in Threads : \A j \in linked[r] \cup got[r] : j \in Nat /\ array[r][j] \in Waitables
  BY DEF IndexInv, IndexOK, WaitsTypes

\* A block in hand is valid, is in no queue, and is in nobody else's hands.
LEMMA BlockInHand ==
  ASSUME WaitsTypes, ReleaserInv, QueueInv, FrontInv, NoThread \notin Threads,
         NEW t \in Threads, NEW s \in Threads, NEW i \in Nat, NEW w \in Waitables, NEW to,
         front[t] = <<s, i>>, serving[t] = <<w, to>>, holder[w] = t
  PROVE  /\ FrontOK(t, s, i) /\ Valid(s, i, w) /\ i \in linked[s]
         /\ \A v \in Waitables : ~In(<<s, i>>, queue[v])
         /\ \A r \in Threads \ {t} : front[r] # <<s, i>>
<1>1. FrontOK(t, s, i) /\ Valid(s, i, w) /\ i \in linked[s]
  BY DEF FrontInv, FrontOK, Valid
<1>2. \A v \in Waitables : ~In(<<s, i>>, queue[v])
  BY <1>1 DEF QueueInv, Valid, FrontOK
<1>3. \A r \in Threads \ {t} : front[r] # <<s, i>>
  <2> SUFFICES ASSUME NEW r \in Threads \ {t}, front[r] = <<s, i>> PROVE FALSE
    OBVIOUS
  <2>1. FrontOK(r, s, i) /\ serving[r] # <<>>
    BY DEF FrontInv, ReleaserInv, NoBlock, Handing, Releasing
  <2>2. serving[r][1] = w
    BY <1>1, <2>1 DEF FrontOK, Valid
  <2>3. QED
    BY <2>1, <2>2 DEF ReleaserInv
<1>4. QED
  BY <1>1, <1>2, <1>3

\* A step keeps the block (q, j) in the hands of r as it has to be.
KeepsFront(r, q, j) ==
  /\ Valid(q, j, serving[r][1])' /\ ~In(<<q, j>>, queue'[serving[r][1]])
  /\ (IsAny(q) => IsAny(q)') /\ (op[q] = "all" => op'[q] = "all")
  /\ pc[r] = "unparkAny" => count'[q] = 0 /\ key'[q] = "none" /\ At(q)' \in Waiting

\* The blocks in hand: those of the others are kept, and that of t is right.
LEMMA FrontLemma ==
  ASSUME FrontInv, NEW t \in Threads,
         \A r \in Threads \ {t} :
           front'[r] = front[r] /\ pc'[r] = pc[r] /\ serving'[r] = serving[r],
         \A r \in Threads \ {t}, q \in Threads, j \in Nat :
           front[r] = <<q, j>> /\ FrontOK(r, q, j) => KeepsFront(r, q, j),
         \A q \in Threads, j \in Nat : front'[t] = <<q, j>> => FrontOK(t, q, j)',
         pc'[t] = "unparkAny" =>
           \A r \in Threads \ {t}, q \in Threads, i, j \in Nat :
             pc[r] = "unparkAny" /\ front[r] = <<q, i>> => front'[t] # <<q, j>>
  PROVE  FrontInv'
<1>1. ASSUME NEW r \in Threads, NEW q \in Threads, NEW j \in Nat, front'[r] = <<q, j>>
      PROVE  FrontOK(r, q, j)'
  <2>1. CASE r = t
    BY <1>1, <2>1
  <2>2. CASE r # t
    <3>1. front[r] = <<q, j>> /\ pc'[r] = pc[r] /\ serving'[r] = serving[r]
      BY <1>1, <2>2
    <3>2. FrontOK(r, q, j) /\ KeepsFront(r, q, j)
      BY <2>2, <3>1 DEF FrontInv
    <3>3. QED
      BY <3>1, <3>2 DEF FrontOK, KeepsFront
  <2>3. QED
    BY <2>1, <2>2
<1>2. ASSUME NEW q \in Threads, NEW r \in Threads, NEW s \in Threads, NEW i \in Nat, NEW j \in Nat,
             pc'[r] = "unparkAny", front'[r] = <<q, i>>, pc'[s] = "unparkAny", front'[s] = <<q, j>>
      PROVE  r = s
  BY <1>2 DEF FrontInv, OneUnparker
<1>3. QED
  BY <1>1, <1>2 DEF FrontInv, OneUnparker

\* The step of a thread that has no block in hand, before and after.
LEMMA FrontKept ==
  ASSUME ReleaserInv, FrontInv, NoThread \notin Threads, NEW t \in Threads, UNCHANGED front,
         pc[t] \notin Handing, pc'[t] # "unparkAny",
         \A r \in Threads \ {t} : pc'[r] = pc[r] /\ serving'[r] = serving[r],
         \A r \in Threads \ {t}, q \in Threads, j \in Nat :
           front[r] = <<q, j>> /\ FrontOK(r, q, j) => KeepsFront(r, q, j)
  PROVE  FrontInv'
<1>1. \A q \in Threads : \A j : front'[t] # <<q, j>>
  BY DEF ReleaserInv, NoBlock
<1>2. QED
  BY <1>1, FrontLemma

\* A step that moves no block keeps those that are linked where they have to be.
LEMMA LinkedKept ==
  ASSUME LinkedInv, UNCHANGED <<front, queue>>,
         \A r \in Threads, j \in Nat : j \in linked'[r] =>
           /\ j \in linked[r] /\ array'[r] = array[r] /\ (IsAny(r) => IsAny(r)')
           /\ IsAny(r) /\ (j \in got[r] \/ At(r) = "return") =>
                j \in got'[r] \/ At(r)' = "return"
  PROVE  LinkedInv'
<1>1. \A r \in Threads, j \in Nat : Held(r, j)' <=> Held(r, j)
  BY DEF Held
<1>2. ASSUME NEW r \in Threads, NEW j \in Nat, j \in linked'[r] PROVE LinkedOK(r, j)'
  BY <1>1, <1>2 DEF LinkedInv, LinkedOK
<1>3. QED
  BY <1>2 DEF LinkedInv

\* A call takes an object into use, or out of it.
LEMMA UsedAdds ==
  ASSUME TotalInv, WaitsTypes, NEW s \in Threads, NEW i \in Nat, NEW w \in Waitables,
         i \notin got[s], array[s][i] = w, UNCHANGED array,
         got'[s] = got[s] \cup {i}, \A r \in Threads \ {s} : got'[r] = got[r]
  PROVE  /\ \A v \in Waitables \ {w} : Used(v)' = Used(v)
         /\ IsFiniteSet(Used(w)') /\ Cardinality(Used(w)) \in Nat
         /\ Cardinality(Used(w)') = Cardinality(Used(w)) + 1
<1>1. ASSUME NEW p \in Threads \X Nat, p # <<s, i>>, NEW v PROVE p \in Used(v)' <=> p \in Used(v)
  <2>1. PICK r \in Threads, j \in Nat : p = <<r, j>>
    OBVIOUS
  <2>2. j \in got'[r] <=> j \in got[r]
    BY <1>1, <2>1
  <2>3. QED
    BY <2>1, <2>2 DEF Used
<1>2. \A v : Used(v) \subseteq Threads \X Nat /\ Used(v)' \subseteq Threads \X Nat
  BY DEF Used
<1>3. \A v : <<s, i>> \notin Used(v) /\ (<<s, i>> \in Used(v)' <=> v = w)
  BY DEF Used
<1>4. ASSUME NEW v \in Waitables \ {w} PROVE Used(v)' = Used(v)
  <2>1. \A p \in Threads \X Nat : p \in Used(v)' <=> p \in Used(v)
    BY <1>1, <1>3
  <2>2. QED
    BY <1>2, <2>1
<1>5. Used(w)' = Used(w) \cup {<<s, i>>}
  <2>1. \A p \in Threads \X Nat : p \in Used(w)' <=> p \in Used(w) \cup {<<s, i>>}
    BY <1>1, <1>3
  <2>2. QED
    BY <1>2, <2>1
<1>6. IsFiniteSet(Used(w))
  BY DEF TotalInv, TotalOK
<1>7. /\ IsFiniteSet(Used(w) \cup {<<s, i>>})
      /\ Cardinality(Used(w) \cup {<<s, i>>}) = Cardinality(Used(w)) + 1
  BY <1>3, <1>6, FS_AddElement
<1>8. QED
  BY <1>4, <1>5, <1>6, <1>7, FS_CardinalityType

\* A call gives an object back.
LEMMA UsedRemoves ==
  ASSUME TotalInv, WaitsTypes, NEW s \in Threads, NEW i \in Nat, NEW w \in Waitables,
         i \in got[s], array[s][i] = w, UNCHANGED array,
         got'[s] = got[s] \ {i}, \A r \in Threads \ {s} : got'[r] = got[r]
  PROVE  /\ \A v \in Waitables \ {w} : Used(v)' = Used(v)
         /\ IsFiniteSet(Used(w)') /\ Cardinality(Used(w)) \in Nat
         /\ Cardinality(Used(w)') = Cardinality(Used(w)) - 1
<1>1. ASSUME NEW p \in Threads \X Nat, p # <<s, i>>, NEW v PROVE p \in Used(v)' <=> p \in Used(v)
  <2>1. PICK r \in Threads, j \in Nat : p = <<r, j>>
    OBVIOUS
  <2>2. j \in got'[r] <=> j \in got[r]
    BY <1>1, <2>1
  <2>3. QED
    BY <2>1, <2>2 DEF Used
<1>2. \A v : Used(v) \subseteq Threads \X Nat /\ Used(v)' \subseteq Threads \X Nat
  BY DEF Used
<1>3. \A v : <<s, i>> \notin Used(v)' /\ (<<s, i>> \in Used(v) <=> v = w)
  BY DEF Used
<1>4. ASSUME NEW v \in Waitables \ {w} PROVE Used(v)' = Used(v)
  <2>1. \A p \in Threads \X Nat : p \in Used(v)' <=> p \in Used(v)
    BY <1>1, <1>3
  <2>2. QED
    BY <1>2, <2>1
<1>5. Used(w)' = Used(w) \ {<<s, i>>}
  <2>1. \A p \in Threads \X Nat : p \in Used(w)' <=> p \in Used(w) \ {<<s, i>>}
    BY <1>1, <1>3
  <2>2. QED
    BY <1>2, <2>1
<1>6. IsFiniteSet(Used(w))
  BY DEF TotalInv, TotalOK
<1>7. /\ IsFiniteSet(Used(w) \ {<<s, i>>})
      /\ Cardinality(Used(w) \ {<<s, i>>}) = Cardinality(Used(w)) - 1
  BY <1>3, <1>6, FS_RemoveElement
<1>8. QED
  BY <1>4, <1>5, <1>6, <1>7, FS_CardinalityType

\* A step that acquires nothing keeps the objects in use.
LEMMA UsedKept ==
  ASSUME TotalInv, UNCHANGED <<got, array>>, NEW w \in Waitables
  PROVE  /\ \A v \in Waitables : Used(v)' = Used(v)
         /\ IsFiniteSet(Used(w)') /\ Cardinality(Used(w)) \in Nat
         /\ Cardinality(Used(w)') = Cardinality(Used(w))
<1>1. \A v \in Waitables : Used(v)' = Used(v)
  BY DEF Used
<1>2. IsFiniteSet(Used(w))
  BY DEF TotalInv, TotalOK
<1>3. QED
  BY <1>1, <1>2, FS_CardinalityType

\* A thread takes a permit of one semaphore into its hands, or puts it somewhere.
LEMMA HandsAdd ==
  ASSUME IsFiniteSet(Threads), NEW t \in Threads, NEW w \in Waitables,
         \A v \in Waitables : \A r \in Threads \ {t} : InHand(r, v)' <=> InHand(r, v),
         \A v \in Waitables : ~InHand(t, v) /\ (InHand(t, v)' <=> v = w)
  PROVE  /\ \A v \in Waitables \ {w} : InHands(v)' = InHands(v)
         /\ Cardinality(InHands(w)) \in Nat
         /\ Cardinality(InHands(w)') = Cardinality(InHands(w)) + 1
<1>1. \A v \in Waitables \ {w} : InHands(v)' = InHands(v)
  BY DEF InHands
<1>2. InHands(w)' = InHands(w) \cup {t} /\ t \notin InHands(w)
  BY DEF InHands
<1>3. IsFiniteSet(InHands(w))
  BY FS_Subset DEF InHands
<1>4. Cardinality(InHands(w) \cup {t}) = Cardinality(InHands(w)) + 1
  BY <1>2, <1>3, FS_AddElement
<1>5. QED
  BY <1>1, <1>2, <1>3, <1>4, FS_CardinalityType

\* A thread puts the permit of one semaphore out of its hands.
LEMMA HandsRemove ==
  ASSUME IsFiniteSet(Threads), NEW t \in Threads, NEW w \in Waitables,
         \A v \in Waitables : \A r \in Threads \ {t} : InHand(r, v)' <=> InHand(r, v),
         \A v \in Waitables : ~InHand(t, v)' /\ (InHand(t, v) <=> v = w)
  PROVE  /\ \A v \in Waitables \ {w} : InHands(v)' = InHands(v)
         /\ Cardinality(InHands(w)) \in Nat
         /\ Cardinality(InHands(w)') = Cardinality(InHands(w)) - 1
<1>1. \A v \in Waitables \ {w} : InHands(v)' = InHands(v)
  BY DEF InHands
<1>2. InHands(w)' = InHands(w) \ {t} /\ t \in InHands(w)
  BY DEF InHands
<1>3. IsFiniteSet(InHands(w))
  BY FS_Subset DEF InHands
<1>4. Cardinality(InHands(w) \ {t}) = Cardinality(InHands(w)) - 1
  BY <1>2, <1>3, FS_RemoveElement
<1>5. QED
  BY <1>1, <1>2, <1>3, <1>4, FS_CardinalityType

\* A step that touches no permit keeps those in hand.
LEMMA HandsKept ==
  ASSUME IsFiniteSet(Threads), NEW w \in Waitables,
         \A v \in Waitables : \A r \in Threads : InHand(r, v)' <=> InHand(r, v)
  PROVE  /\ \A v \in Waitables : InHands(v)' = InHands(v)
         /\ Cardinality(InHands(w)) \in Nat
         /\ Cardinality(InHands(w)') = Cardinality(InHands(w))
<1>1. \A v \in Waitables : InHands(v)' = InHands(v)
  BY DEF InHands
<1>2. IsFiniteSet(InHands(w))
  BY FS_Subset DEF InHands
<1>3. QED
  BY <1>1, <1>2, FS_CardinalityType

\* The balance of one semaphore is kept, and the others are left alone.
LEMMA TotalLemma ==
  ASSUME TotalInv, WaitsTypes, NEW w \in Waitables,
         \A v \in Waitables \ {w} : /\ Used(v)' = Used(v) /\ InHands(v)' = InHands(v)
                                    /\ permits'[v] = permits[v] /\ total'[v] = total[v],
         IsFiniteSet(Used(w)'),
         TotalOK(w) => total'[w] = permits'[w] + Cardinality(Used(w)') + Cardinality(InHands(w)')
  PROVE  TotalInv'
<1>1. ASSUME NEW v \in Waitables \ {w} PROVE TotalOK(v)'
  BY DEF TotalInv, TotalOK
<1>2. TotalOK(w)'
  BY DEF TotalInv, TotalOK
<1>3. QED
  BY <1>1, <1>2 DEF TotalInv

\* One call changed, and what its thread sees of the others did not.
LEMMA LocalFrame ==
  ASSUME CallInv, IndexInv, ParkerInv, CountInv, NEW s \in Threads,
         \A r \in Threads \ {s} : SameLocal(r),
         CallOK(s)', IndexOK(s)', ParkerOK(s)', CountOK(s)',
         \A r \in Threads, how \in {"unparkAny", "unparkAll"} :
           r # s /\ BeingUnparked(r, how) => BeingUnparked(r, how)',
         \A r \in Threads \ {s} : op[r] = "all" => Pending(r)' = Pending(r)
  PROVE  CallInv' /\ IndexInv' /\ ParkerInv' /\ CountInv'
<1>1. CallInv' /\ IndexInv'
  BY FrameLemma DEF CallInv, IndexInv
<1>2. ParkerInv'
  BY FrameLemma DEF ParkerInv
<1>3. CountInv'
  BY FrameLemma DEF CountInv
<1>4. QED
  BY <1>1, <1>2, <1>3

\* A step of a thread in its own call that moves neither permits nor blocks.
LEMMA OwnStep ==
  ASSUME WaitsInv, NEW t \in Threads, WaitsTypes',
         UNCHANGED <<permits, queue, holder, op, array, linked, got, serving, front, total>>,
         \A r \in Threads \ {t} : /\ pc'[r] = pc[r] /\ index'[r] = index[r]
                                  /\ visited'[r] = visited[r] /\ count'[r] = count[r]
                                  /\ key'[r] = key[r],
         pc[t] \in Points \ {"lockSelf", "return"}, pc'[t] \in Points \ {"lockSelf"},
         CallOK(t)', IndexOK(t)', ParkerOK(t)', CountOK(t)',
         pc'[t] = "return" => linked[t] = {},
         IsAny(t) /\ count[t] = 0 /\ key[t] = "none" /\ pc[t] \in Waiting =>
           count'[t] = 0 /\ key'[t] = "none" /\ pc'[t] \in Waiting
  PROVE  WaitsInv'
<1>1. /\ WaitsTypes /\ ReleaserInv /\ CallInv /\ IndexInv /\ QueueInv /\ FrontInv
      /\ LinkedInv /\ ParkerInv /\ CountInv /\ PermitInv /\ TotalInv
      /\ NoThread \notin Threads
  BY WaitsParts
<1>2. /\ pc[t] \notin Releasing /\ pc[t] \notin Handing /\ pc'[t] \notin Releasing
      /\ pc'[t] \notin Handing
  BY DEF Points, Releasing, Handing
<1>3. serving[t] = <<>> /\ At(t) = pc[t] /\ At(t)' = pc'[t]
  BY <1>1, <1>2 DEF ReleaserInv, At
<1>4. \A r \in Threads \ {t} : SameLocal(r)
  BY DEF SameLocal, At
<1>5. \A r \in Threads, how \in {"unparkAny", "unparkAll"} :
        BeingUnparked(r, how) => BeingUnparked(r, how)'
  BY <1>2 DEF BeingUnparked, Handing
<1>6. \A r \in Threads : Pending(r)' = Pending(r)
  <2>1. \A s \in Threads : pc'[s] = "lockAll" <=> pc[s] = "lockAll"
    BY <1>2 DEF Handing
  <2>2. QED
    BY <2>1 DEF Pending
<1>7. \A r \in Threads : \A j, v : Valid(r, j, v) => Valid(r, j, v)'
  BY <1>3, <1>4, FrameLemma DEF Valid
<1>8. ReleaserInv'
  BY <1>1, <1>2 DEF ReleaserInv
<1>9. CallInv' /\ IndexInv' /\ ParkerInv' /\ CountInv'
  BY <1>1, <1>4, <1>5, <1>6, LocalFrame
<1>10. QueueInv'
  BY <1>1, <1>7 DEF QueueInv
<1>11. FrontInv'
  <2>1. ASSUME NEW r \in Threads \ {t}, NEW q \in Threads, NEW j \in Nat,
               front[r] = <<q, j>>, FrontOK(r, q, j)
        PROVE  KeepsFront(r, q, j)
    <3>1. Valid(q, j, serving[r][1])' /\ ~In(<<q, j>>, queue'[serving[r][1]])
      BY <1>7, <2>1 DEF FrontOK
    <3>2. (IsAny(q) => IsAny(q)') /\ (op[q] = "all" => op'[q] = "all")
      BY DEF IsAny
    <3>3. pc[r] = "unparkAny" => count'[q] = 0 /\ key'[q] = "none" /\ At(q)' \in Waiting
      <4> SUFFICES ASSUME pc[r] = "unparkAny"
                   PROVE  count'[q] = 0 /\ key'[q] = "none" /\ At(q)' \in Waiting
        OBVIOUS
      <4>1. IsAny(q) /\ count[q] = 0 /\ key[q] = "none" /\ At(q) \in Waiting
        BY <2>1 DEF FrontOK
      <4>2. CASE q = t
        BY <1>3, <4>1, <4>2
      <4>3. CASE q # t
        BY <1>4, <4>1, <4>3 DEF SameLocal
      <4>4. QED
        BY <4>2, <4>3
    <3>4. QED
      BY <3>1, <3>2, <3>3 DEF KeepsFront
  <2>2. pc'[t] # "unparkAny"
    BY <1>2 DEF Handing
  <2>3. QED
    BY <1>1, <1>2, <2>1, <2>2, FrontKept
<1>12. LinkedInv'
  <2>1. \A r \in Threads : At(r) = "return" => At(r)' = "return"
    BY <1>3, <1>4 DEF SameLocal
  <2>2. QED
    BY <1>1, <2>1, LinkedKept DEF IsAny
<1>13. PermitInv'
  BY <1>1 DEF PermitInv
<1>14. TotalInv'
  <2>1. \A v \in Waitables : Used(v)' = Used(v)
    BY DEF Used
  <2>2. \A v \in Waitables, r \in Threads : InHand(r, v)' <=> InHand(r, v)
    BY <1>2 DEF InHand, Handing
  <2>3. \A v \in Waitables : InHands(v)' = InHands(v)
    BY <2>2 DEF InHands
  <2>4. QED
    BY <1>1, <2>1, <2>3 DEF TotalInv, TotalOK
<1>15. QED
  BY <1>8, <1>9, <1>10, <1>11, <1>12, <1>13, <1>14 DEF WaitsInv

\* The block of the index i is at the end of the queue of w, and is pending.
Inserted(t, w, i) ==
  /\ \A b : In(b, queue'[w]) <=> b = <<t, i>> \/ In(b, queue[w])
  /\ Distinct(queue'[w]) /\ Append(queue[w], <<t, i>>) \in Seq(Blocks)
  /\ \A v \in Waitables \ {w} : queue'[v] = queue[v]
  /\ \A v \in Waitables : ~In(<<t, i>>, queue[v])
  /\ \A r \in Threads : front[r] # <<t, i>>
  /\ Pending(t)' = Pending(t) \cup {i} /\ i \notin Pending(t)
  /\ \A r \in Threads \ {t} : Pending(r)' = Pending(r)

\* What inserting a block does to the queue, and to what is pending.
LEMMA EnqueueFacts ==
  ASSUME WaitsInv, NEW t \in Threads, NEW w \in Waitables, NEW i \in Nat, array[t][i] = w,
         i \notin linked[t], pc[t] \in Points, pc'[t] \in Points,
         queue' = [queue EXCEPT ![w] = Append(queue[w], <<t, i>>)],
         linked' = [linked EXCEPT ![t] = linked[t] \cup {i}],
         UNCHANGED <<array, front>>, \A r \in Threads \ {t} : pc'[r] = pc[r]
  PROVE  Inserted(t, w, i)
<1>1. WaitsTypes /\ QueueInv /\ FrontInv /\ IndexInv
  BY WaitsParts
<1>2. /\ linked'[t] = linked[t] \cup {i} /\ \A r \in Threads \ {t} : linked'[r] = linked[r]
      /\ queue'[w] = Append(queue[w], <<t, i>>)
      /\ \A v \in Waitables \ {w} : queue'[v] = queue[v]
  BY <1>1 DEF WaitsTypes
<1>3. /\ \A v \in Waitables : ~In(<<t, i>>, queue[v])
      /\ \A r \in Threads : front[r] # <<t, i>>
  <2>1. \A v : ~Valid(t, i, v)
    BY DEF Valid
  <2>2. QED
    BY <1>1, <2>1 DEF QueueInv, FrontInv, FrontOK
<1>4. <<t, i>> \in Blocks /\ queue[w] \in Seq(Blocks) /\ Distinct(queue[w])
  BY <1>1 DEF WaitsTypes, Blocks, QueueInv
<1>5. /\ \A b : In(b, queue'[w]) <=> b = <<t, i>> \/ In(b, queue[w])
      /\ Distinct(queue'[w]) /\ Append(queue[w], <<t, i>>) \in Seq(Blocks)
  <2>1. /\ \A b : In(b, Append(queue[w], <<t, i>>)) <=> b = <<t, i>> \/ In(b, queue[w])
        /\ Distinct(Append(queue[w], <<t, i>>)) /\ Append(queue[w], <<t, i>>) \in Seq(Blocks)
    BY <1>3, <1>4, AppendLemma
  <2>2. QED
    BY <1>2, <2>1
<1>6. ASSUME NEW r \in Threads, NEW j \in linked[r]
      PROVE  /\ <<r, j>> # <<t, i>>
             /\ In(<<r, j>>, queue'[array[r][j]]) <=> In(<<r, j>>, queue[array[r][j]])
  <2>1. array[r][j] \in Waitables /\ <<r, j>> # <<t, i>>
    BY <1>1, Indices
  <2>2. QED
    BY <1>2, <1>5, <2>1
<1>7. \A s \in Threads : pc'[s] = "lockAll" <=> pc[s] = "lockAll"
  BY DEF Points
<1>8. Pending(t)' = Pending(t) \cup {i} /\ i \notin Pending(t)
  <2>1. i \in Pending(t)' /\ i \notin Pending(t)
    BY <1>2, <1>5 DEF Pending
  <2>2. \A j : j # i => (j \in Pending(t)' <=> j \in Pending(t))
    <3>1. \A j : j # i => (j \in linked'[t] <=> j \in linked[t])
      BY <1>2
    <3>2. QED
      BY <1>6, <1>7, <3>1 DEF Pending
  <2>3. QED
    BY <2>1, <2>2
<1>9. ASSUME NEW r \in Threads \ {t} PROVE Pending(r)' = Pending(r)
  <2>1. linked'[r] = linked[r] /\ array' = array /\ front' = front
    BY <1>2
  <2>2. ASSUME NEW j PROVE j \in Pending(r)' <=> j \in Pending(r)
    <3>1. (\E s \in Threads : pc'[s] = "lockAll" /\ front'[s] = <<r, j>>)
          <=> (\E s \in Threads : pc[s] = "lockAll" /\ front[s] = <<r, j>>)
      BY <1>7, <2>1
    <3>2. CASE j \in linked[r]
      <4>1. In(<<r, j>>, queue'[array'[r][j]]) <=> In(<<r, j>>, queue[array[r][j]])
        BY <1>6, <2>1, <3>2
      <4>2. QED
        BY <2>1, <3>1, <3>2, <4>1, Zenon DEF Pending
    <3>3. CASE j \notin linked[r]
      BY <2>1, <3>3, Zenon DEF Pending
    <3>4. QED
      BY <3>2, <3>3
  <2>3. QED
    BY <2>2, Zenon
<1>10. QED
  BY <1>2, <1>3, <1>5, <1>8, <1>9 DEF Inserted

\* A prologue that inserts a block, where no permit is to be had.
LEMMA EnqueueStep ==
  ASSUME WaitsInv, NEW t \in Threads, NEW w \in Waitables, NEW i \in Nat, array[t][i] = w,
         i \notin linked[t], i \notin got[t], ~AllowsAcquire(w), WaitsTypes',
         queue' = [queue EXCEPT ![w] = Append(queue[w], <<t, i>>)],
         linked' = [linked EXCEPT ![t] = linked[t] \cup {i}],
         UNCHANGED <<permits, holder, op, array, count, key, got, serving, front, total>>,
         \A r \in Threads \ {t} : /\ pc'[r] = pc[r] /\ index'[r] = index[r]
                                  /\ visited'[r] = visited[r],
         pc[t] \in Points \ {"lockSelf", "return"}, pc'[t] \in Points \ {"lockSelf", "return"},
         CallOK(t)', IndexOK(t)', ParkerOK(t)', CountOK(t)',
         IsAny(t) /\ pc[t] \in Waiting => pc'[t] \in Waiting
  PROVE  WaitsInv'
<1>1. /\ WaitsTypes /\ ReleaserInv /\ CallInv /\ IndexInv /\ QueueInv /\ FrontInv
      /\ LinkedInv /\ ParkerInv /\ CountInv /\ PermitInv /\ TotalInv
      /\ NoThread \notin Threads
  BY WaitsParts
<1>2. /\ pc[t] \notin Releasing /\ pc[t] \notin Handing /\ pc'[t] \notin Releasing
      /\ pc'[t] \notin Handing
  BY DEF Points, Releasing, Handing
<1>3. serving[t] = <<>> /\ At(t) = pc[t] /\ At(t)' = pc'[t]
  BY <1>1, <1>2 DEF ReleaserInv, At
<1>4. /\ \A b : In(b, queue'[w]) <=> b = <<t, i>> \/ In(b, queue[w])
      /\ Distinct(queue'[w]) /\ \A v \in Waitables \ {w} : queue'[v] = queue[v]
      /\ \A r \in Threads : front[r] # <<t, i>>
      /\ \A r \in Threads \ {t} : Pending(r)' = Pending(r)
  <2>1. /\ pc[t] \in Points /\ pc'[t] \in Points /\ UNCHANGED <<array, front>>
        /\ \A r \in Threads \ {t} : pc'[r] = pc[r]
    OBVIOUS
  <2>2. Inserted(t, w, i)
    BY <2>1, EnqueueFacts
  <2>3. QED
    BY <2>2 DEF Inserted
<1>5. linked'[t] = linked[t] \cup {i} /\ \A r \in Threads \ {t} : linked'[r] = linked[r]
  BY <1>1 DEF WaitsTypes
<1>6. \A r \in Threads \ {t} : SameLocal(r)
  BY <1>5 DEF SameLocal, At
<1>7. \A r \in Threads, how \in {"unparkAny", "unparkAll"} :
        BeingUnparked(r, how) => BeingUnparked(r, how)'
  BY <1>2 DEF BeingUnparked, Handing
<1>8. Valid(t, i, w)' /\ \A r \in Threads : \A j, v : Valid(r, j, v) => Valid(r, j, v)'
  <2>1. Valid(t, i, w)' /\ \A j, v : Valid(t, j, v) => Valid(t, j, v)'
    BY <1>3, <1>5 DEF Valid
  <2>2. QED
    BY <1>6, <2>1, FrameLemma
<1>9. ReleaserInv'
  BY <1>1, <1>2 DEF ReleaserInv
<1>10. CallInv' /\ IndexInv' /\ ParkerInv' /\ CountInv'
  BY <1>1, <1>4, <1>6, <1>7, LocalFrame
<1>11. QueueInv'
  <2>1. \A v \in Waitables : Distinct(queue'[v])
    BY <1>1, <1>4 DEF QueueInv
  <2>2. ASSUME NEW v \in Waitables, NEW s \in Threads, NEW j \in Nat, In(<<s, j>>, queue'[v])
        PROVE  Valid(s, j, v)'
    <3>1. CASE v = w /\ <<s, j>> = <<t, i>>
      BY <1>8, <3>1
    <3>2. CASE ~(v = w /\ <<s, j>> = <<t, i>>)
      <4>1. In(<<s, j>>, queue[v])
        BY <1>4, <2>2, <3>2
      <4>2. QED
        BY <1>1, <1>8, <4>1 DEF QueueInv
    <3>3. QED
      BY <3>1, <3>2
  <2>3. QED
    BY <2>1, <2>2 DEF QueueInv
<1>12. FrontInv'
  <2>1. ASSUME NEW r \in Threads \ {t}, NEW q \in Threads, NEW j \in Nat,
               front[r] = <<q, j>>, FrontOK(r, q, j)
        PROVE  KeepsFront(r, q, j)
    <3>1. Valid(q, j, serving[r][1])'
      BY <1>8, <2>1 DEF FrontOK
    <3>2. ~In(<<q, j>>, queue'[serving[r][1]])
      <4>1. ~In(<<q, j>>, queue[serving[r][1]]) /\ <<q, j>> # <<t, i>>
        BY <1>4, <2>1 DEF FrontOK
      <4>2. serving[r][1] \in Waitables
        BY <1>1, <2>1, HoldsFront
      <4>3. QED
        BY <1>4, <4>1, <4>2
    <3>3. (IsAny(q) => IsAny(q)') /\ (op[q] = "all" => op'[q] = "all")
      BY DEF IsAny
    <3>4. pc[r] = "unparkAny" => count'[q] = 0 /\ key'[q] = "none" /\ At(q)' \in Waiting
      <4> SUFFICES ASSUME pc[r] = "unparkAny"
                   PROVE  count'[q] = 0 /\ key'[q] = "none" /\ At(q)' \in Waiting
        OBVIOUS
      <4>1. IsAny(q) /\ count[q] = 0 /\ key[q] = "none" /\ At(q) \in Waiting
        BY <2>1 DEF FrontOK
      <4>2. CASE q = t
        BY <1>3, <4>1, <4>2
      <4>3. CASE q # t
        BY <1>6, <4>1, <4>3 DEF SameLocal
      <4>4. QED
        BY <4>2, <4>3
    <3>5. QED
      BY <3>1, <3>2, <3>3, <3>4 DEF KeepsFront
  <2>2. pc'[t] # "unparkAny"
    BY <1>2 DEF Handing
  <2>3. QED
    BY <1>1, <1>2, <2>1, <2>2, FrontKept
<1>13. LinkedInv'
  <2>1. \A r \in Threads, j \in Nat : Held(r, j)' <=> Held(r, j)
    BY DEF Held
  <2>2. ASSUME NEW r \in Threads, NEW j \in Nat, j \in linked'[r] PROVE LinkedOK(r, j)'
    <3>1. CASE <<r, j>> = <<t, i>>
      BY <1>4, <3>1 DEF LinkedOK
    <3>2. CASE <<r, j>> # <<t, i>>
      <4>1. j \in linked[r] /\ LinkedOK(r, j)
        BY <1>1, <1>5, <2>2, <3>2 DEF LinkedInv
      <4>2. In(<<r, j>>, queue[array[r][j]]) => In(<<r, j>>, queue'[array[r][j]])
        <5>1. array[r][j] \in Waitables
          BY <1>1, <4>1, Indices
        <5>2. QED
          BY <1>4, <5>1
      <4>3. At(r) = "return" => At(r)' = "return"
        BY <1>3, <1>6 DEF SameLocal
      <4>4. QED
        BY <2>1, <4>1, <4>2, <4>3 DEF LinkedOK, IsAny
    <3>3. QED
      BY <3>1, <3>2
  <2>3. QED
    BY <2>2 DEF LinkedInv
<1>14. PermitInv'
  <2>1. permits[w] = 0 \/ queue[w] # <<>>
    BY <1>1 DEF AllowsAcquire, WaitsTypes
  <2>2. QED
    BY <1>1, <1>4, <2>1 DEF PermitInv
<1>15. TotalInv'
  <2>1. \A v \in Waitables : Used(v)' = Used(v)
    BY DEF Used
  <2>2. \A v \in Waitables, r \in Threads : InHand(r, v)' <=> InHand(r, v)
    BY <1>2 DEF InHand, Handing
  <2>3. \A v \in Waitables : InHands(v)' = InHands(v)
    BY <2>2 DEF InHands
  <2>4. QED
    BY <1>1, <2>1, <2>3 DEF TotalInv, TotalOK
<1>16. QED
  BY <1>9, <1>10, <1>11, <1>12, <1>13, <1>14, <1>15 DEF WaitsInv

-----------------------------------------------------------------------------
(* The steps: one lemma for each way an action can go. *)

\* ReleaseWaitersAndUnlockQueue unlinks the first block, of a wait-any, and takes a
\* permit.
LEMMA RelAnyStep ==
  ASSUME WaitsInv, NEW t \in Threads,
         ReleaseWaiters(t), permits[serving[t][1]] > 0,
         queue[serving[t][1]] # <<>>, op[Head(queue[serving[t][1]])[1]] # "all"
  PROVE  WaitsInv'
<1>i. /\ WaitsTypes /\ ReleaserInv /\ CallInv /\ IndexInv /\ QueueInv /\ FrontInv
      /\ LinkedInv /\ ParkerInv /\ CountInv /\ PermitInv /\ TotalInv
      /\ NoThread \notin Threads /\ IsFiniteSet(Threads) /\ MaxCount \in Nat
  BY WaitsParts
<1>j. \A r \in Threads : \A j \in linked[r] \cup got[r] : j \in Nat /\ array[r][j] \in Waitables
  BY <1>i, Indices
<1>0. PICK s0 \in Threads, i0 \in Nat, w0 \in Waitables, to0 \in Resumes :
            Head(queue[w0]) = <<s0, i0>> /\ serving[t] = <<w0, to0>>
  <2>1. pc[t] = "release" /\ serving[t] \in (Waitables \X Resumes) \cup {<<>>} /\ serving[t] # <<>>
    BY <1>i DEF ReleaseWaiters, ReleaserInv, Releasing, WaitsTypes
  <2>2. PICK w0 \in Waitables, to0 \in Resumes : serving[t] = <<w0, to0>>
    BY <2>1
  <2>3. queue[w0] \in Seq(Blocks) /\ queue[w0] # <<>>
    BY <1>i, <2>2 DEF WaitsTypes
  <2>4. Head(queue[w0]) \in Blocks
    BY <2>3
  <2>5. PICK s0 \in Threads, i0 \in Nat : Head(queue[w0]) = <<s0, i0>>
    BY <2>4 DEF Blocks
  <2>6. QED
    BY <2>2, <2>5
<1>e. /\ pc[t] = "release" /\ permits[w0] > 0 /\ queue[w0] # <<>> /\ op[s0] # "all"
      /\ front' = [front EXCEPT ![t] = <<s0, i0>>]
      /\ queue' = [queue EXCEPT ![w0] = Tail(queue[w0])]
      /\ permits' = [permits EXCEPT ![w0] = permits[w0] - 1]
      /\ pc' = [pc EXCEPT ![t] = "lockAny"]
      /\ UNCHANGED <<holder, op, array, index, visited, count, key, linked, got, serving, total>>
  <2>1. pc[t] = "release" /\ permits[w0] > 0 /\ queue[w0] # <<>> /\ op[s0] # "all"
    BY <1>i, <1>0 DEF ReleaseWaiters, Step
  <2>2. front' = [front EXCEPT ![t] = <<s0, i0>>]
    <3>1. front' = [front EXCEPT ![t] = Head(queue[w0])]
      BY <1>0, <2>1
         DEF ReleaseWaiters, semaphores, callVars, waitVars, Step, Goto, SetIndex, Object, AtEnd
    <3>2. QED
      BY <1>0, <3>1
  <2>3. queue' = [queue EXCEPT ![w0] = Tail(queue[w0])]
    BY <1>0, <2>1
       DEF ReleaseWaiters, semaphores, callVars, waitVars, Step, Goto, SetIndex, Object, AtEnd
  <2>4. permits' = [permits EXCEPT ![w0] = permits[w0] - 1]
    BY <1>0, <2>1
       DEF ReleaseWaiters, semaphores, callVars, waitVars, Step, Goto, SetIndex, Object, AtEnd
  <2>5. pc' = [pc EXCEPT ![t] = "lockAny"]
    BY <1>0, <2>1
       DEF ReleaseWaiters, semaphores, callVars, waitVars, Step, Goto, SetIndex, Object, AtEnd
  <2>6. UNCHANGED <<holder, op, array, index, visited, count, key, linked, got, serving, total>>
    BY <1>0, <2>1
       DEF ReleaseWaiters, semaphores, callVars, waitVars, Step, Goto, SetIndex, Object, AtEnd
  <2>7. QED
    BY <2>1, <2>2, <2>3, <2>4, <2>5, <2>6
<1>v. /\ front'[t] = <<s0, i0>>
      /\ queue'[w0] = Tail(queue[w0])
      /\ permits'[w0] = permits[w0] - 1
      /\ pc'[t] = "lockAny"
  BY <1>i, <1>e, <1>0 DEF WaitsTypes
<1>o. /\ \A r \in Threads \ {t} : front'[r] = front[r]
      /\ \A r \in Waitables \ {w0} : queue'[r] = queue[r]
      /\ \A r \in Waitables \ {w0} : permits'[r] = permits[r]
      /\ \A r \in Threads \ {t} : pc'[r] = pc[r]
  BY <1>i, <1>e DEF WaitsTypes
<1>h. \A r \in Threads : At(r)' = At(r)
  BY <1>i, <1>e, <1>v, <1>o, <1>0 DEF At, ReleaserInv, Releasing, Handing
<1>f. \A r \in Threads : SameLocal(r)
  BY <1>e, <1>o, <1>h DEF SameLocal
<1>p. /\ \A b : In(b, queue[w0]) <=> b = <<s0, i0>> \/ In(b, queue'[w0])
      /\ Distinct(queue'[w0]) /\ ~In(<<s0, i0>>, queue'[w0])
      /\ Tail(queue[w0]) \in Seq(Blocks)
  <2>1. queue[w0] \in Seq(Blocks) /\ queue[w0] # <<>> /\ Distinct(queue[w0])
    BY <1>i, <1>e DEF WaitsTypes, QueueInv
  <2>2. /\ \A b : In(b, queue[w0]) <=> b = Head(queue[w0]) \/ In(b, Tail(queue[w0]))
        /\ Distinct(Tail(queue[w0])) /\ ~In(Head(queue[w0]), Tail(queue[w0]))
        /\ Tail(queue[w0]) \in Seq(Blocks)
    BY <2>1, PopLemma
  <2>3. QED
    BY <1>0, <1>v, <2>2
<1>n. \A v \in Waitables : \A b : In(b, queue'[v]) => In(b, queue[v])
  BY <1>o, <1>p
<1>q. Valid(s0, i0, w0) /\ In(<<s0, i0>>, queue[w0])
  BY <1>i, <1>p DEF QueueInv
<1>s. IsAny(s0)
  BY <1>i, <1>e, <1>q DEF Valid, CallInv, CallOK, IndexInv, IndexOK, WaitsTypes, Ops, IsAny
<1>b. \A r \in Threads, how \in {"unparkAny", "unparkAll"} :
        BeingUnparked(r, how) => BeingUnparked(r, how)'
  BY <1>i, <1>e, <1>v, <1>o DEF BeingUnparked
<1>c. \A r \in Threads : op[r] = "all" => Pending(r)' = Pending(r)
  <2>1. ASSUME NEW r \in Threads, NEW j \in linked[r], op[r] = "all"
        PROVE  (\/ In(<<r, j>>, queue[array[r][j]])
                \/ \E s \in Threads : pc[s] = "lockAll" /\ front[s] = <<r, j>>)
               <=> (\/ In(<<r, j>>, queue'[array[r][j]])
                    \/ \E s \in Threads : pc'[s] = "lockAll" /\ front'[s] = <<r, j>>)
    <3>1. <<r, j>> # <<s0, i0>>
      BY <1>e, <2>1
    <3>2. In(<<r, j>>, queue[array[r][j]]) <=> In(<<r, j>>, queue'[array[r][j]])
      BY <1>j, <1>o, <1>p, <1>v, <3>1
    <3>3. \A s \in Threads : (pc[s] = "lockAll" /\ front[s] = <<r, j>>)
                            <=> (pc'[s] = "lockAll" /\ front'[s] = <<r, j>>)
      BY <1>e, <1>o, <1>v
    <3>4. QED
      BY <3>2, <3>3
  <2>2. QED
    BY <1>e, <2>1 DEF Pending
<1>a. \A r \in Threads, j \in Nat, v \in Waitables : Valid(r, j, v) => Valid(r, j, v)'
  BY <1>f, FrameLemma
<1>1. WaitsTypes'
  <2>1. front' \in [Threads -> Blocks \cup {NoBlock}]
    BY <1>i, <1>e, <1>0 DEF WaitsTypes, Blocks, NoBlock
  <2>2. queue' \in [Waitables -> Seq(Blocks)]
    BY <1>i, <1>e, <1>0, <1>p DEF WaitsTypes, Blocks
  <2>3. permits' \in [Waitables -> Nat]
    BY <1>i, <1>e, <1>0, SMTT(30) DEF WaitsTypes
  <2>4. pc' \in [Threads -> Points \cup Releasing]
    BY <1>i, <1>e, <1>0 DEF WaitsTypes, Points, Resumes, Releasing, Handing
  <2>5. QED
    BY <1>i, <1>e, <2>1, <2>2, <2>3, <2>4 DEF WaitsTypes, LookTypes
<1>2. ReleaserInv'
  BY <1>i, <1>e, <1>v, <1>o, <1>0, SMTT(30) DEF ReleaserInv, Releasing, Handing, AfterPrologues, NoBlock
<1>3. CallInv'
  BY <1>i, <1>f, FrameLemma DEF CallInv
<1>4. IndexInv'
  BY <1>i, <1>f, FrameLemma DEF IndexInv
<1>5. QueueInv'
  BY <1>i, <1>o, <1>p, <1>a DEF QueueInv
<1>6. FrontInv'
  <2>1. \A r \in Threads \ {t} :
          front'[r] = front[r] /\ pc'[r] = pc[r] /\ serving'[r] = serving[r]
    BY <1>e, <1>o
  <2>2. ASSUME NEW r \in Threads \ {t}, NEW q \in Threads, NEW j \in Nat,
               front[r] = <<q, j>>, FrontOK(r, q, j)
        PROVE  KeepsFront(r, q, j)
    <3>0. serving[r][1] \in Waitables
      BY <1>i, <2>2, HoldsFront
    <3>1. Valid(q, j, serving[r][1])'
      BY <1>e, <1>a, <2>1, <2>2, <3>0 DEF FrontOK
    <3>2. ~In(<<q, j>>, queue'[serving[r][1]])
      BY <1>e, <2>2, <3>0, <1>n DEF FrontOK
    <3>3. (IsAny(q) => IsAny(q)') /\ (op[q] = "all" => op'[q] = "all")
      BY <1>i, <1>e, <1>v, <1>o, <1>0, <1>h, <1>f, <1>p, <1>n, <1>q, <1>s, <1>b, <1>c DEF IsAny
    <3>4. pc[r] = "unparkAny" => count'[q] = 0 /\ key'[q] = "none" /\ At(q)' \in Waiting
      BY <1>i, <1>e, <1>v, <1>o, <1>0, <1>h, <1>f, <1>p, <1>n, <1>q, <1>s, <1>b, <1>c, <2>2
         DEF FrontOK
    <3>5. QED
      BY <3>1, <3>2, <3>3, <3>4 DEF KeepsFront
  <2>3. ASSUME NEW q \in Threads, NEW j \in Nat, front'[t] = <<q, j>> PROVE FrontOK(t, q, j)'
    <3>1. FrontOK(t, s0, i0)'
      BY <1>i, <1>0, <1>e, <1>v, <1>o, <1>p, <1>q, <1>s, <1>a DEF FrontOK, IsAny
    <3>2. q = s0 /\ j = i0
      BY <1>0, <1>e, <1>v, <2>3
    <3>3. QED
      BY <3>1, <3>2
  <2>4. pc'[t] # "unparkAny"
    BY <1>v
  <2>5. QED
    BY <1>i, <2>1, <2>2, <2>3, <2>4, FrontLemma
<1>7. LinkedInv'
  <2>1. \A r \in Threads, j \in Nat : Held(r, j) \/ <<r, j>> = <<s0, i0>> => Held(r, j)'
    BY <1>i, <1>e, <1>v, <1>o DEF Held, ReleaserInv, Handing, NoBlock
  <2>2. ASSUME NEW r \in Threads, NEW j \in Nat, j \in linked'[r] PROVE LinkedOK(r, j)'
    <3>1. LinkedOK(r, j)
      BY <1>i, <1>e, <2>2 DEF LinkedInv
    <3>2. QED
      BY <1>e, <1>f, <1>o, <1>p, <2>1, <3>1 DEF LinkedOK, SameLocal, IsAny
  <2>3. QED
    BY <2>2 DEF LinkedInv
<1>8. ParkerInv'
  BY <1>i, <1>f, <1>b, FrameLemma DEF ParkerInv
<1>9. CountInv'
  BY <1>i, <1>f, <1>b, <1>c, FrameLemma DEF CountInv
<1>10. PermitInv'
  BY <1>i, <1>e, <1>v, <1>o, <1>0 DEF PermitInv, AllowsAcquire
<1>11. TotalInv'
  <2>1. /\ \A v \in Waitables : Used(v)' = Used(v)
        /\ IsFiniteSet(Used(w0)') /\ Cardinality(Used(w0)) \in Nat
        /\ Cardinality(Used(w0)') = Cardinality(Used(w0))
    BY <1>i, <1>e, <1>0, UsedKept
  <2>2. /\ \A v \in Waitables \ {w0} : InHands(v)' = InHands(v)
        /\ Cardinality(InHands(w0)) \in Nat
        /\ Cardinality(InHands(w0)') = Cardinality(InHands(w0)) + 1
    <3>1. \A v \in Waitables : \A r \in Threads \ {t} : InHand(r, v)' <=> InHand(r, v)
      BY <1>e, <1>v, <1>o DEF InHand
    <3>2. \A v \in Waitables : ~InHand(t, v) /\ (InHand(t, v)' <=> v = w0)
      BY <1>e, <1>v, <1>o, <1>0 DEF InHand, Resumes
    <3>3. QED
      BY <1>i, <1>0, <3>1, <3>2, HandsAdd
  <2>3. /\ permits'[w0] = permits[w0] - 1 /\ permits[w0] \in Nat
        /\ total'[w0] = total[w0] /\ total[w0] \in Int
        /\ \A v \in Waitables \ {w0} : permits'[v] = permits[v] /\ total'[v] = total[v]
    BY <1>i, <1>e, <1>v, <1>o, <1>0 DEF WaitsTypes
  <2>4. ASSUME TotalOK(w0)
        PROVE  total'[w0] = permits'[w0] + Cardinality(Used(w0)') + Cardinality(InHands(w0)')
    <3>1. total[w0] = permits[w0] + Cardinality(Used(w0)) + Cardinality(InHands(w0))
      BY <2>4 DEF TotalOK
    <3>2. QED
      BY <2>1, <2>2, <2>3, <3>1, SMTT(30)
  <2>5. QED
    BY <1>i, <2>1, <2>2, <2>3, <2>4, <1>0, TotalLemma
<1>12. QED
  BY <1>1, <1>2, <1>3, <1>4, <1>5, <1>6, <1>7, <1>8, <1>9, <1>10, <1>11 DEF WaitsInv

\* ReleaseWaitersAndUnlockQueue unlinks the first block, of a wait-all.
LEMMA RelAllStep ==
  ASSUME WaitsInv, NEW t \in Threads,
         ReleaseWaiters(t), permits[serving[t][1]] > 0,
         queue[serving[t][1]] # <<>>, op[Head(queue[serving[t][1]])[1]] = "all"
  PROVE  WaitsInv'
<1>i. /\ WaitsTypes /\ ReleaserInv /\ CallInv /\ IndexInv /\ QueueInv /\ FrontInv
      /\ LinkedInv /\ ParkerInv /\ CountInv /\ PermitInv /\ TotalInv
      /\ NoThread \notin Threads /\ IsFiniteSet(Threads) /\ MaxCount \in Nat
  BY WaitsParts
<1>j. \A r \in Threads : \A j \in linked[r] \cup got[r] : j \in Nat /\ array[r][j] \in Waitables
  BY <1>i, Indices
<1>0. PICK s0 \in Threads, i0 \in Nat, w0 \in Waitables, to0 \in Resumes :
            Head(queue[w0]) = <<s0, i0>> /\ serving[t] = <<w0, to0>>
  <2>1. pc[t] = "release" /\ serving[t] \in (Waitables \X Resumes) \cup {<<>>} /\ serving[t] # <<>>
    BY <1>i DEF ReleaseWaiters, ReleaserInv, Releasing, WaitsTypes
  <2>2. PICK w0 \in Waitables, to0 \in Resumes : serving[t] = <<w0, to0>>
    BY <2>1
  <2>3. queue[w0] \in Seq(Blocks) /\ queue[w0] # <<>>
    BY <1>i, <2>2 DEF WaitsTypes
  <2>4. Head(queue[w0]) \in Blocks
    BY <2>3
  <2>5. PICK s0 \in Threads, i0 \in Nat : Head(queue[w0]) = <<s0, i0>>
    BY <2>4 DEF Blocks
  <2>6. QED
    BY <2>2, <2>5
<1>e. /\ pc[t] = "release" /\ permits[w0] > 0 /\ queue[w0] # <<>> /\ op[s0] = "all"
      /\ front' = [front EXCEPT ![t] = <<s0, i0>>]
      /\ queue' = [queue EXCEPT ![w0] = Tail(queue[w0])]
      /\ permits' = [permits EXCEPT ![w0] = permits[w0]]
      /\ pc' = [pc EXCEPT ![t] = "lockAll"]
      /\ UNCHANGED <<holder, op, array, index, visited, count, key, linked, got, serving, total>>
  <2>1. pc[t] = "release" /\ permits[w0] > 0 /\ queue[w0] # <<>> /\ op[s0] = "all"
    BY <1>i, <1>0 DEF ReleaseWaiters, Step
  <2>2. front' = [front EXCEPT ![t] = <<s0, i0>>]
    <3>1. front' = [front EXCEPT ![t] = Head(queue[w0])]
      BY <1>0, <2>1
         DEF ReleaseWaiters, semaphores, callVars, waitVars, Step, Goto, SetIndex, Object, AtEnd
    <3>2. QED
      BY <1>0, <3>1
  <2>3. queue' = [queue EXCEPT ![w0] = Tail(queue[w0])]
    BY <1>0, <2>1
       DEF ReleaseWaiters, semaphores, callVars, waitVars, Step, Goto, SetIndex, Object, AtEnd
  <2>4. permits' = [permits EXCEPT ![w0] = permits[w0]]
    BY <1>0, <2>1
       DEF ReleaseWaiters, semaphores, callVars, waitVars, Step, Goto, SetIndex, Object, AtEnd
  <2>5. pc' = [pc EXCEPT ![t] = "lockAll"]
    BY <1>0, <2>1
       DEF ReleaseWaiters, semaphores, callVars, waitVars, Step, Goto, SetIndex, Object, AtEnd
  <2>6. UNCHANGED <<holder, op, array, index, visited, count, key, linked, got, serving, total>>
    BY <1>0, <2>1
       DEF ReleaseWaiters, semaphores, callVars, waitVars, Step, Goto, SetIndex, Object, AtEnd
  <2>7. QED
    BY <2>1, <2>2, <2>3, <2>4, <2>5, <2>6
<1>v. /\ front'[t] = <<s0, i0>>
      /\ queue'[w0] = Tail(queue[w0])
      /\ permits'[w0] = permits[w0]
      /\ pc'[t] = "lockAll"
  BY <1>i, <1>e, <1>0 DEF WaitsTypes
<1>o. /\ \A r \in Threads \ {t} : front'[r] = front[r]
      /\ \A r \in Waitables \ {w0} : queue'[r] = queue[r]
      /\ \A r \in Waitables \ {w0} : permits'[r] = permits[r]
      /\ \A r \in Threads \ {t} : pc'[r] = pc[r]
  BY <1>i, <1>e DEF WaitsTypes
<1>h. \A r \in Threads : At(r)' = At(r)
  BY <1>i, <1>e, <1>v, <1>o, <1>0 DEF At, ReleaserInv, Releasing, Handing
<1>f. \A r \in Threads : SameLocal(r)
  BY <1>e, <1>o, <1>h DEF SameLocal
<1>p. /\ \A b : In(b, queue[w0]) <=> b = <<s0, i0>> \/ In(b, queue'[w0])
      /\ Distinct(queue'[w0]) /\ ~In(<<s0, i0>>, queue'[w0])
      /\ Tail(queue[w0]) \in Seq(Blocks)
  <2>1. queue[w0] \in Seq(Blocks) /\ queue[w0] # <<>> /\ Distinct(queue[w0])
    BY <1>i, <1>e DEF WaitsTypes, QueueInv
  <2>2. /\ \A b : In(b, queue[w0]) <=> b = Head(queue[w0]) \/ In(b, Tail(queue[w0]))
        /\ Distinct(Tail(queue[w0])) /\ ~In(Head(queue[w0]), Tail(queue[w0]))
        /\ Tail(queue[w0]) \in Seq(Blocks)
    BY <2>1, PopLemma
  <2>3. QED
    BY <1>0, <1>v, <2>2
<1>n. \A v \in Waitables : \A b : In(b, queue'[v]) => In(b, queue[v])
  BY <1>o, <1>p
<1>q. Valid(s0, i0, w0) /\ In(<<s0, i0>>, queue[w0])
  BY <1>i, <1>p DEF QueueInv
<1>b. \A r \in Threads, how \in {"unparkAny", "unparkAll"} :
        BeingUnparked(r, how) => BeingUnparked(r, how)'
  BY <1>i, <1>e, <1>v, <1>o DEF BeingUnparked
<1>c. \A r \in Threads : op[r] = "all" => Pending(r)' = Pending(r)
  <2>1. ASSUME NEW r \in Threads, NEW j \in linked[r]
        PROVE  (\/ In(<<r, j>>, queue[array[r][j]])
                \/ \E s \in Threads : pc[s] = "lockAll" /\ front[s] = <<r, j>>)
               <=> (\/ In(<<r, j>>, queue'[array[r][j]])
                    \/ \E s \in Threads : pc'[s] = "lockAll" /\ front'[s] = <<r, j>>)
    <3>1. CASE <<r, j>> = <<s0, i0>>
      BY <1>v, <1>q, <3>1 DEF Valid
    <3>2. CASE <<r, j>> # <<s0, i0>>
      <4>1. In(<<r, j>>, queue[array[r][j]]) <=> In(<<r, j>>, queue'[array[r][j]])
        BY <1>j, <1>o, <1>p, <1>v, <3>2
      <4>2. \A s \in Threads : (pc[s] = "lockAll" /\ front[s] = <<r, j>>)
                              <=> (pc'[s] = "lockAll" /\ front'[s] = <<r, j>>)
        BY <1>e, <1>o, <1>v, <3>2
      <4>3. QED
        BY <4>1, <4>2
    <3>3. QED
      BY <3>1, <3>2
  <2>2. QED
    BY <1>e, <2>1 DEF Pending
<1>a. \A r \in Threads, j \in Nat, v \in Waitables : Valid(r, j, v) => Valid(r, j, v)'
  BY <1>f, FrameLemma
<1>1. WaitsTypes'
  <2>1. front' \in [Threads -> Blocks \cup {NoBlock}]
    BY <1>i, <1>e, <1>0 DEF WaitsTypes, Blocks, NoBlock
  <2>2. queue' \in [Waitables -> Seq(Blocks)]
    BY <1>i, <1>e, <1>0, <1>p DEF WaitsTypes, Blocks
  <2>3. permits' \in [Waitables -> Nat]
    BY <1>i, <1>e, <1>0 DEF WaitsTypes
  <2>4. pc' \in [Threads -> Points \cup Releasing]
    BY <1>i, <1>e, <1>0 DEF WaitsTypes, Points, Resumes, Releasing, Handing
  <2>5. QED
    BY <1>i, <1>e, <2>1, <2>2, <2>3, <2>4 DEF WaitsTypes, LookTypes
<1>2. ReleaserInv'
  BY <1>i, <1>e, <1>v, <1>o, <1>0 DEF ReleaserInv, Releasing, Handing, AfterPrologues, NoBlock
<1>3. CallInv'
  BY <1>i, <1>f, FrameLemma DEF CallInv
<1>4. IndexInv'
  BY <1>i, <1>f, FrameLemma DEF IndexInv
<1>5. QueueInv'
  BY <1>i, <1>o, <1>p, <1>a DEF QueueInv
<1>6. FrontInv'
  <2>1. \A r \in Threads \ {t} :
          front'[r] = front[r] /\ pc'[r] = pc[r] /\ serving'[r] = serving[r]
    BY <1>e, <1>o
  <2>2. ASSUME NEW r \in Threads \ {t}, NEW q \in Threads, NEW j \in Nat,
               front[r] = <<q, j>>, FrontOK(r, q, j)
        PROVE  KeepsFront(r, q, j)
    <3>0. serving[r][1] \in Waitables
      BY <1>i, <2>2, HoldsFront
    <3>1. Valid(q, j, serving[r][1])'
      BY <1>e, <1>a, <2>1, <2>2, <3>0 DEF FrontOK
    <3>2. ~In(<<q, j>>, queue'[serving[r][1]])
      BY <1>e, <2>2, <3>0, <1>n DEF FrontOK
    <3>3. (IsAny(q) => IsAny(q)') /\ (op[q] = "all" => op'[q] = "all")
      BY <1>i, <1>e, <1>v, <1>o, <1>0, <1>h, <1>f, <1>p, <1>n, <1>q, <1>b, <1>c DEF IsAny
    <3>4. pc[r] = "unparkAny" => count'[q] = 0 /\ key'[q] = "none" /\ At(q)' \in Waiting
      BY <1>i, <1>e, <1>v, <1>o, <1>0, <1>h, <1>f, <1>p, <1>n, <1>q, <1>b, <1>c, <2>2 DEF FrontOK
    <3>5. QED
      BY <3>1, <3>2, <3>3, <3>4 DEF KeepsFront
  <2>3. ASSUME NEW q \in Threads, NEW j \in Nat, front'[t] = <<q, j>> PROVE FrontOK(t, q, j)'
    <3>1. FrontOK(t, s0, i0)'
      BY <1>i, <1>0, <1>e, <1>v, <1>o, <1>p, <1>q, <1>a DEF FrontOK
    <3>2. q = s0 /\ j = i0
      BY <1>0, <1>e, <1>v, <2>3
    <3>3. QED
      BY <3>1, <3>2
  <2>4. pc'[t] # "unparkAny"
    BY <1>v
  <2>5. QED
    BY <1>i, <2>1, <2>2, <2>3, <2>4, FrontLemma
<1>7. LinkedInv'
  <2>1. \A r \in Threads, j \in Nat : Held(r, j) \/ <<r, j>> = <<s0, i0>> => Held(r, j)'
    BY <1>i, <1>e, <1>v, <1>o DEF Held, ReleaserInv, Handing, NoBlock
  <2>2. ASSUME NEW r \in Threads, NEW j \in Nat, j \in linked'[r] PROVE LinkedOK(r, j)'
    <3>1. LinkedOK(r, j)
      BY <1>i, <1>e, <2>2 DEF LinkedInv
    <3>2. QED
      BY <1>e, <1>f, <1>o, <1>p, <2>1, <3>1 DEF LinkedOK, SameLocal, IsAny
  <2>3. QED
    BY <2>2 DEF LinkedInv
<1>8. ParkerInv'
  BY <1>i, <1>f, <1>b, FrameLemma DEF ParkerInv
<1>9. CountInv'
  BY <1>i, <1>f, <1>b, <1>c, FrameLemma DEF CountInv
<1>10. PermitInv'
  BY <1>i, <1>e, <1>v, <1>o, <1>0 DEF PermitInv, AllowsAcquire
<1>11. TotalInv'
  <2>1. \A v \in Waitables : Used(v)' = Used(v)
    BY <1>i, <1>e, <1>v, <1>o, <1>0, <1>h, <1>f, <1>p, <1>n, <1>q, <1>b, <1>c
       DEF Used, CallOK, IndexOK, WaitsTypes
  <2>2. \A v \in Waitables : InHands(v)' = InHands(v)
    <3>1. \A v \in Waitables, r \in Threads : InHand(r, v)' <=> InHand(r, v)
      BY <1>i, <1>e, <1>v, <1>o, <1>0 DEF InHand, Resumes, AfterPrologues, Points
    <3>2. QED
      BY <3>1 DEF InHands
  <2>3. QED
    BY <1>i, <1>e, <2>1, <2>2 DEF TotalInv, TotalOK
<1>12. QED
  BY <1>1, <1>2, <1>3, <1>4, <1>5, <1>6, <1>7, <1>8, <1>9, <1>10, <1>11 DEF WaitsInv

\* ReleaseWaitersAndUnlockQueue has nobody to release, and unlocks the queue.
LEMMA RelUnlockStep ==
  ASSUME WaitsInv, NEW t \in Threads,
         ReleaseWaiters(t),
         ~(permits[serving[t][1]] > 0 /\ queue[serving[t][1]] # <<>>)
  PROVE  WaitsInv'
<1>i. /\ WaitsTypes /\ ReleaserInv /\ CallInv /\ IndexInv /\ QueueInv /\ FrontInv
      /\ LinkedInv /\ ParkerInv /\ CountInv /\ PermitInv /\ TotalInv
      /\ NoThread \notin Threads /\ IsFiniteSet(Threads) /\ MaxCount \in Nat
  BY WaitsParts
<1>0. PICK w0 \in Waitables, to0 \in Resumes : serving[t] = <<w0, to0>>
  BY <1>i DEF ReleaseWaiters, ReleaserInv, Handing, Releasing, WaitsTypes
<1>e. /\ pc[t] = "release" /\ ~(permits[w0] > 0 /\ queue[w0] # <<>>)
      /\ holder' = [holder EXCEPT ![w0] = NoThread]
      /\ pc' = [pc EXCEPT ![t] = to0]
      /\ serving' = [serving EXCEPT ![t] = <<>>]
      /\ UNCHANGED <<permits, queue, op, array, index, visited, count, key, linked, got, front,
                     total>>
  BY <1>i, <1>0
     DEF ReleaseWaiters, semaphores, callVars, waitVars, Step, Goto, SetIndex, Object, AtEnd
<1>v. /\ holder'[w0] = NoThread
      /\ pc'[t] = to0
      /\ serving'[t] = <<>>
  BY <1>i, <1>e, <1>0 DEF WaitsTypes
<1>o. /\ \A r \in Waitables \ {w0} : holder'[r] = holder[r]
      /\ \A r \in Threads \ {t} : pc'[r] = pc[r]
      /\ \A r \in Threads \ {t} : serving'[r] = serving[r]
  BY <1>i, <1>e DEF WaitsTypes
<1>h. \A r \in Threads : At(r)' = At(r)
  BY <1>i, <1>e, <1>v, <1>o, <1>0 DEF At, ReleaserInv, Releasing, Handing
<1>f. \A r \in Threads : SameLocal(r)
  BY <1>e, <1>o, <1>h DEF SameLocal
<1>a. \A r \in Threads, j \in Nat, v \in Waitables : Valid(r, j, v) => Valid(r, j, v)'
  BY <1>f, FrameLemma
<1>b. \A r \in Threads, how \in {"unparkAny", "unparkAll"} :
        BeingUnparked(r, how) => BeingUnparked(r, how)'
  BY <1>i, <1>e, <1>v, <1>o DEF BeingUnparked, AfterPrologues, Resumes, Points
<1>c. \A r \in Threads : op[r] = "all" => Pending(r)' = Pending(r)
  BY <1>i, <1>e, <1>v, <1>o DEF Pending, AfterPrologues, Resumes, Points
<1>1. WaitsTypes'
  <2>1. holder' \in [Waitables -> Threads \cup {NoThread}]
    BY <1>i, <1>e, <1>0 DEF WaitsTypes
  <2>2. pc' \in [Threads -> Points \cup Releasing]
    BY <1>i, <1>e, <1>0 DEF WaitsTypes, Points, Resumes, Releasing, Handing
  <2>3. serving' \in [Threads -> (Waitables \X Resumes) \cup {<<>>}]
    BY <1>i, <1>e, <1>0 DEF WaitsTypes, Resumes
  <2>4. QED
    BY <1>i, <1>e, <2>1, <2>2, <2>3 DEF WaitsTypes, LookTypes
<1>2. ReleaserInv'
  BY <1>i, <1>0, <1>e, <1>v, <1>o DEF ReleaserInv, Releasing, Handing, Resumes
<1>3. CallInv'
  BY <1>i, <1>f, FrameLemma DEF CallInv
<1>4. IndexInv'
  BY <1>i, <1>f, FrameLemma DEF IndexInv
<1>5. QueueInv'
  BY <1>i, <1>e, <1>a DEF QueueInv
<1>6. FrontInv'
  <2>1. \A r \in Threads \ {t} : pc'[r] = pc[r] /\ serving'[r] = serving[r]
    BY <1>e, <1>v, <1>o
  <2>2. ASSUME NEW r \in Threads \ {t}, NEW q \in Threads, NEW j \in Nat,
               front[r] = <<q, j>>, FrontOK(r, q, j)
        PROVE  KeepsFront(r, q, j)
    <3>0. serving[r][1] \in Waitables
      BY <1>i, <2>2, HoldsFront
    <3>1. Valid(q, j, serving[r][1])'
      BY <1>a, <2>1, <2>2, <3>0 DEF FrontOK
    <3>2. ~In(<<q, j>>, queue'[serving[r][1]])
      BY <1>e, <2>2, <3>0 DEF FrontOK
    <3>3. (IsAny(q) => IsAny(q)') /\ (op[q] = "all" => op'[q] = "all")
      BY <1>i, <1>e, <1>v, <1>o, <2>2 DEF IsAny, FrontOK, Valid, IndexOK
    <3>4. pc[r] = "unparkAny" => count'[q] = 0 /\ key'[q] = "none" /\ At(q)' \in Waiting
      BY <1>i, <1>e, <1>v, <1>o, <1>0, <1>h, <1>f, <2>2
         DEF FrontOK, Waiting, AfterPrologues, CallOK, ParkerOK, Valid
    <3>5. QED
      BY <3>1, <3>2, <3>3, <3>4 DEF KeepsFront
  <2>3. pc[t] \notin Handing /\ pc'[t] # "unparkAny"
    BY <1>e, <1>v, <1>o, <1>0 DEF Handing, Resumes
  <2>4. QED
    BY <1>i, <1>e, <2>1, <2>2, <2>3, FrontKept
<1>7. LinkedInv'
  <2>1. ASSUME NEW r \in Threads, NEW j \in Nat, j \in linked'[r]
        PROVE  /\ j \in linked[r] /\ array'[r] = array[r] /\ (IsAny(r) => IsAny(r)')
               /\ IsAny(r) /\ (j \in got[r] \/ At(r) = "return") =>
                    j \in got'[r] \/ At(r)' = "return"
    BY <1>i, <1>e, <1>v, <1>o, <1>0, <1>h, <1>f, <2>1 DEF SameLocal, IsAny, IndexOK, CallOK
  <2>2. QED
    BY <1>i, <1>e, <2>1, LinkedKept
<1>8. ParkerInv'
  BY <1>i, <1>f, <1>b, FrameLemma DEF ParkerInv
<1>9. CountInv'
  BY <1>i, <1>f, <1>b, <1>c, FrameLemma DEF CountInv
<1>10. PermitInv'
  BY <1>i, <1>e, <1>v, <1>o DEF PermitInv
<1>11. TotalInv'
  <2>1. \A v \in Waitables : Used(v)' = Used(v)
    BY <1>i, <1>e, <1>v, <1>o, <1>0, <1>h, <1>f DEF Used, CallOK, IndexOK, WaitsTypes
  <2>2. \A v \in Waitables : InHands(v)' = InHands(v)
    <3>1. \A v \in Waitables, r \in Threads : InHand(r, v)' <=> InHand(r, v)
      BY <1>i, <1>e, <1>v, <1>o, <1>0 DEF InHand, Resumes, AfterPrologues, Points
    <3>2. QED
      BY <3>1 DEF InHands
  <2>3. QED
    BY <1>i, <1>e, <2>1, <2>2 DEF TotalInv, TotalOK
<1>12. QED
  BY <1>1, <1>2, <1>3, <1>4, <1>5, <1>6, <1>7, <1>8, <1>9, <1>10, <1>11 DEF WaitsInv

\* TryLockParker of a wait-any succeeds: its object is acquired for it.
LEMMA LockAnyOkStep ==
  ASSUME WaitsInv, NEW t \in Threads,
         LockAny(t), count[front[t][1]] = 1
  PROVE  WaitsInv'
<1>i. /\ WaitsTypes /\ ReleaserInv /\ CallInv /\ IndexInv /\ QueueInv /\ FrontInv
      /\ LinkedInv /\ ParkerInv /\ CountInv /\ PermitInv /\ TotalInv
      /\ NoThread \notin Threads /\ IsFiniteSet(Threads) /\ MaxCount \in Nat
  BY WaitsParts
<1>0. PICK s0 \in Threads, i0 \in Nat, w0 \in Waitables, to0 \in Resumes :
            front[t] = <<s0, i0>> /\ serving[t] = <<w0, to0>> /\ holder[w0] = t
  BY <1>i, HandsLemma DEF LockAny, Step, Handing
<1>e. /\ pc[t] = "lockAny" /\ count[s0] = 1
      /\ count' = [count EXCEPT ![s0] = 0]
      /\ pc' = [pc EXCEPT ![t] = "unparkAny"]
      /\ UNCHANGED <<permits, queue, holder, op, array, index, visited, key, linked, got,
                     serving, front, total>>
  BY <1>i, <1>0 DEF LockAny, semaphores, callVars, waitVars, Step, Goto, SetIndex, Object, AtEnd
<1>v. /\ count'[s0] = 0
      /\ pc'[t] = "unparkAny"
  BY <1>i, <1>e, <1>0 DEF WaitsTypes
<1>o. /\ \A r \in Threads \ {s0} : count'[r] = count[r]
      /\ \A r \in Threads \ {t} : pc'[r] = pc[r]
  BY <1>i, <1>e DEF WaitsTypes
<1>h. \A r \in Threads : At(r)' = At(r)
  BY <1>i, <1>e, <1>v, <1>o, <1>0 DEF At, ReleaserInv, Releasing, Handing
<1>f. \A r \in Threads \ {s0} : SameLocal(r)
  BY <1>e, <1>o, <1>h DEF SameLocal
<1>w. CallOK(s0) /\ IndexOK(s0) /\ ParkerOK(s0) /\ CountOK(s0)
  BY <1>i, <1>0 DEF CallInv, IndexInv, ParkerInv, CountInv
<1>q. FrontOK(t, s0, i0) /\ Valid(s0, i0, w0) /\ i0 \in linked[s0]
  BY <1>i, <1>0, BlockInHand
<1>u. /\ \A v \in Waitables : ~In(<<s0, i0>>, queue[v])
      /\ \A r \in Threads \ {t} : front[r] # <<s0, i0>>
  BY <1>i, <1>0, BlockInHand
<1>s. IsAny(s0) /\ key[s0] = "none" /\ got[s0] = {} /\ At(s0) \in Waiting
  BY <1>i, <1>e, <1>q, <1>w DEF FrontOK, Valid, CallOK, IndexOK, ParkerOK, IsAny, Waiting
<1>a. \A r \in Threads, j \in Nat, v \in Waitables : Valid(r, j, v) => Valid(r, j, v)'
  BY <1>e, <1>h DEF Valid
<1>b. \A r \in Threads, how \in {"unparkAny", "unparkAll"} :
        BeingUnparked(r, how) => BeingUnparked(r, how)'
  BY <1>i, <1>0, <1>e, <1>v, <1>o DEF BeingUnparked
<1>z. BeingUnparked(s0, "unparkAny")'
  BY <1>0, <1>e, <1>v DEF BeingUnparked
<1>c. \A r \in Threads : op[r] = "all" => Pending(r)' = Pending(r)
  BY <1>i, <1>e, <1>v, <1>o DEF Pending, AfterPrologues, Resumes, Points
<1>1. WaitsTypes'
  <2>1. count' \in [Threads -> Nat]
    BY <1>i, <1>e, <1>0 DEF WaitsTypes
  <2>2. pc' \in [Threads -> Points \cup Releasing]
    BY <1>i, <1>e, <1>0 DEF WaitsTypes, Points, Resumes, Releasing, Handing
  <2>3. QED
    BY <1>i, <1>e, <2>1, <2>2 DEF WaitsTypes, LookTypes
<1>2. ReleaserInv'
  BY <1>i, <1>e, <1>v, <1>o, <1>0 DEF ReleaserInv, Releasing, Handing, AfterPrologues, NoBlock
<1>3. CallInv'
  <2>1. CallOK(s0)'
    BY <1>i, <1>e, <1>v, <1>o, <1>0, <1>h, <1>f, <1>w, <1>q, <1>u, <1>s, <1>a, <1>b, <1>z
       DEF CallOK, IndexOK, ParkerOK, IsAny, AfterPrologues, Waiting
  <2>2. QED
    BY <1>i, <1>f, <2>1, FrameLemma DEF CallInv
<1>4. IndexInv'
  <2>1. IndexOK(s0)'
    BY <1>i, <1>e, <1>v, <1>o, <1>0, <1>h, <1>f, <1>w, <1>q, <1>u, <1>s, <1>a, <1>b, <1>z
       DEF IndexOK, CallOK, ParkerOK, IsAny, AfterPrologues, Waiting
  <2>2. QED
    BY <1>i, <1>f, <2>1, FrameLemma DEF IndexInv
<1>5. QueueInv'
  BY <1>i, <1>e, <1>a DEF QueueInv
<1>6. FrontInv'
  <2>1. \A r \in Threads \ {t} :
          front'[r] = front[r] /\ pc'[r] = pc[r] /\ serving'[r] = serving[r]
    BY <1>e, <1>o
  <2>2. ASSUME NEW r \in Threads \ {t}, NEW q \in Threads, NEW j \in Nat,
               front[r] = <<q, j>>, FrontOK(r, q, j)
        PROVE  KeepsFront(r, q, j)
    <3>0. serving[r][1] \in Waitables
      BY <1>i, <2>2, HoldsFront
    <3>1. Valid(q, j, serving[r][1])'
      BY <1>e, <1>a, <2>1, <2>2, <3>0, <1>u DEF FrontOK
    <3>2. ~In(<<q, j>>, queue'[serving[r][1]])
      BY <1>e, <2>2, <3>0 DEF FrontOK
    <3>3. (IsAny(q) => IsAny(q)') /\ (op[q] = "all" => op'[q] = "all")
      BY <1>i, <1>e, <1>v, <1>o, <1>0, <1>h, <1>f, <1>w, <1>q, <1>u, <1>s, <1>a, <1>b, <1>z
         DEF IsAny
    <3>4. pc[r] = "unparkAny" => count'[q] = 0 /\ key'[q] = "none" /\ At(q)' \in Waiting
      BY <1>i, <1>e, <1>v, <1>o, <1>0, <1>h, <1>f, <1>w, <1>q, <1>u, <1>s, <1>a, <1>b, <1>z, <2>2
         DEF FrontOK
    <3>5. QED
      BY <3>1, <3>2, <3>3, <3>4 DEF KeepsFront
  <2>3. ASSUME NEW q \in Threads, NEW j \in Nat, front'[t] = <<q, j>> PROVE FrontOK(t, q, j)'
    <3>1. FrontOK(t, s0, i0)'
      BY <1>i, <1>0, <1>e, <1>v, <1>o, <1>q, <1>s, <1>h, <1>a DEF FrontOK, IsAny
    <3>2. q = s0 /\ j = i0
      BY <1>0, <1>e, <1>v, <2>3
    <3>3. QED
      BY <3>1, <3>2
  <2>4. ASSUME NEW r \in Threads \ {t}, NEW q \in Threads, NEW i \in Nat, NEW j \in Nat,
               pc[r] = "unparkAny", front[r] = <<q, i>>
        PROVE  front'[t] # <<q, j>>
    <3>1. FrontOK(r, q, i)
      BY <1>i, <2>4 DEF FrontInv
    <3>2. q # s0
      BY <1>e, <2>4, <3>1 DEF FrontOK
    <3>3. QED
      BY <1>0, <1>e, <3>2
  <2>5. \A r \in Threads \ {t}, q \in Threads, j \in Nat :
          front[r] = <<q, j>> /\ FrontOK(r, q, j) => KeepsFront(r, q, j)
    BY <2>2
  <2>6. \A q \in Threads, j \in Nat : front'[t] = <<q, j>> => FrontOK(t, q, j)'
    BY <2>3
  <2>7. \A r \in Threads \ {t}, q \in Threads, i, j \in Nat :
          pc[r] = "unparkAny" /\ front[r] = <<q, i>> => front'[t] # <<q, j>>
    BY <2>4
  <2>8. FrontInv
    BY <1>i
  <2>9. QED
    BY <2>1, <2>5, <2>6, <2>7, <2>8, FrontLemma
<1>7. LinkedInv'
  <2>1. ASSUME NEW r \in Threads, NEW j \in Nat, j \in linked'[r]
        PROVE  /\ j \in linked[r] /\ array'[r] = array[r] /\ (IsAny(r) => IsAny(r)')
               /\ IsAny(r) /\ (j \in got[r] \/ At(r) = "return") =>
                    j \in got'[r] \/ At(r)' = "return"
    BY <1>i, <1>e, <1>v, <1>o, <1>0, <1>h, <1>f, <1>w, <1>q, <1>u, <1>s, <1>a, <1>b, <1>z, <2>1
       DEF SameLocal, IsAny, IndexOK, CallOK
  <2>2. QED
    BY <1>i, <1>e, <2>1, LinkedKept
<1>8. ParkerInv'
  <2>1. ParkerOK(s0)'
    BY <1>i, <1>e, <1>v, <1>o, <1>0, <1>h, <1>f, <1>w, <1>q, <1>u, <1>s, <1>a, <1>b, <1>z, <1>b
       DEF ParkerOK, CallOK, IndexOK, IsAny, Waiting, AfterPrologues
  <2>2. QED
    BY <1>i, <1>f, <1>b, <2>1, FrameLemma DEF ParkerInv
<1>9. CountInv'
  <2>1. CountOK(s0)'
    BY <1>i, <1>e, <1>v, <1>o, <1>0, <1>h, <1>f, <1>w, <1>q, <1>u, <1>s, <1>a, <1>b, <1>z, <1>b,
       <1>c
       DEF CountOK, CallOK, IndexOK, ParkerOK, IsAny, AfterPrologues
  <2>2. QED
    BY <1>i, <1>f, <1>b, <1>c, <2>1, FrameLemma DEF CountInv
<1>10. PermitInv'
  BY <1>i, <1>e, <1>v, <1>o, <1>0 DEF PermitInv, AllowsAcquire
<1>11. TotalInv'
  <2>1. \A v \in Waitables : Used(v)' = Used(v)
    BY <1>i, <1>e, <1>v, <1>o, <1>0, <1>h, <1>f, <1>w, <1>q, <1>u, <1>s, <1>a, <1>b, <1>z
       DEF Used, CallOK, IndexOK, WaitsTypes
  <2>2. \A v \in Waitables : InHands(v)' = InHands(v)
    <3>1. \A v \in Waitables, r \in Threads : InHand(r, v)' <=> InHand(r, v)
      BY <1>i, <1>e, <1>v, <1>o, <1>0 DEF InHand, Resumes, AfterPrologues, Points
    <3>2. QED
      BY <3>1 DEF InHands
  <2>3. QED
    BY <1>i, <1>e, <2>1, <2>2 DEF TotalInv, TotalOK
<1>12. QED
  BY <1>1, <1>2, <1>3, <1>4, <1>5, <1>6, <1>7, <1>8, <1>9, <1>10, <1>11 DEF WaitsInv

\* TryLockParker of a wait-any fails: its block is marked, and the permit given back.
LEMMA LockAnyFailStep ==
  ASSUME WaitsInv, NEW t \in Threads,
         LockAny(t), count[front[t][1]] # 1
  PROVE  WaitsInv'
<1>i. /\ WaitsTypes /\ ReleaserInv /\ CallInv /\ IndexInv /\ QueueInv /\ FrontInv
      /\ LinkedInv /\ ParkerInv /\ CountInv /\ PermitInv /\ TotalInv
      /\ NoThread \notin Threads /\ IsFiniteSet(Threads) /\ MaxCount \in Nat
  BY WaitsParts
<1>0. PICK s0 \in Threads, i0 \in Nat, w0 \in Waitables, to0 \in Resumes :
            front[t] = <<s0, i0>> /\ serving[t] = <<w0, to0>> /\ holder[w0] = t
  BY <1>i, HandsLemma DEF LockAny, Step, Handing
<1>e. /\ pc[t] = "lockAny" /\ count[s0] = 0
      /\ linked' = [linked EXCEPT ![s0] = linked[s0] \ {i0}]
      /\ permits' = [permits EXCEPT ![w0] = permits[w0] + 1]
      /\ front' = [front EXCEPT ![t] = NoBlock]
      /\ pc' = [pc EXCEPT ![t] = "release"]
      /\ UNCHANGED <<queue, holder, op, array, index, visited, count, key, got, serving, total>>
  BY <1>i, <1>0 DEF LockAny, semaphores, callVars, waitVars, Step, Goto, SetIndex, Object, AtEnd
<1>v. /\ linked'[s0] = linked[s0] \ {i0}
      /\ permits'[w0] = permits[w0] + 1
      /\ front'[t] = NoBlock
      /\ pc'[t] = "release"
  BY <1>i, <1>e, <1>0 DEF WaitsTypes
<1>o. /\ \A r \in Threads \ {s0} : linked'[r] = linked[r]
      /\ \A r \in Waitables \ {w0} : permits'[r] = permits[r]
      /\ \A r \in Threads \ {t} : front'[r] = front[r]
      /\ \A r \in Threads \ {t} : pc'[r] = pc[r]
  BY <1>i, <1>e DEF WaitsTypes
<1>h. \A r \in Threads : At(r)' = At(r)
  BY <1>i, <1>e, <1>v, <1>o, <1>0 DEF At, ReleaserInv, Releasing, Handing
<1>f. \A r \in Threads \ {s0} : SameLocal(r)
  BY <1>e, <1>o, <1>h DEF SameLocal
<1>w. CallOK(s0) /\ IndexOK(s0) /\ ParkerOK(s0) /\ CountOK(s0)
  BY <1>i, <1>0 DEF CallInv, IndexInv, ParkerInv, CountInv
<1>q. FrontOK(t, s0, i0) /\ Valid(s0, i0, w0) /\ i0 \in linked[s0]
  BY <1>i, <1>0, BlockInHand
<1>u. /\ \A v \in Waitables : ~In(<<s0, i0>>, queue[v])
      /\ \A r \in Threads \ {t} : front[r] # <<s0, i0>>
  BY <1>i, <1>0, BlockInHand
<1>a. \A r \in Threads, j \in Nat, v \in Waitables :
        Valid(r, j, v) /\ <<r, j>> # <<s0, i0>> => Valid(r, j, v)'
  <2>1. \A j \in Nat \ {i0}, v \in Waitables : Valid(s0, j, v) => Valid(s0, j, v)'
    BY <1>e, <1>v, <1>o, <1>h DEF Valid
  <2>2. QED
    BY <1>f, <2>1, FrameLemma
<1>b. \A r \in Threads, how \in {"unparkAny", "unparkAll"} :
        BeingUnparked(r, how) => BeingUnparked(r, how)'
  BY <1>i, <1>0, <1>e, <1>v, <1>o DEF BeingUnparked
<1>s. IsAny(s0)
  BY <1>e, <1>q DEF FrontOK
<1>c. \A r \in Threads : op[r] = "all" => Pending(r)' = Pending(r)
  BY <1>i, <1>0, <1>e, <1>v, <1>o, <1>s DEF Pending, IsAny
<1>1. WaitsTypes'
  <2>1. linked' \in [Threads -> SUBSET Nat]
    BY <1>i, <1>e, <1>0 DEF WaitsTypes
  <2>2. permits' \in [Waitables -> Nat]
    BY <1>i, <1>e, <1>0, SMTT(30) DEF WaitsTypes
  <2>3. front' \in [Threads -> Blocks \cup {NoBlock}]
    BY <1>i, <1>e, <1>0 DEF WaitsTypes, Blocks, NoBlock
  <2>4. pc' \in [Threads -> Points \cup Releasing]
    BY <1>i, <1>e, <1>0 DEF WaitsTypes, Points, Resumes, Releasing, Handing
  <2>5. QED
    BY <1>i, <1>e, <2>1, <2>2, <2>3, <2>4 DEF WaitsTypes, LookTypes
<1>2. ReleaserInv'
  BY <1>i, <1>e, <1>v, <1>o, <1>0 DEF ReleaserInv, Releasing, Handing, AfterPrologues, NoBlock
<1>3. CallInv'
  <2>1. CallOK(s0)'
    BY <1>i, <1>e, <1>v, <1>o, <1>0, <1>h, <1>f, <1>w, <1>q, <1>u, <1>a, <1>b, <1>s, <1>c
       DEF CallOK, IndexOK, ParkerOK, IsAny, AfterPrologues, Waiting
  <2>2. QED
    BY <1>i, <1>f, <2>1, FrameLemma DEF CallInv
<1>4. IndexInv'
  <2>1. IndexOK(s0)'
    BY <1>i, <1>e, <1>v, <1>o, <1>0, <1>h, <1>f, <1>w, <1>q, <1>u, <1>a, <1>b, <1>s, <1>c
       DEF IndexOK, CallOK, ParkerOK, IsAny, AfterPrologues, Waiting
  <2>2. QED
    BY <1>i, <1>f, <2>1, FrameLemma DEF IndexInv
<1>5. QueueInv'
  BY <1>i, <1>e, <1>u, <1>a DEF QueueInv
<1>6. FrontInv'
  <2>1. \A r \in Threads \ {t} :
          front'[r] = front[r] /\ pc'[r] = pc[r] /\ serving'[r] = serving[r]
    BY <1>e, <1>o
  <2>2. ASSUME NEW r \in Threads \ {t}, NEW q \in Threads, NEW j \in Nat,
               front[r] = <<q, j>>, FrontOK(r, q, j)
        PROVE  KeepsFront(r, q, j)
    <3>0. serving[r][1] \in Waitables
      BY <1>i, <2>2, HoldsFront
    <3>1. Valid(q, j, serving[r][1])'
      BY <1>e, <1>a, <2>1, <2>2, <3>0, <1>u DEF FrontOK
    <3>2. ~In(<<q, j>>, queue'[serving[r][1]])
      BY <1>e, <2>2, <3>0 DEF FrontOK
    <3>3. (IsAny(q) => IsAny(q)') /\ (op[q] = "all" => op'[q] = "all")
      BY <1>i, <1>e, <1>v, <1>o, <1>0, <1>h, <1>f, <1>w, <1>q, <1>u, <1>a, <1>b, <1>s, <1>c
         DEF IsAny
    <3>4. pc[r] = "unparkAny" => count'[q] = 0 /\ key'[q] = "none" /\ At(q)' \in Waiting
      BY <1>i, <1>e, <1>v, <1>o, <1>0, <1>h, <1>f, <1>w, <1>q, <1>u, <1>a, <1>b, <1>s, <1>c, <2>2
         DEF FrontOK
    <3>5. QED
      BY <3>1, <3>2, <3>3, <3>4 DEF KeepsFront
  <2>3. \A q \in Threads, j \in Nat : front'[t] # <<q, j>>
    BY <1>i, <1>v DEF NoBlock
  <2>4. pc'[t] # "unparkAny"
    BY <1>v
  <2>5. QED
    BY <1>i, <2>1, <2>2, <2>3, <2>4, FrontLemma
<1>7. LinkedInv'
  <2>1. \A r \in Threads, j \in Nat : Held(r, j) /\ <<r, j>> # <<s0, i0>> => Held(r, j)'
    BY <1>i, <1>0, <1>e, <1>v, <1>o DEF Held
  <2>2. ASSUME NEW r \in Threads, NEW j \in Nat, j \in linked'[r] PROVE LinkedOK(r, j)'
    <3>1. LinkedOK(r, j) /\ j \in linked[r]
      BY <1>i, <1>e, <1>f, <1>v, <2>2 DEF LinkedInv, SameLocal
    <3>2. CASE <<r, j>> # <<s0, i0>>
      BY <1>e, <1>f, <1>v, <1>h, <2>1, <3>1, <3>2 DEF LinkedOK, SameLocal, IsAny
    <3>3. CASE <<r, j>> = <<s0, i0>>
      BY <1>e, <1>v, <1>q, <1>h, <2>2, <3>3 DEF LinkedOK, IsAny, FrontOK
    <3>4. QED
      BY <3>2, <3>3
  <2>3. QED
    BY <2>2 DEF LinkedInv
<1>8. ParkerInv'
  <2>1. ParkerOK(s0)'
    BY <1>i, <1>e, <1>v, <1>o, <1>0, <1>h, <1>f, <1>w, <1>q, <1>u, <1>a, <1>b, <1>s, <1>c, <1>b
       DEF ParkerOK, CallOK, IndexOK, IsAny, Waiting, AfterPrologues
  <2>2. QED
    BY <1>i, <1>f, <1>b, <2>1, FrameLemma DEF ParkerInv
<1>9. CountInv'
  <2>1. CountOK(s0)'
    BY <1>i, <1>e, <1>v, <1>o, <1>0, <1>h, <1>f, <1>w, <1>q, <1>u, <1>a, <1>b, <1>s, <1>c, <1>b,
       <1>c
       DEF CountOK, CallOK, IndexOK, ParkerOK, IsAny, AfterPrologues
  <2>2. QED
    BY <1>i, <1>f, <1>b, <1>c, <2>1, FrameLemma DEF CountInv
<1>10. PermitInv'
  BY <1>i, <1>e, <1>v, <1>o, <1>0 DEF PermitInv, AllowsAcquire
<1>11. TotalInv'
  <2>1. /\ \A v \in Waitables : Used(v)' = Used(v)
        /\ IsFiniteSet(Used(w0)') /\ Cardinality(Used(w0)) \in Nat
        /\ Cardinality(Used(w0)') = Cardinality(Used(w0))
    BY <1>i, <1>e, <1>0, UsedKept
  <2>2. /\ \A v \in Waitables \ {w0} : InHands(v)' = InHands(v)
        /\ Cardinality(InHands(w0)) \in Nat
        /\ Cardinality(InHands(w0)') = Cardinality(InHands(w0)) - 1
    <3>1. \A v \in Waitables : \A r \in Threads \ {t} : InHand(r, v)' <=> InHand(r, v)
      BY <1>e, <1>v, <1>o DEF InHand
    <3>2. \A v \in Waitables : ~InHand(t, v)' /\ (InHand(t, v) <=> v = w0)
      BY <1>e, <1>v, <1>o, <1>0 DEF InHand, Resumes
    <3>3. QED
      BY <1>i, <1>0, <3>1, <3>2, HandsRemove
  <2>3. /\ permits'[w0] = permits[w0] + 1 /\ permits[w0] \in Nat
        /\ total'[w0] = total[w0] /\ total[w0] \in Int
        /\ \A v \in Waitables \ {w0} : permits'[v] = permits[v] /\ total'[v] = total[v]
    BY <1>i, <1>e, <1>v, <1>o, <1>0 DEF WaitsTypes
  <2>4. ASSUME TotalOK(w0)
        PROVE  total'[w0] = permits'[w0] + Cardinality(Used(w0)') + Cardinality(InHands(w0)')
    <3>1. total[w0] = permits[w0] + Cardinality(Used(w0)) + Cardinality(InHands(w0))
      BY <2>4 DEF TotalOK
    <3>2. QED
      BY <2>1, <2>2, <2>3, <3>1
  <2>5. QED
    BY <1>i, <2>1, <2>2, <2>3, <2>4, <1>0, TotalLemma
<1>12. QED
  BY <1>1, <1>2, <1>3, <1>4, <1>5, <1>6, <1>7, <1>8, <1>9, <1>10, <1>11 DEF WaitsInv

\* The wait-any is unparked with the key of its block.
LEMMA UnparkAnyStep ==
  ASSUME WaitsInv, NEW t \in Threads,
         UnparkAny(t)
  PROVE  WaitsInv'
<1>i. /\ WaitsTypes /\ ReleaserInv /\ CallInv /\ IndexInv /\ QueueInv /\ FrontInv
      /\ LinkedInv /\ ParkerInv /\ CountInv /\ PermitInv /\ TotalInv
      /\ NoThread \notin Threads /\ IsFiniteSet(Threads) /\ MaxCount \in Nat
  BY WaitsParts
<1>0. PICK s0 \in Threads, i0 \in Nat, w0 \in Waitables, to0 \in Resumes :
            front[t] = <<s0, i0>> /\ serving[t] = <<w0, to0>> /\ holder[w0] = t
  BY <1>i, HandsLemma DEF UnparkAny, Step, Handing
<1>e. /\ pc[t] = "unparkAny"
      /\ key' = [key EXCEPT ![s0] = "acquired"]
      /\ got' = [got EXCEPT ![s0] = got[s0] \cup {i0}]
      /\ front' = [front EXCEPT ![t] = NoBlock]
      /\ pc' = [pc EXCEPT ![t] = "release"]
      /\ UNCHANGED <<permits, queue, holder, op, array, index, visited, count, linked, serving,
                     total>>
  BY <1>i, <1>0 DEF UnparkAny, semaphores, callVars, waitVars, Step, Goto, SetIndex, Object, AtEnd
<1>v. /\ key'[s0] = "acquired"
      /\ got'[s0] = got[s0] \cup {i0}
      /\ front'[t] = NoBlock
      /\ pc'[t] = "release"
  BY <1>i, <1>e, <1>0 DEF WaitsTypes
<1>o. /\ \A r \in Threads \ {s0} : key'[r] = key[r]
      /\ \A r \in Threads \ {s0} : got'[r] = got[r]
      /\ \A r \in Threads \ {t} : front'[r] = front[r]
      /\ \A r \in Threads \ {t} : pc'[r] = pc[r]
  BY <1>i, <1>e DEF WaitsTypes
<1>h. \A r \in Threads : At(r)' = At(r)
  BY <1>i, <1>e, <1>v, <1>o, <1>0 DEF At, ReleaserInv, Releasing, Handing
<1>f. \A r \in Threads \ {s0} : SameLocal(r)
  BY <1>e, <1>o, <1>h DEF SameLocal
<1>w. CallOK(s0) /\ IndexOK(s0) /\ ParkerOK(s0) /\ CountOK(s0)
  BY <1>i, <1>0 DEF CallInv, IndexInv, ParkerInv, CountInv
<1>q. FrontOK(t, s0, i0) /\ Valid(s0, i0, w0) /\ i0 \in linked[s0]
  BY <1>i, <1>0, BlockInHand
<1>u. /\ \A v \in Waitables : ~In(<<s0, i0>>, queue[v])
      /\ \A r \in Threads \ {t} : front[r] # <<s0, i0>>
  BY <1>i, <1>0, BlockInHand
<1>a. \A r \in Threads, j \in Nat, v \in Waitables :
        Valid(r, j, v) /\ <<r, j>> # <<s0, i0>> => Valid(r, j, v)'
  <2>1. \A j \in Nat \ {i0}, v \in Waitables : Valid(s0, j, v) => Valid(s0, j, v)'
    BY <1>e, <1>v, <1>o, <1>h DEF Valid
  <2>2. QED
    BY <1>f, <2>1, FrameLemma
<1>s. IsAny(s0) /\ key[s0] = "none" /\ got[s0] = {} /\ At(s0) \in Waiting /\ count[s0] = 0
  BY <1>e, <1>q, <1>w DEF FrontOK, ParkerOK, IsAny, Valid
<1>b. \A r \in Threads, how \in {"unparkAny", "unparkAll"} :
        BeingUnparked(r, how) /\ r # s0 => BeingUnparked(r, how)'
  BY <1>i, <1>0, <1>e, <1>v, <1>o DEF BeingUnparked
<1>y. \A r \in Threads \ {t}, j \in Nat : pc[r] = "unparkAny" => front[r] # <<s0, j>>
  BY <1>i, <1>0, <1>e DEF FrontInv, OneUnparker
<1>c. \A r \in Threads : op[r] = "all" => Pending(r)' = Pending(r)
  BY <1>i, <1>e, <1>v, <1>o DEF Pending, AfterPrologues, Resumes, Points
<1>1. WaitsTypes'
  <2>1. key' \in [Threads -> Keys]
    BY <1>i, <1>e, <1>0 DEF WaitsTypes, Keys
  <2>2. got' \in [Threads -> SUBSET Nat]
    BY <1>i, <1>e, <1>0 DEF WaitsTypes
  <2>3. front' \in [Threads -> Blocks \cup {NoBlock}]
    BY <1>i, <1>e, <1>0 DEF WaitsTypes, Blocks, NoBlock
  <2>4. pc' \in [Threads -> Points \cup Releasing]
    BY <1>i, <1>e, <1>0 DEF WaitsTypes, Points, Resumes, Releasing, Handing
  <2>5. QED
    BY <1>i, <1>e, <2>1, <2>2, <2>3, <2>4 DEF WaitsTypes, LookTypes
<1>2. ReleaserInv'
  BY <1>i, <1>e, <1>v, <1>o, <1>0 DEF ReleaserInv, Releasing, Handing, AfterPrologues, NoBlock
<1>3. CallInv'
  <2>1. CallOK(s0)'
    BY <1>i, <1>e, <1>v, <1>o, <1>0, <1>h, <1>f, <1>w, <1>q, <1>u, <1>a, <1>s, <1>b, <1>y
       DEF CallOK, IndexOK, ParkerOK, IsAny, AfterPrologues, Waiting
  <2>2. QED
    BY <1>i, <1>f, <2>1, FrameLemma DEF CallInv
<1>4. IndexInv'
  <2>1. IndexOK(s0)'
    BY <1>i, <1>e, <1>v, <1>o, <1>0, <1>h, <1>f, <1>w, <1>q, <1>u, <1>a, <1>s, <1>b, <1>y
       DEF IndexOK, CallOK, ParkerOK, IsAny, AfterPrologues, Waiting
  <2>2. QED
    BY <1>i, <1>f, <2>1, FrameLemma DEF IndexInv
<1>5. QueueInv'
  BY <1>i, <1>e, <1>u, <1>a DEF QueueInv
<1>6. FrontInv'
  <2>1. \A r \in Threads \ {t} :
          front'[r] = front[r] /\ pc'[r] = pc[r] /\ serving'[r] = serving[r]
    BY <1>e, <1>o
  <2>2. ASSUME NEW r \in Threads \ {t}, NEW q \in Threads, NEW j \in Nat,
               front[r] = <<q, j>>, FrontOK(r, q, j)
        PROVE  KeepsFront(r, q, j)
    <3>0. serving[r][1] \in Waitables
      BY <1>i, <2>2, HoldsFront
    <3>1. Valid(q, j, serving[r][1])'
      BY <1>e, <1>a, <2>1, <2>2, <3>0, <1>u DEF FrontOK
    <3>2. ~In(<<q, j>>, queue'[serving[r][1]])
      BY <1>e, <2>2, <3>0 DEF FrontOK
    <3>3. (IsAny(q) => IsAny(q)') /\ (op[q] = "all" => op'[q] = "all")
      BY <1>i, <1>e, <1>v, <1>o, <1>0, <1>h, <1>f, <1>w, <1>q, <1>u, <1>a, <1>s, <1>b, <1>y
         DEF IsAny
    <3>4. pc[r] = "unparkAny" => count'[q] = 0 /\ key'[q] = "none" /\ At(q)' \in Waiting
      BY <1>i, <1>e, <1>v, <1>o, <1>0, <1>h, <1>f, <1>w, <1>q, <1>u, <1>a, <1>s, <1>b, <1>y, <2>2
         DEF FrontOK
    <3>5. QED
      BY <3>1, <3>2, <3>3, <3>4 DEF KeepsFront
  <2>3. \A q \in Threads, j \in Nat : front'[t] # <<q, j>>
    BY <1>i, <1>v DEF NoBlock
  <2>4. pc'[t] # "unparkAny"
    BY <1>v
  <2>5. QED
    BY <1>i, <2>1, <2>2, <2>3, <2>4, FrontLemma
<1>7. LinkedInv'
  <2>1. \A r \in Threads, j \in Nat : Held(r, j) /\ <<r, j>> # <<s0, i0>> => Held(r, j)'
    BY <1>i, <1>0, <1>e, <1>v, <1>o DEF Held
  <2>2. ASSUME NEW r \in Threads, NEW j \in Nat, j \in linked'[r] PROVE LinkedOK(r, j)'
    <3>1. LinkedOK(r, j) /\ j \in linked[r]
      BY <1>i, <1>e, <1>f, <1>v, <2>2 DEF LinkedInv, SameLocal
    <3>2. CASE <<r, j>> # <<s0, i0>>
      BY <1>e, <1>f, <1>v, <1>h, <2>1, <3>1, <3>2 DEF LinkedOK, SameLocal, IsAny
    <3>3. CASE <<r, j>> = <<s0, i0>>
      BY <1>e, <1>v, <1>q, <1>h, <2>2, <3>3 DEF LinkedOK, IsAny, FrontOK
    <3>4. QED
      BY <3>2, <3>3
  <2>3. QED
    BY <2>2 DEF LinkedInv
<1>8. ParkerInv'
  <2>1. ParkerOK(s0)'
    <3>1. /\ IsAny(s0)' /\ At(s0)' = At(s0) /\ count'[s0] = 0 /\ key'[s0] = "acquired"
          /\ got'[s0] # {} /\ At(s0) \notin {"out", "tryAny"}
      BY <1>e, <1>v, <1>h, <1>s DEF IsAny, Waiting
    <3>2. QED
      BY <3>1 DEF ParkerOK, IsAny
  <2>2. QED
    BY <1>i, <1>f, <1>b, <2>1, FrameLemma DEF ParkerInv
<1>9. CountInv'
  <2>1. CountOK(s0)'
    BY <1>i, <1>e, <1>v, <1>o, <1>0, <1>h, <1>f, <1>w, <1>q, <1>u, <1>a, <1>s, <1>b, <1>y, <1>b,
       <1>c
       DEF CountOK, CallOK, IndexOK, ParkerOK, IsAny, AfterPrologues
  <2>2. QED
    BY <1>i, <1>f, <1>b, <1>c, <2>1, FrameLemma DEF CountInv
<1>10. PermitInv'
  BY <1>i, <1>e, <1>v, <1>o, <1>0 DEF PermitInv, AllowsAcquire
<1>11. TotalInv'
  <2>1. /\ \A v \in Waitables \ {w0} : Used(v)' = Used(v)
        /\ IsFiniteSet(Used(w0)') /\ Cardinality(Used(w0)) \in Nat
        /\ Cardinality(Used(w0)') = Cardinality(Used(w0)) + 1
    <3>1. /\ s0 \in Threads /\ i0 \in Nat /\ w0 \in Waitables
          /\ i0 \notin got[s0] /\ array[s0][i0] = w0
          /\ got'[s0] = got[s0] \cup {i0}
      BY <1>i, <1>e, <1>v, <1>o, <1>0, <1>h, <1>f, <1>w, <1>q, <1>u, <1>a, <1>s, <1>b, <1>y
         DEF Valid, WaitsTypes
    <3>2. UNCHANGED array /\ \A r \in Threads \ {s0} : got'[r] = got[r]
      BY <1>e, <1>o
    <3>3. QED
      BY <1>i, <3>1, <3>2, UsedAdds
  <2>2. /\ \A v \in Waitables \ {w0} : InHands(v)' = InHands(v)
        /\ Cardinality(InHands(w0)) \in Nat
        /\ Cardinality(InHands(w0)') = Cardinality(InHands(w0)) - 1
    <3>1. \A v \in Waitables : \A r \in Threads \ {t} : InHand(r, v)' <=> InHand(r, v)
      BY <1>e, <1>v, <1>o DEF InHand
    <3>2. \A v \in Waitables : ~InHand(t, v)' /\ (InHand(t, v) <=> v = w0)
      BY <1>e, <1>v, <1>o, <1>0 DEF InHand, Resumes
    <3>3. QED
      BY <1>i, <1>0, <3>1, <3>2, HandsRemove
  <2>3. /\ permits'[w0] = permits[w0] /\ permits[w0] \in Nat
        /\ total'[w0] = total[w0] /\ total[w0] \in Int
        /\ \A v \in Waitables \ {w0} : permits'[v] = permits[v] /\ total'[v] = total[v]
    BY <1>i, <1>e, <1>v, <1>o, <1>0 DEF WaitsTypes
  <2>4. ASSUME TotalOK(w0)
        PROVE  total'[w0] = permits'[w0] + Cardinality(Used(w0)') + Cardinality(InHands(w0)')
    <3>1. total[w0] = permits[w0] + Cardinality(Used(w0)) + Cardinality(InHands(w0))
      BY <2>4 DEF TotalOK
    <3>2. QED
      BY <2>1, <2>2, <2>3, <3>1
  <2>5. QED
    BY <1>i, <2>1, <2>2, <2>3, <2>4, <1>0, TotalLemma
<1>12. QED
  BY <1>1, <1>2, <1>3, <1>4, <1>5, <1>6, <1>7, <1>8, <1>9, <1>10, <1>11 DEF WaitsInv

\* TryLockParker of a wait-all was the last one: its releaser unparks it.
LEMMA LockAllOneStep ==
  ASSUME WaitsInv, NEW t \in Threads,
         LockAll(t), count[front[t][1]] = 1
  PROVE  WaitsInv'
<1>i. /\ WaitsTypes /\ ReleaserInv /\ CallInv /\ IndexInv /\ QueueInv /\ FrontInv
      /\ LinkedInv /\ ParkerInv /\ CountInv /\ PermitInv /\ TotalInv
      /\ NoThread \notin Threads /\ IsFiniteSet(Threads) /\ MaxCount \in Nat
  BY WaitsParts
<1>0. PICK s0 \in Threads, i0 \in Nat, w0 \in Waitables, to0 \in Resumes :
            front[t] = <<s0, i0>> /\ serving[t] = <<w0, to0>> /\ holder[w0] = t
  BY <1>i, HandsLemma DEF LockAll, Step, Handing
<1>e. /\ pc[t] = "lockAll" /\ count[s0] = 1
      /\ count' = [count EXCEPT ![s0] = 0]
      /\ pc' = [pc EXCEPT ![t] = "unparkAll"]
      /\ UNCHANGED <<permits, queue, holder, op, array, index, visited, key, linked, got,
                     serving, front, total>>
  BY <1>i, <1>0 DEF LockAll, semaphores, callVars, waitVars, Step, Goto, SetIndex, Object, AtEnd
<1>v. /\ count'[s0] = 0
      /\ pc'[t] = "unparkAll"
  BY <1>i, <1>e, <1>0 DEF WaitsTypes
<1>o. /\ \A r \in Threads \ {s0} : count'[r] = count[r]
      /\ \A r \in Threads \ {t} : pc'[r] = pc[r]
  BY <1>i, <1>e DEF WaitsTypes
<1>h. \A r \in Threads : At(r)' = At(r)
  BY <1>i, <1>e, <1>v, <1>o, <1>0 DEF At, ReleaserInv, Releasing, Handing
<1>f. \A r \in Threads \ {s0} : SameLocal(r)
  BY <1>e, <1>o, <1>h DEF SameLocal
<1>w. CallOK(s0) /\ IndexOK(s0) /\ ParkerOK(s0) /\ CountOK(s0)
  BY <1>i, <1>0 DEF CallInv, IndexInv, ParkerInv, CountInv
<1>q. FrontOK(t, s0, i0) /\ Valid(s0, i0, w0) /\ i0 \in linked[s0]
  BY <1>i, <1>0, BlockInHand
<1>u. /\ \A v \in Waitables : ~In(<<s0, i0>>, queue[v])
      /\ \A r \in Threads \ {t} : front[r] # <<s0, i0>>
  BY <1>i, <1>0, BlockInHand
<1>s. op[s0] = "all" /\ ~IsAny(s0)
  BY <1>e, <1>q DEF FrontOK, IsAny
<1>a. \A r \in Threads, j \in Nat, v \in Waitables : Valid(r, j, v) => Valid(r, j, v)'
  BY <1>e, <1>h DEF Valid
<1>b. \A r \in Threads, how \in {"unparkAny", "unparkAll"} :
        BeingUnparked(r, how) => BeingUnparked(r, how)'
  BY <1>i, <1>0, <1>e, <1>v, <1>o DEF BeingUnparked
<1>z. Pending(s0)' = Pending(s0) \ {i0} /\ i0 \in Pending(s0)
  <2>1. i0 \in Pending(s0)
    BY <1>0, <1>e, <1>q DEF Pending
  <2>2. i0 \notin Pending(s0)'
    BY <1>0, <1>e, <1>v, <1>o, <1>q, <1>u DEF Pending, Valid
  <2>3. \A j : j # i0 => (j \in Pending(s0)' <=> j \in Pending(s0))
    BY <1>0, <1>e, <1>v, <1>o DEF Pending
  <2>4. QED
    BY <2>1, <2>2, <2>3
<1>y. /\ IsFiniteSet(Pending(s0)) /\ Cardinality(Pending(s0)) \in Nat
      /\ Cardinality(Pending(s0)') = Cardinality(Pending(s0)) - 1
      /\ Cardinality(Pending(s0)') \in Nat /\ Len(array[s0]) \in Nat
      /\ At(s0) = "prologueAll" => index[s0] \in 1..Len(array[s0])
  <2>0. Len(array[s0]) \in Nat
    BY <1>i DEF WaitsTypes
  <2>1. /\ Pending(s0) \subseteq 1..Len(array[s0])
        /\ At(s0) = "prologueAll" => index[s0] \in 1..Len(array[s0])
    BY <1>w DEF Pending, IndexOK, CallOK
  <2>2. IsFiniteSet(Pending(s0))
    <3>1. IsFiniteSet(1..Len(array[s0]))
      BY <2>0, UpToIsFinite
    <3>2. QED
      BY <2>1, <3>1, FS_Subset
  <2>3. QED
    BY <1>z, <2>0, <2>1, <2>2, FS_RemoveElement, FS_CardinalityType
<1>m. BeingUnparked(s0, "unparkAll")'
  BY <1>0, <1>e, <1>v DEF BeingUnparked
<1>1. WaitsTypes'
  <2>1. count' \in [Threads -> Nat]
    BY <1>i, <1>e, <1>0 DEF WaitsTypes
  <2>2. pc' \in [Threads -> Points \cup Releasing]
    BY <1>i, <1>e, <1>0 DEF WaitsTypes, Points, Resumes, Releasing, Handing
  <2>3. QED
    BY <1>i, <1>e, <2>1, <2>2 DEF WaitsTypes, LookTypes
<1>2. ReleaserInv'
  BY <1>i, <1>e, <1>v, <1>o, <1>0 DEF ReleaserInv, Releasing, Handing, AfterPrologues, NoBlock
<1>3. CallInv'
  <2>1. CallOK(s0)'
    BY <1>i, <1>e, <1>v, <1>o, <1>0, <1>h, <1>f, <1>w, <1>q, <1>u, <1>s, <1>a, <1>b, <1>z, <1>y,
       <1>m
       DEF CallOK, IndexOK, ParkerOK, IsAny, AfterPrologues, Waiting
  <2>2. QED
    BY <1>i, <1>f, <2>1, FrameLemma DEF CallInv
<1>4. IndexInv'
  <2>1. IndexOK(s0)'
    BY <1>i, <1>e, <1>v, <1>o, <1>0, <1>h, <1>f, <1>w, <1>q, <1>u, <1>s, <1>a, <1>b, <1>z, <1>y,
       <1>m
       DEF IndexOK, CallOK, ParkerOK, IsAny, AfterPrologues, Waiting
  <2>2. QED
    BY <1>i, <1>f, <2>1, FrameLemma DEF IndexInv
<1>5. QueueInv'
  BY <1>i, <1>e, <1>a DEF QueueInv
<1>6. FrontInv'
  <2>1. \A r \in Threads \ {t} :
          front'[r] = front[r] /\ pc'[r] = pc[r] /\ serving'[r] = serving[r]
    BY <1>e, <1>o
  <2>2. ASSUME NEW r \in Threads \ {t}, NEW q \in Threads, NEW j \in Nat,
               front[r] = <<q, j>>, FrontOK(r, q, j)
        PROVE  KeepsFront(r, q, j)
    <3>0. serving[r][1] \in Waitables
      BY <1>i, <2>2, HoldsFront
    <3>1. Valid(q, j, serving[r][1])'
      BY <1>e, <1>a, <2>1, <2>2, <3>0, <1>u DEF FrontOK
    <3>2. ~In(<<q, j>>, queue'[serving[r][1]])
      BY <1>e, <2>2, <3>0 DEF FrontOK
    <3>3. (IsAny(q) => IsAny(q)') /\ (op[q] = "all" => op'[q] = "all")
      BY <1>i, <1>e, <1>v, <1>o, <1>0, <1>h, <1>f, <1>w, <1>q, <1>u, <1>s, <1>a, <1>b, <1>z, <1>y,
         <1>m
         DEF IsAny
    <3>4. pc[r] = "unparkAny" => count'[q] = 0 /\ key'[q] = "none" /\ At(q)' \in Waiting
      BY <1>i, <1>e, <1>v, <1>o, <1>0, <1>h, <1>f, <1>w, <1>q, <1>u, <1>s, <1>a, <1>b, <1>z, <1>y,
         <1>m, <2>2
         DEF FrontOK
    <3>5. QED
      BY <3>1, <3>2, <3>3, <3>4 DEF KeepsFront
  <2>3. ASSUME NEW q \in Threads, NEW j \in Nat, front'[t] = <<q, j>> PROVE FrontOK(t, q, j)'
    <3>1. FrontOK(t, s0, i0)'
      BY <1>i, <1>0, <1>e, <1>v, <1>o, <1>q, <1>s, <1>h, <1>a DEF FrontOK
    <3>2. q = s0 /\ j = i0
      BY <1>0, <1>e, <1>v, <2>3
    <3>3. QED
      BY <3>1, <3>2
  <2>4. pc'[t] # "unparkAny"
    BY <1>v
  <2>5. QED
    BY <1>i, <2>1, <2>2, <2>3, <2>4, FrontLemma
<1>7. LinkedInv'
  <2>1. ASSUME NEW r \in Threads, NEW j \in Nat, j \in linked'[r]
        PROVE  /\ j \in linked[r] /\ array'[r] = array[r] /\ (IsAny(r) => IsAny(r)')
               /\ IsAny(r) /\ (j \in got[r] \/ At(r) = "return") =>
                    j \in got'[r] \/ At(r)' = "return"
    BY <1>i, <1>e, <1>v, <1>o, <1>0, <1>h, <1>f, <1>w, <1>q, <1>u, <1>s, <1>a, <1>b, <1>z, <1>y,
       <1>m, <2>1
       DEF SameLocal, IsAny, IndexOK, CallOK
  <2>2. QED
    BY <1>i, <1>e, <2>1, LinkedKept
<1>8. ParkerInv'
  <2>1. ParkerOK(s0)'
    BY <1>i, <1>e, <1>v, <1>o, <1>0, <1>h, <1>f, <1>w, <1>q, <1>u, <1>s, <1>a, <1>b, <1>z, <1>y,
       <1>m, <1>b
       DEF ParkerOK, CallOK, IndexOK, IsAny, Waiting, AfterPrologues
  <2>2. QED
    BY <1>i, <1>f, <1>b, <2>1, FrameLemma DEF ParkerInv
<1>9. CountInv'
  <2>1. \A r \in Threads \ {s0} : op[r] = "all" => Pending(r)' = Pending(r)
    BY <1>0, <1>e, <1>v, <1>o DEF Pending
  <2>2. CountOK(s0)'
    <3> SUFFICES ASSUME At(s0)' \in {"prologueAll", "park"}
                 PROVE  /\ count'[s0] = Cardinality(Pending(s0)') +
                                         (IF At(s0)' = "prologueAll"
                                            THEN Len(array'[s0]) - index'[s0] + 1 ELSE 0)
                        /\ count'[s0] = 0 => BeingUnparked(s0, "unparkAll")'
      BY DEF CountOK
    <3>1. count[s0] = Cardinality(Pending(s0)) +
                        (IF At(s0) = "prologueAll" THEN Len(array[s0]) - index[s0] + 1 ELSE 0)
      BY <1>h, <1>s, <1>w DEF CountOK
    <3>2. /\ At(s0)' = At(s0) /\ array'[s0] = array[s0] /\ index'[s0] = index[s0]
          /\ index[s0] \in Nat /\ Cardinality(Pending(s0)) >= 1
      BY <1>i, <1>e, <1>h, <1>y, SMTT(30) DEF WaitsTypes
    <3>3. QED
      BY <1>e, <1>v, <1>y, <3>1, <3>2, <1>m
  <2>3. QED
    BY <1>i, <1>f, <1>b, <2>1, <2>2, FrameLemma DEF CountInv
<1>10. PermitInv'
  BY <1>i, <1>e, <1>v, <1>o, <1>0 DEF PermitInv, AllowsAcquire
<1>11. TotalInv'
  <2>1. \A v \in Waitables : Used(v)' = Used(v)
    BY <1>i, <1>e, <1>v, <1>o, <1>0, <1>h, <1>f, <1>w, <1>q, <1>u, <1>s, <1>a, <1>b, <1>z, <1>y,
       <1>m
       DEF Used, CallOK, IndexOK, WaitsTypes
  <2>2. \A v \in Waitables : InHands(v)' = InHands(v)
    <3>1. \A v \in Waitables, r \in Threads : InHand(r, v)' <=> InHand(r, v)
      BY <1>i, <1>e, <1>v, <1>o, <1>0 DEF InHand, Resumes, AfterPrologues, Points
    <3>2. QED
      BY <3>1 DEF InHands
  <2>3. QED
    BY <1>i, <1>e, <2>1, <2>2 DEF TotalInv, TotalOK
<1>12. QED
  BY <1>1, <1>2, <1>3, <1>4, <1>5, <1>6, <1>7, <1>8, <1>9, <1>10, <1>11 DEF WaitsInv

\* TryLockParker of a wait-all was not the last one, or the wait was cancelled.
LEMMA LockAllMoreStep ==
  ASSUME WaitsInv, NEW t \in Threads,
         LockAll(t), count[front[t][1]] # 1
  PROVE  WaitsInv'
<1>i. /\ WaitsTypes /\ ReleaserInv /\ CallInv /\ IndexInv /\ QueueInv /\ FrontInv
      /\ LinkedInv /\ ParkerInv /\ CountInv /\ PermitInv /\ TotalInv
      /\ NoThread \notin Threads /\ IsFiniteSet(Threads) /\ MaxCount \in Nat
  BY WaitsParts
<1>0. PICK s0 \in Threads, i0 \in Nat, w0 \in Waitables, to0 \in Resumes :
            front[t] = <<s0, i0>> /\ serving[t] = <<w0, to0>> /\ holder[w0] = t
  BY <1>i, HandsLemma DEF LockAll, Step, Handing
<1>e. /\ pc[t] = "lockAll" /\ count[s0] # 1
      /\ count' = [count EXCEPT ![s0] = (IF count[s0] = 0 THEN 0 ELSE count[s0] - 1)]
      /\ pc' = [pc EXCEPT ![t] = "markAll"]
      /\ UNCHANGED <<permits, queue, holder, op, array, index, visited, key, linked, got,
                     serving, front, total>>
  BY <1>i, <1>0 DEF LockAll, semaphores, callVars, waitVars, Step, Goto, SetIndex, Object, AtEnd
<1>v. /\ count'[s0] = (IF count[s0] = 0 THEN 0 ELSE count[s0] - 1)
      /\ pc'[t] = "markAll"
  BY <1>i, <1>e, <1>0 DEF WaitsTypes
<1>o. /\ \A r \in Threads \ {s0} : count'[r] = count[r]
      /\ \A r \in Threads \ {t} : pc'[r] = pc[r]
  BY <1>i, <1>e DEF WaitsTypes
<1>h. \A r \in Threads : At(r)' = At(r)
  BY <1>i, <1>e, <1>v, <1>o, <1>0 DEF At, ReleaserInv, Releasing, Handing
<1>f. \A r \in Threads \ {s0} : SameLocal(r)
  BY <1>e, <1>o, <1>h DEF SameLocal
<1>w. CallOK(s0) /\ IndexOK(s0) /\ ParkerOK(s0) /\ CountOK(s0)
  BY <1>i, <1>0 DEF CallInv, IndexInv, ParkerInv, CountInv
<1>q. FrontOK(t, s0, i0) /\ Valid(s0, i0, w0) /\ i0 \in linked[s0]
  BY <1>i, <1>0, BlockInHand
<1>u. /\ \A v \in Waitables : ~In(<<s0, i0>>, queue[v])
      /\ \A r \in Threads \ {t} : front[r] # <<s0, i0>>
  BY <1>i, <1>0, BlockInHand
<1>s. op[s0] = "all" /\ ~IsAny(s0)
  BY <1>e, <1>q DEF FrontOK, IsAny
<1>a. \A r \in Threads, j \in Nat, v \in Waitables : Valid(r, j, v) => Valid(r, j, v)'
  BY <1>e, <1>h DEF Valid
<1>b. \A r \in Threads, how \in {"unparkAny", "unparkAll"} :
        BeingUnparked(r, how) => BeingUnparked(r, how)'
  BY <1>i, <1>0, <1>e, <1>v, <1>o DEF BeingUnparked
<1>z. Pending(s0)' = Pending(s0) \ {i0} /\ i0 \in Pending(s0)
  <2>1. i0 \in Pending(s0)
    BY <1>0, <1>e, <1>q DEF Pending
  <2>2. i0 \notin Pending(s0)'
    BY <1>0, <1>e, <1>v, <1>o, <1>q, <1>u DEF Pending, Valid
  <2>3. \A j : j # i0 => (j \in Pending(s0)' <=> j \in Pending(s0))
    BY <1>0, <1>e, <1>v, <1>o DEF Pending
  <2>4. QED
    BY <2>1, <2>2, <2>3
<1>y. /\ IsFiniteSet(Pending(s0)) /\ Cardinality(Pending(s0)) \in Nat
      /\ Cardinality(Pending(s0)') = Cardinality(Pending(s0)) - 1
      /\ Cardinality(Pending(s0)') \in Nat /\ Len(array[s0]) \in Nat
      /\ At(s0) = "prologueAll" => index[s0] \in 1..Len(array[s0])
  <2>0. Len(array[s0]) \in Nat
    BY <1>i DEF WaitsTypes
  <2>1. /\ Pending(s0) \subseteq 1..Len(array[s0])
        /\ At(s0) = "prologueAll" => index[s0] \in 1..Len(array[s0])
    BY <1>w DEF Pending, IndexOK, CallOK
  <2>2. IsFiniteSet(Pending(s0))
    <3>1. IsFiniteSet(1..Len(array[s0]))
      BY <2>0, UpToIsFinite
    <3>2. QED
      BY <2>1, <3>1, FS_Subset
  <2>3. QED
    BY <1>z, <2>0, <2>1, <2>2, FS_RemoveElement, FS_CardinalityType
<1>1. WaitsTypes'
  <2>1. count' \in [Threads -> Nat]
    BY <1>i, <1>e, <1>0, SMTT(30) DEF WaitsTypes
  <2>2. pc' \in [Threads -> Points \cup Releasing]
    BY <1>i, <1>e, <1>0 DEF WaitsTypes, Points, Resumes, Releasing, Handing
  <2>3. QED
    BY <1>i, <1>e, <2>1, <2>2 DEF WaitsTypes, LookTypes
<1>2. ReleaserInv'
  BY <1>i, <1>e, <1>v, <1>o, <1>0 DEF ReleaserInv, Releasing, Handing, AfterPrologues, NoBlock
<1>3. CallInv'
  <2>1. CallOK(s0)'
    BY <1>i, <1>e, <1>v, <1>o, <1>0, <1>h, <1>f, <1>w, <1>q, <1>u, <1>s, <1>a, <1>b, <1>z, <1>y
       DEF CallOK, IndexOK, ParkerOK, IsAny, AfterPrologues, Waiting
  <2>2. QED
    BY <1>i, <1>f, <2>1, FrameLemma DEF CallInv
<1>4. IndexInv'
  <2>1. IndexOK(s0)'
    BY <1>i, <1>e, <1>v, <1>o, <1>0, <1>h, <1>f, <1>w, <1>q, <1>u, <1>s, <1>a, <1>b, <1>z, <1>y
       DEF IndexOK, CallOK, ParkerOK, IsAny, AfterPrologues, Waiting
  <2>2. QED
    BY <1>i, <1>f, <2>1, FrameLemma DEF IndexInv
<1>5. QueueInv'
  BY <1>i, <1>e, <1>a DEF QueueInv
<1>6. FrontInv'
  <2>1. \A r \in Threads \ {t} :
          front'[r] = front[r] /\ pc'[r] = pc[r] /\ serving'[r] = serving[r]
    BY <1>e, <1>o
  <2>2. ASSUME NEW r \in Threads \ {t}, NEW q \in Threads, NEW j \in Nat,
               front[r] = <<q, j>>, FrontOK(r, q, j)
        PROVE  KeepsFront(r, q, j)
    <3>0. serving[r][1] \in Waitables
      BY <1>i, <2>2, HoldsFront
    <3>1. Valid(q, j, serving[r][1])'
      BY <1>e, <1>a, <2>1, <2>2, <3>0, <1>u DEF FrontOK
    <3>2. ~In(<<q, j>>, queue'[serving[r][1]])
      BY <1>e, <2>2, <3>0 DEF FrontOK
    <3>3. (IsAny(q) => IsAny(q)') /\ (op[q] = "all" => op'[q] = "all")
      BY <1>i, <1>e, <1>v, <1>o, <1>0, <1>h, <1>f, <1>w, <1>q, <1>u, <1>s, <1>a, <1>b, <1>z, <1>y
         DEF IsAny
    <3>4. pc[r] = "unparkAny" => count'[q] = 0 /\ key'[q] = "none" /\ At(q)' \in Waiting
      BY <1>i, <1>e, <1>v, <1>o, <1>0, <1>h, <1>f, <1>w, <1>q, <1>u, <1>s, <1>a, <1>b, <1>z, <1>y,
         <2>2
         DEF FrontOK
    <3>5. QED
      BY <3>1, <3>2, <3>3, <3>4 DEF KeepsFront
  <2>3. ASSUME NEW q \in Threads, NEW j \in Nat, front'[t] = <<q, j>> PROVE FrontOK(t, q, j)'
    <3>1. FrontOK(t, s0, i0)'
      BY <1>i, <1>0, <1>e, <1>v, <1>o, <1>q, <1>s, <1>h, <1>a DEF FrontOK
    <3>2. q = s0 /\ j = i0
      BY <1>0, <1>e, <1>v, <2>3
    <3>3. QED
      BY <3>1, <3>2
  <2>4. pc'[t] # "unparkAny"
    BY <1>v
  <2>5. QED
    BY <1>i, <2>1, <2>2, <2>3, <2>4, FrontLemma
<1>7. LinkedInv'
  <2>1. ASSUME NEW r \in Threads, NEW j \in Nat, j \in linked'[r]
        PROVE  /\ j \in linked[r] /\ array'[r] = array[r] /\ (IsAny(r) => IsAny(r)')
               /\ IsAny(r) /\ (j \in got[r] \/ At(r) = "return") =>
                    j \in got'[r] \/ At(r)' = "return"
    BY <1>i, <1>e, <1>v, <1>o, <1>0, <1>h, <1>f, <1>w, <1>q, <1>u, <1>s, <1>a, <1>b, <1>z, <1>y,
       <2>1
       DEF SameLocal, IsAny, IndexOK, CallOK
  <2>2. QED
    BY <1>i, <1>e, <2>1, LinkedKept
<1>8. ParkerInv'
  <2>1. ParkerOK(s0)'
    BY <1>i, <1>e, <1>v, <1>o, <1>0, <1>h, <1>f, <1>w, <1>q, <1>u, <1>s, <1>a, <1>b, <1>z, <1>y,
       <1>b
       DEF ParkerOK, CallOK, IndexOK, IsAny, Waiting, AfterPrologues
  <2>2. QED
    BY <1>i, <1>f, <1>b, <2>1, FrameLemma DEF ParkerInv
<1>9. CountInv'
  <2>1. \A r \in Threads \ {s0} : op[r] = "all" => Pending(r)' = Pending(r)
    BY <1>0, <1>e, <1>v, <1>o DEF Pending
  <2>2. CountOK(s0)'
    <3> SUFFICES ASSUME At(s0)' \in {"prologueAll", "park"}
                 PROVE  /\ count'[s0] = Cardinality(Pending(s0)') +
                                         (IF At(s0)' = "prologueAll"
                                            THEN Len(array'[s0]) - index'[s0] + 1 ELSE 0)
                        /\ count'[s0] = 0 => BeingUnparked(s0, "unparkAll")'
      BY DEF CountOK
    <3>1. count[s0] = Cardinality(Pending(s0)) +
                        (IF At(s0) = "prologueAll" THEN Len(array[s0]) - index[s0] + 1 ELSE 0)
      BY <1>h, <1>s, <1>w DEF CountOK
    <3>2. /\ At(s0)' = At(s0) /\ array'[s0] = array[s0] /\ index'[s0] = index[s0]
          /\ index[s0] \in Nat /\ Cardinality(Pending(s0)) >= 1
      BY <1>i, <1>e, <1>h, <1>y DEF WaitsTypes
    <3>3. QED
      BY <1>e, <1>v, <1>y, <3>1, <3>2
  <2>3. QED
    BY <1>i, <1>f, <1>b, <2>1, <2>2, FrameLemma DEF CountInv
<1>10. PermitInv'
  BY <1>i, <1>e, <1>v, <1>o, <1>0 DEF PermitInv, AllowsAcquire
<1>11. TotalInv'
  <2>1. \A v \in Waitables : Used(v)' = Used(v)
    BY <1>i, <1>e, <1>v, <1>o, <1>0, <1>h, <1>f, <1>w, <1>q, <1>u, <1>s, <1>a, <1>b, <1>z, <1>y
       DEF Used, CallOK, IndexOK, WaitsTypes
  <2>2. \A v \in Waitables : InHands(v)' = InHands(v)
    <3>1. \A v \in Waitables, r \in Threads : InHand(r, v)' <=> InHand(r, v)
      BY <1>i, <1>e, <1>v, <1>o, <1>0 DEF InHand, Resumes, AfterPrologues, Points
    <3>2. QED
      BY <3>1 DEF InHands
  <2>3. QED
    BY <1>i, <1>e, <2>1, <2>2 DEF TotalInv, TotalOK
<1>12. QED
  BY <1>1, <1>2, <1>3, <1>4, <1>5, <1>6, <1>7, <1>8, <1>9, <1>10, <1>11 DEF WaitsInv

\* The wait-all is unparked.
LEMMA UnparkAllStep ==
  ASSUME WaitsInv, NEW t \in Threads,
         UnparkAll(t)
  PROVE  WaitsInv'
<1>i. /\ WaitsTypes /\ ReleaserInv /\ CallInv /\ IndexInv /\ QueueInv /\ FrontInv
      /\ LinkedInv /\ ParkerInv /\ CountInv /\ PermitInv /\ TotalInv
      /\ NoThread \notin Threads /\ IsFiniteSet(Threads) /\ MaxCount \in Nat
  BY WaitsParts
<1>0. PICK s0 \in Threads, i0 \in Nat, w0 \in Waitables, to0 \in Resumes :
            front[t] = <<s0, i0>> /\ serving[t] = <<w0, to0>> /\ holder[w0] = t
  BY <1>i, HandsLemma DEF UnparkAll, Step, Handing
<1>e. /\ pc[t] = "unparkAll"
      /\ key' = [key EXCEPT ![s0] = "changed"]
      /\ pc' = [pc EXCEPT ![t] = "markAll"]
      /\ UNCHANGED <<permits, queue, holder, op, array, index, visited, count, linked, got,
                     serving, front, total>>
  BY <1>i, <1>0 DEF UnparkAll, semaphores, callVars, waitVars, Step, Goto, SetIndex, Object, AtEnd
<1>v. /\ key'[s0] = "changed"
      /\ pc'[t] = "markAll"
  BY <1>i, <1>e, <1>0 DEF WaitsTypes
<1>o. /\ \A r \in Threads \ {s0} : key'[r] = key[r]
      /\ \A r \in Threads \ {t} : pc'[r] = pc[r]
  BY <1>i, <1>e DEF WaitsTypes
<1>h. \A r \in Threads : At(r)' = At(r)
  BY <1>i, <1>e, <1>v, <1>o, <1>0 DEF At, ReleaserInv, Releasing, Handing
<1>f. \A r \in Threads \ {s0} : SameLocal(r)
  BY <1>e, <1>o, <1>h DEF SameLocal
<1>w. CallOK(s0) /\ IndexOK(s0) /\ ParkerOK(s0) /\ CountOK(s0)
  BY <1>i, <1>0 DEF CallInv, IndexInv, ParkerInv, CountInv
<1>q. FrontOK(t, s0, i0) /\ Valid(s0, i0, w0) /\ i0 \in linked[s0]
  BY <1>i, <1>0, BlockInHand
<1>u. /\ \A v \in Waitables : ~In(<<s0, i0>>, queue[v])
      /\ \A r \in Threads \ {t} : front[r] # <<s0, i0>>
  BY <1>i, <1>0, BlockInHand
<1>s. op[s0] = "all" /\ ~IsAny(s0)
  BY <1>e, <1>q DEF FrontOK, IsAny
<1>a. \A r \in Threads, j \in Nat, v \in Waitables : Valid(r, j, v) => Valid(r, j, v)'
  BY <1>e, <1>h DEF Valid
<1>b. \A r \in Threads, how \in {"unparkAny", "unparkAll"} :
        BeingUnparked(r, how) /\ r # s0 => BeingUnparked(r, how)'
  BY <1>i, <1>0, <1>e, <1>v, <1>o DEF BeingUnparked
<1>c. \A r \in Threads : op[r] = "all" => Pending(r)' = Pending(r)
  BY <1>i, <1>0, <1>e, <1>v, <1>o DEF Pending
<1>1. WaitsTypes'
  <2>1. key' \in [Threads -> Keys]
    BY <1>i, <1>e, <1>0 DEF WaitsTypes, Keys
  <2>2. pc' \in [Threads -> Points \cup Releasing]
    BY <1>i, <1>e, <1>0 DEF WaitsTypes, Points, Resumes, Releasing, Handing
  <2>3. QED
    BY <1>i, <1>e, <2>1, <2>2 DEF WaitsTypes, LookTypes
<1>2. ReleaserInv'
  BY <1>i, <1>e, <1>v, <1>o, <1>0 DEF ReleaserInv, Releasing, Handing, AfterPrologues, NoBlock
<1>3. CallInv'
  <2>1. CallOK(s0)'
    BY <1>i, <1>e, <1>v, <1>o, <1>0, <1>h, <1>f, <1>w, <1>q, <1>u, <1>s, <1>a, <1>b, <1>c
       DEF CallOK, IndexOK, ParkerOK, IsAny, AfterPrologues, Waiting
  <2>2. QED
    BY <1>i, <1>f, <2>1, FrameLemma DEF CallInv
<1>4. IndexInv'
  <2>1. IndexOK(s0)'
    BY <1>i, <1>e, <1>v, <1>o, <1>0, <1>h, <1>f, <1>w, <1>q, <1>u, <1>s, <1>a, <1>b, <1>c
       DEF IndexOK, CallOK, ParkerOK, IsAny, AfterPrologues, Waiting
  <2>2. QED
    BY <1>i, <1>f, <2>1, FrameLemma DEF IndexInv
<1>5. QueueInv'
  BY <1>i, <1>e, <1>a DEF QueueInv
<1>6. FrontInv'
  <2>1. \A r \in Threads \ {t} :
          front'[r] = front[r] /\ pc'[r] = pc[r] /\ serving'[r] = serving[r]
    BY <1>e, <1>o
  <2>2. ASSUME NEW r \in Threads \ {t}, NEW q \in Threads, NEW j \in Nat,
               front[r] = <<q, j>>, FrontOK(r, q, j)
        PROVE  KeepsFront(r, q, j)
    <3>0. serving[r][1] \in Waitables
      BY <1>i, <2>2, HoldsFront
    <3>1. Valid(q, j, serving[r][1])'
      BY <1>e, <1>a, <2>1, <2>2, <3>0, <1>u DEF FrontOK
    <3>2. ~In(<<q, j>>, queue'[serving[r][1]])
      BY <1>e, <2>2, <3>0 DEF FrontOK
    <3>3. (IsAny(q) => IsAny(q)') /\ (op[q] = "all" => op'[q] = "all")
      BY <1>i, <1>e, <1>v, <1>o, <1>0, <1>h, <1>f, <1>w, <1>q, <1>u, <1>s, <1>a, <1>b, <1>c
         DEF IsAny
    <3>4. pc[r] = "unparkAny" => count'[q] = 0 /\ key'[q] = "none" /\ At(q)' \in Waiting
      BY <1>i, <1>e, <1>v, <1>o, <1>0, <1>h, <1>f, <1>w, <1>q, <1>u, <1>s, <1>a, <1>b, <1>c, <2>2
         DEF FrontOK, IsAny
    <3>5. QED
      BY <3>1, <3>2, <3>3, <3>4 DEF KeepsFront
  <2>3. ASSUME NEW q \in Threads, NEW j \in Nat, front'[t] = <<q, j>> PROVE FrontOK(t, q, j)'
    <3>1. FrontOK(t, s0, i0)'
      BY <1>i, <1>0, <1>e, <1>v, <1>o, <1>q, <1>s, <1>h, <1>a DEF FrontOK
    <3>2. q = s0 /\ j = i0
      BY <1>0, <1>e, <1>v, <2>3
    <3>3. QED
      BY <3>1, <3>2
  <2>4. pc'[t] # "unparkAny"
    BY <1>v
  <2>5. QED
    BY <1>i, <2>1, <2>2, <2>3, <2>4, FrontLemma
<1>7. LinkedInv'
  <2>1. ASSUME NEW r \in Threads, NEW j \in Nat, j \in linked'[r]
        PROVE  /\ j \in linked[r] /\ array'[r] = array[r] /\ (IsAny(r) => IsAny(r)')
               /\ IsAny(r) /\ (j \in got[r] \/ At(r) = "return") =>
                    j \in got'[r] \/ At(r)' = "return"
    BY <1>i, <1>e, <1>v, <1>o, <1>0, <1>h, <1>f, <1>w, <1>q, <1>u, <1>s, <1>a, <1>b, <1>c, <2>1
       DEF SameLocal, IsAny, IndexOK, CallOK
  <2>2. QED
    BY <1>i, <1>e, <2>1, LinkedKept
<1>8. ParkerInv'
  <2>1. ParkerOK(s0)'
    BY <1>i, <1>e, <1>v, <1>o, <1>0, <1>h, <1>f, <1>w, <1>q, <1>u, <1>s, <1>a, <1>b, <1>c, <1>b
       DEF ParkerOK, CallOK, IndexOK, IsAny, Waiting, AfterPrologues
  <2>2. QED
    BY <1>i, <1>f, <1>b, <2>1, FrameLemma DEF ParkerInv
<1>9. CountInv'
  <2>1. CountOK(s0)'
    BY <1>i, <1>e, <1>v, <1>o, <1>0, <1>h, <1>f, <1>w, <1>q, <1>u, <1>s, <1>a, <1>b, <1>c, <1>b,
       <1>c
       DEF CountOK, CallOK, IndexOK, ParkerOK, IsAny, AfterPrologues
  <2>2. QED
    BY <1>i, <1>f, <1>b, <1>c, <2>1, FrameLemma DEF CountInv
<1>10. PermitInv'
  BY <1>i, <1>e, <1>v, <1>o, <1>0 DEF PermitInv, AllowsAcquire
<1>11. TotalInv'
  <2>1. \A v \in Waitables : Used(v)' = Used(v)
    BY <1>i, <1>e, <1>v, <1>o, <1>0, <1>h, <1>f, <1>w, <1>q, <1>u, <1>s, <1>a, <1>b, <1>c
       DEF Used, CallOK, IndexOK, WaitsTypes
  <2>2. \A v \in Waitables : InHands(v)' = InHands(v)
    <3>1. \A v \in Waitables, r \in Threads : InHand(r, v)' <=> InHand(r, v)
      BY <1>i, <1>e, <1>v, <1>o, <1>0 DEF InHand, Resumes, AfterPrologues, Points
    <3>2. QED
      BY <3>1 DEF InHands
  <2>3. QED
    BY <1>i, <1>e, <2>1, <2>2 DEF TotalInv, TotalOK
<1>12. QED
  BY <1>1, <1>2, <1>3, <1>4, <1>5, <1>6, <1>7, <1>8, <1>9, <1>10, <1>11 DEF WaitsInv

\* The block of a wait-all is marked as unlinked.
LEMMA MarkAllStep ==
  ASSUME WaitsInv, NEW t \in Threads,
         MarkAll(t)
  PROVE  WaitsInv'
<1>i. /\ WaitsTypes /\ ReleaserInv /\ CallInv /\ IndexInv /\ QueueInv /\ FrontInv
      /\ LinkedInv /\ ParkerInv /\ CountInv /\ PermitInv /\ TotalInv
      /\ NoThread \notin Threads /\ IsFiniteSet(Threads) /\ MaxCount \in Nat
  BY WaitsParts
<1>0. PICK s0 \in Threads, i0 \in Nat, w0 \in Waitables, to0 \in Resumes :
            front[t] = <<s0, i0>> /\ serving[t] = <<w0, to0>> /\ holder[w0] = t
  BY <1>i, HandsLemma DEF MarkAll, Step, Handing
<1>e. /\ pc[t] = "markAll"
      /\ linked' = [linked EXCEPT ![s0] = linked[s0] \ {i0}]
      /\ front' = [front EXCEPT ![t] = NoBlock]
      /\ pc' = [pc EXCEPT ![t] = "release"]
      /\ UNCHANGED <<permits, queue, holder, op, array, index, visited, count, key, got, serving,
                     total>>
  BY <1>i, <1>0 DEF MarkAll, semaphores, callVars, waitVars, Step, Goto, SetIndex, Object, AtEnd
<1>v. /\ linked'[s0] = linked[s0] \ {i0}
      /\ front'[t] = NoBlock
      /\ pc'[t] = "release"
  BY <1>i, <1>e, <1>0 DEF WaitsTypes
<1>o. /\ \A r \in Threads \ {s0} : linked'[r] = linked[r]
      /\ \A r \in Threads \ {t} : front'[r] = front[r]
      /\ \A r \in Threads \ {t} : pc'[r] = pc[r]
  BY <1>i, <1>e DEF WaitsTypes
<1>h. \A r \in Threads : At(r)' = At(r)
  BY <1>i, <1>e, <1>v, <1>o, <1>0 DEF At, ReleaserInv, Releasing, Handing
<1>f. \A r \in Threads \ {s0} : SameLocal(r)
  BY <1>e, <1>o, <1>h DEF SameLocal
<1>w. CallOK(s0) /\ IndexOK(s0) /\ ParkerOK(s0) /\ CountOK(s0)
  BY <1>i, <1>0 DEF CallInv, IndexInv, ParkerInv, CountInv
<1>q. FrontOK(t, s0, i0) /\ Valid(s0, i0, w0) /\ i0 \in linked[s0]
  BY <1>i, <1>0, BlockInHand
<1>u. /\ \A v \in Waitables : ~In(<<s0, i0>>, queue[v])
      /\ \A r \in Threads \ {t} : front[r] # <<s0, i0>>
  BY <1>i, <1>0, BlockInHand
<1>s. op[s0] = "all" /\ ~IsAny(s0)
  BY <1>e, <1>q DEF FrontOK, IsAny
<1>a. \A r \in Threads, j \in Nat, v \in Waitables :
        Valid(r, j, v) /\ <<r, j>> # <<s0, i0>> => Valid(r, j, v)'
  <2>1. \A j \in Nat \ {i0}, v \in Waitables : Valid(s0, j, v) => Valid(s0, j, v)'
    BY <1>e, <1>v, <1>o, <1>h DEF Valid
  <2>2. QED
    BY <1>f, <2>1, FrameLemma
<1>b. \A r \in Threads, how \in {"unparkAny", "unparkAll"} :
        BeingUnparked(r, how) => BeingUnparked(r, how)'
  BY <1>i, <1>0, <1>e, <1>v, <1>o DEF BeingUnparked
<1>c. \A r \in Threads : op[r] = "all" => Pending(r)' = Pending(r)
  <2>1. i0 \notin Pending(s0) /\ i0 \notin Pending(s0)'
    BY <1>i, <1>0, <1>e, <1>v, <1>o, <1>q, <1>u DEF Pending, Valid
  <2>2. \A j : j # i0 => (j \in Pending(s0)' <=> j \in Pending(s0))
    BY <1>0, <1>e, <1>v, <1>o DEF Pending
  <2>3. \A r \in Threads \ {s0} : Pending(r)' = Pending(r)
    BY <1>0, <1>e, <1>v, <1>o DEF Pending
  <2>4. QED
    BY <2>1, <2>2, <2>3
<1>1. WaitsTypes'
  <2>1. linked' \in [Threads -> SUBSET Nat]
    BY <1>i, <1>e, <1>0 DEF WaitsTypes
  <2>2. front' \in [Threads -> Blocks \cup {NoBlock}]
    BY <1>i, <1>e, <1>0 DEF WaitsTypes, Blocks, NoBlock
  <2>3. pc' \in [Threads -> Points \cup Releasing]
    BY <1>i, <1>e, <1>0 DEF WaitsTypes, Points, Resumes, Releasing, Handing
  <2>4. QED
    BY <1>i, <1>e, <2>1, <2>2, <2>3 DEF WaitsTypes, LookTypes
<1>2. ReleaserInv'
  BY <1>i, <1>e, <1>v, <1>o, <1>0 DEF ReleaserInv, Releasing, Handing, AfterPrologues, NoBlock
<1>3. CallInv'
  <2>1. CallOK(s0)'
    BY <1>i, <1>e, <1>v, <1>o, <1>0, <1>h, <1>f, <1>w, <1>q, <1>u, <1>s, <1>a, <1>b, <1>c
       DEF CallOK, IndexOK, ParkerOK, IsAny, AfterPrologues, Waiting
  <2>2. QED
    BY <1>i, <1>f, <2>1, FrameLemma DEF CallInv
<1>4. IndexInv'
  <2>1. IndexOK(s0)'
    BY <1>i, <1>e, <1>v, <1>o, <1>0, <1>h, <1>f, <1>w, <1>q, <1>u, <1>s, <1>a, <1>b, <1>c
       DEF IndexOK, CallOK, ParkerOK, IsAny, AfterPrologues, Waiting
  <2>2. QED
    BY <1>i, <1>f, <2>1, FrameLemma DEF IndexInv
<1>5. QueueInv'
  BY <1>i, <1>e, <1>u, <1>a DEF QueueInv
<1>6. FrontInv'
  <2>1. \A r \in Threads \ {t} :
          front'[r] = front[r] /\ pc'[r] = pc[r] /\ serving'[r] = serving[r]
    BY <1>e, <1>o
  <2>2. ASSUME NEW r \in Threads \ {t}, NEW q \in Threads, NEW j \in Nat,
               front[r] = <<q, j>>, FrontOK(r, q, j)
        PROVE  KeepsFront(r, q, j)
    <3>0. serving[r][1] \in Waitables
      BY <1>i, <2>2, HoldsFront
    <3>1. Valid(q, j, serving[r][1])'
      BY <1>e, <1>a, <2>1, <2>2, <3>0, <1>u DEF FrontOK
    <3>2. ~In(<<q, j>>, queue'[serving[r][1]])
      BY <1>e, <2>2, <3>0 DEF FrontOK
    <3>3. (IsAny(q) => IsAny(q)') /\ (op[q] = "all" => op'[q] = "all")
      BY <1>i, <1>e, <1>v, <1>o, <1>0, <1>h, <1>f, <1>w, <1>q, <1>u, <1>s, <1>a, <1>b, <1>c
         DEF IsAny
    <3>4. pc[r] = "unparkAny" => count'[q] = 0 /\ key'[q] = "none" /\ At(q)' \in Waiting
      BY <1>i, <1>e, <1>v, <1>o, <1>0, <1>h, <1>f, <1>w, <1>q, <1>u, <1>s, <1>a, <1>b, <1>c, <2>2
         DEF FrontOK
    <3>5. QED
      BY <3>1, <3>2, <3>3, <3>4 DEF KeepsFront
  <2>3. \A q \in Threads, j \in Nat : front'[t] # <<q, j>>
    BY <1>i, <1>v DEF NoBlock
  <2>4. pc'[t] # "unparkAny"
    BY <1>v
  <2>5. QED
    BY <1>i, <2>1, <2>2, <2>3, <2>4, FrontLemma
<1>7. LinkedInv'
  <2>1. \A r \in Threads, j \in Nat : Held(r, j) /\ <<r, j>> # <<s0, i0>> => Held(r, j)'
    BY <1>i, <1>0, <1>e, <1>v, <1>o DEF Held
  <2>2. ASSUME NEW r \in Threads, NEW j \in Nat, j \in linked'[r] PROVE LinkedOK(r, j)'
    <3>1. LinkedOK(r, j) /\ j \in linked[r]
      BY <1>i, <1>e, <1>f, <1>v, <2>2 DEF LinkedInv, SameLocal
    <3>2. CASE <<r, j>> # <<s0, i0>>
      BY <1>e, <1>f, <1>v, <1>h, <2>1, <3>1, <3>2 DEF LinkedOK, SameLocal, IsAny
    <3>3. CASE <<r, j>> = <<s0, i0>>
      BY <1>e, <1>v, <1>q, <1>h, <2>2, <3>3 DEF LinkedOK, IsAny, FrontOK
    <3>4. QED
      BY <3>2, <3>3
  <2>3. QED
    BY <2>2 DEF LinkedInv
<1>8. ParkerInv'
  <2>1. ParkerOK(s0)'
    BY <1>i, <1>e, <1>v, <1>o, <1>0, <1>h, <1>f, <1>w, <1>q, <1>u, <1>s, <1>a, <1>b, <1>c, <1>b
       DEF ParkerOK, CallOK, IndexOK, IsAny, Waiting, AfterPrologues
  <2>2. QED
    BY <1>i, <1>f, <1>b, <2>1, FrameLemma DEF ParkerInv
<1>9. CountInv'
  <2>1. CountOK(s0)'
    BY <1>i, <1>e, <1>v, <1>o, <1>0, <1>h, <1>f, <1>w, <1>q, <1>u, <1>s, <1>a, <1>b, <1>c, <1>b,
       <1>c
       DEF CountOK, CallOK, IndexOK, ParkerOK, IsAny, AfterPrologues
  <2>2. QED
    BY <1>i, <1>f, <1>b, <1>c, <2>1, FrameLemma DEF CountInv
<1>10. PermitInv'
  BY <1>i, <1>e, <1>v, <1>o, <1>0 DEF PermitInv, AllowsAcquire
<1>11. TotalInv'
  <2>1. \A v \in Waitables : Used(v)' = Used(v)
    BY <1>i, <1>e, <1>v, <1>o, <1>0, <1>h, <1>f, <1>w, <1>q, <1>u, <1>s, <1>a, <1>b, <1>c
       DEF Used, CallOK, IndexOK, WaitsTypes
  <2>2. \A v \in Waitables : InHands(v)' = InHands(v)
    <3>1. \A v \in Waitables, r \in Threads : InHand(r, v)' <=> InHand(r, v)
      BY <1>i, <1>e, <1>v, <1>o, <1>0 DEF InHand, Resumes, AfterPrologues, Points
    <3>2. QED
      BY <3>1 DEF InHands
  <2>3. QED
    BY <1>i, <1>e, <2>1, <2>2 DEF TotalInv, TotalOK
<1>12. QED
  BY <1>1, <1>2, <1>3, <1>4, <1>5, <1>6, <1>7, <1>8, <1>9, <1>10, <1>11 DEF WaitsInv

\* A call begins.
LEMMA CallStep ==
  ASSUME WaitsInv, NEW t \in Threads,
         NEW o \in {"any", "all", "signalAndWait"}, NEW a \in Seq(Waitables),
         NEW to \in {"tryAny", "tryAll", "prologueAll", "prologueAny"}, NEW n \in Nat,
         a # <<>>, Distinct(a), Call(t, o, a, to, n),
         o = "any" => to = "tryAny" /\ n = 1,
         o = "signalAndWait" => to = "prologueAny" /\ n = 1 /\ Len(a) = 1,
         o = "all" => to \in {"tryAll", "prologueAll"} /\ n = Len(a)
  PROVE  WaitsInv'
<1>i. /\ WaitsTypes /\ ReleaserInv /\ CallInv /\ IndexInv /\ QueueInv /\ FrontInv
      /\ LinkedInv /\ ParkerInv /\ CountInv /\ PermitInv /\ TotalInv
      /\ NoThread \notin Threads /\ IsFiniteSet(Threads) /\ MaxCount \in Nat
  BY WaitsParts
<1>0. /\ Len(a) \in Nat /\ Len(a) >= 1 /\ a # <<>> /\ Distinct(a)
      /\ o = "any" => to = "tryAny" /\ n = 1
      /\ o = "signalAndWait" => to = "prologueAny" /\ n = 1 /\ Len(a) = 1
      /\ o = "all" => to \in {"tryAll", "prologueAll"} /\ n = Len(a)
  OBVIOUS
<1>e. /\ pc[t] = "out"
      /\ pc' = [pc EXCEPT ![t] = to]
      /\ op' = [op EXCEPT ![t] = o]
      /\ array' = [array EXCEPT ![t] = a]
      /\ index' = [index EXCEPT ![t] = 1]
      /\ count' = [count EXCEPT ![t] = n]
      /\ UNCHANGED <<permits, queue, holder, visited, key, linked, got, serving, front, total>>
  BY <1>i, <1>0 DEF Call, semaphores, callVars, waitVars, Step, Goto, SetIndex, Object, AtEnd
<1>v. /\ pc'[t] = to
      /\ op'[t] = o
      /\ array'[t] = a
      /\ index'[t] = 1
      /\ count'[t] = n
  BY <1>i, <1>e, <1>0 DEF WaitsTypes
<1>o. /\ \A r \in Threads \ {t} : pc'[r] = pc[r]
      /\ \A r \in Threads \ {t} : op'[r] = op[r]
      /\ \A r \in Threads \ {t} : array'[r] = array[r]
      /\ \A r \in Threads \ {t} : index'[r] = index[r]
      /\ \A r \in Threads \ {t} : count'[r] = count[r]
  BY <1>i, <1>e DEF WaitsTypes
<1>h. /\ At(t) = "out" /\ At(t)' = to
      /\ \A r \in Threads \ {t} : At(r)' = At(r)
  <2>1. pc[t] \notin Releasing /\ UNCHANGED serving /\ \A r \in Threads \ {t} : pc'[r] = pc[r]
    BY <1>e, <1>o DEF Releasing, Handing
  <2>2. QED
    BY <1>i, <1>e, <1>v, <2>1, AtLemma
<1>f. \A r \in Threads \ {t} : SameLocal(r)
  BY <1>e, <1>o, <1>h DEF SameLocal
<1>w. CallOK(t) /\ IndexOK(t) /\ ParkerOK(t) /\ CountOK(t)
  BY <1>i, <1>0 DEF CallInv, IndexInv, ParkerInv, CountInv
<1>l. linked[t] = {} /\ got[t] = {} /\ key[t] = "none" /\ visited[t] = 0
  BY <1>i, <1>h, <1>w DEF IndexOK, ParkerOK
<1>c. \A r \in Threads : op[r] = "all" => Pending(r)' = Pending(r)
  <2>1. \A r \in Threads \ {t} : Pending(r)' = Pending(r)
    BY <1>e, <1>o DEF Pending
  <2>2. Pending(t) = {} /\ Pending(t)' = {}
    BY <1>e, <1>l DEF Pending
  <2>3. QED
    BY <2>1, <2>2
<1>z. Pending(t)' = {} /\ Cardinality(Pending(t)') = 0
  <2>1. Pending(t)' = {}
    BY <1>e, <1>l DEF Pending
  <2>2. QED
    BY <2>1, FS_EmptySet
<1>a. \A r \in Threads, j \in Nat, v \in Waitables : Valid(r, j, v) => Valid(r, j, v)'
  <2>1. \A j \in Nat, v \in Waitables : Valid(t, j, v) => Valid(t, j, v)'
    BY <1>i, <1>e, <1>v, <1>o, <1>0, <1>h, <1>f, <1>w, <1>l, <1>c, <1>z
       DEF Valid, CallOK, IndexOK, ParkerOK, IsAny, AfterPrologues, Waiting
  <2>2. QED
    BY <1>f, <2>1, FrameLemma
<1>b. \A r \in Threads, how \in {"unparkAny", "unparkAll"} :
        BeingUnparked(r, how) => BeingUnparked(r, how)'
  BY <1>i, <1>e, <1>v, <1>o DEF BeingUnparked, AfterPrologues, Resumes, Points
<1>1. WaitsTypes'
  <2>1. pc' \in [Threads -> Points \cup Releasing]
    BY <1>i, <1>e, <1>0 DEF WaitsTypes, Points, Resumes, Releasing, Handing
  <2>2. op' \in [Threads -> Ops]
    BY <1>i, <1>e, <1>0 DEF WaitsTypes, Ops
  <2>3. array' \in [Threads -> Seq(Waitables)]
    BY <1>i, <1>e, <1>0 DEF WaitsTypes
  <2>4. index' \in [Threads -> Nat]
    BY <1>i, <1>e, <1>0 DEF WaitsTypes
  <2>5. count' \in [Threads -> Nat]
    BY <1>i, <1>e, <1>0 DEF WaitsTypes
  <2>6. QED
    BY <1>i, <1>e, <2>1, <2>2, <2>3, <2>4, <2>5 DEF WaitsTypes, LookTypes
<1>2. ReleaserInv'
  BY <1>i, <1>e, <1>v, <1>o, <1>0 DEF ReleaserInv, Releasing, Handing, AfterPrologues, NoBlock
<1>3. CallInv'
  <2>1. CallOK(t)'
    BY <1>i, <1>e, <1>v, <1>o, <1>0, <1>h, <1>f, <1>w, <1>l, <1>c, <1>z
       DEF CallOK, IndexOK, ParkerOK, IsAny, AfterPrologues, Waiting
  <2>2. QED
    BY <1>i, <1>f, <2>1, FrameLemma DEF CallInv
<1>4. IndexInv'
  <2>1. IndexOK(t)'
    BY <1>i, <1>e, <1>v, <1>o, <1>0, <1>h, <1>f, <1>w, <1>l, <1>c, <1>z
       DEF IndexOK, CallOK, ParkerOK, IsAny, AfterPrologues, Waiting
  <2>2. QED
    BY <1>i, <1>f, <2>1, FrameLemma DEF IndexInv
<1>5. QueueInv'
  BY <1>i, <1>e, <1>a DEF QueueInv
<1>6. FrontInv'
  <2>1. \A r \in Threads \ {t} : pc'[r] = pc[r] /\ serving'[r] = serving[r]
    BY <1>e, <1>v, <1>o
  <2>2. ASSUME NEW r \in Threads \ {t}, NEW q \in Threads, NEW j \in Nat,
               front[r] = <<q, j>>, FrontOK(r, q, j)
        PROVE  KeepsFront(r, q, j)
    <3>0. serving[r][1] \in Waitables
      BY <1>i, <2>2, HoldsFront
    <3>1. Valid(q, j, serving[r][1])'
      BY <1>a, <2>1, <2>2, <3>0 DEF FrontOK
    <3>2. ~In(<<q, j>>, queue'[serving[r][1]])
      BY <1>e, <2>2, <3>0 DEF FrontOK
    <3>3. (IsAny(q) => IsAny(q)') /\ (op[q] = "all" => op'[q] = "all")
      BY <1>i, <1>e, <1>v, <1>o, <2>2, <1>w, <1>l, <1>h DEF IsAny, FrontOK, Valid, IndexOK
    <3>4. pc[r] = "unparkAny" => count'[q] = 0 /\ key'[q] = "none" /\ At(q)' \in Waiting
      BY <1>i, <1>e, <1>v, <1>o, <1>0, <1>h, <1>f, <1>w, <1>l, <1>c, <1>z, <2>2
         DEF FrontOK, Waiting, AfterPrologues, CallOK, ParkerOK, Valid
    <3>5. QED
      BY <3>1, <3>2, <3>3, <3>4 DEF KeepsFront
  <2>3. pc[t] \notin Handing /\ pc'[t] # "unparkAny"
    BY <1>e, <1>v, <1>o, <1>0 DEF Handing, Resumes
  <2>4. QED
    BY <1>i, <1>e, <2>1, <2>2, <2>3, FrontKept
<1>7. LinkedInv'
  <2>1. ASSUME NEW r \in Threads, NEW j \in Nat, j \in linked'[r]
        PROVE  /\ j \in linked[r] /\ array'[r] = array[r] /\ (IsAny(r) => IsAny(r)')
               /\ IsAny(r) /\ (j \in got[r] \/ At(r) = "return") =>
                    j \in got'[r] \/ At(r)' = "return"
    BY <1>i, <1>e, <1>v, <1>o, <1>0, <1>h, <1>f, <1>w, <1>l, <1>c, <1>z, <2>1
       DEF SameLocal, IsAny, IndexOK, CallOK
  <2>2. QED
    BY <1>i, <1>e, <2>1, LinkedKept
<1>8. ParkerInv'
  <2>1. ParkerOK(t)'
    BY <1>i, <1>e, <1>v, <1>o, <1>0, <1>h, <1>f, <1>w, <1>l, <1>c, <1>z, <1>b
       DEF ParkerOK, CallOK, IndexOK, IsAny, Waiting, AfterPrologues
  <2>2. QED
    BY <1>i, <1>f, <1>b, <2>1, FrameLemma DEF ParkerInv
<1>9. CountInv'
  <2>1. CountOK(t)'
    BY <1>i, <1>e, <1>v, <1>o, <1>0, <1>h, <1>f, <1>w, <1>l, <1>c, <1>z, <1>b, <1>c
       DEF CountOK, CallOK, IndexOK, ParkerOK, IsAny, AfterPrologues
  <2>2. QED
    BY <1>i, <1>f, <1>b, <1>c, <2>1, FrameLemma DEF CountInv
<1>10. PermitInv'
  BY <1>i, <1>e, <1>v, <1>o, <1>0 DEF PermitInv, AllowsAcquire
<1>11. TotalInv'
  <2>1. \A v \in Waitables : Used(v)' = Used(v)
    BY <1>i, <1>e, <1>v, <1>o, <1>0, <1>h, <1>f, <1>w, <1>l, <1>c, <1>z
       DEF Used, CallOK, IndexOK, WaitsTypes
  <2>2. \A v \in Waitables : InHands(v)' = InHands(v)
    <3>1. \A v \in Waitables, r \in Threads : InHand(r, v)' <=> InHand(r, v)
      BY <1>i, <1>e, <1>v, <1>o, <1>0 DEF InHand, Resumes, AfterPrologues, Points
    <3>2. QED
      BY <3>1 DEF InHands
  <2>3. QED
    BY <1>i, <1>e, <2>1, <2>2 DEF TotalInv, TotalOK
<1>12. QED
  BY <1>1, <1>2, <1>3, <1>4, <1>5, <1>6, <1>7, <1>8, <1>9, <1>10, <1>11 DEF WaitsInv

\* A semaphore that is not full is signalled.
LEMMA SignalStep ==
  ASSUME WaitsInv, NEW t \in Threads,
         NEW w \in Waitables, pc[t] = "out", Release(t, w, "out"),
         UNCHANGED <<queue, callVars, waitVars, front>>
  PROVE  WaitsInv'
<1>i. /\ WaitsTypes /\ ReleaserInv /\ CallInv /\ IndexInv /\ QueueInv /\ FrontInv
      /\ LinkedInv /\ ParkerInv /\ CountInv /\ PermitInv /\ TotalInv
      /\ NoThread \notin Threads /\ IsFiniteSet(Threads) /\ MaxCount \in Nat
  BY WaitsParts
<1>e. /\ pc[t] = "out"
      /\ total' = [total EXCEPT ![w] = total[w] + 1]
      /\ Look(t, w, permits[w] + 1, "out")
      /\ UNCHANGED <<queue, op, array, index, visited, count, key, linked, got, front>>
  BY <1>i DEF Release, semaphores, callVars, waitVars, Step, Goto, SetIndex, Object, AtEnd
<1>k. /\ permits[w] + 1 \in Nat /\ "out" \in Resumes /\ pc[t] \in Points /\ w \in Waitables
  BY <1>i, <1>e DEF WaitsTypes, CallInv, CallOK, AfterPrologues, Points, Resumes
<1>x. /\ At(t) = pc[t] /\ At(t)' = "out" /\ pc'[t] \in {"out", "release"}
      /\ permits'[w] = permits[w] + 1 /\ \A r \in Waitables \ {w} : permits'[r] = permits[r]
      /\ \A r \in Threads \ {t} : pc'[r] = pc[r] /\ serving'[r] = serving[r]
      /\ LookTypes' /\ ReleaserInv' /\ PermitInv'
  BY <1>i, <1>e, <1>k, LookLemma
<1>v. /\ total'[w] = total[w] + 1
  BY <1>i, <1>e DEF WaitsTypes
<1>o. /\ \A r \in Waitables \ {w} : total'[r] = total[r]
  BY <1>i, <1>e DEF WaitsTypes
<1>h. /\ At(t) = pc[t] /\ At(t)' = "out"
      /\ \A r \in Threads \ {t} : At(r)' = At(r)
  BY <1>x DEF At
<1>f. \A r \in Threads : SameLocal(r)
  BY <1>e, <1>o, <1>h DEF SameLocal
<1>a. \A r \in Threads, j \in Nat, v \in Waitables : Valid(r, j, v) => Valid(r, j, v)'
  BY <1>f, FrameLemma
<1>b. \A r \in Threads, how \in {"unparkAny", "unparkAll"} :
        BeingUnparked(r, how) => BeingUnparked(r, how)'
  BY <1>i, <1>e, <1>x, <1>v, <1>o DEF BeingUnparked, AfterPrologues, Resumes, Points
<1>c. \A r \in Threads : op[r] = "all" => Pending(r)' = Pending(r)
  BY <1>i, <1>e, <1>x, <1>v, <1>o DEF Pending, AfterPrologues, Resumes, Points
<1>1. WaitsTypes'
  <2>1. total' \in [Waitables -> Int]
    BY <1>i, <1>e DEF WaitsTypes
  <2>2. QED
    BY <1>i, <1>e, <1>x, <2>1 DEF WaitsTypes, LookTypes
<1>2. ReleaserInv'
  BY <1>x
<1>3. CallInv'
  BY <1>i, <1>f, FrameLemma DEF CallInv
<1>4. IndexInv'
  BY <1>i, <1>f, FrameLemma DEF IndexInv
<1>5. QueueInv'
  BY <1>i, <1>e, <1>a DEF QueueInv
<1>6. FrontInv'
  <2>1. \A r \in Threads \ {t} : pc'[r] = pc[r] /\ serving'[r] = serving[r]
    BY <1>e, <1>x, <1>v, <1>o
  <2>2. ASSUME NEW r \in Threads \ {t}, NEW q \in Threads, NEW j \in Nat,
               front[r] = <<q, j>>, FrontOK(r, q, j)
        PROVE  KeepsFront(r, q, j)
    <3>0. serving[r][1] \in Waitables
      BY <1>i, <2>2, HoldsFront
    <3>1. Valid(q, j, serving[r][1])'
      BY <1>a, <2>1, <2>2, <3>0 DEF FrontOK
    <3>2. ~In(<<q, j>>, queue'[serving[r][1]])
      BY <1>e, <2>2, <3>0 DEF FrontOK
    <3>3. (IsAny(q) => IsAny(q)') /\ (op[q] = "all" => op'[q] = "all")
      BY <1>i, <1>e, <1>x, <1>v, <1>o, <2>2 DEF IsAny, FrontOK, Valid, IndexOK
    <3>4. pc[r] = "unparkAny" => count'[q] = 0 /\ key'[q] = "none" /\ At(q)' \in Waiting
      BY <1>i, <1>e, <1>x, <1>v, <1>o, <1>h, <1>f, <2>2
         DEF FrontOK, Waiting, AfterPrologues, CallOK, ParkerOK, Valid
    <3>5. QED
      BY <3>1, <3>2, <3>3, <3>4 DEF KeepsFront
  <2>3. pc[t] \notin Handing /\ pc'[t] # "unparkAny"
    BY <1>e, <1>x, <1>v, <1>o DEF Handing, Resumes
  <2>4. QED
    BY <1>i, <1>e, <2>1, <2>2, <2>3, FrontKept
<1>7. LinkedInv'
  <2>1. ASSUME NEW r \in Threads, NEW j \in Nat, j \in linked'[r]
        PROVE  /\ j \in linked[r] /\ array'[r] = array[r] /\ (IsAny(r) => IsAny(r)')
               /\ IsAny(r) /\ (j \in got[r] \/ At(r) = "return") =>
                    j \in got'[r] \/ At(r)' = "return"
    BY <1>i, <1>e, <1>x, <1>v, <1>o, <1>h, <1>f, <2>1 DEF SameLocal, IsAny, IndexOK, CallOK
  <2>2. QED
    BY <1>i, <1>e, <2>1, LinkedKept
<1>8. ParkerInv'
  BY <1>i, <1>f, <1>b, FrameLemma DEF ParkerInv
<1>9. CountInv'
  BY <1>i, <1>f, <1>b, <1>c, FrameLemma DEF CountInv
<1>10. PermitInv'
  BY <1>x
<1>11. TotalInv'
  <2>1. /\ \A v \in Waitables : Used(v)' = Used(v)
        /\ IsFiniteSet(Used(w)') /\ Cardinality(Used(w)) \in Nat
        /\ Cardinality(Used(w)') = Cardinality(Used(w))
    BY <1>i, <1>e, <1>k, UsedKept
  <2>2. /\ \A v \in Waitables : InHands(v)' = InHands(v)
        /\ Cardinality(InHands(w)) \in Nat
        /\ Cardinality(InHands(w)') = Cardinality(InHands(w))
    <3>1. \A v \in Waitables : \A r \in Threads : InHand(r, v)' <=> InHand(r, v)
      BY <1>i, <1>e, <1>x, <1>v, <1>o DEF InHand, Resumes, AfterPrologues, Points
    <3>2. QED
      BY <1>i, <1>k, <3>1, HandsKept
  <2>3. /\ permits'[w] = permits[w] + 1 /\ permits[w] \in Nat
        /\ total'[w] = total[w] + 1 /\ total[w] \in Int
        /\ \A v \in Waitables \ {w} : permits'[v] = permits[v] /\ total'[v] = total[v]
    BY <1>i, <1>e, <1>x, <1>v, <1>o, <1>k DEF WaitsTypes
  <2>4. ASSUME TotalOK(w)
        PROVE  total'[w] = permits'[w] + Cardinality(Used(w)') + Cardinality(InHands(w)')
    <3>1. total[w] = permits[w] + Cardinality(Used(w)) + Cardinality(InHands(w))
      BY <2>4 DEF TotalOK
    <3>2. QED
      BY <2>1, <2>2, <2>3, <3>1
  <2>5. QED
    BY <1>i, <2>1, <2>2, <2>3, <2>4, <1>k, TotalLemma
<1>12. QED
  BY <1>1, <1>2, <1>3, <1>4, <1>5, <1>6, <1>7, <1>8, <1>9, <1>10, <1>11 DEF WaitsInv

\* TRY_ACQUIRE of a wait-any succeeds.
LEMMA TryAnyTakesStep ==
  ASSUME WaitsInv, NEW t \in Threads,
         TryAny(t), AllowsAcquire(Object(t))
  PROVE  WaitsInv'
<1>i. /\ WaitsTypes /\ ReleaserInv /\ CallInv /\ IndexInv /\ QueueInv /\ FrontInv
      /\ LinkedInv /\ ParkerInv /\ CountInv /\ PermitInv /\ TotalInv
      /\ NoThread \notin Threads /\ IsFiniteSet(Threads) /\ MaxCount \in Nat
  BY WaitsParts
<1>0. PICK w0 \in Waitables, i0 \in Nat :
            i0 = index[t] /\ i0 \in 1..Len(array[t]) /\ w0 = array[t][i0]
  <2>1. CallOK(t) /\ At(t) = "tryAny" /\ index[t] \in 1..Len(array[t])
    BY <1>i
       DEF CallInv, CallOK, WaitsTypes, At, AtEnd, ReleaserInv, Releasing, Handing, TryAny,
           AllowsAcquire
  <2>2. QED
    BY <1>i, <2>1, SMTT(30) DEF WaitsTypes
<1>e. /\ pc[t] = "tryAny" /\ permits[w0] > 0 /\ queue[w0] = <<>>
      /\ permits' = [permits EXCEPT ![w0] = permits[w0] - 1]
      /\ got' = [got EXCEPT ![t] = {i0}]
      /\ pc' = [pc EXCEPT ![t] = "return"]
      /\ UNCHANGED <<queue, holder, op, array, index, visited, count, key, linked, serving,
                     front, total>>
  BY <1>i, <1>0
     DEF TryAny, AllowsAcquire, semaphores, callVars, waitVars, Step, Goto, SetIndex, Object,
         AtEnd
<1>v. /\ permits'[w0] = permits[w0] - 1
      /\ got'[t] = {i0}
      /\ pc'[t] = "return"
  BY <1>i, <1>e, <1>0 DEF WaitsTypes
<1>o. /\ \A r \in Waitables \ {w0} : permits'[r] = permits[r]
      /\ \A r \in Threads \ {t} : got'[r] = got[r]
      /\ \A r \in Threads \ {t} : pc'[r] = pc[r]
  BY <1>i, <1>e DEF WaitsTypes
<1>h. /\ At(t) = "tryAny" /\ At(t)' = "return"
      /\ \A r \in Threads \ {t} : At(r)' = At(r)
  <2>1. pc[t] \notin Releasing /\ UNCHANGED serving /\ \A r \in Threads \ {t} : pc'[r] = pc[r]
    BY <1>e, <1>o DEF Releasing, Handing
  <2>2. QED
    BY <1>i, <1>e, <1>v, <2>1, AtLemma
<1>f. \A r \in Threads \ {t} : SameLocal(r)
  BY <1>e, <1>o, <1>h DEF SameLocal
<1>w. CallOK(t) /\ IndexOK(t) /\ ParkerOK(t) /\ CountOK(t)
  BY <1>i, <1>0 DEF CallInv, IndexInv, ParkerInv, CountInv
<1>l. linked[t] = {} /\ got[t] = {}  /\ ~BeingUnparked(t, "unparkAny")
  <2>1. linked[t] = {} /\ got[t] = {}
    BY <1>h, <1>w DEF IndexOK
  <2>2. ASSUME NEW s \in Threads, NEW j \in Nat, front[s] = <<t, j>>
        PROVE  FALSE
    BY <1>i, <2>1, <2>2, ZenonT(30) DEF FrontInv, FrontOK, Valid
  <2>3. QED
    BY <2>1, <2>2 DEF BeingUnparked
<1>a. \A r \in Threads, j \in Nat, v \in Waitables : Valid(r, j, v) => Valid(r, j, v)'
  <2>1. \A j \in Nat, v \in Waitables : Valid(t, j, v) => Valid(t, j, v)'
    BY <1>i, <1>e, <1>v, <1>o, <1>0, <1>h, <1>f, <1>w, <1>l
       DEF Valid, CallOK, IndexOK, ParkerOK, IsAny, AfterPrologues, Waiting
  <2>2. QED
    BY <1>f, <2>1, FrameLemma
<1>b. \A r \in Threads, how \in {"unparkAny", "unparkAll"} :
        BeingUnparked(r, how) => BeingUnparked(r, how)'
  BY <1>i, <1>e, <1>v, <1>o DEF BeingUnparked, AfterPrologues, Resumes, Points
<1>c. \A r \in Threads : op[r] = "all" => Pending(r)' = Pending(r)
  BY <1>i, <1>e, <1>v, <1>o DEF Pending, AfterPrologues, Resumes, Points
<1>1. WaitsTypes'
  <2>1. permits' \in [Waitables -> Nat]
    <3>1. permits \in [Waitables -> Nat] /\ permits[w0] - 1 \in Nat
      BY <1>i, <1>e, <1>0, SMTT(30) DEF WaitsTypes
    <3>2. QED
      BY <1>e, <3>1
  <2>2. got' \in [Threads -> SUBSET Nat]
    BY <1>i, <1>e, <1>0 DEF WaitsTypes
  <2>3. pc' \in [Threads -> Points \cup Releasing]
    BY <1>i, <1>e, <1>0 DEF WaitsTypes, Points, Resumes, Releasing, Handing
  <2>4. QED
    BY <1>i, <1>e, <2>1, <2>2, <2>3 DEF WaitsTypes, LookTypes
<1>2. ReleaserInv'
  BY <1>i, <1>e, <1>v, <1>o, <1>0 DEF ReleaserInv, Releasing, Handing, AfterPrologues, NoBlock
<1>3. CallInv'
  <2>1. CallOK(t)'
    BY <1>i, <1>e, <1>v, <1>o, <1>0, <1>h, <1>f, <1>w, <1>l
       DEF CallOK, IndexOK, ParkerOK, IsAny, AfterPrologues, Waiting
  <2>2. QED
    BY <1>i, <1>f, <2>1, FrameLemma DEF CallInv
<1>4. IndexInv'
  <2>1. IndexOK(t)'
    BY <1>i, <1>e, <1>v, <1>o, <1>0, <1>h, <1>f, <1>w, <1>l
       DEF IndexOK, CallOK, ParkerOK, IsAny, AfterPrologues, Waiting
  <2>2. QED
    BY <1>i, <1>f, <2>1, FrameLemma DEF IndexInv
<1>5. QueueInv'
  BY <1>i, <1>e, <1>a DEF QueueInv
<1>6. FrontInv'
  <2>1. \A r \in Threads \ {t} : pc'[r] = pc[r] /\ serving'[r] = serving[r]
    BY <1>e, <1>v, <1>o
  <2>2. ASSUME NEW r \in Threads \ {t}, NEW q \in Threads, NEW j \in Nat,
               front[r] = <<q, j>>, FrontOK(r, q, j)
        PROVE  KeepsFront(r, q, j)
    <3>0. serving[r][1] \in Waitables
      BY <1>i, <2>2, HoldsFront
    <3>1. Valid(q, j, serving[r][1])'
      BY <1>a, <2>1, <2>2, <3>0 DEF FrontOK
    <3>2. ~In(<<q, j>>, queue'[serving[r][1]])
      BY <1>e, <2>2, <3>0 DEF FrontOK
    <3>3. (IsAny(q) => IsAny(q)') /\ (op[q] = "all" => op'[q] = "all")
      BY <1>i, <1>e, <1>v, <1>o, <2>2, <1>w, <1>l, <1>h DEF IsAny, FrontOK, Valid, IndexOK
    <3>4. pc[r] = "unparkAny" => count'[q] = 0 /\ key'[q] = "none" /\ At(q)' \in Waiting
      BY <1>i, <1>e, <1>v, <1>o, <1>0, <1>h, <1>f, <1>w, <1>l, <2>2
         DEF FrontOK, Waiting, AfterPrologues, CallOK, ParkerOK, Valid
    <3>5. QED
      BY <3>1, <3>2, <3>3, <3>4 DEF KeepsFront
  <2>3. pc[t] \notin Handing /\ pc'[t] # "unparkAny"
    BY <1>e, <1>v, <1>o, <1>0 DEF Handing, Resumes
  <2>4. QED
    BY <1>i, <1>e, <2>1, <2>2, <2>3, FrontKept
<1>7. LinkedInv'
  <2>1. ASSUME NEW r \in Threads, NEW j \in Nat, j \in linked'[r]
        PROVE  /\ j \in linked[r] /\ array'[r] = array[r] /\ (IsAny(r) => IsAny(r)')
               /\ IsAny(r) /\ (j \in got[r] \/ At(r) = "return") =>
                    j \in got'[r] \/ At(r)' = "return"
    BY <1>i, <1>e, <1>v, <1>o, <1>0, <1>h, <1>f, <1>w, <1>l, <2>1
       DEF SameLocal, IsAny, IndexOK, CallOK
  <2>2. QED
    BY <1>i, <1>e, <2>1, LinkedKept
<1>8. ParkerInv'
  <2>1. ParkerOK(t)'
    BY <1>i, <1>e, <1>v, <1>o, <1>0, <1>h, <1>f, <1>w, <1>l, <1>b
       DEF ParkerOK, CallOK, IndexOK, IsAny, Waiting, AfterPrologues
  <2>2. QED
    BY <1>i, <1>f, <1>b, <2>1, FrameLemma DEF ParkerInv
<1>9. CountInv'
  <2>1. CountOK(t)'
    BY <1>i, <1>e, <1>v, <1>o, <1>0, <1>h, <1>f, <1>w, <1>l, <1>b, <1>c
       DEF CountOK, CallOK, IndexOK, ParkerOK, IsAny, AfterPrologues
  <2>2. QED
    BY <1>i, <1>f, <1>b, <1>c, <2>1, FrameLemma DEF CountInv
<1>10. PermitInv'
  BY <1>i, <1>e, <1>v, <1>o, <1>0 DEF PermitInv, AllowsAcquire
<1>11. TotalInv'
  <2>1. /\ \A v \in Waitables \ {w0} : Used(v)' = Used(v)
        /\ IsFiniteSet(Used(w0)') /\ Cardinality(Used(w0)) \in Nat
        /\ Cardinality(Used(w0)') = Cardinality(Used(w0)) + 1
    <3>1. /\ t \in Threads /\ i0 \in Nat /\ w0 \in Waitables
          /\ i0 \notin got[t] /\ array[t][i0] = w0
          /\ got'[t] = got[t] \cup {i0}
      BY <1>i, <1>e, <1>v, <1>o, <1>0, <1>h, <1>f, <1>w, <1>l DEF Valid, WaitsTypes
    <3>2. UNCHANGED array /\ \A r \in Threads \ {t} : got'[r] = got[r]
      BY <1>e, <1>o
    <3>3. QED
      BY <1>i, <3>1, <3>2, UsedAdds
  <2>2. /\ \A v \in Waitables : InHands(v)' = InHands(v)
        /\ Cardinality(InHands(w0)) \in Nat
        /\ Cardinality(InHands(w0)') = Cardinality(InHands(w0))
    <3>1. \A v \in Waitables : \A r \in Threads : InHand(r, v)' <=> InHand(r, v)
      BY <1>i, <1>e, <1>v, <1>o, <1>0 DEF InHand, Resumes, AfterPrologues, Points
    <3>2. QED
      BY <1>i, <1>0, <3>1, HandsKept
  <2>3. /\ permits'[w0] = permits[w0] - 1 /\ permits[w0] \in Nat
        /\ total'[w0] = total[w0] /\ total[w0] \in Int
        /\ \A v \in Waitables \ {w0} : permits'[v] = permits[v] /\ total'[v] = total[v]
    BY <1>i, <1>e, <1>v, <1>o, <1>0 DEF WaitsTypes
  <2>4. ASSUME TotalOK(w0)
        PROVE  total'[w0] = permits'[w0] + Cardinality(Used(w0)') + Cardinality(InHands(w0)')
    <3>1. total[w0] = permits[w0] + Cardinality(Used(w0)) + Cardinality(InHands(w0))
      BY <2>4 DEF TotalOK
    <3>2. QED
      BY <2>1, <2>2, <2>3, <3>1
  <2>5. QED
    BY <1>i, <2>1, <2>2, <2>3, <2>4, <1>0, TotalLemma
<1>12. QED
  BY <1>1, <1>2, <1>3, <1>4, <1>5, <1>6, <1>7, <1>8, <1>9, <1>10, <1>11 DEF WaitsInv

\* TRY_ACQUIRE of a wait-any fails, and the next object is tried.
LEMMA TryAnyNextStep ==
  ASSUME WaitsInv, NEW t \in Threads,
         TryAny(t), ~AllowsAcquire(Object(t)),
         index[t] < Len(array[t])
  PROVE  WaitsInv'
<1>i. /\ WaitsTypes /\ ReleaserInv /\ CallInv /\ IndexInv /\ QueueInv /\ FrontInv
      /\ LinkedInv /\ ParkerInv /\ CountInv /\ PermitInv /\ TotalInv
      /\ NoThread \notin Threads /\ IsFiniteSet(Threads) /\ MaxCount \in Nat
  BY WaitsParts
<1>0. PICK w0 \in Waitables, i0 \in Nat :
            i0 = index[t] /\ i0 \in 1..Len(array[t]) /\ w0 = array[t][i0]
  <2>1. CallOK(t) /\ At(t) = "tryAny" /\ index[t] \in 1..Len(array[t])
    BY <1>i
       DEF CallInv, CallOK, WaitsTypes, At, AtEnd, ReleaserInv, Releasing, Handing, TryAny,
           AllowsAcquire
  <2>2. QED
    BY <1>i, <2>1 DEF WaitsTypes
<1>e. /\ pc[t] = "tryAny" /\ i0 < Len(array[t])
      /\ index' = [index EXCEPT ![t] = i0 + 1]
      /\ UNCHANGED <<permits, queue, holder, pc, op, array, visited, count, key, linked, got,
                     serving, front, total>>
  BY <1>i, <1>0
     DEF TryAny, AllowsAcquire, semaphores, callVars, waitVars, Step, Goto, SetIndex, Object,
         AtEnd
<1>v. /\ index'[t] = i0 + 1
  BY <1>i, <1>e, <1>0 DEF WaitsTypes
<1>o. /\ \A r \in Threads \ {t} : index'[r] = index[r]
  BY <1>i, <1>e DEF WaitsTypes
<1>h. /\ At(t) = "tryAny" /\ At(t)' = "tryAny"
      /\ \A r \in Threads \ {t} : At(r)' = At(r)
  <2>1. pc[t] \notin Releasing /\ UNCHANGED serving /\ \A r \in Threads \ {t} : pc'[r] = pc[r]
    BY <1>e DEF Releasing, Handing
  <2>2. QED
    BY <1>i, <1>e, <1>v, <2>1, AtLemma
<1>f. \A r \in Threads \ {t} : SameLocal(r)
  BY <1>e, <1>o, <1>h DEF SameLocal
<1>w. CallOK(t) /\ IndexOK(t) /\ ParkerOK(t) /\ CountOK(t)
  BY <1>i, <1>0 DEF CallInv, IndexInv, ParkerInv, CountInv
<1>b. \A r \in Threads, how \in {"unparkAny", "unparkAll"} :
        BeingUnparked(r, how) => BeingUnparked(r, how)'
  BY <1>i, <1>e, <1>v, <1>o DEF BeingUnparked, AfterPrologues, Resumes, Points
<1>c. \A r \in Threads : op[r] = "all" => Pending(r)' = Pending(r)
  BY <1>i, <1>e, <1>v, <1>o DEF Pending, AfterPrologues, Resumes, Points
<1>1. WaitsTypes'
  <2>1. index' \in [Threads -> Nat]
    <3>1. index \in [Threads -> Nat] /\ i0 + 1 \in Nat
      BY <1>i, <1>e, <1>0, SMTT(30) DEF WaitsTypes
    <3>2. QED
      BY <1>e, <3>1
  <2>2. QED
    BY <1>i, <1>e, <2>1 DEF WaitsTypes, LookTypes
<1>2. CallOK(t)'
  BY <1>i, <1>e, <1>v, <1>o, <1>0, <1>h, <1>f, <1>w
     DEF CallOK, IndexOK, ParkerOK, IsAny, AfterPrologues, Waiting
<1>3. IndexOK(t)'
  BY <1>i, <1>e, <1>v, <1>o, <1>0, <1>h, <1>f, <1>w
     DEF IndexOK, CallOK, ParkerOK, IsAny, AfterPrologues, Waiting
<1>4. ParkerOK(t)'
  BY <1>i, <1>e, <1>v, <1>o, <1>0, <1>h, <1>f, <1>w, <1>b
     DEF ParkerOK, CallOK, IndexOK, IsAny, Waiting, AfterPrologues
<1>5. CountOK(t)'
  BY <1>i, <1>e, <1>v, <1>o, <1>0, <1>h, <1>f, <1>w, <1>b, <1>c
     DEF CountOK, CallOK, IndexOK, ParkerOK, IsAny, AfterPrologues
<1>6. /\ pc[t] \in Points \ {"lockSelf", "return"} /\ pc'[t] \in Points \ {"lockSelf"}
      /\ pc'[t] = "return" => linked[t] = {}
      /\ IsAny(t) /\ count[t] = 0 /\ key[t] = "none" /\ pc[t] \in Waiting =>
           count'[t] = 0 /\ key'[t] = "none" /\ pc'[t] \in Waiting
  BY <1>e, <1>v, <1>h, <1>w DEF Points, Waiting, IsAny, CallOK, IndexOK, ParkerOK
<1>7. QED
  BY <1>e, <1>o, <1>1, <1>2, <1>3, <1>4, <1>5, <1>6, OwnStep

\* No object allowed an acquire: the prologues begin.
LEMMA TryAnyWaitsStep ==
  ASSUME WaitsInv, NEW t \in Threads,
         TryAny(t), ~AllowsAcquire(Object(t)),
         ~(index[t] < Len(array[t])), pc'[t] = "prologueAny"
  PROVE  WaitsInv'
<1>i. /\ WaitsTypes /\ ReleaserInv /\ CallInv /\ IndexInv /\ QueueInv /\ FrontInv
      /\ LinkedInv /\ ParkerInv /\ CountInv /\ PermitInv /\ TotalInv
      /\ NoThread \notin Threads /\ IsFiniteSet(Threads) /\ MaxCount \in Nat
  BY WaitsParts
<1>0. PICK w0 \in Waitables, i0 \in Nat :
            i0 = index[t] /\ i0 \in 1..Len(array[t]) /\ w0 = array[t][i0]
  <2>1. CallOK(t) /\ At(t) = "tryAny" /\ index[t] \in 1..Len(array[t])
    BY <1>i
       DEF CallInv, CallOK, WaitsTypes, At, AtEnd, ReleaserInv, Releasing, Handing, TryAny,
           AllowsAcquire
  <2>2. QED
    BY <1>i, <2>1 DEF WaitsTypes
<1>e. /\ pc[t] = "tryAny"
      /\ index' = [index EXCEPT ![t] = 1]
      /\ pc' = [pc EXCEPT ![t] = "prologueAny"]
      /\ UNCHANGED <<permits, queue, holder, op, array, visited, count, key, linked, got,
                     serving, front, total>>
  BY <1>i, <1>0
     DEF TryAny, AllowsAcquire, semaphores, callVars, waitVars, Step, Goto, SetIndex, Object,
         AtEnd
<1>v. /\ index'[t] = 1
      /\ pc'[t] = "prologueAny"
  BY <1>i, <1>e, <1>0 DEF WaitsTypes
<1>o. /\ \A r \in Threads \ {t} : index'[r] = index[r]
      /\ \A r \in Threads \ {t} : pc'[r] = pc[r]
  BY <1>i, <1>e DEF WaitsTypes
<1>h. /\ At(t) = "tryAny" /\ At(t)' = "prologueAny"
      /\ \A r \in Threads \ {t} : At(r)' = At(r)
  <2>1. pc[t] \notin Releasing /\ UNCHANGED serving /\ \A r \in Threads \ {t} : pc'[r] = pc[r]
    BY <1>e, <1>o DEF Releasing, Handing
  <2>2. QED
    BY <1>i, <1>e, <1>v, <2>1, AtLemma
<1>f. \A r \in Threads \ {t} : SameLocal(r)
  BY <1>e, <1>o, <1>h DEF SameLocal
<1>w. CallOK(t) /\ IndexOK(t) /\ ParkerOK(t) /\ CountOK(t)
  BY <1>i, <1>0 DEF CallInv, IndexInv, ParkerInv, CountInv
<1>l. op[t] = "any" /\ key[t] = "none" /\ got[t] = {} /\ linked[t] = {}
  <2>1. op[t] = "any" /\ op[t] \in Ops
    BY <1>i, <1>h, <1>w DEF CallOK, WaitsTypes, Ops
  <2>2. QED
    BY <1>h, <1>w, <2>1 DEF ParkerOK, IndexOK, IsAny
<1>b. \A r \in Threads, how \in {"unparkAny", "unparkAll"} :
        BeingUnparked(r, how) => BeingUnparked(r, how)'
  BY <1>i, <1>e, <1>v, <1>o DEF BeingUnparked, AfterPrologues, Resumes, Points
<1>c. \A r \in Threads : op[r] = "all" => Pending(r)' = Pending(r)
  BY <1>i, <1>e, <1>v, <1>o DEF Pending, AfterPrologues, Resumes, Points
<1>1. WaitsTypes'
  <2>1. index' \in [Threads -> Nat]
    BY <1>i, <1>e, <1>0 DEF WaitsTypes
  <2>2. pc' \in [Threads -> Points \cup Releasing]
    BY <1>i, <1>e, <1>0 DEF WaitsTypes, Points, Resumes, Releasing, Handing
  <2>3. QED
    BY <1>i, <1>e, <2>1, <2>2 DEF WaitsTypes, LookTypes
<1>2. CallOK(t)'
  BY <1>i, <1>e, <1>v, <1>o, <1>0, <1>h, <1>f, <1>w, <1>l
     DEF CallOK, IndexOK, ParkerOK, IsAny, AfterPrologues, Waiting
<1>3. IndexOK(t)'
  BY <1>i, <1>e, <1>v, <1>o, <1>0, <1>h, <1>f, <1>w, <1>l
     DEF IndexOK, CallOK, ParkerOK, IsAny, AfterPrologues, Waiting
<1>4. ParkerOK(t)'
  <2>1. /\ count'[t] = 1 /\ key'[t] = "none" /\ got'[t] = {} /\ linked'[t] = {}
        /\ index'[t] = 1 /\ At(t)' = "prologueAny"
    BY <1>e, <1>v, <1>h, <1>w, <1>l DEF ParkerOK
  <2>2. QED
    BY <2>1 DEF ParkerOK, IsAny, Waiting
<1>5. CountOK(t)'
  BY <1>i, <1>e, <1>v, <1>o, <1>0, <1>h, <1>f, <1>w, <1>l, <1>b, <1>c
     DEF CountOK, CallOK, IndexOK, ParkerOK, IsAny, AfterPrologues
<1>6. /\ pc[t] \in Points \ {"lockSelf", "return"} /\ pc'[t] \in Points \ {"lockSelf"}
      /\ pc'[t] = "return" => linked[t] = {}
      /\ IsAny(t) /\ count[t] = 0 /\ key[t] = "none" /\ pc[t] \in Waiting =>
           count'[t] = 0 /\ key'[t] = "none" /\ pc'[t] \in Waiting
  BY <1>e, <1>v, <1>h, <1>w, <1>l DEF Points, Waiting, IsAny, CallOK, IndexOK, ParkerOK
<1>7. QED
  BY <1>e, <1>o, <1>1, <1>2, <1>3, <1>4, <1>5, <1>6, OwnStep

\* No object allowed an acquire, and the timeout is null.
LEMMA TryAnyReturnsStep ==
  ASSUME WaitsInv, NEW t \in Threads,
         TryAny(t), ~AllowsAcquire(Object(t)),
         ~(index[t] < Len(array[t])), pc'[t] # "prologueAny"
  PROVE  WaitsInv'
<1>i. /\ WaitsTypes /\ ReleaserInv /\ CallInv /\ IndexInv /\ QueueInv /\ FrontInv
      /\ LinkedInv /\ ParkerInv /\ CountInv /\ PermitInv /\ TotalInv
      /\ NoThread \notin Threads /\ IsFiniteSet(Threads) /\ MaxCount \in Nat
  BY WaitsParts
<1>0. PICK w0 \in Waitables, i0 \in Nat :
            i0 = index[t] /\ i0 \in 1..Len(array[t]) /\ w0 = array[t][i0]
  <2>1. CallOK(t) /\ At(t) = "tryAny" /\ index[t] \in 1..Len(array[t])
    BY <1>i
       DEF CallInv, CallOK, WaitsTypes, At, AtEnd, ReleaserInv, Releasing, Handing, TryAny,
           AllowsAcquire
  <2>2. QED
    BY <1>i, <2>1 DEF WaitsTypes
<1>e. /\ pc[t] = "tryAny"
      /\ index' = [index EXCEPT ![t] = 1]
      /\ pc' = [pc EXCEPT ![t] = "return"]
      /\ UNCHANGED <<permits, queue, holder, op, array, visited, count, key, linked, got,
                     serving, front, total>>
  BY <1>i, <1>0
     DEF TryAny, AllowsAcquire, semaphores, callVars, waitVars, Step, Goto, SetIndex, Object,
         AtEnd
<1>v. /\ index'[t] = 1
      /\ pc'[t] = "return"
  BY <1>i, <1>e, <1>0 DEF WaitsTypes
<1>o. /\ \A r \in Threads \ {t} : index'[r] = index[r]
      /\ \A r \in Threads \ {t} : pc'[r] = pc[r]
  BY <1>i, <1>e DEF WaitsTypes
<1>h. /\ At(t) = "tryAny" /\ At(t)' = "return"
      /\ \A r \in Threads \ {t} : At(r)' = At(r)
  <2>1. pc[t] \notin Releasing /\ UNCHANGED serving /\ \A r \in Threads \ {t} : pc'[r] = pc[r]
    BY <1>e, <1>o DEF Releasing, Handing
  <2>2. QED
    BY <1>i, <1>e, <1>v, <2>1, AtLemma
<1>f. \A r \in Threads \ {t} : SameLocal(r)
  BY <1>e, <1>o, <1>h DEF SameLocal
<1>w. CallOK(t) /\ IndexOK(t) /\ ParkerOK(t) /\ CountOK(t)
  BY <1>i, <1>0 DEF CallInv, IndexInv, ParkerInv, CountInv
<1>b. \A r \in Threads, how \in {"unparkAny", "unparkAll"} :
        BeingUnparked(r, how) => BeingUnparked(r, how)'
  BY <1>i, <1>e, <1>v, <1>o DEF BeingUnparked, AfterPrologues, Resumes, Points
<1>c. \A r \in Threads : op[r] = "all" => Pending(r)' = Pending(r)
  BY <1>i, <1>e, <1>v, <1>o DEF Pending, AfterPrologues, Resumes, Points
<1>1. WaitsTypes'
  <2>1. index' \in [Threads -> Nat]
    BY <1>i, <1>e, <1>0 DEF WaitsTypes
  <2>2. pc' \in [Threads -> Points \cup Releasing]
    BY <1>i, <1>e, <1>0 DEF WaitsTypes, Points, Resumes, Releasing, Handing
  <2>3. QED
    BY <1>i, <1>e, <2>1, <2>2 DEF WaitsTypes, LookTypes
<1>2. CallOK(t)'
  BY <1>i, <1>e, <1>v, <1>o, <1>0, <1>h, <1>f, <1>w
     DEF CallOK, IndexOK, ParkerOK, IsAny, AfterPrologues, Waiting
<1>3. IndexOK(t)'
  BY <1>i, <1>e, <1>v, <1>o, <1>0, <1>h, <1>f, <1>w
     DEF IndexOK, CallOK, ParkerOK, IsAny, AfterPrologues, Waiting
<1>4. ParkerOK(t)'
  BY <1>i, <1>e, <1>v, <1>o, <1>0, <1>h, <1>f, <1>w, <1>b
     DEF ParkerOK, CallOK, IndexOK, IsAny, Waiting, AfterPrologues
<1>5. CountOK(t)'
  BY <1>i, <1>e, <1>v, <1>o, <1>0, <1>h, <1>f, <1>w, <1>b, <1>c
     DEF CountOK, CallOK, IndexOK, ParkerOK, IsAny, AfterPrologues
<1>6. /\ pc[t] \in Points \ {"lockSelf", "return"} /\ pc'[t] \in Points \ {"lockSelf"}
      /\ pc'[t] = "return" => linked[t] = {}
      /\ IsAny(t) /\ count[t] = 0 /\ key[t] = "none" /\ pc[t] \in Waiting =>
           count'[t] = 0 /\ key'[t] = "none" /\ pc'[t] \in Waiting
  BY <1>e, <1>v, <1>h, <1>w DEF Points, Waiting, IsAny, CallOK, IndexOK, ParkerOK
<1>7. QED
  BY <1>e, <1>o, <1>1, <1>2, <1>3, <1>4, <1>5, <1>6, OwnStep

\* The loop over the prologues sees that the parker was locked.
LEMMA ProloguesStopStep ==
  ASSUME WaitsInv, NEW t \in Threads,
         ProloguesStop(t)
  PROVE  WaitsInv'
<1>i. /\ WaitsTypes /\ ReleaserInv /\ CallInv /\ IndexInv /\ QueueInv /\ FrontInv
      /\ LinkedInv /\ ParkerInv /\ CountInv /\ PermitInv /\ TotalInv
      /\ NoThread \notin Threads /\ IsFiniteSet(Threads) /\ MaxCount \in Nat
  BY WaitsParts
<1>e. /\ pc[t] = "prologueAny" /\ count[t] = 0 /\ op[t] = "any"
      /\ pc' = [pc EXCEPT ![t] = "park"]
      /\ UNCHANGED <<permits, queue, holder, op, array, index, visited, count, key, linked, got,
                     serving, front, total>>
  BY <1>i DEF ProloguesStop, semaphores, callVars, waitVars, Step, Goto, SetIndex, Object, AtEnd
<1>v. /\ pc'[t] = "park"
  BY <1>i, <1>e DEF WaitsTypes
<1>o. /\ \A r \in Threads \ {t} : pc'[r] = pc[r]
  BY <1>i, <1>e DEF WaitsTypes
<1>h. /\ At(t) = "prologueAny" /\ At(t)' = "park"
      /\ \A r \in Threads \ {t} : At(r)' = At(r)
  <2>1. pc[t] \notin Releasing /\ UNCHANGED serving /\ \A r \in Threads \ {t} : pc'[r] = pc[r]
    BY <1>e, <1>o DEF Releasing, Handing
  <2>2. QED
    BY <1>i, <1>e, <1>v, <2>1, AtLemma
<1>f. \A r \in Threads \ {t} : SameLocal(r)
  BY <1>e, <1>o, <1>h DEF SameLocal
<1>w. CallOK(t) /\ IndexOK(t) /\ ParkerOK(t) /\ CountOK(t)
  BY <1>i DEF CallInv, IndexInv, ParkerInv, CountInv
<1>b. \A r \in Threads, how \in {"unparkAny", "unparkAll"} :
        BeingUnparked(r, how) => BeingUnparked(r, how)'
  BY <1>i, <1>e, <1>v, <1>o DEF BeingUnparked, AfterPrologues, Resumes, Points
<1>c. \A r \in Threads : op[r] = "all" => Pending(r)' = Pending(r)
  BY <1>i, <1>e, <1>v, <1>o DEF Pending, AfterPrologues, Resumes, Points
<1>1. WaitsTypes'
  <2>1. pc' \in [Threads -> Points \cup Releasing]
    BY <1>i, <1>e DEF WaitsTypes, Points, Resumes, Releasing, Handing
  <2>2. QED
    BY <1>i, <1>e, <2>1 DEF WaitsTypes, LookTypes
<1>2. CallOK(t)'
  BY <1>i, <1>e, <1>v, <1>o, <1>h, <1>f, <1>w
     DEF CallOK, IndexOK, ParkerOK, IsAny, AfterPrologues, Waiting
<1>3. IndexOK(t)'
  BY <1>i, <1>e, <1>v, <1>o, <1>h, <1>f, <1>w
     DEF IndexOK, CallOK, ParkerOK, IsAny, AfterPrologues, Waiting
<1>4. ParkerOK(t)'
  BY <1>i, <1>e, <1>v, <1>o, <1>h, <1>f, <1>w, <1>b
     DEF ParkerOK, CallOK, IndexOK, IsAny, Waiting, AfterPrologues
<1>5. CountOK(t)'
  BY <1>i, <1>e, <1>v, <1>o, <1>h, <1>f, <1>w, <1>b, <1>c
     DEF CountOK, CallOK, IndexOK, ParkerOK, IsAny, AfterPrologues
<1>6. /\ pc[t] \in Points \ {"lockSelf", "return"} /\ pc'[t] \in Points \ {"lockSelf"}
      /\ pc'[t] = "return" => linked[t] = {}
      /\ IsAny(t) /\ count[t] = 0 /\ key[t] = "none" /\ pc[t] \in Waiting =>
           count'[t] = 0 /\ key'[t] = "none" /\ pc'[t] \in Waiting
  BY <1>e, <1>v, <1>h, <1>w DEF Points, Waiting, IsAny, CallOK, IndexOK, ParkerOK
<1>7. QED
  BY <1>e, <1>o, <1>1, <1>2, <1>3, <1>4, <1>5, <1>6, OwnStep

\* A prologue takes a permit.
LEMMA ProAcquiresStep ==
  ASSUME WaitsInv, NEW t \in Threads,
         PrologueAcquires(t)
  PROVE  WaitsInv'
<1>i. /\ WaitsTypes /\ ReleaserInv /\ CallInv /\ IndexInv /\ QueueInv /\ FrontInv
      /\ LinkedInv /\ ParkerInv /\ CountInv /\ PermitInv /\ TotalInv
      /\ NoThread \notin Threads /\ IsFiniteSet(Threads) /\ MaxCount \in Nat
  BY WaitsParts
<1>0. PICK w0 \in Waitables, i0 \in Nat :
            i0 = index[t] /\ i0 \in 1..Len(array[t]) /\ w0 = array[t][i0]
  <2>1. CallOK(t) /\ At(t) = "prologueAny" /\ index[t] \in 1..Len(array[t])
    BY <1>i
       DEF CallInv, CallOK, WaitsTypes, At, AtEnd, ReleaserInv, Releasing, Handing,
           PrologueAcquires, AllowsAcquire
  <2>2. QED
    BY <1>i, <2>1 DEF WaitsTypes
<1>e. /\ pc[t] = "prologueAny" /\ permits[w0] > 0 /\ queue[w0] = <<>>
      /\ permits' = [permits EXCEPT ![w0] = permits[w0] - 1]
      /\ pc' = [pc EXCEPT ![t] = "lockSelf"]
      /\ UNCHANGED <<queue, holder, op, array, index, visited, count, key, linked, got, serving,
                     front, total>>
  BY <1>i, <1>0
     DEF PrologueAcquires, AllowsAcquire, semaphores, callVars, waitVars, Step, Goto, SetIndex,
         Object, AtEnd
<1>v. /\ permits'[w0] = permits[w0] - 1
      /\ pc'[t] = "lockSelf"
  BY <1>i, <1>e, <1>0 DEF WaitsTypes
<1>o. /\ \A r \in Waitables \ {w0} : permits'[r] = permits[r]
      /\ \A r \in Threads \ {t} : pc'[r] = pc[r]
  BY <1>i, <1>e DEF WaitsTypes
<1>h. /\ At(t) = "prologueAny" /\ At(t)' = "lockSelf"
      /\ \A r \in Threads \ {t} : At(r)' = At(r)
  <2>1. pc[t] \notin Releasing /\ UNCHANGED serving /\ \A r \in Threads \ {t} : pc'[r] = pc[r]
    BY <1>e, <1>o DEF Releasing, Handing
  <2>2. QED
    BY <1>i, <1>e, <1>v, <2>1, AtLemma
<1>f. \A r \in Threads \ {t} : SameLocal(r)
  BY <1>e, <1>o, <1>h DEF SameLocal
<1>w. CallOK(t) /\ IndexOK(t) /\ ParkerOK(t) /\ CountOK(t)
  BY <1>i, <1>0 DEF CallInv, IndexInv, ParkerInv, CountInv
<1>a. \A r \in Threads, j \in Nat, v \in Waitables : Valid(r, j, v) => Valid(r, j, v)'
  <2>1. \A j \in Nat, v \in Waitables : Valid(t, j, v) => Valid(t, j, v)'
    BY <1>i, <1>e, <1>v, <1>o, <1>0, <1>h, <1>f, <1>w
       DEF Valid, CallOK, IndexOK, ParkerOK, IsAny, AfterPrologues, Waiting
  <2>2. QED
    BY <1>f, <2>1, FrameLemma
<1>b. \A r \in Threads, how \in {"unparkAny", "unparkAll"} :
        BeingUnparked(r, how) => BeingUnparked(r, how)'
  BY <1>i, <1>e, <1>v, <1>o DEF BeingUnparked, AfterPrologues, Resumes, Points
<1>c. \A r \in Threads : op[r] = "all" => Pending(r)' = Pending(r)
  BY <1>i, <1>e, <1>v, <1>o DEF Pending, AfterPrologues, Resumes, Points
<1>1. WaitsTypes'
  <2>1. permits' \in [Waitables -> Nat]
    <3>1. permits \in [Waitables -> Nat] /\ permits[w0] - 1 \in Nat
      BY <1>i, <1>e, <1>0, SMTT(30) DEF WaitsTypes
    <3>2. QED
      BY <1>e, <3>1
  <2>2. pc' \in [Threads -> Points \cup Releasing]
    BY <1>i, <1>e, <1>0 DEF WaitsTypes, Points, Resumes, Releasing, Handing
  <2>3. QED
    BY <1>i, <1>e, <2>1, <2>2 DEF WaitsTypes, LookTypes
<1>2. ReleaserInv'
  BY <1>i, <1>e, <1>v, <1>o, <1>0 DEF ReleaserInv, Releasing, Handing, AfterPrologues, NoBlock
<1>3. CallInv'
  <2>1. CallOK(t)'
    BY <1>i, <1>e, <1>v, <1>o, <1>0, <1>h, <1>f, <1>w
       DEF CallOK, IndexOK, ParkerOK, IsAny, AfterPrologues, Waiting
  <2>2. QED
    BY <1>i, <1>f, <2>1, FrameLemma DEF CallInv
<1>4. IndexInv'
  <2>1. IndexOK(t)'
    BY <1>i, <1>e, <1>v, <1>o, <1>0, <1>h, <1>f, <1>w
       DEF IndexOK, CallOK, ParkerOK, IsAny, AfterPrologues, Waiting
  <2>2. QED
    BY <1>i, <1>f, <2>1, FrameLemma DEF IndexInv
<1>5. QueueInv'
  BY <1>i, <1>e, <1>a DEF QueueInv
<1>6. FrontInv'
  <2>1. \A r \in Threads \ {t} : pc'[r] = pc[r] /\ serving'[r] = serving[r]
    BY <1>e, <1>v, <1>o
  <2>2. ASSUME NEW r \in Threads \ {t}, NEW q \in Threads, NEW j \in Nat,
               front[r] = <<q, j>>, FrontOK(r, q, j)
        PROVE  KeepsFront(r, q, j)
    <3>0. serving[r][1] \in Waitables
      BY <1>i, <2>2, HoldsFront
    <3>1. Valid(q, j, serving[r][1])'
      BY <1>a, <2>1, <2>2, <3>0 DEF FrontOK
    <3>2. ~In(<<q, j>>, queue'[serving[r][1]])
      BY <1>e, <2>2, <3>0 DEF FrontOK
    <3>3. (IsAny(q) => IsAny(q)') /\ (op[q] = "all" => op'[q] = "all")
      BY <1>i, <1>e, <1>v, <1>o, <2>2, <1>w, <1>h DEF IsAny, FrontOK, Valid, IndexOK
    <3>4. pc[r] = "unparkAny" => count'[q] = 0 /\ key'[q] = "none" /\ At(q)' \in Waiting
      BY <1>i, <1>e, <1>v, <1>o, <1>0, <1>h, <1>f, <1>w, <2>2
         DEF FrontOK, Waiting, AfterPrologues, CallOK, ParkerOK, Valid
    <3>5. QED
      BY <3>1, <3>2, <3>3, <3>4 DEF KeepsFront
  <2>3. pc[t] \notin Handing /\ pc'[t] # "unparkAny"
    BY <1>e, <1>v, <1>o, <1>0 DEF Handing, Resumes
  <2>4. QED
    BY <1>i, <1>e, <2>1, <2>2, <2>3, FrontKept
<1>7. LinkedInv'
  <2>1. ASSUME NEW r \in Threads, NEW j \in Nat, j \in linked'[r]
        PROVE  /\ j \in linked[r] /\ array'[r] = array[r] /\ (IsAny(r) => IsAny(r)')
               /\ IsAny(r) /\ (j \in got[r] \/ At(r) = "return") =>
                    j \in got'[r] \/ At(r)' = "return"
    BY <1>i, <1>e, <1>v, <1>o, <1>0, <1>h, <1>f, <1>w, <2>1 DEF SameLocal, IsAny, IndexOK, CallOK
  <2>2. QED
    BY <1>i, <1>e, <2>1, LinkedKept
<1>8. ParkerInv'
  <2>1. ParkerOK(t)'
    BY <1>i, <1>e, <1>v, <1>o, <1>0, <1>h, <1>f, <1>w, <1>b
       DEF ParkerOK, CallOK, IndexOK, IsAny, Waiting, AfterPrologues
  <2>2. QED
    BY <1>i, <1>f, <1>b, <2>1, FrameLemma DEF ParkerInv
<1>9. CountInv'
  <2>1. CountOK(t)'
    BY <1>i, <1>e, <1>v, <1>o, <1>0, <1>h, <1>f, <1>w, <1>b, <1>c
       DEF CountOK, CallOK, IndexOK, ParkerOK, IsAny, AfterPrologues
  <2>2. QED
    BY <1>i, <1>f, <1>b, <1>c, <2>1, FrameLemma DEF CountInv
<1>10. PermitInv'
  BY <1>i, <1>e, <1>v, <1>o, <1>0 DEF PermitInv, AllowsAcquire
<1>11. TotalInv'
  <2>1. /\ \A v \in Waitables : Used(v)' = Used(v)
        /\ IsFiniteSet(Used(w0)') /\ Cardinality(Used(w0)) \in Nat
        /\ Cardinality(Used(w0)') = Cardinality(Used(w0))
    BY <1>i, <1>e, <1>0, UsedKept
  <2>2. /\ \A v \in Waitables \ {w0} : InHands(v)' = InHands(v)
        /\ Cardinality(InHands(w0)) \in Nat
        /\ Cardinality(InHands(w0)') = Cardinality(InHands(w0)) + 1
    <3>1. \A v \in Waitables : \A r \in Threads \ {t} : InHand(r, v)' <=> InHand(r, v)
      BY <1>e, <1>v, <1>o DEF InHand
    <3>2. \A v \in Waitables : ~InHand(t, v) /\ (InHand(t, v)' <=> v = w0)
      BY <1>e, <1>v, <1>o, <1>0 DEF InHand, Resumes
    <3>3. QED
      BY <1>i, <1>0, <3>1, <3>2, HandsAdd
  <2>3. /\ permits'[w0] = permits[w0] - 1 /\ permits[w0] \in Nat
        /\ total'[w0] = total[w0] /\ total[w0] \in Int
        /\ \A v \in Waitables \ {w0} : permits'[v] = permits[v] /\ total'[v] = total[v]
    BY <1>i, <1>e, <1>v, <1>o, <1>0 DEF WaitsTypes
  <2>4. ASSUME TotalOK(w0)
        PROVE  total'[w0] = permits'[w0] + Cardinality(Used(w0)') + Cardinality(InHands(w0)')
    <3>1. total[w0] = permits[w0] + Cardinality(Used(w0)) + Cardinality(InHands(w0))
      BY <2>4 DEF TotalOK
    <3>2. QED
      BY <2>1, <2>2, <2>3, <3>1
  <2>5. QED
    BY <1>i, <2>1, <2>2, <2>3, <2>4, <1>0, TotalLemma
<1>12. QED
  BY <1>1, <1>2, <1>3, <1>4, <1>5, <1>6, <1>7, <1>8, <1>9, <1>10, <1>11 DEF WaitsInv

\* After that, the wait-any locks its own parker and unparks itself.
LEMMA LockSelfOkStep ==
  ASSUME WaitsInv, NEW t \in Threads,
         LockSelf(t), count[t] = 1
  PROVE  WaitsInv'
<1>i. /\ WaitsTypes /\ ReleaserInv /\ CallInv /\ IndexInv /\ QueueInv /\ FrontInv
      /\ LinkedInv /\ ParkerInv /\ CountInv /\ PermitInv /\ TotalInv
      /\ NoThread \notin Threads /\ IsFiniteSet(Threads) /\ MaxCount \in Nat
  BY WaitsParts
<1>0. PICK w0 \in Waitables, i0 \in Nat, to0 \in {"signal", "park"} :
            /\ i0 = index[t] /\ i0 \in 1..Len(array[t]) /\ w0 = array[t][i0]
            /\ to0 = AfterPrologues(t) /\ (to0 = "signal" <=> op[t] = "signalAndWait")
  <2>1. CallOK(t) /\ At(t) = "lockSelf" /\ index[t] \in 1..Len(array[t])
    BY <1>i DEF CallInv, CallOK, WaitsTypes, At, AtEnd, ReleaserInv, Releasing, Handing, LockSelf
  <2>2. AfterPrologues(t) = IF op[t] = "signalAndWait" THEN "signal" ELSE "park"
    BY DEF AfterPrologues
  <2>3. array[t][index[t]] \in Waitables 
    BY <1>i, <2>1 DEF WaitsTypes
  <2>4. QED
    BY <2>1, <2>2, <2>3
<1>e. /\ pc[t] = "lockSelf" /\ count[t] = 1
      /\ count' = [count EXCEPT ![t] = 0]
      /\ key' = [key EXCEPT ![t] = "acquired"]
      /\ got' = [got EXCEPT ![t] = {i0}]
      /\ pc' = [pc EXCEPT ![t] = to0]
      /\ UNCHANGED <<permits, queue, holder, op, array, index, visited, linked, serving, front,
                     total>>
  BY <1>i, <1>0 DEF LockSelf, semaphores, callVars, waitVars, Step, Goto, SetIndex, Object, AtEnd
<1>v. /\ count'[t] = 0
      /\ key'[t] = "acquired"
      /\ got'[t] = {i0}
      /\ pc'[t] = to0
  BY <1>i, <1>e, <1>0 DEF WaitsTypes
<1>o. /\ \A r \in Threads \ {t} : count'[r] = count[r]
      /\ \A r \in Threads \ {t} : key'[r] = key[r]
      /\ \A r \in Threads \ {t} : got'[r] = got[r]
      /\ \A r \in Threads \ {t} : pc'[r] = pc[r]
  BY <1>i, <1>e DEF WaitsTypes
<1>h. /\ At(t) = "lockSelf" /\ At(t)' = to0
      /\ \A r \in Threads \ {t} : At(r)' = At(r)
  <2>1. pc[t] \notin Releasing /\ UNCHANGED serving /\ \A r \in Threads \ {t} : pc'[r] = pc[r]
    BY <1>e, <1>o DEF Releasing, Handing
  <2>2. QED
    BY <1>i, <1>e, <1>v, <2>1, AtLemma
<1>f. \A r \in Threads \ {t} : SameLocal(r)
  BY <1>e, <1>o, <1>h DEF SameLocal
<1>w. CallOK(t) /\ IndexOK(t) /\ ParkerOK(t) /\ CountOK(t)
  BY <1>i, <1>0 DEF CallInv, IndexInv, ParkerInv, CountInv
<1>l. got[t] = {} /\ linked[t] = 1..(i0 - 1)  /\ op[t] \in {"any", "signalAndWait"}
  <2>1. op[t] \in {"any", "signalAndWait"}
    BY <1>i, <1>h, <1>w DEF CallOK, WaitsTypes, Ops
  <2>2. QED
    BY <1>e, <1>h, <1>w, <1>0, <2>1 DEF ParkerOK, IsAny, Waiting
<1>a. \A r \in Threads, j \in Nat, v \in Waitables : Valid(r, j, v) => Valid(r, j, v)'
  <2>1. \A j \in Nat, v \in Waitables : Valid(t, j, v) => Valid(t, j, v)'
    BY <1>i, <1>e, <1>v, <1>o, <1>0, <1>h, <1>f, <1>w, <1>l
       DEF Valid, CallOK, IndexOK, ParkerOK, IsAny, AfterPrologues, Waiting
  <2>2. QED
    BY <1>f, <2>1, FrameLemma
<1>b. \A r \in Threads, how \in {"unparkAny", "unparkAll"} :
        BeingUnparked(r, how) => BeingUnparked(r, how)'
  BY <1>i, <1>e, <1>v, <1>o DEF BeingUnparked, AfterPrologues, Resumes, Points
<1>c. \A r \in Threads : op[r] = "all" => Pending(r)' = Pending(r)
  BY <1>i, <1>e, <1>v, <1>o DEF Pending, AfterPrologues, Resumes, Points
<1>1. WaitsTypes'
  <2>1. count' \in [Threads -> Nat]
    BY <1>i, <1>e, <1>0 DEF WaitsTypes
  <2>2. key' \in [Threads -> Keys]
    BY <1>i, <1>e, <1>0 DEF WaitsTypes, Keys
  <2>3. got' \in [Threads -> SUBSET Nat]
    BY <1>i, <1>e, <1>0 DEF WaitsTypes
  <2>4. pc' \in [Threads -> Points \cup Releasing]
    BY <1>i, <1>e, <1>0 DEF WaitsTypes, Points, Resumes, Releasing, Handing
  <2>5. QED
    BY <1>i, <1>e, <2>1, <2>2, <2>3, <2>4 DEF WaitsTypes, LookTypes
<1>2. ReleaserInv'
  BY <1>i, <1>e, <1>v, <1>o, <1>0 DEF ReleaserInv, Releasing, Handing, AfterPrologues, NoBlock
<1>3. CallInv'
  <2>1. CallOK(t)'
    BY <1>i, <1>e, <1>v, <1>o, <1>0, <1>h, <1>f, <1>w, <1>l
       DEF CallOK, IndexOK, ParkerOK, IsAny, AfterPrologues, Waiting
  <2>2. QED
    BY <1>i, <1>f, <2>1, FrameLemma DEF CallInv
<1>4. IndexInv'
  <2>1. IndexOK(t)'
    BY <1>i, <1>e, <1>v, <1>o, <1>0, <1>h, <1>f, <1>w, <1>l
       DEF IndexOK, CallOK, ParkerOK, IsAny, AfterPrologues, Waiting
  <2>2. QED
    BY <1>i, <1>f, <2>1, FrameLemma DEF IndexInv
<1>5. QueueInv'
  BY <1>i, <1>e, <1>a DEF QueueInv
<1>6. FrontInv'
  <2>1. \A r \in Threads \ {t} : pc'[r] = pc[r] /\ serving'[r] = serving[r]
    BY <1>e, <1>v, <1>o
  <2>2. ASSUME NEW r \in Threads \ {t}, NEW q \in Threads, NEW j \in Nat,
               front[r] = <<q, j>>, FrontOK(r, q, j)
        PROVE  KeepsFront(r, q, j)
    <3>0. serving[r][1] \in Waitables
      BY <1>i, <2>2, HoldsFront
    <3>1. Valid(q, j, serving[r][1])'
      BY <1>a, <2>1, <2>2, <3>0 DEF FrontOK
    <3>2. ~In(<<q, j>>, queue'[serving[r][1]])
      BY <1>e, <2>2, <3>0 DEF FrontOK
    <3>3. (IsAny(q) => IsAny(q)') /\ (op[q] = "all" => op'[q] = "all")
      BY <1>i, <1>e, <1>v, <1>o, <2>2, <1>w, <1>l, <1>h DEF IsAny, FrontOK, Valid, IndexOK
    <3>4. pc[r] = "unparkAny" => count'[q] = 0 /\ key'[q] = "none" /\ At(q)' \in Waiting
      BY <1>i, <1>e, <1>v, <1>o, <1>0, <1>h, <1>f, <1>w, <1>l, <2>2
         DEF FrontOK, Waiting, AfterPrologues, CallOK, ParkerOK, Valid
    <3>5. QED
      BY <3>1, <3>2, <3>3, <3>4 DEF KeepsFront
  <2>3. pc[t] \notin Handing /\ pc'[t] # "unparkAny"
    BY <1>e, <1>v, <1>o, <1>0 DEF Handing, Resumes
  <2>4. QED
    BY <1>i, <1>e, <2>1, <2>2, <2>3, FrontKept
<1>7. LinkedInv'
  <2>1. ASSUME NEW r \in Threads, NEW j \in Nat, j \in linked'[r]
        PROVE  /\ j \in linked[r] /\ array'[r] = array[r] /\ (IsAny(r) => IsAny(r)')
               /\ IsAny(r) /\ (j \in got[r] \/ At(r) = "return") =>
                    j \in got'[r] \/ At(r)' = "return"
    BY <1>i, <1>e, <1>v, <1>o, <1>0, <1>h, <1>f, <1>w, <1>l, <2>1
       DEF SameLocal, IsAny, IndexOK, CallOK
  <2>2. QED
    BY <1>i, <1>e, <2>1, LinkedKept
<1>8. ParkerInv'
  <2>1. ParkerOK(t)'
    <3>1. /\ count'[t] = 0 /\ key'[t] = "acquired" /\ got'[t] # {}
          /\ At(t)' \in {"signal", "park"}
      BY <1>i, <1>e, <1>v, <1>o, <1>0, <1>h, <1>f, <1>w, <1>l, <1>b DEF IsAny
    <3>2. QED
      BY <3>1 DEF ParkerOK, IsAny, Waiting
  <2>2. QED
    BY <1>i, <1>f, <1>b, <2>1, FrameLemma DEF ParkerInv
<1>9. CountInv'
  <2>1. CountOK(t)'
    BY <1>i, <1>e, <1>v, <1>o, <1>0, <1>h, <1>f, <1>w, <1>l, <1>b, <1>c
       DEF CountOK, CallOK, IndexOK, ParkerOK, IsAny, AfterPrologues
  <2>2. QED
    BY <1>i, <1>f, <1>b, <1>c, <2>1, FrameLemma DEF CountInv
<1>10. PermitInv'
  BY <1>i, <1>e, <1>v, <1>o, <1>0 DEF PermitInv, AllowsAcquire
<1>11. TotalInv'
  <2>1. /\ \A v \in Waitables \ {w0} : Used(v)' = Used(v)
        /\ IsFiniteSet(Used(w0)') /\ Cardinality(Used(w0)) \in Nat
        /\ Cardinality(Used(w0)') = Cardinality(Used(w0)) + 1
    <3>1. /\ t \in Threads /\ i0 \in Nat /\ w0 \in Waitables
          /\ i0 \notin got[t] /\ array[t][i0] = w0
          /\ got'[t] = got[t] \cup {i0}
      BY <1>i, <1>e, <1>v, <1>o, <1>0, <1>h, <1>f, <1>w, <1>l DEF Valid, WaitsTypes
    <3>2. UNCHANGED array /\ \A r \in Threads \ {t} : got'[r] = got[r]
      BY <1>e, <1>o
    <3>3. QED
      BY <1>i, <3>1, <3>2, UsedAdds
  <2>2. /\ \A v \in Waitables \ {w0} : InHands(v)' = InHands(v)
        /\ Cardinality(InHands(w0)) \in Nat
        /\ Cardinality(InHands(w0)') = Cardinality(InHands(w0)) - 1
    <3>1. \A v \in Waitables : \A r \in Threads \ {t} : InHand(r, v)' <=> InHand(r, v)
      BY <1>e, <1>v, <1>o DEF InHand
    <3>2. \A v \in Waitables : ~InHand(t, v)' /\ (InHand(t, v) <=> v = w0)
      BY <1>e, <1>v, <1>o, <1>0 DEF InHand, Resumes
    <3>3. QED
      BY <1>i, <1>0, <3>1, <3>2, HandsRemove
  <2>3. /\ permits'[w0] = permits[w0] /\ permits[w0] \in Nat
        /\ total'[w0] = total[w0] /\ total[w0] \in Int
        /\ \A v \in Waitables \ {w0} : permits'[v] = permits[v] /\ total'[v] = total[v]
    BY <1>i, <1>e, <1>v, <1>o, <1>0 DEF WaitsTypes
  <2>4. ASSUME TotalOK(w0)
        PROVE  total'[w0] = permits'[w0] + Cardinality(Used(w0)') + Cardinality(InHands(w0)')
    <3>1. total[w0] = permits[w0] + Cardinality(Used(w0)) + Cardinality(InHands(w0))
      BY <2>4 DEF TotalOK
    <3>2. QED
      BY <2>1, <2>2, <2>3, <3>1
  <2>5. QED
    BY <1>i, <2>1, <2>2, <2>3, <2>4, <1>0, TotalLemma
<1>12. QED
  BY <1>1, <1>2, <1>3, <1>4, <1>5, <1>6, <1>7, <1>8, <1>9, <1>10, <1>11 DEF WaitsInv

\* After that, its parker was locked: the wait-any gives the permit back.
LEMMA LockSelfFailsStep ==
  ASSUME WaitsInv, NEW t \in Threads,
         LockSelf(t), count[t] # 1
  PROVE  WaitsInv'
<1>i. /\ WaitsTypes /\ ReleaserInv /\ CallInv /\ IndexInv /\ QueueInv /\ FrontInv
      /\ LinkedInv /\ ParkerInv /\ CountInv /\ PermitInv /\ TotalInv
      /\ NoThread \notin Threads /\ IsFiniteSet(Threads) /\ MaxCount \in Nat
  BY WaitsParts
<1>0. PICK w0 \in Waitables, i0 \in Nat, to0 \in {"signal", "park"} :
            /\ i0 = index[t] /\ i0 \in 1..Len(array[t]) /\ w0 = array[t][i0]
            /\ to0 = AfterPrologues(t) /\ (to0 = "signal" <=> op[t] = "signalAndWait")
  <2>1. CallOK(t) /\ At(t) = "lockSelf" /\ index[t] \in 1..Len(array[t])
    BY <1>i DEF CallInv, CallOK, WaitsTypes, At, AtEnd, ReleaserInv, Releasing, Handing, LockSelf
  <2>2. AfterPrologues(t) = IF op[t] = "signalAndWait" THEN "signal" ELSE "park"
    BY DEF AfterPrologues
  <2>3. array[t][index[t]] \in Waitables 
    BY <1>i, <2>1 DEF WaitsTypes
  <2>4. QED
    BY <2>1, <2>2, <2>3
<1>e. /\ pc[t] = "lockSelf" /\ count[t] = 0 
      /\ Look(t, w0, permits[w0] + 1, to0)
      /\ UNCHANGED <<queue, op, array, index, visited, count, key, linked, got, front, total>>
  BY <1>i, <1>0 DEF LockSelf, semaphores, callVars, waitVars, Step, Goto, SetIndex, Object, AtEnd
<1>k. /\ permits[w0] + 1 \in Nat /\ to0 \in Resumes /\ pc[t] \in Points /\ w0 \in Waitables
  BY <1>i, <1>e, <1>0 DEF WaitsTypes, CallInv, CallOK, AfterPrologues, Points, Resumes
<1>x. /\ At(t) = pc[t] /\ At(t)' = to0 /\ pc'[t] \in {to0, "release"}
      /\ permits'[w0] = permits[w0] + 1 /\ \A r \in Waitables \ {w0} : permits'[r] = permits[r]
      /\ \A r \in Threads \ {t} : pc'[r] = pc[r] /\ serving'[r] = serving[r]
      /\ LookTypes' /\ ReleaserInv' /\ PermitInv'
  BY <1>i, <1>e, <1>k, LookLemma
<1>h. /\ At(t) = pc[t] /\ At(t)' = to0
      /\ \A r \in Threads \ {t} : At(r)' = At(r)
  BY <1>x DEF At
<1>f. \A r \in Threads \ {t} : SameLocal(r)
  BY <1>e, <1>h DEF SameLocal
<1>w. CallOK(t) /\ IndexOK(t) /\ ParkerOK(t) /\ CountOK(t)
  BY <1>i, <1>0 DEF CallInv, IndexInv, ParkerInv, CountInv
<1>a. \A r \in Threads, j \in Nat, v \in Waitables : Valid(r, j, v) => Valid(r, j, v)'
  <2>1. \A j \in Nat, v \in Waitables : Valid(t, j, v) => Valid(t, j, v)'
    BY <1>i, <1>e, <1>x, <1>0, <1>h, <1>f, <1>w
       DEF Valid, CallOK, IndexOK, ParkerOK, IsAny, AfterPrologues, Waiting
  <2>2. QED
    BY <1>f, <2>1, FrameLemma
<1>b. \A r \in Threads, how \in {"unparkAny", "unparkAll"} :
        BeingUnparked(r, how) => BeingUnparked(r, how)'
  BY <1>i, <1>e, <1>x DEF BeingUnparked, AfterPrologues, Resumes, Points
<1>c. \A r \in Threads : op[r] = "all" => Pending(r)' = Pending(r)
  BY <1>i, <1>e, <1>x DEF Pending, AfterPrologues, Resumes, Points
<1>1. WaitsTypes'
  <2>1. QED
    BY <1>i, <1>e, <1>x DEF WaitsTypes, LookTypes
<1>2. ReleaserInv'
  BY <1>x
<1>3. CallInv'
  <2>1. CallOK(t)'
    BY <1>i, <1>e, <1>x, <1>0, <1>h, <1>f, <1>w
       DEF CallOK, IndexOK, ParkerOK, IsAny, AfterPrologues, Waiting
  <2>2. QED
    BY <1>i, <1>f, <2>1, FrameLemma DEF CallInv
<1>4. IndexInv'
  <2>1. IndexOK(t)'
    BY <1>i, <1>e, <1>x, <1>0, <1>h, <1>f, <1>w
       DEF IndexOK, CallOK, ParkerOK, IsAny, AfterPrologues, Waiting
  <2>2. QED
    BY <1>i, <1>f, <2>1, FrameLemma DEF IndexInv
<1>5. QueueInv'
  BY <1>i, <1>e, <1>a DEF QueueInv
<1>6. FrontInv'
  <2>1. \A r \in Threads \ {t} : pc'[r] = pc[r] /\ serving'[r] = serving[r]
    BY <1>e, <1>x
  <2>2. ASSUME NEW r \in Threads \ {t}, NEW q \in Threads, NEW j \in Nat,
               front[r] = <<q, j>>, FrontOK(r, q, j)
        PROVE  KeepsFront(r, q, j)
    <3>0. serving[r][1] \in Waitables
      BY <1>i, <2>2, HoldsFront
    <3>1. Valid(q, j, serving[r][1])'
      BY <1>a, <2>1, <2>2, <3>0 DEF FrontOK
    <3>2. ~In(<<q, j>>, queue'[serving[r][1]])
      BY <1>e, <2>2, <3>0 DEF FrontOK
    <3>3. (IsAny(q) => IsAny(q)') /\ (op[q] = "all" => op'[q] = "all")
      BY <1>i, <1>e, <1>x, <2>2, <1>w, <1>h DEF IsAny, FrontOK, Valid, IndexOK
    <3>4. pc[r] = "unparkAny" => count'[q] = 0 /\ key'[q] = "none" /\ At(q)' \in Waiting
      BY <1>i, <1>e, <1>x, <1>0, <1>h, <1>f, <1>w, <2>2
         DEF FrontOK, Waiting, AfterPrologues, CallOK, ParkerOK, Valid
    <3>5. QED
      BY <3>1, <3>2, <3>3, <3>4 DEF KeepsFront
  <2>3. pc[t] \notin Handing /\ pc'[t] # "unparkAny"
    BY <1>e, <1>x, <1>0 DEF Handing, Resumes
  <2>4. QED
    BY <1>i, <1>e, <2>1, <2>2, <2>3, FrontKept
<1>7. LinkedInv'
  <2>1. ASSUME NEW r \in Threads, NEW j \in Nat, j \in linked'[r]
        PROVE  /\ j \in linked[r] /\ array'[r] = array[r] /\ (IsAny(r) => IsAny(r)')
               /\ IsAny(r) /\ (j \in got[r] \/ At(r) = "return") =>
                    j \in got'[r] \/ At(r)' = "return"
    BY <1>i, <1>e, <1>x, <1>0, <1>h, <1>f, <1>w, <2>1 DEF SameLocal, IsAny, IndexOK, CallOK
  <2>2. QED
    BY <1>i, <1>e, <2>1, LinkedKept
<1>8. ParkerInv'
  <2>1. ParkerOK(t)'
    BY <1>i, <1>e, <1>x, <1>0, <1>h, <1>f, <1>w, <1>b
       DEF ParkerOK, CallOK, IndexOK, IsAny, Waiting, AfterPrologues
  <2>2. QED
    BY <1>i, <1>f, <1>b, <2>1, FrameLemma DEF ParkerInv
<1>9. CountInv'
  <2>1. CountOK(t)'
    BY <1>i, <1>e, <1>x, <1>0, <1>h, <1>f, <1>w, <1>b, <1>c
       DEF CountOK, CallOK, IndexOK, ParkerOK, IsAny, AfterPrologues
  <2>2. QED
    BY <1>i, <1>f, <1>b, <1>c, <2>1, FrameLemma DEF CountInv
<1>10. PermitInv'
  BY <1>x
<1>11. TotalInv'
  <2>1. /\ \A v \in Waitables : Used(v)' = Used(v)
        /\ IsFiniteSet(Used(w0)') /\ Cardinality(Used(w0)) \in Nat
        /\ Cardinality(Used(w0)') = Cardinality(Used(w0))
    BY <1>i, <1>e, <1>0, <1>k, UsedKept
  <2>2. /\ \A v \in Waitables \ {w0} : InHands(v)' = InHands(v)
        /\ Cardinality(InHands(w0)) \in Nat
        /\ Cardinality(InHands(w0)') = Cardinality(InHands(w0)) - 1
    <3>1. \A v \in Waitables : \A r \in Threads \ {t} : InHand(r, v)' <=> InHand(r, v)
      BY <1>e, <1>x DEF InHand
    <3>2. \A v \in Waitables : ~InHand(t, v)' /\ (InHand(t, v) <=> v = w0)
      BY <1>e, <1>x, <1>0 DEF InHand, Resumes
    <3>3. QED
      BY <1>i, <1>0, <3>1, <3>2, HandsRemove
  <2>3. /\ permits'[w0] = permits[w0] + 1 /\ permits[w0] \in Nat
        /\ total'[w0] = total[w0] /\ total[w0] \in Int
        /\ \A v \in Waitables \ {w0} : permits'[v] = permits[v] /\ total'[v] = total[v]
    BY <1>i, <1>e, <1>x, <1>0, <1>k DEF WaitsTypes
  <2>4. ASSUME TotalOK(w0)
        PROVE  total'[w0] = permits'[w0] + Cardinality(Used(w0)') + Cardinality(InHands(w0)')
    <3>1. total[w0] = permits[w0] + Cardinality(Used(w0)) + Cardinality(InHands(w0))
      BY <2>4, SMTT(30) DEF TotalOK
    <3>2. QED
      BY <2>1, <2>2, <2>3, <3>1
  <2>5. QED
    BY <1>i, <2>1, <2>2, <2>3, <2>4, <1>0, <1>k, TotalLemma
<1>12. QED
  BY <1>1, <1>2, <1>3, <1>4, <1>5, <1>6, <1>7, <1>8, <1>9, <1>10, <1>11 DEF WaitsInv

\* A prologue inserts a block, and another one follows.
LEMMA ProEnqueuesStep ==
  ASSUME WaitsInv, NEW t \in Threads,
         PrologueEnqueues(t), count[t] = 1, index[t] < Len(array[t])
  PROVE  WaitsInv'
<1>i. /\ WaitsTypes /\ ReleaserInv /\ CallInv /\ IndexInv /\ QueueInv /\ FrontInv
      /\ LinkedInv /\ ParkerInv /\ CountInv /\ PermitInv /\ TotalInv
      /\ NoThread \notin Threads /\ IsFiniteSet(Threads) /\ MaxCount \in Nat
  BY WaitsParts
<1>0. PICK w0 \in Waitables, i0 \in Nat :
            i0 = index[t] /\ i0 \in 1..Len(array[t]) /\ w0 = array[t][i0]
  <2>1. CallOK(t) /\ At(t) = "prologueAny" /\ index[t] \in 1..Len(array[t])
    BY <1>i
       DEF CallInv, CallOK, WaitsTypes, At, AtEnd, ReleaserInv, Releasing, Handing,
           PrologueEnqueues, Enqueue, NextPrologue
  <2>2. QED
    BY <1>i, <2>1 DEF WaitsTypes
<1>e. /\ pc[t] = "prologueAny" /\ ~AllowsAcquire(w0) /\ count[t] = 1 /\ i0 < Len(array[t])
      /\ queue' = [queue EXCEPT ![w0] = Append(queue[w0], <<t, i0>>)]
      /\ linked' = [linked EXCEPT ![t] = linked[t] \cup {i0}]
      /\ visited' = [visited EXCEPT ![t] = i0]
      /\ index' = [index EXCEPT ![t] = i0 + 1]
      /\ UNCHANGED <<permits, holder, pc, op, array, count, key, got, serving, front, total>>
  BY <1>i, <1>0
     DEF PrologueEnqueues, Enqueue, NextPrologue, semaphores, callVars, waitVars, Step, Goto,
         SetIndex, Object, AtEnd
<1>v. /\ queue'[w0] = Append(queue[w0], <<t, i0>>)
      /\ linked'[t] = linked[t] \cup {i0}
      /\ visited'[t] = i0
      /\ index'[t] = i0 + 1
  BY <1>i, <1>e, <1>0 DEF WaitsTypes
<1>o. /\ \A r \in Waitables \ {w0} : queue'[r] = queue[r]
      /\ \A r \in Threads \ {t} : linked'[r] = linked[r]
      /\ \A r \in Threads \ {t} : visited'[r] = visited[r]
      /\ \A r \in Threads \ {t} : index'[r] = index[r]
  BY <1>i, <1>e DEF WaitsTypes
<1>h. /\ At(t) = "prologueAny" /\ At(t)' = "prologueAny"
      /\ \A r \in Threads \ {t} : At(r)' = At(r)
  <2>1. pc[t] \notin Releasing /\ UNCHANGED serving /\ \A r \in Threads \ {t} : pc'[r] = pc[r]
    BY <1>e DEF Releasing, Handing
  <2>2. QED
    BY <1>i, <1>e, <1>v, <2>1, AtLemma
<1>f. \A r \in Threads \ {t} : SameLocal(r)
  BY <1>e, <1>o, <1>h DEF SameLocal
<1>w. CallOK(t) /\ IndexOK(t) /\ ParkerOK(t) /\ CountOK(t)
  BY <1>i, <1>0 DEF CallInv, IndexInv, ParkerInv, CountInv
<1>l. i0 \notin linked[t] /\ i0 \notin got[t] /\ op[t] \in {"any", "signalAndWait"}
      /\ linked[t] \subseteq 1..(i0 - 1)
  <2>1. op[t] \in {"any", "signalAndWait"}
    BY <1>i, <1>h, <1>w DEF CallOK, WaitsTypes, Ops
  <2>2. visited[t] = i0 - 1 /\ linked[t] \subseteq 1..visited[t] /\ got[t] \subseteq 1..visited[t]
    BY <1>h, <1>w, <1>0, <2>1, SMTT(30) DEF IndexOK, IsAny
  <2>3. QED
    BY <2>1, <2>2
<1>n. pc[t] \in Points \ {"lockSelf", "return"} /\ pc'[t] \in Points \ {"lockSelf", "return"}
  BY <1>0, <1>e, <1>v, SMTT(30) DEF Points
<1>p. Inserted(t, w0, i0)
  <2>1. /\ pc[t] \in Points /\ pc'[t] \in Points /\ UNCHANGED <<array, front>>
        /\ \A r \in Threads \ {t} : pc'[r] = pc[r]
    BY <1>e, <1>n, <1>o
  <2>2. QED
    BY <1>0, <1>e, <1>l, <2>1, EnqueueFacts
<1>q. Append(queue[w0], <<t, i0>>) \in Seq(Blocks)
  BY <1>p DEF Inserted
<1>y. /\ count[t] \in {0, 1} /\ key[t] \in {"none", "acquired"}
      /\ (key[t] = "acquired" <=> got[t] # {})
      /\ count[t] = 1 => key[t] = "none" /\ got[t] = {} /\ linked[t] = 1..(i0 - 1)
      /\ count[t] = 0 /\ key[t] = "none" => BeingUnparked(t, "unparkAny")
      /\ i0 + 1 \in Nat /\ linked[t] \cup {i0} \subseteq Nat
  <2>1. IsAny(t) /\ At(t) = "prologueAny" /\ index[t] = i0
    BY <1>0, <1>h, <1>l DEF IsAny
  <2>2. linked[t] \cup {i0} \subseteq Nat
    BY <1>l
  <2>3. QED
    BY <1>w, <2>1, <2>2 DEF ParkerOK, Waiting
<1>z. (1..(i0 - 1)) \cup {i0} = 1..i0
  BY <1>0
<1>b. \A r \in Threads, how \in {"unparkAny", "unparkAll"} :
        BeingUnparked(r, how) => BeingUnparked(r, how)'
  BY <1>i, <1>e, <1>v, <1>o DEF BeingUnparked, AfterPrologues, Resumes, Points
<1>1. WaitsTypes'
  <2>1. queue' \in [Waitables -> Seq(Blocks)]
    BY <1>i, <1>e, <1>0, <1>y, <1>q DEF WaitsTypes, Blocks
  <2>2. linked' \in [Threads -> SUBSET Nat]
    BY <1>i, <1>e, <1>0, <1>y DEF WaitsTypes
  <2>3. visited' \in [Threads -> Nat]
    BY <1>i, <1>e, <1>0, <1>y DEF WaitsTypes
  <2>4. index' \in [Threads -> Nat]
    BY <1>i, <1>e, <1>0, <1>y DEF WaitsTypes
  <2>5. QED
    BY <1>i, <1>e, <2>1, <2>2, <2>3, <2>4 DEF WaitsTypes, LookTypes
<1>2. CallOK(t)'
  <2>1. /\ op'[t] = op[t] /\ array'[t] = array[t] /\ At(t) = At(t)'
        /\ At(t)' = "prologueAny" /\ index'[t] = i0 + 1
    BY <1>e, <1>v, <1>h
  <2>2. i0 + 1 \in 1..Len(array[t])
    <3>1. Len(array[t]) \in Nat /\ i0 < Len(array[t])
      BY <1>i, <1>e DEF WaitsTypes
    <3>2. QED
      BY <1>0, <3>1
  <2>3. QED
    BY <1>w, <2>1, <2>2 DEF CallOK
<1>3. IndexOK(t)'
  <2>1. /\ op'[t] = op[t] /\ array'[t] = array[t] /\ got'[t] = got[t]
        /\ At(t) = "prologueAny" /\ At(t)' = "prologueAny" /\ index'[t] = i0 + 1
        /\ visited'[t] = i0 /\ linked'[t] = linked[t] \cup {i0}
    BY <1>e, <1>v, <1>h
  <2>2. /\ visited[t] = i0 - 1 /\ got[t] \subseteq 1..i0 /\ linked[t] \cup {i0} \subseteq 1..i0
        /\ linked[t] \cup {i0} \subseteq 1..Len(array[t]) /\ got[t] \subseteq 1..Len(array[t])
        /\ i0 = (i0 + 1) - 1
    BY <1>0, <1>h, <1>w, <1>l, SMTT(30) DEF IndexOK
  <2>3. QED
    BY <1>l, <2>1, <2>2 DEF IndexOK, IsAny
<1>4. ParkerOK(t)'
  <2>1. /\ count'[t] = 1 /\ key'[t] = "none" /\ got'[t] = {} /\ linked'[t] = 1..i0
        /\ index'[t] = i0 + 1 /\ At(t)' = "prologueAny" /\ i0 \in Nat
    BY <1>0, <1>e, <1>v, <1>h, <1>y, <1>z DEF IsAny
  <2>2. QED
    BY <2>1 DEF ParkerOK, IsAny, Waiting
<1>5. CountOK(t)'
  BY <1>e, <1>l DEF CountOK
<1>6. IsAny(t) /\ pc[t] \in Waiting => pc'[t] \in Waiting
  BY <1>0, <1>e, <1>v, <1>l, SMTT(30) DEF Waiting, IsAny
<1>7. QED
  BY <1>0, <1>e, <1>l, <1>n, <1>o, <1>1, <1>2, <1>3, <1>4, <1>5, <1>6, EnqueueStep

\* The last prologue inserts a block.
LEMMA ProEnqueuesLastStep ==
  ASSUME WaitsInv, NEW t \in Threads,
         PrologueEnqueues(t), ~(count[t] = 1 /\ index[t] < Len(array[t]))
  PROVE  WaitsInv'
<1>i. /\ WaitsTypes /\ ReleaserInv /\ CallInv /\ IndexInv /\ QueueInv /\ FrontInv
      /\ LinkedInv /\ ParkerInv /\ CountInv /\ PermitInv /\ TotalInv
      /\ NoThread \notin Threads /\ IsFiniteSet(Threads) /\ MaxCount \in Nat
  BY WaitsParts
<1>0. PICK w0 \in Waitables, i0 \in Nat, to0 \in {"signal", "park"} :
            /\ i0 = index[t] /\ i0 \in 1..Len(array[t]) /\ w0 = array[t][i0]
            /\ to0 = AfterPrologues(t) /\ (to0 = "signal" <=> op[t] = "signalAndWait")
  <2>1. CallOK(t) /\ At(t) = "prologueAny" /\ index[t] \in 1..Len(array[t])
    BY <1>i
       DEF CallInv, CallOK, WaitsTypes, At, AtEnd, ReleaserInv, Releasing, Handing,
           PrologueEnqueues, Enqueue, NextPrologue
  <2>2. AfterPrologues(t) = IF op[t] = "signalAndWait" THEN "signal" ELSE "park"
    BY DEF AfterPrologues
  <2>3. array[t][index[t]] \in Waitables 
    BY <1>i, <2>1 DEF WaitsTypes
  <2>4. QED
    BY <2>1, <2>2, <2>3
<1>e. /\ pc[t] = "prologueAny" /\ ~AllowsAcquire(w0) /\ ~(count[t] = 1 /\ i0 < Len(array[t]))
      /\ queue' = [queue EXCEPT ![w0] = Append(queue[w0], <<t, i0>>)]
      /\ linked' = [linked EXCEPT ![t] = linked[t] \cup {i0}]
      /\ visited' = [visited EXCEPT ![t] = i0]
      /\ index' = [index EXCEPT ![t] = 1]
      /\ pc' = [pc EXCEPT ![t] = to0]
      /\ UNCHANGED <<permits, holder, op, array, count, key, got, serving, front, total>>
  BY <1>i, <1>0
     DEF PrologueEnqueues, Enqueue, NextPrologue, semaphores, callVars, waitVars, Step, Goto,
         SetIndex, Object, AtEnd
<1>v. /\ queue'[w0] = Append(queue[w0], <<t, i0>>)
      /\ linked'[t] = linked[t] \cup {i0}
      /\ visited'[t] = i0
      /\ index'[t] = 1
      /\ pc'[t] = to0
  BY <1>i, <1>e, <1>0 DEF WaitsTypes
<1>o. /\ \A r \in Waitables \ {w0} : queue'[r] = queue[r]
      /\ \A r \in Threads \ {t} : linked'[r] = linked[r]
      /\ \A r \in Threads \ {t} : visited'[r] = visited[r]
      /\ \A r \in Threads \ {t} : index'[r] = index[r]
      /\ \A r \in Threads \ {t} : pc'[r] = pc[r]
  BY <1>i, <1>e DEF WaitsTypes
<1>h. /\ At(t) = "prologueAny" /\ At(t)' = to0
      /\ \A r \in Threads \ {t} : At(r)' = At(r)
  <2>1. pc[t] \notin Releasing /\ UNCHANGED serving /\ \A r \in Threads \ {t} : pc'[r] = pc[r]
    BY <1>e, <1>o DEF Releasing, Handing
  <2>2. QED
    BY <1>i, <1>e, <1>v, <2>1, AtLemma
<1>f. \A r \in Threads \ {t} : SameLocal(r)
  BY <1>e, <1>o, <1>h DEF SameLocal
<1>w. CallOK(t) /\ IndexOK(t) /\ ParkerOK(t) /\ CountOK(t)
  BY <1>i, <1>0 DEF CallInv, IndexInv, ParkerInv, CountInv
<1>l. i0 \notin linked[t] /\ i0 \notin got[t] /\ op[t] \in {"any", "signalAndWait"}
      /\ linked[t] \subseteq 1..(i0 - 1)
  <2>1. op[t] \in {"any", "signalAndWait"}
    BY <1>i, <1>h, <1>w DEF CallOK, WaitsTypes, Ops
  <2>2. visited[t] = i0 - 1 /\ linked[t] \subseteq 1..visited[t] /\ got[t] \subseteq 1..visited[t]
    BY <1>h, <1>w, <1>0, <2>1, SMTT(30) DEF IndexOK, IsAny
  <2>3. QED
    BY <2>1, <2>2
<1>n. pc[t] \in Points \ {"lockSelf", "return"} /\ pc'[t] \in Points \ {"lockSelf", "return"}
  BY <1>0, <1>e, <1>v DEF Points
<1>p. Inserted(t, w0, i0)
  <2>1. /\ pc[t] \in Points /\ pc'[t] \in Points /\ UNCHANGED <<array, front>>
        /\ \A r \in Threads \ {t} : pc'[r] = pc[r]
    BY <1>e, <1>n, <1>o
  <2>2. QED
    BY <1>0, <1>e, <1>l, <2>1, EnqueueFacts
<1>q. Append(queue[w0], <<t, i0>>) \in Seq(Blocks)
  BY <1>p DEF Inserted
<1>y. /\ count[t] \in {0, 1} /\ key[t] \in {"none", "acquired"}
      /\ (key[t] = "acquired" <=> got[t] # {})
      /\ count[t] = 1 => key[t] = "none" /\ got[t] = {} /\ linked[t] = 1..(i0 - 1)
      /\ count[t] = 0 /\ key[t] = "none" => BeingUnparked(t, "unparkAny")
      /\ i0 + 1 \in Nat /\ linked[t] \cup {i0} \subseteq Nat
  <2>1. IsAny(t) /\ At(t) = "prologueAny" /\ index[t] = i0
    BY <1>0, <1>h, <1>l DEF IsAny
  <2>2. linked[t] \cup {i0} \subseteq Nat
    BY <1>l
  <2>3. QED
    BY <1>w, <2>1, <2>2 DEF ParkerOK, Waiting
<1>z. (1..(i0 - 1)) \cup {i0} = 1..i0
  BY <1>0
<1>m. count[t] = 1 => linked'[t] = 1..Len(array'[t])
  <2>1. count[t] = 1 => i0 = Len(array[t])
    BY <1>0, <1>e
  <2>2. QED
    BY <1>e, <1>v, <1>y, <1>z, <2>1
<1>b. \A r \in Threads, how \in {"unparkAny", "unparkAll"} :
        BeingUnparked(r, how) => BeingUnparked(r, how)'
  BY <1>i, <1>e, <1>v, <1>o DEF BeingUnparked, AfterPrologues, Resumes, Points
<1>1. WaitsTypes'
  <2>1. queue' \in [Waitables -> Seq(Blocks)]
    BY <1>i, <1>e, <1>0, <1>y, <1>q DEF WaitsTypes, Blocks
  <2>2. linked' \in [Threads -> SUBSET Nat]
    BY <1>i, <1>e, <1>0, <1>y DEF WaitsTypes
  <2>3. visited' \in [Threads -> Nat]
    BY <1>i, <1>e, <1>0, <1>y DEF WaitsTypes
  <2>4. index' \in [Threads -> Nat]
    BY <1>i, <1>e, <1>0, <1>y DEF WaitsTypes
  <2>5. pc' \in [Threads -> Points \cup Releasing]
    BY <1>i, <1>e, <1>0, <1>y, SMTT(30) DEF WaitsTypes, Points, Resumes, Releasing, Handing
  <2>6. QED
    BY <1>i, <1>e, <2>1, <2>2, <2>3, <2>4, <2>5 DEF WaitsTypes, LookTypes
<1>2. CallOK(t)'
  BY <1>i, <1>e, <1>v, <1>o, <1>0, <1>h, <1>f, <1>w, <1>l, <1>n, <1>p, <1>q, <1>y, <1>z, <1>m
     DEF CallOK, IndexOK, ParkerOK, IsAny, AfterPrologues, Waiting
<1>3. IndexOK(t)'
  BY <1>i, <1>e, <1>v, <1>o, <1>0, <1>h, <1>f, <1>w, <1>l, <1>n, <1>p, <1>q, <1>y, <1>z, <1>m
     DEF IndexOK, CallOK, ParkerOK, IsAny, AfterPrologues, Waiting
<1>4. ParkerOK(t)'
  <2>1. /\ At(t)' \in {"signal", "park"} /\ count'[t] \in {0, 1}
        /\ key'[t] \in {"none", "acquired"} /\ (key'[t] = "acquired" <=> got'[t] # {})
        /\ count'[t] = 1 => key'[t] = "none" /\ linked'[t] = 1..Len(array'[t])
        /\ count'[t] = 0 /\ key'[t] = "none" => (BeingUnparked(t, "unparkAny")')
    BY <1>0, <1>e, <1>h, <1>y, <1>m, <1>b DEF IsAny
  <2>2. QED
    BY <2>1 DEF ParkerOK, IsAny, Waiting
<1>5. CountOK(t)'
  BY <1>e, <1>l, SMTT(30) DEF CountOK
<1>6. IsAny(t) /\ pc[t] \in Waiting => pc'[t] \in Waiting
  BY <1>0, <1>e, <1>v, <1>l DEF Waiting, IsAny
<1>7. QED
  BY <1>0, <1>e, <1>l, <1>n, <1>o, <1>1, <1>2, <1>3, <1>4, <1>5, <1>6, EnqueueStep

\* SignalAndWait signals.
LEMMA SigLookStep ==
  ASSUME WaitsInv, NEW t \in Threads,
         NEW w \in Waitables, pc[t] = "signal", Release(t, w, "park"),
         UNCHANGED <<queue, callVars, waitVars, front>>
  PROVE  WaitsInv'
<1>i. /\ WaitsTypes /\ ReleaserInv /\ CallInv /\ IndexInv /\ QueueInv /\ FrontInv
      /\ LinkedInv /\ ParkerInv /\ CountInv /\ PermitInv /\ TotalInv
      /\ NoThread \notin Threads /\ IsFiniteSet(Threads) /\ MaxCount \in Nat
  BY WaitsParts
<1>e. /\ pc[t] = "signal"
      /\ total' = [total EXCEPT ![w] = total[w] + 1]
      /\ Look(t, w, permits[w] + 1, "park")
      /\ UNCHANGED <<queue, op, array, index, visited, count, key, linked, got, front>>
  BY <1>i DEF Release, semaphores, callVars, waitVars, Step, Goto, SetIndex, Object, AtEnd
<1>k. /\ permits[w] + 1 \in Nat /\ "park" \in Resumes /\ pc[t] \in Points /\ w \in Waitables
  BY <1>i, <1>e DEF WaitsTypes, CallInv, CallOK, AfterPrologues, Points, Resumes
<1>x. /\ At(t) = pc[t] /\ At(t)' = "park" /\ pc'[t] \in {"park", "release"}
      /\ permits'[w] = permits[w] + 1 /\ \A r \in Waitables \ {w} : permits'[r] = permits[r]
      /\ \A r \in Threads \ {t} : pc'[r] = pc[r] /\ serving'[r] = serving[r]
      /\ LookTypes' /\ ReleaserInv' /\ PermitInv'
  BY <1>i, <1>e, <1>k, LookLemma
<1>v. /\ total'[w] = total[w] + 1
  BY <1>i, <1>e DEF WaitsTypes
<1>o. /\ \A r \in Waitables \ {w} : total'[r] = total[r]
  BY <1>i, <1>e DEF WaitsTypes
<1>h. /\ At(t) = pc[t] /\ At(t)' = "park"
      /\ \A r \in Threads \ {t} : At(r)' = At(r)
  BY <1>x DEF At
<1>f. \A r \in Threads \ {t} : SameLocal(r)
  BY <1>e, <1>o, <1>h DEF SameLocal
<1>w. CallOK(t) /\ IndexOK(t) /\ ParkerOK(t) /\ CountOK(t)
  BY <1>i DEF CallInv, IndexInv, ParkerInv, CountInv
<1>a. \A r \in Threads, j \in Nat, v \in Waitables : Valid(r, j, v) => Valid(r, j, v)'
  <2>1. \A j \in Nat, v \in Waitables : Valid(t, j, v) => Valid(t, j, v)'
    BY <1>i, <1>e, <1>x, <1>v, <1>o, <1>h, <1>f, <1>w
       DEF Valid, CallOK, IndexOK, ParkerOK, IsAny, AfterPrologues, Waiting
  <2>2. QED
    BY <1>f, <2>1, FrameLemma
<1>b. \A r \in Threads, how \in {"unparkAny", "unparkAll"} :
        BeingUnparked(r, how) => BeingUnparked(r, how)'
  BY <1>i, <1>e, <1>x, <1>v, <1>o DEF BeingUnparked, AfterPrologues, Resumes, Points
<1>c. \A r \in Threads : op[r] = "all" => Pending(r)' = Pending(r)
  BY <1>i, <1>e, <1>x, <1>v, <1>o DEF Pending, AfterPrologues, Resumes, Points
<1>1. WaitsTypes'
  <2>1. total' \in [Waitables -> Int]
    BY <1>i, <1>e DEF WaitsTypes
  <2>2. QED
    BY <1>i, <1>e, <1>x, <2>1 DEF WaitsTypes, LookTypes
<1>2. ReleaserInv'
  BY <1>x
<1>3. CallInv'
  <2>1. CallOK(t)'
    BY <1>i, <1>e, <1>x, <1>v, <1>o, <1>h, <1>f, <1>w
       DEF CallOK, IndexOK, ParkerOK, IsAny, AfterPrologues, Waiting
  <2>2. QED
    BY <1>i, <1>f, <2>1, FrameLemma DEF CallInv
<1>4. IndexInv'
  <2>1. IndexOK(t)'
    BY <1>i, <1>e, <1>x, <1>v, <1>o, <1>h, <1>f, <1>w
       DEF IndexOK, CallOK, ParkerOK, IsAny, AfterPrologues, Waiting
  <2>2. QED
    BY <1>i, <1>f, <2>1, FrameLemma DEF IndexInv
<1>5. QueueInv'
  BY <1>i, <1>e, <1>a DEF QueueInv
<1>6. FrontInv'
  <2>1. \A r \in Threads \ {t} : pc'[r] = pc[r] /\ serving'[r] = serving[r]
    BY <1>e, <1>x, <1>v, <1>o
  <2>2. ASSUME NEW r \in Threads \ {t}, NEW q \in Threads, NEW j \in Nat,
               front[r] = <<q, j>>, FrontOK(r, q, j)
        PROVE  KeepsFront(r, q, j)
    <3>0. serving[r][1] \in Waitables
      BY <1>i, <2>2, HoldsFront
    <3>1. Valid(q, j, serving[r][1])'
      BY <1>a, <2>1, <2>2, <3>0 DEF FrontOK
    <3>2. ~In(<<q, j>>, queue'[serving[r][1]])
      BY <1>e, <2>2, <3>0 DEF FrontOK
    <3>3. (IsAny(q) => IsAny(q)') /\ (op[q] = "all" => op'[q] = "all")
      BY <1>i, <1>e, <1>x, <1>v, <1>o, <2>2, <1>w, <1>h DEF IsAny, FrontOK, Valid, IndexOK
    <3>4. pc[r] = "unparkAny" => count'[q] = 0 /\ key'[q] = "none" /\ At(q)' \in Waiting
      BY <1>i, <1>e, <1>x, <1>v, <1>o, <1>h, <1>f, <1>w, <2>2
         DEF FrontOK, Waiting, AfterPrologues, CallOK, ParkerOK, Valid
    <3>5. QED
      BY <3>1, <3>2, <3>3, <3>4 DEF KeepsFront
  <2>3. pc[t] \notin Handing /\ pc'[t] # "unparkAny"
    BY <1>e, <1>x, <1>v, <1>o DEF Handing, Resumes
  <2>4. QED
    BY <1>i, <1>e, <2>1, <2>2, <2>3, FrontKept
<1>7. LinkedInv'
  <2>1. ASSUME NEW r \in Threads, NEW j \in Nat, j \in linked'[r]
        PROVE  /\ j \in linked[r] /\ array'[r] = array[r] /\ (IsAny(r) => IsAny(r)')
               /\ IsAny(r) /\ (j \in got[r] \/ At(r) = "return") =>
                    j \in got'[r] \/ At(r)' = "return"
    BY <1>i, <1>e, <1>x, <1>v, <1>o, <1>h, <1>f, <1>w, <2>1 DEF SameLocal, IsAny, IndexOK, CallOK
  <2>2. QED
    BY <1>i, <1>e, <2>1, LinkedKept
<1>8. ParkerInv'
  <2>1. ParkerOK(t)'
    BY <1>i, <1>e, <1>x, <1>v, <1>o, <1>h, <1>f, <1>w, <1>b
       DEF ParkerOK, CallOK, IndexOK, IsAny, Waiting, AfterPrologues
  <2>2. QED
    BY <1>i, <1>f, <1>b, <2>1, FrameLemma DEF ParkerInv
<1>9. CountInv'
  <2>1. CountOK(t)'
    BY <1>i, <1>e, <1>x, <1>v, <1>o, <1>h, <1>f, <1>w, <1>b, <1>c
       DEF CountOK, CallOK, IndexOK, ParkerOK, IsAny, AfterPrologues
  <2>2. QED
    BY <1>i, <1>f, <1>b, <1>c, <2>1, FrameLemma DEF CountInv
<1>10. PermitInv'
  BY <1>x
<1>11. TotalInv'
  <2>1. /\ \A v \in Waitables : Used(v)' = Used(v)
        /\ IsFiniteSet(Used(w)') /\ Cardinality(Used(w)) \in Nat
        /\ Cardinality(Used(w)') = Cardinality(Used(w))
    BY <1>i, <1>e, <1>k, UsedKept
  <2>2. /\ \A v \in Waitables : InHands(v)' = InHands(v)
        /\ Cardinality(InHands(w)) \in Nat
        /\ Cardinality(InHands(w)') = Cardinality(InHands(w))
    <3>1. \A v \in Waitables : \A r \in Threads : InHand(r, v)' <=> InHand(r, v)
      BY <1>i, <1>e, <1>x, <1>v, <1>o DEF InHand, Resumes, AfterPrologues, Points
    <3>2. QED
      BY <1>i, <1>k, <3>1, HandsKept
  <2>3. /\ permits'[w] = permits[w] + 1 /\ permits[w] \in Nat
        /\ total'[w] = total[w] + 1 /\ total[w] \in Int
        /\ \A v \in Waitables \ {w} : permits'[v] = permits[v] /\ total'[v] = total[v]
    BY <1>i, <1>e, <1>x, <1>v, <1>o, <1>k DEF WaitsTypes
  <2>4. ASSUME TotalOK(w)
        PROVE  total'[w] = permits'[w] + Cardinality(Used(w)') + Cardinality(InHands(w)')
    <3>1. total[w] = permits[w] + Cardinality(Used(w)) + Cardinality(InHands(w))
      BY <2>4 DEF TotalOK
    <3>2. QED
      BY <2>1, <2>2, <2>3, <3>1
  <2>5. QED
    BY <1>i, <2>1, <2>2, <2>3, <2>4, <1>k, TotalLemma
<1>12. QED
  BY <1>1, <1>2, <1>3, <1>4, <1>5, <1>6, <1>7, <1>8, <1>9, <1>10, <1>11 DEF WaitsInv

\* SignalAndWait finds the semaphore full, and its parker was locked already.
LEMMA SigFullStep ==
  ASSUME WaitsInv, NEW t \in Threads,
         pc[t] = "signal", count[t] = 0, Goto(t, "parkUndo"), UNCHANGED <<count, key>>,
         UNCHANGED <<semaphores, callVars, linked, serving, front, total>>
  PROVE  WaitsInv'
<1>i. /\ WaitsTypes /\ ReleaserInv /\ CallInv /\ IndexInv /\ QueueInv /\ FrontInv
      /\ LinkedInv /\ ParkerInv /\ CountInv /\ PermitInv /\ TotalInv
      /\ NoThread \notin Threads /\ IsFiniteSet(Threads) /\ MaxCount \in Nat
  BY WaitsParts
<1>e. /\ pc[t] = "signal" /\ count[t] = 0
      /\ pc' = [pc EXCEPT ![t] = "parkUndo"]
      /\ UNCHANGED <<permits, queue, holder, op, array, index, visited, count, key, linked, got,
                     serving, front, total>>
  BY <1>i DEF semaphores, callVars, waitVars, Step, Goto, SetIndex, Object, AtEnd
<1>v. /\ pc'[t] = "parkUndo"
  BY <1>i, <1>e DEF WaitsTypes
<1>o. /\ \A r \in Threads \ {t} : pc'[r] = pc[r]
  BY <1>i, <1>e DEF WaitsTypes
<1>h. /\ At(t) = "signal" /\ At(t)' = "parkUndo"
      /\ \A r \in Threads \ {t} : At(r)' = At(r)
  <2>1. pc[t] \notin Releasing /\ UNCHANGED serving /\ \A r \in Threads \ {t} : pc'[r] = pc[r]
    BY <1>e, <1>o DEF Releasing, Handing
  <2>2. QED
    BY <1>i, <1>e, <1>v, <2>1, AtLemma
<1>f. \A r \in Threads \ {t} : SameLocal(r)
  BY <1>e, <1>o, <1>h DEF SameLocal
<1>w. CallOK(t) /\ IndexOK(t) /\ ParkerOK(t) /\ CountOK(t)
  BY <1>i DEF CallInv, IndexInv, ParkerInv, CountInv
<1>b. \A r \in Threads, how \in {"unparkAny", "unparkAll"} :
        BeingUnparked(r, how) => BeingUnparked(r, how)'
  BY <1>i, <1>e, <1>v, <1>o DEF BeingUnparked, AfterPrologues, Resumes, Points
<1>c. \A r \in Threads : op[r] = "all" => Pending(r)' = Pending(r)
  BY <1>i, <1>e, <1>v, <1>o DEF Pending, AfterPrologues, Resumes, Points
<1>1. WaitsTypes'
  <2>1. pc' \in [Threads -> Points \cup Releasing]
    BY <1>i, <1>e DEF WaitsTypes, Points, Resumes, Releasing, Handing
  <2>2. QED
    BY <1>i, <1>e, <2>1 DEF WaitsTypes, LookTypes
<1>2. CallOK(t)'
  BY <1>i, <1>e, <1>v, <1>o, <1>h, <1>f, <1>w
     DEF CallOK, IndexOK, ParkerOK, IsAny, AfterPrologues, Waiting
<1>3. IndexOK(t)'
  BY <1>i, <1>e, <1>v, <1>o, <1>h, <1>f, <1>w
     DEF IndexOK, CallOK, ParkerOK, IsAny, AfterPrologues, Waiting
<1>4. ParkerOK(t)'
  BY <1>i, <1>e, <1>v, <1>o, <1>h, <1>f, <1>w, <1>b
     DEF ParkerOK, CallOK, IndexOK, IsAny, Waiting, AfterPrologues
<1>5. CountOK(t)'
  BY <1>i, <1>e, <1>v, <1>o, <1>h, <1>f, <1>w, <1>b, <1>c
     DEF CountOK, CallOK, IndexOK, ParkerOK, IsAny, AfterPrologues
<1>6. /\ pc[t] \in Points \ {"lockSelf", "return"} /\ pc'[t] \in Points \ {"lockSelf"}
      /\ pc'[t] = "return" => linked[t] = {}
      /\ IsAny(t) /\ count[t] = 0 /\ key[t] = "none" /\ pc[t] \in Waiting =>
           count'[t] = 0 /\ key'[t] = "none" /\ pc'[t] \in Waiting
  BY <1>e, <1>v, <1>h, <1>w DEF Points, Waiting, IsAny, CallOK, IndexOK, ParkerOK
<1>7. QED
  BY <1>e, <1>o, <1>1, <1>2, <1>3, <1>4, <1>5, <1>6, OwnStep

\* SignalAndWait finds the semaphore full, and locks its own parker.
LEMMA SigCancelsStep ==
  ASSUME WaitsInv, NEW t \in Threads,
         pc[t] = "signal", count[t] # 0, count' = [count EXCEPT ![t] = 0],
         Goto(t, "cancel"), key' = [key EXCEPT ![t] = "failed"],
         UNCHANGED <<semaphores, callVars, linked, serving, front, total>>
  PROVE  WaitsInv'
<1>i. /\ WaitsTypes /\ ReleaserInv /\ CallInv /\ IndexInv /\ QueueInv /\ FrontInv
      /\ LinkedInv /\ ParkerInv /\ CountInv /\ PermitInv /\ TotalInv
      /\ NoThread \notin Threads /\ IsFiniteSet(Threads) /\ MaxCount \in Nat
  BY WaitsParts
<1>e. /\ pc[t] = "signal" /\ count[t] # 0
      /\ pc' = [pc EXCEPT ![t] = "cancel"]
      /\ count' = [count EXCEPT ![t] = 0]
      /\ key' = [key EXCEPT ![t] = "failed"]
      /\ UNCHANGED <<permits, queue, holder, op, array, index, visited, linked, got, serving,
                     front, total>>
  BY <1>i DEF semaphores, callVars, waitVars, Step, Goto, SetIndex, Object, AtEnd
<1>v. /\ pc'[t] = "cancel"
      /\ count'[t] = 0
      /\ key'[t] = "failed"
  BY <1>i, <1>e DEF WaitsTypes
<1>o. /\ \A r \in Threads \ {t} : pc'[r] = pc[r]
      /\ \A r \in Threads \ {t} : count'[r] = count[r]
      /\ \A r \in Threads \ {t} : key'[r] = key[r]
  BY <1>i, <1>e DEF WaitsTypes
<1>h. /\ At(t) = "signal" /\ At(t)' = "cancel"
      /\ \A r \in Threads \ {t} : At(r)' = At(r)
  <2>1. pc[t] \notin Releasing /\ UNCHANGED serving /\ \A r \in Threads \ {t} : pc'[r] = pc[r]
    BY <1>e, <1>o DEF Releasing, Handing
  <2>2. QED
    BY <1>i, <1>e, <1>v, <2>1, AtLemma
<1>f. \A r \in Threads \ {t} : SameLocal(r)
  BY <1>e, <1>o, <1>h DEF SameLocal
<1>w. CallOK(t) /\ IndexOK(t) /\ ParkerOK(t) /\ CountOK(t)
  BY <1>i DEF CallInv, IndexInv, ParkerInv, CountInv
<1>b. \A r \in Threads, how \in {"unparkAny", "unparkAll"} :
        BeingUnparked(r, how) => BeingUnparked(r, how)'
  BY <1>i, <1>e, <1>v, <1>o DEF BeingUnparked, AfterPrologues, Resumes, Points
<1>c. \A r \in Threads : op[r] = "all" => Pending(r)' = Pending(r)
  BY <1>i, <1>e, <1>v, <1>o DEF Pending, AfterPrologues, Resumes, Points
<1>1. WaitsTypes'
  <2>1. pc' \in [Threads -> Points \cup Releasing]
    BY <1>i, <1>e DEF WaitsTypes, Points, Resumes, Releasing, Handing
  <2>2. count' \in [Threads -> Nat]
    BY <1>i, <1>e DEF WaitsTypes
  <2>3. key' \in [Threads -> Keys]
    BY <1>i, <1>e DEF WaitsTypes, Keys
  <2>4. QED
    BY <1>i, <1>e, <2>1, <2>2, <2>3 DEF WaitsTypes, LookTypes
<1>2. CallOK(t)'
  BY <1>i, <1>e, <1>v, <1>o, <1>h, <1>f, <1>w
     DEF CallOK, IndexOK, ParkerOK, IsAny, AfterPrologues, Waiting
<1>3. IndexOK(t)'
  BY <1>i, <1>e, <1>v, <1>o, <1>h, <1>f, <1>w
     DEF IndexOK, CallOK, ParkerOK, IsAny, AfterPrologues, Waiting
<1>4. ParkerOK(t)'
  BY <1>i, <1>e, <1>v, <1>o, <1>h, <1>f, <1>w, <1>b
     DEF ParkerOK, CallOK, IndexOK, IsAny, Waiting, AfterPrologues
<1>5. CountOK(t)'
  BY <1>i, <1>e, <1>v, <1>o, <1>h, <1>f, <1>w, <1>b, <1>c
     DEF CountOK, CallOK, IndexOK, ParkerOK, IsAny, AfterPrologues
<1>6. /\ pc[t] \in Points \ {"lockSelf", "return"} /\ pc'[t] \in Points \ {"lockSelf"}
      /\ pc'[t] = "return" => linked[t] = {}
      /\ IsAny(t) /\ count[t] = 0 /\ key[t] = "none" /\ pc[t] \in Waiting =>
           count'[t] = 0 /\ key'[t] = "none" /\ pc'[t] \in Waiting
  BY <1>e, <1>v, <1>h, <1>w DEF Points, Waiting, IsAny, CallOK, IndexOK, ParkerOK
<1>7. QED
  BY <1>e, <1>o, <1>1, <1>2, <1>3, <1>4, <1>5, <1>6, OwnStep

\* What a failed SignalAndWait acquired meanwhile is given back.
LEMMA SigFailedStep ==
  ASSUME WaitsInv, NEW t \in Threads,
         SignalFailed(t)
  PROVE  WaitsInv'
<1>i. /\ WaitsTypes /\ ReleaserInv /\ CallInv /\ IndexInv /\ QueueInv /\ FrontInv
      /\ LinkedInv /\ ParkerInv /\ CountInv /\ PermitInv /\ TotalInv
      /\ NoThread \notin Threads /\ IsFiniteSet(Threads) /\ MaxCount \in Nat
  BY WaitsParts
<1>0. PICK w0 \in Waitables : /\ w0 = array[t][1] /\ Len(array[t]) = 1
                              /\ At(t) = "parkUndo" /\ op[t] = "signalAndWait"
  <2>1. CallOK(t) /\ op[t] \in Ops /\ array[t] \in Seq(Waitables)
    BY <1>i DEF CallInv, WaitsTypes
  <2>2. At(t) = "parkUndo"
    BY <1>i DEF At, ReleaserInv, Releasing, Handing, SignalFailed
  <2>3. op[t] = "signalAndWait" /\ Len(array[t]) = 1
    BY <2>1, <2>2 DEF CallOK, Ops
  <2>4. QED
    BY <2>1, <2>2, <2>3
<1>e. /\ pc[t] = "parkUndo" /\ key[t] # "none" /\ w0 = array[t][1]
      /\ got' = [got EXCEPT ![t] = {}]
      /\ Look(t, w0, permits[w0] + 1, "return")
      /\ UNCHANGED <<queue, op, array, index, visited, count, key, linked, front, total>>
  BY <1>i, <1>0
     DEF SignalFailed, semaphores, callVars, waitVars, Step, Goto, SetIndex, Object, AtEnd
<1>k. /\ permits[w0] + 1 \in Nat /\ "return" \in Resumes /\ pc[t] \in Points /\ w0 \in Waitables
  BY <1>i, <1>e, <1>0 DEF WaitsTypes, CallInv, CallOK, AfterPrologues, Points, Resumes
<1>x. /\ At(t) = pc[t] /\ At(t)' = "return" /\ pc'[t] \in {"return", "release"}
      /\ permits'[w0] = permits[w0] + 1 /\ \A r \in Waitables \ {w0} : permits'[r] = permits[r]
      /\ \A r \in Threads \ {t} : pc'[r] = pc[r] /\ serving'[r] = serving[r]
      /\ LookTypes' /\ ReleaserInv' /\ PermitInv'
  BY <1>i, <1>e, <1>k, LookLemma
<1>v. /\ got'[t] = {}
  BY <1>i, <1>e, <1>0 DEF WaitsTypes
<1>o. /\ \A r \in Threads \ {t} : got'[r] = got[r]
  BY <1>i, <1>e DEF WaitsTypes
<1>h. /\ At(t) = pc[t] /\ At(t)' = "return"
      /\ \A r \in Threads \ {t} : At(r)' = At(r)
  BY <1>x DEF At
<1>f. \A r \in Threads \ {t} : SameLocal(r)
  BY <1>e, <1>o, <1>h DEF SameLocal
<1>w. CallOK(t) /\ IndexOK(t) /\ ParkerOK(t) /\ CountOK(t)
  BY <1>i, <1>0 DEF CallInv, IndexInv, ParkerInv, CountInv
<1>l. got[t] = {1} /\ 1 \in Nat /\ linked[t] \subseteq {1}
  BY <1>i, <1>e, <1>0, <1>w DEF ParkerOK, IndexOK, Waiting, IsAny
<1>a. \A r \in Threads, j \in Nat, v \in Waitables : Valid(r, j, v) => Valid(r, j, v)'
  <2>1. \A j \in Nat, v \in Waitables : Valid(t, j, v) => Valid(t, j, v)'
    BY <1>i, <1>e, <1>x, <1>v, <1>o, <1>0, <1>h, <1>f, <1>w, <1>l
       DEF Valid, CallOK, IndexOK, ParkerOK, IsAny, AfterPrologues, Waiting
  <2>2. QED
    BY <1>f, <2>1, FrameLemma
<1>b. \A r \in Threads, how \in {"unparkAny", "unparkAll"} :
        BeingUnparked(r, how) => BeingUnparked(r, how)'
  BY <1>i, <1>e, <1>x, <1>v, <1>o DEF BeingUnparked, AfterPrologues, Resumes, Points
<1>c. \A r \in Threads : op[r] = "all" => Pending(r)' = Pending(r)
  BY <1>i, <1>e, <1>x, <1>v, <1>o DEF Pending, AfterPrologues, Resumes, Points
<1>1. WaitsTypes'
  <2>1. got' \in [Threads -> SUBSET Nat]
    BY <1>i, <1>e, <1>0 DEF WaitsTypes
  <2>2. QED
    BY <1>i, <1>e, <1>x, <2>1 DEF WaitsTypes, LookTypes
<1>2. ReleaserInv'
  BY <1>x
<1>3. CallInv'
  <2>1. CallOK(t)'
    BY <1>i, <1>e, <1>x, <1>v, <1>o, <1>0, <1>h, <1>f, <1>w, <1>l
       DEF CallOK, IndexOK, ParkerOK, IsAny, AfterPrologues, Waiting
  <2>2. QED
    BY <1>i, <1>f, <2>1, FrameLemma DEF CallInv
<1>4. IndexInv'
  <2>1. IndexOK(t)'
    BY <1>i, <1>e, <1>x, <1>v, <1>o, <1>0, <1>h, <1>f, <1>w, <1>l
       DEF IndexOK, CallOK, ParkerOK, IsAny, AfterPrologues, Waiting
  <2>2. QED
    BY <1>i, <1>f, <2>1, FrameLemma DEF IndexInv
<1>5. QueueInv'
  BY <1>i, <1>e, <1>a DEF QueueInv
<1>6. FrontInv'
  <2>1. \A r \in Threads \ {t} : pc'[r] = pc[r] /\ serving'[r] = serving[r]
    BY <1>e, <1>x, <1>v, <1>o
  <2>2. ASSUME NEW r \in Threads \ {t}, NEW q \in Threads, NEW j \in Nat,
               front[r] = <<q, j>>, FrontOK(r, q, j)
        PROVE  KeepsFront(r, q, j)
    <3>0. serving[r][1] \in Waitables
      BY <1>i, <2>2, HoldsFront
    <3>1. Valid(q, j, serving[r][1])'
      BY <1>a, <2>1, <2>2, <3>0 DEF FrontOK
    <3>2. ~In(<<q, j>>, queue'[serving[r][1]])
      BY <1>e, <2>2, <3>0 DEF FrontOK
    <3>3. (IsAny(q) => IsAny(q)') /\ (op[q] = "all" => op'[q] = "all")
      BY <1>i, <1>e, <1>x, <1>v, <1>o, <2>2, <1>w, <1>l, <1>h DEF IsAny, FrontOK, Valid, IndexOK
    <3>4. pc[r] = "unparkAny" => count'[q] = 0 /\ key'[q] = "none" /\ At(q)' \in Waiting
      BY <1>i, <1>e, <1>x, <1>v, <1>o, <1>0, <1>h, <1>f, <1>w, <1>l, <2>2
         DEF FrontOK, Waiting, AfterPrologues, CallOK, ParkerOK, Valid
    <3>5. QED
      BY <3>1, <3>2, <3>3, <3>4 DEF KeepsFront
  <2>3. pc[t] \notin Handing /\ pc'[t] # "unparkAny"
    BY <1>e, <1>x, <1>v, <1>o, <1>0 DEF Handing, Resumes
  <2>4. QED
    BY <1>i, <1>e, <2>1, <2>2, <2>3, FrontKept
<1>7. LinkedInv'
  <2>1. ASSUME NEW r \in Threads, NEW j \in Nat, j \in linked'[r]
        PROVE  /\ j \in linked[r] /\ array'[r] = array[r] /\ (IsAny(r) => IsAny(r)')
               /\ IsAny(r) /\ (j \in got[r] \/ At(r) = "return") =>
                    j \in got'[r] \/ At(r)' = "return"
    BY <1>i, <1>e, <1>x, <1>v, <1>o, <1>0, <1>h, <1>f, <1>w, <1>l, <2>1
       DEF SameLocal, IsAny, IndexOK, CallOK
  <2>2. QED
    BY <1>i, <1>e, <2>1, LinkedKept
<1>8. ParkerInv'
  <2>1. ParkerOK(t)'
    BY <1>i, <1>e, <1>x, <1>v, <1>o, <1>0, <1>h, <1>f, <1>w, <1>l, <1>b
       DEF ParkerOK, CallOK, IndexOK, IsAny, Waiting, AfterPrologues
  <2>2. QED
    BY <1>i, <1>f, <1>b, <2>1, FrameLemma DEF ParkerInv
<1>9. CountInv'
  <2>1. CountOK(t)'
    BY <1>i, <1>e, <1>x, <1>v, <1>o, <1>0, <1>h, <1>f, <1>w, <1>l, <1>b, <1>c
       DEF CountOK, CallOK, IndexOK, ParkerOK, IsAny, AfterPrologues
  <2>2. QED
    BY <1>i, <1>f, <1>b, <1>c, <2>1, FrameLemma DEF CountInv
<1>10. PermitInv'
  BY <1>x
<1>11. TotalInv'
  <2>1. /\ \A v \in Waitables \ {w0} : Used(v)' = Used(v)
        /\ IsFiniteSet(Used(w0)') /\ Cardinality(Used(w0)) \in Nat
        /\ Cardinality(Used(w0)') = Cardinality(Used(w0)) - 1
    <3>1. /\ t \in Threads /\ 1 \in Nat /\ w0 \in Waitables
          /\ 1 \in got[t] /\ array[t][1] = w0
          /\ got'[t] = got[t] \ {1}
      BY <1>i, <1>e, <1>x, <1>v, <1>o, <1>0, <1>h, <1>f, <1>w, <1>l DEF Valid, WaitsTypes
    <3>2. UNCHANGED array /\ \A r \in Threads \ {t} : got'[r] = got[r]
      BY <1>e, <1>o
    <3>3. QED
      BY <1>i, <3>1, <3>2, UsedRemoves
  <2>2. /\ \A v \in Waitables : InHands(v)' = InHands(v)
        /\ Cardinality(InHands(w0)) \in Nat
        /\ Cardinality(InHands(w0)') = Cardinality(InHands(w0))
    <3>1. \A v \in Waitables : \A r \in Threads : InHand(r, v)' <=> InHand(r, v)
      BY <1>i, <1>e, <1>x, <1>v, <1>o, <1>0 DEF InHand, Resumes, AfterPrologues, Points
    <3>2. QED
      BY <1>i, <1>0, <1>k, <3>1, HandsKept
  <2>3. /\ permits'[w0] = permits[w0] + 1 /\ permits[w0] \in Nat
        /\ total'[w0] = total[w0] /\ total[w0] \in Int
        /\ \A v \in Waitables \ {w0} : permits'[v] = permits[v] /\ total'[v] = total[v]
    BY <1>i, <1>e, <1>x, <1>v, <1>o, <1>0, <1>k DEF WaitsTypes
  <2>4. ASSUME TotalOK(w0)
        PROVE  total'[w0] = permits'[w0] + Cardinality(Used(w0)') + Cardinality(InHands(w0)')
    <3>1. total[w0] = permits[w0] + Cardinality(Used(w0)) + Cardinality(InHands(w0))
      BY <2>4 DEF TotalOK
    <3>2. QED
      BY <2>1, <2>2, <2>3, <3>1
  <2>5. QED
    BY <1>i, <2>1, <2>2, <2>3, <2>4, <1>0, <1>k, TotalLemma
<1>12. QED
  BY <1>1, <1>2, <1>3, <1>4, <1>5, <1>6, <1>7, <1>8, <1>9, <1>10, <1>11 DEF WaitsInv

\* ParkThreadEx of a wait-any, or a SignalAndWait, returns with a key.
LEMMA ParkKeyStep ==
  ASSUME WaitsInv, NEW t \in Threads,
         ParkThreadEx(t), key[t] # "none", UNCHANGED <<count, key>>,
         key[t] # "changed"
  PROVE  WaitsInv'
<1>i. /\ WaitsTypes /\ ReleaserInv /\ CallInv /\ IndexInv /\ QueueInv /\ FrontInv
      /\ LinkedInv /\ ParkerInv /\ CountInv /\ PermitInv /\ TotalInv
      /\ NoThread \notin Threads /\ IsFiniteSet(Threads) /\ MaxCount \in Nat
  BY WaitsParts
<1>e. /\ pc[t] = "park" /\ key[t] # "none" /\ key[t] # "changed"
      /\ pc' = [pc EXCEPT ![t] = "cancel"]
      /\ UNCHANGED <<permits, queue, holder, op, array, index, visited, count, key, linked, got,
                     serving, front, total>>
  BY <1>i DEF ParkThreadEx, semaphores, callVars, waitVars, Step, Goto, SetIndex, Object, AtEnd
<1>v. /\ pc'[t] = "cancel"
  BY <1>i, <1>e DEF WaitsTypes
<1>o. /\ \A r \in Threads \ {t} : pc'[r] = pc[r]
  BY <1>i, <1>e DEF WaitsTypes
<1>h. /\ At(t) = "park" /\ At(t)' = "cancel"
      /\ \A r \in Threads \ {t} : At(r)' = At(r)
  <2>1. pc[t] \notin Releasing /\ UNCHANGED serving /\ \A r \in Threads \ {t} : pc'[r] = pc[r]
    BY <1>e, <1>o DEF Releasing, Handing
  <2>2. QED
    BY <1>i, <1>e, <1>v, <2>1, AtLemma
<1>f. \A r \in Threads \ {t} : SameLocal(r)
  BY <1>e, <1>o, <1>h DEF SameLocal
<1>w. CallOK(t) /\ IndexOK(t) /\ ParkerOK(t) /\ CountOK(t)
  BY <1>i DEF CallInv, IndexInv, ParkerInv, CountInv
<1>b. \A r \in Threads, how \in {"unparkAny", "unparkAll"} :
        BeingUnparked(r, how) => BeingUnparked(r, how)'
  BY <1>i, <1>e, <1>v, <1>o DEF BeingUnparked, AfterPrologues, Resumes, Points
<1>c. \A r \in Threads : op[r] = "all" => Pending(r)' = Pending(r)
  BY <1>i, <1>e, <1>v, <1>o DEF Pending, AfterPrologues, Resumes, Points
<1>1. WaitsTypes'
  <2>1. pc' \in [Threads -> Points \cup Releasing]
    BY <1>i, <1>e DEF WaitsTypes, Points, Resumes, Releasing, Handing
  <2>2. QED
    BY <1>i, <1>e, <2>1 DEF WaitsTypes, LookTypes
<1>2. CallOK(t)'
  BY <1>i, <1>e, <1>v, <1>o, <1>h, <1>f, <1>w
     DEF CallOK, IndexOK, ParkerOK, IsAny, AfterPrologues, Waiting
<1>3. IndexOK(t)'
  BY <1>i, <1>e, <1>v, <1>o, <1>h, <1>f, <1>w
     DEF IndexOK, CallOK, ParkerOK, IsAny, AfterPrologues, Waiting
<1>4. ParkerOK(t)'
  BY <1>i, <1>e, <1>v, <1>o, <1>h, <1>f, <1>w, <1>b
     DEF ParkerOK, CallOK, IndexOK, IsAny, Waiting, AfterPrologues
<1>5. CountOK(t)'
  BY <1>i, <1>e, <1>v, <1>o, <1>h, <1>f, <1>w, <1>b, <1>c
     DEF CountOK, CallOK, IndexOK, ParkerOK, IsAny, AfterPrologues
<1>6. /\ pc[t] \in Points \ {"lockSelf", "return"} /\ pc'[t] \in Points \ {"lockSelf"}
      /\ pc'[t] = "return" => linked[t] = {}
      /\ IsAny(t) /\ count[t] = 0 /\ key[t] = "none" /\ pc[t] \in Waiting =>
           count'[t] = 0 /\ key'[t] = "none" /\ pc'[t] \in Waiting
  BY <1>e, <1>v, <1>h, <1>w DEF Points, Waiting, IsAny, CallOK, IndexOK, ParkerOK
<1>7. QED
  BY <1>e, <1>o, <1>1, <1>2, <1>3, <1>4, <1>5, <1>6, OwnStep

\* ParkThreadEx of a wait-all returns: the objects may allow the acquire now.
LEMMA ParkChangedStep ==
  ASSUME WaitsInv, NEW t \in Threads,
         ParkThreadEx(t), key[t] # "none", UNCHANGED <<count, key>>,
         key[t] = "changed"
  PROVE  WaitsInv'
<1>i. /\ WaitsTypes /\ ReleaserInv /\ CallInv /\ IndexInv /\ QueueInv /\ FrontInv
      /\ LinkedInv /\ ParkerInv /\ CountInv /\ PermitInv /\ TotalInv
      /\ NoThread \notin Threads /\ IsFiniteSet(Threads) /\ MaxCount \in Nat
  BY WaitsParts
<1>e. /\ pc[t] = "park" /\ key[t] = "changed"
      /\ pc' = [pc EXCEPT ![t] = "spinUnlinked"]
      /\ UNCHANGED <<permits, queue, holder, op, array, index, visited, count, key, linked, got,
                     serving, front, total>>
  BY <1>i DEF ParkThreadEx, semaphores, callVars, waitVars, Step, Goto, SetIndex, Object, AtEnd
<1>v. /\ pc'[t] = "spinUnlinked"
  BY <1>i, <1>e DEF WaitsTypes
<1>o. /\ \A r \in Threads \ {t} : pc'[r] = pc[r]
  BY <1>i, <1>e DEF WaitsTypes
<1>h. /\ At(t) = "park" /\ At(t)' = "spinUnlinked"
      /\ \A r \in Threads \ {t} : At(r)' = At(r)
  <2>1. pc[t] \notin Releasing /\ UNCHANGED serving /\ \A r \in Threads \ {t} : pc'[r] = pc[r]
    BY <1>e, <1>o DEF Releasing, Handing
  <2>2. QED
    BY <1>i, <1>e, <1>v, <2>1, AtLemma
<1>f. \A r \in Threads \ {t} : SameLocal(r)
  BY <1>e, <1>o, <1>h DEF SameLocal
<1>w. CallOK(t) /\ IndexOK(t) /\ ParkerOK(t) /\ CountOK(t)
  BY <1>i DEF CallInv, IndexInv, ParkerInv, CountInv
<1>b. \A r \in Threads, how \in {"unparkAny", "unparkAll"} :
        BeingUnparked(r, how) => BeingUnparked(r, how)'
  BY <1>i, <1>e, <1>v, <1>o DEF BeingUnparked, AfterPrologues, Resumes, Points
<1>c. \A r \in Threads : op[r] = "all" => Pending(r)' = Pending(r)
  BY <1>i, <1>e, <1>v, <1>o DEF Pending, AfterPrologues, Resumes, Points
<1>1. WaitsTypes'
  <2>1. pc' \in [Threads -> Points \cup Releasing]
    BY <1>i, <1>e DEF WaitsTypes, Points, Resumes, Releasing, Handing
  <2>2. QED
    BY <1>i, <1>e, <2>1 DEF WaitsTypes, LookTypes
<1>2. CallOK(t)'
  BY <1>i, <1>e, <1>v, <1>o, <1>h, <1>f, <1>w
     DEF CallOK, IndexOK, ParkerOK, IsAny, AfterPrologues, Waiting
<1>3. IndexOK(t)'
  BY <1>i, <1>e, <1>v, <1>o, <1>h, <1>f, <1>w
     DEF IndexOK, CallOK, ParkerOK, IsAny, AfterPrologues, Waiting
<1>4. ParkerOK(t)'
  BY <1>i, <1>e, <1>v, <1>o, <1>h, <1>f, <1>w, <1>b
     DEF ParkerOK, CallOK, IndexOK, IsAny, Waiting, AfterPrologues
<1>5. CountOK(t)'
  BY <1>i, <1>e, <1>v, <1>o, <1>h, <1>f, <1>w, <1>b, <1>c
     DEF CountOK, CallOK, IndexOK, ParkerOK, IsAny, AfterPrologues
<1>6. /\ pc[t] \in Points \ {"lockSelf", "return"} /\ pc'[t] \in Points \ {"lockSelf"}
      /\ pc'[t] = "return" => linked[t] = {}
      /\ IsAny(t) /\ count[t] = 0 /\ key[t] = "none" /\ pc[t] \in Waiting =>
           count'[t] = 0 /\ key'[t] = "none" /\ pc'[t] \in Waiting
  BY <1>e, <1>v, <1>h, <1>w DEF Points, Waiting, IsAny, CallOK, IndexOK, ParkerOK
<1>7. QED
  BY <1>e, <1>o, <1>1, <1>2, <1>3, <1>4, <1>5, <1>6, OwnStep

\* ParkThreadEx returns after a timeout or an alert.
LEMMA ParkTimeoutStep ==
  ASSUME WaitsInv, NEW t \in Threads,
         pc[t] = "park", count[t] > 0, count' = [count EXCEPT ![t] = 0],
         key' = [key EXCEPT ![t] = "timeout"], Goto(t, "cancel"),
         UNCHANGED <<semaphores, callVars, linked, serving, front, total>>
  PROVE  WaitsInv'
<1>i. /\ WaitsTypes /\ ReleaserInv /\ CallInv /\ IndexInv /\ QueueInv /\ FrontInv
      /\ LinkedInv /\ ParkerInv /\ CountInv /\ PermitInv /\ TotalInv
      /\ NoThread \notin Threads /\ IsFiniteSet(Threads) /\ MaxCount \in Nat
  BY WaitsParts
<1>e. /\ pc[t] = "park" /\ count[t] > 0
      /\ pc' = [pc EXCEPT ![t] = "cancel"]
      /\ count' = [count EXCEPT ![t] = 0]
      /\ key' = [key EXCEPT ![t] = "timeout"]
      /\ UNCHANGED <<permits, queue, holder, op, array, index, visited, linked, got, serving,
                     front, total>>
  BY <1>i DEF semaphores, callVars, waitVars, Step, Goto, SetIndex, Object, AtEnd
<1>v. /\ pc'[t] = "cancel"
      /\ count'[t] = 0
      /\ key'[t] = "timeout"
  BY <1>i, <1>e DEF WaitsTypes
<1>o. /\ \A r \in Threads \ {t} : pc'[r] = pc[r]
      /\ \A r \in Threads \ {t} : count'[r] = count[r]
      /\ \A r \in Threads \ {t} : key'[r] = key[r]
  BY <1>i, <1>e DEF WaitsTypes
<1>h. /\ At(t) = "park" /\ At(t)' = "cancel"
      /\ \A r \in Threads \ {t} : At(r)' = At(r)
  <2>1. pc[t] \notin Releasing /\ UNCHANGED serving /\ \A r \in Threads \ {t} : pc'[r] = pc[r]
    BY <1>e, <1>o DEF Releasing, Handing
  <2>2. QED
    BY <1>i, <1>e, <1>v, <2>1, AtLemma
<1>f. \A r \in Threads \ {t} : SameLocal(r)
  BY <1>e, <1>o, <1>h DEF SameLocal
<1>w. CallOK(t) /\ IndexOK(t) /\ ParkerOK(t) /\ CountOK(t)
  BY <1>i DEF CallInv, IndexInv, ParkerInv, CountInv
<1>b. \A r \in Threads, how \in {"unparkAny", "unparkAll"} :
        BeingUnparked(r, how) => BeingUnparked(r, how)'
  BY <1>i, <1>e, <1>v, <1>o DEF BeingUnparked, AfterPrologues, Resumes, Points
<1>c. \A r \in Threads : op[r] = "all" => Pending(r)' = Pending(r)
  BY <1>i, <1>e, <1>v, <1>o DEF Pending, AfterPrologues, Resumes, Points
<1>1. WaitsTypes'
  <2>1. pc' \in [Threads -> Points \cup Releasing]
    BY <1>i, <1>e DEF WaitsTypes, Points, Resumes, Releasing, Handing
  <2>2. count' \in [Threads -> Nat]
    BY <1>i, <1>e DEF WaitsTypes
  <2>3. key' \in [Threads -> Keys]
    BY <1>i, <1>e DEF WaitsTypes, Keys
  <2>4. QED
    BY <1>i, <1>e, <2>1, <2>2, <2>3 DEF WaitsTypes, LookTypes
<1>2. CallOK(t)'
  BY <1>i, <1>e, <1>v, <1>o, <1>h, <1>f, <1>w
     DEF CallOK, IndexOK, ParkerOK, IsAny, AfterPrologues, Waiting
<1>3. IndexOK(t)'
  BY <1>i, <1>e, <1>v, <1>o, <1>h, <1>f, <1>w
     DEF IndexOK, CallOK, ParkerOK, IsAny, AfterPrologues, Waiting
<1>4. ParkerOK(t)'
  BY <1>i, <1>e, <1>v, <1>o, <1>h, <1>f, <1>w, <1>b
     DEF ParkerOK, CallOK, IndexOK, IsAny, Waiting, AfterPrologues
<1>5. CountOK(t)'
  BY <1>i, <1>e, <1>v, <1>o, <1>h, <1>f, <1>w, <1>b, <1>c
     DEF CountOK, CallOK, IndexOK, ParkerOK, IsAny, AfterPrologues
<1>6. /\ pc[t] \in Points \ {"lockSelf", "return"} /\ pc'[t] \in Points \ {"lockSelf"}
      /\ pc'[t] = "return" => linked[t] = {}
      /\ IsAny(t) /\ count[t] = 0 /\ key[t] = "none" /\ pc[t] \in Waiting =>
           count'[t] = 0 /\ key'[t] = "none" /\ pc'[t] \in Waiting
  BY <1>e, <1>v, <1>h, <1>w DEF Points, Waiting, IsAny, CallOK, IndexOK, ParkerOK
<1>7. QED
  BY <1>e, <1>o, <1>1, <1>2, <1>3, <1>4, <1>5, <1>6, OwnStep

\* CANCEL_ACQUIRE on the first block that is left: lock its queue, and unlink it.
LEMMA CancelStep ==
  ASSUME WaitsInv, NEW t \in Threads,
         Cancel(t)
  PROVE  WaitsInv'
<1>i. /\ WaitsTypes /\ ReleaserInv /\ CallInv /\ IndexInv /\ QueueInv /\ FrontInv
      /\ LinkedInv /\ ParkerInv /\ CountInv /\ PermitInv /\ TotalInv
      /\ NoThread \notin Threads /\ IsFiniteSet(Threads) /\ MaxCount \in Nat
  BY WaitsParts
<1>j. \A r \in Threads : \A j \in linked[r] \cup got[r] : j \in Nat /\ array[r][j] \in Waitables
  BY <1>i, Indices
<1>0. PICK i0 \in Nat, w0 \in Waitables :
            /\ i0 \in linked[t] /\ i0 \notin got[t] /\ w0 = array[t][i0] /\ pc[t] = "cancel"
            /\ holder[w0] = NoThread /\ holder' = [holder EXCEPT ![w0] = t]
            /\ queue' = [queue EXCEPT ![w0] = Without(queue[w0], <<t, i0>>)]
            /\ linked' = [linked EXCEPT ![t] = linked[t] \ {i0}]
            /\ serving' = [serving EXCEPT ![t] = <<w0, "cancel">>]
  <2>1. PICK i0 \in ToCancel(t) :
           /\ holder[array[t][i0]] = NoThread /\ holder' = [holder EXCEPT ![array[t][i0]] = t]
           /\ queue' = [queue EXCEPT ![array[t][i0]] = Without(@, <<t, i0>>)]
           /\ linked' = [linked EXCEPT ![t] = @ \ {i0}]
           /\ serving' = [serving EXCEPT ![t] = <<array[t][i0], "cancel">>]
    BY DEF Cancel
  <2>2. i0 \in linked[t] /\ i0 \notin got[t]
    BY DEF ToCancel, Acquired
  <2>3. i0 \in Nat /\ array[t][i0] \in Waitables
    BY <1>j, <2>2
  <2>4. pc[t] = "cancel"
    BY DEF Cancel
  <2>5. QED
    BY <2>1, <2>2, <2>3, <2>4
<1>e. /\ pc[t] = "cancel"
      /\ holder' = [holder EXCEPT ![w0] = t]
      /\ queue' = [queue EXCEPT ![w0] = Without(queue[w0], <<t, i0>>)]
      /\ linked' = [linked EXCEPT ![t] = linked[t] \ {i0}]
      /\ serving' = [serving EXCEPT ![t] = <<w0, "cancel">>]
      /\ pc' = [pc EXCEPT ![t] = "release"]
      /\ UNCHANGED <<permits, op, array, index, visited, count, key, got, front, total>>
  BY <1>i, <1>0 DEF Cancel, semaphores, callVars, waitVars, Step, Goto, SetIndex, Object, AtEnd
<1>v. /\ holder'[w0] = t
      /\ queue'[w0] = Without(queue[w0], <<t, i0>>)
      /\ linked'[t] = linked[t] \ {i0}
      /\ serving'[t] = <<w0, "cancel">>
      /\ pc'[t] = "release"
  BY <1>i, <1>e, <1>0 DEF WaitsTypes
<1>o. /\ \A r \in Waitables \ {w0} : holder'[r] = holder[r]
      /\ \A r \in Waitables \ {w0} : queue'[r] = queue[r]
      /\ \A r \in Threads \ {t} : linked'[r] = linked[r]
      /\ \A r \in Threads \ {t} : serving'[r] = serving[r]
      /\ \A r \in Threads \ {t} : pc'[r] = pc[r]
  BY <1>i, <1>e DEF WaitsTypes
<1>h. /\ At(t) = "cancel" /\ At(t)' = "cancel"
      /\ \A r \in Threads \ {t} : At(r)' = At(r)
  BY <1>i, <1>e, <1>v, <1>o, <1>0 DEF At, ReleaserInv, Releasing, Handing
<1>f. \A r \in Threads \ {t} : SameLocal(r)
  BY <1>e, <1>o, <1>h DEF SameLocal
<1>w. CallOK(t) /\ IndexOK(t) /\ ParkerOK(t) /\ CountOK(t)
  BY <1>i, <1>0 DEF CallInv, IndexInv, ParkerInv, CountInv
<1>q. Valid(t, i0, w0)
  BY <1>0, <1>h DEF Valid
<1>u. /\ \A v \in Waitables \ {w0} : ~In(<<t, i0>>, queue[v])
      /\ \A r \in Threads : front[r] # <<t, i0>>
  <2>1. \A v \in Waitables \ {w0} : ~In(<<t, i0>>, queue[v])
    BY <1>i, <1>0 DEF QueueInv, Valid
  <2>2. ASSUME NEW r \in Threads, front[r] = <<t, i0>> PROVE FALSE
    <3>1. FrontOK(r, t, i0) /\ serving[r] # <<>> /\ serving[r][1] \in Waitables
      BY <1>i, <2>2, HoldsFront DEF FrontInv
    <3>2. serving[r][1] = w0
      BY <1>0, <3>1 DEF FrontOK, Valid
    <3>3. holder[w0] = r
      BY <1>i, <3>1, <3>2 DEF ReleaserInv
    <3>4. QED
      BY <1>i, <1>0, <3>3
  <2>3. QED
    BY <2>1, <2>2
<1>p. /\ \A b : In(b, queue'[w0]) <=> b # <<t, i0>> /\ In(b, queue[w0])
      /\ Distinct(queue'[w0]) /\ Without(queue[w0], <<t, i0>>) \in Seq(Blocks)
  <2>1. queue[w0] \in Seq(Blocks) /\ Distinct(queue[w0])
    BY <1>i DEF WaitsTypes, QueueInv
  <2>2. /\ \A b : In(b, Without(queue[w0], <<t, i0>>)) <=> b # <<t, i0>> /\ In(b, queue[w0])
        /\ Distinct(Without(queue[w0], <<t, i0>>)) /\ Without(queue[w0], <<t, i0>>) \in Seq(Blocks)
    BY <2>1, WithoutLemma
  <2>3. QED
    BY <1>v, <2>2
<1>n. \A v \in Waitables : \A b : In(b, queue'[v]) => In(b, queue[v]) /\ b # <<t, i0>>
  BY <1>o, <1>p, <1>u
<1>a. \A r \in Threads, j \in Nat, v \in Waitables :
        Valid(r, j, v) /\ <<r, j>> # <<t, i0>> => Valid(r, j, v)'
  <2>1. \A j \in Nat \ {i0}, v \in Waitables : Valid(t, j, v) => Valid(t, j, v)'
    BY <1>e, <1>v, <1>h DEF Valid
  <2>2. QED
    BY <1>f, <2>1, FrameLemma
<1>c. \A r \in Threads \ {t} : op[r] = "all" => Pending(r)' = Pending(r)
  <2>1. ASSUME NEW r \in Threads \ {t}, NEW j \in linked[r]
        PROVE  In(<<r, j>>, queue[array[r][j]]) <=> In(<<r, j>>, queue'[array[r][j]])
    BY <1>j, <1>o, <1>p
  <2>2. ASSUME NEW r \in Threads \ {t} PROVE Pending(r)' = Pending(r)
    <3>1. linked'[r] = linked[r] /\ \A s \in Threads : pc'[s] = "lockAll" <=> pc[s] = "lockAll"
      BY <1>0, <1>v, <1>o
    <3>2. QED
      BY <1>e, <2>1, <3>1 DEF Pending
  <2>3. QED
    BY <2>2
<1>b. \A r \in Threads, how \in {"unparkAny", "unparkAll"} :
        BeingUnparked(r, how) => BeingUnparked(r, how)'
  BY <1>i, <1>0, <1>e, <1>v, <1>o DEF BeingUnparked
<1>1. WaitsTypes'
  <2>1. holder' \in [Waitables -> Threads \cup {NoThread}]
    BY <1>i, <1>e, <1>0 DEF WaitsTypes
  <2>2. queue' \in [Waitables -> Seq(Blocks)]
    BY <1>i, <1>e, <1>0, <1>p DEF WaitsTypes, Blocks
  <2>3. linked' \in [Threads -> SUBSET Nat]
    BY <1>i, <1>e, <1>0, SMTT(30) DEF WaitsTypes
  <2>4. serving' \in [Threads -> (Waitables \X Resumes) \cup {<<>>}]
    BY <1>i, <1>e, <1>0 DEF WaitsTypes, Resumes
  <2>5. pc' \in [Threads -> Points \cup Releasing]
    BY <1>i, <1>e, <1>0 DEF WaitsTypes, Points, Resumes, Releasing, Handing
  <2>6. QED
    BY <1>i, <1>e, <2>1, <2>2, <2>3, <2>4, <2>5 DEF WaitsTypes, LookTypes
<1>2. ReleaserInv'
  BY <1>i, <1>e, <1>v, <1>o, <1>0 DEF ReleaserInv, Releasing, Handing, AfterPrologues, NoBlock
<1>3. CallInv'
  <2>1. CallOK(t)'
    BY <1>i, <1>e, <1>v, <1>o, <1>0, <1>h, <1>f, <1>w, <1>q, <1>u, <1>p, <1>n, <1>a, <1>c, <1>b
       DEF CallOK, IndexOK, ParkerOK, IsAny, AfterPrologues, Waiting
  <2>2. QED
    BY <1>i, <1>f, <2>1, FrameLemma DEF CallInv
<1>4. IndexInv'
  <2>1. IndexOK(t)'
    BY <1>i, <1>e, <1>v, <1>o, <1>0, <1>h, <1>f, <1>w, <1>q, <1>u, <1>p, <1>n, <1>a, <1>c, <1>b
       DEF IndexOK, CallOK, ParkerOK, IsAny, AfterPrologues, Waiting
  <2>2. QED
    BY <1>i, <1>f, <2>1, FrameLemma DEF IndexInv
<1>5. QueueInv'
  <2>1. \A v \in Waitables : Distinct(queue'[v])
    BY <1>i, <1>o, <1>p DEF QueueInv
  <2>2. \A v \in Waitables, s \in Threads, i \in Nat : In(<<s, i>>, queue'[v]) => Valid(s, i, v)'
    BY <1>i, <1>n, <1>a DEF QueueInv
  <2>3. QED
    BY <2>1, <2>2 DEF QueueInv
<1>6. FrontInv'
  <2>1. \A r \in Threads \ {t} : pc'[r] = pc[r] /\ serving'[r] = serving[r]
    BY <1>e, <1>v, <1>o
  <2>2. ASSUME NEW r \in Threads \ {t}, NEW q \in Threads, NEW j \in Nat,
               front[r] = <<q, j>>, FrontOK(r, q, j)
        PROVE  KeepsFront(r, q, j)
    <3>0. serving[r][1] \in Waitables
      BY <1>i, <2>2, HoldsFront
    <3>1. Valid(q, j, serving[r][1])'
      BY <1>a, <2>1, <2>2, <3>0, <1>u DEF FrontOK
    <3>2. ~In(<<q, j>>, queue'[serving[r][1]])
      BY <1>n, <2>2, <3>0 DEF FrontOK
    <3>3. (IsAny(q) => IsAny(q)') /\ (op[q] = "all" => op'[q] = "all")
      BY <1>i, <1>e, <1>v, <1>o, <2>2, <1>w, <1>h DEF IsAny, FrontOK, Valid, IndexOK
    <3>4. pc[r] = "unparkAny" => count'[q] = 0 /\ key'[q] = "none" /\ At(q)' \in Waiting
      BY <1>i, <1>e, <1>v, <1>o, <1>0, <1>h, <1>f, <1>w, <1>q, <1>u, <1>p, <1>n, <1>a, <1>c, <1>b,
         <2>2
         DEF FrontOK, Waiting, AfterPrologues, CallOK, ParkerOK, Valid
    <3>5. QED
      BY <3>1, <3>2, <3>3, <3>4 DEF KeepsFront
  <2>3. pc[t] \notin Handing /\ pc'[t] # "unparkAny"
    BY <1>e, <1>v, <1>o, <1>0 DEF Handing, Resumes
  <2>4. QED
    BY <1>i, <1>e, <2>1, <2>2, <2>3, FrontKept
<1>7. LinkedInv'
  <2>1. \A r \in Threads, j \in Nat : Held(r, j)' <=> Held(r, j)
    BY <1>e DEF Held
  <2>2. ASSUME NEW r \in Threads, NEW j \in Nat, j \in linked'[r] PROVE LinkedOK(r, j)'
    <3>1. j \in linked[r] /\ LinkedOK(r, j) /\ <<r, j>> # <<t, i0>>
      BY <1>i, <1>v, <1>o, <2>2 DEF LinkedInv
    <3>2. In(<<r, j>>, queue[array[r][j]]) => In(<<r, j>>, queue'[array[r][j]])
      BY <1>j, <1>o, <1>p, <3>1
    <3>3. QED
      BY <1>e, <1>h, <2>1, <3>1, <3>2 DEF LinkedOK, IsAny
  <2>3. QED
    BY <2>2 DEF LinkedInv
<1>8. ParkerInv'
  <2>1. ParkerOK(t)'
    BY <1>i, <1>e, <1>v, <1>o, <1>0, <1>h, <1>f, <1>w, <1>q, <1>u, <1>p, <1>n, <1>a, <1>c, <1>b,
       <1>b
       DEF ParkerOK, CallOK, IndexOK, IsAny, Waiting, AfterPrologues
  <2>2. QED
    BY <1>i, <1>f, <1>b, <2>1, FrameLemma DEF ParkerInv
<1>9. CountInv'
  <2>1. CountOK(t)'
    BY <1>i, <1>e, <1>v, <1>o, <1>0, <1>h, <1>f, <1>w, <1>q, <1>u, <1>p, <1>n, <1>a, <1>c, <1>b,
       <1>b, <1>c
       DEF CountOK, CallOK, IndexOK, ParkerOK, IsAny, AfterPrologues
  <2>2. QED
    BY <1>i, <1>f, <1>b, <1>c, <2>1, FrameLemma DEF CountInv
<1>10. PermitInv'
  BY <1>i, <1>e, <1>v, <1>o, <1>0 DEF PermitInv, AllowsAcquire
<1>11. TotalInv'
  <2>1. \A v \in Waitables : Used(v)' = Used(v)
    BY <1>i, <1>e, <1>v, <1>o, <1>0, <1>h, <1>f, <1>w, <1>q, <1>u, <1>p, <1>n, <1>a, <1>c, <1>b
       DEF Used, CallOK, IndexOK, WaitsTypes
  <2>2. \A v \in Waitables : InHands(v)' = InHands(v)
    <3>1. \A v \in Waitables, r \in Threads : InHand(r, v)' <=> InHand(r, v)
      BY <1>i, <1>e, <1>v, <1>o, <1>0 DEF InHand, Resumes, AfterPrologues, Points
    <3>2. QED
      BY <3>1 DEF InHands
  <2>3. QED
    BY <1>i, <1>e, <2>1, <2>2 DEF TotalInv, TotalOK
<1>12. QED
  BY <1>1, <1>2, <1>3, <1>4, <1>5, <1>6, <1>7, <1>8, <1>9, <1>10, <1>11 DEF WaitsInv

\* The call returns.
LEMMA ReturnsStep ==
  ASSUME WaitsInv, NEW t \in Threads,
         Returns(t)
  PROVE  WaitsInv'
<1>i. /\ WaitsTypes /\ ReleaserInv /\ CallInv /\ IndexInv /\ QueueInv /\ FrontInv
      /\ LinkedInv /\ ParkerInv /\ CountInv /\ PermitInv /\ TotalInv
      /\ NoThread \notin Threads /\ IsFiniteSet(Threads) /\ MaxCount \in Nat
  BY WaitsParts
<1>j. \A r \in Threads : \A j \in linked[r] \cup got[r] : j \in Nat /\ array[r][j] \in Waitables
  BY <1>i, Indices
<1>e. /\ \/ pc[t] = "return"
         \/ pc[t] = "tryAll" /\ index[t] > Len(array[t])
         \/ pc[t] = "cancel" /\ ToCancel(t) = {}
      /\ total' = [v \in Waitables |-> total[v] - Cardinality({i \in got[t] : array[t][i] = v})]
      /\ pc' = [pc EXCEPT ![t] = "out"]
      /\ op' = [op EXCEPT ![t] = "none"]
      /\ array' = [array EXCEPT ![t] = <<>>]
      /\ index' = [index EXCEPT ![t] = 0]
      /\ visited' = [visited EXCEPT ![t] = 0]
      /\ got' = [got EXCEPT ![t] = {}]
      /\ count' = [count EXCEPT ![t] = 0]
      /\ key' = [key EXCEPT ![t] = "none"]
      /\ linked' = [linked EXCEPT ![t] = {}]
      /\ UNCHANGED <<permits, queue, holder, serving, front>>
  BY <1>i DEF Returns, Return, semaphores, callVars, waitVars, Step, Goto, SetIndex, Object, AtEnd
<1>v. /\ pc'[t] = "out"
      /\ op'[t] = "none"
      /\ array'[t] = <<>>
      /\ index'[t] = 0
      /\ visited'[t] = 0
      /\ got'[t] = {}
      /\ count'[t] = 0
      /\ key'[t] = "none"
      /\ linked'[t] = {}
  BY <1>i, <1>e DEF WaitsTypes
<1>o. /\ \A r \in Threads \ {t} : pc'[r] = pc[r]
      /\ \A r \in Threads \ {t} : op'[r] = op[r]
      /\ \A r \in Threads \ {t} : array'[r] = array[r]
      /\ \A r \in Threads \ {t} : index'[r] = index[r]
      /\ \A r \in Threads \ {t} : visited'[r] = visited[r]
      /\ \A r \in Threads \ {t} : got'[r] = got[r]
      /\ \A r \in Threads \ {t} : count'[r] = count[r]
      /\ \A r \in Threads \ {t} : key'[r] = key[r]
      /\ \A r \in Threads \ {t} : linked'[r] = linked[r]
  BY <1>i, <1>e DEF WaitsTypes
<1>h. /\ At(t) = pc[t] /\ At(t)' = "out"
      /\ \A r \in Threads \ {t} : At(r)' = At(r)
  <2>1. pc[t] \notin Releasing /\ UNCHANGED serving /\ \A r \in Threads \ {t} : pc'[r] = pc[r]
    BY <1>e, <1>o DEF Releasing, Handing
  <2>2. QED
    BY <1>i, <1>e, <1>v, <2>1, AtLemma
<1>f. \A r \in Threads \ {t} : SameLocal(r)
  BY <1>e, <1>o, <1>h DEF SameLocal
<1>w. CallOK(t) /\ IndexOK(t) /\ ParkerOK(t) /\ CountOK(t)
  BY <1>i DEF CallInv, IndexInv, ParkerInv, CountInv
<1>l. \A j \in Nat, v \in Waitables : ~Valid(t, j, v)
  <2>1. CASE At(t) = "return"
    BY <2>1 DEF Valid
  <2>2. CASE At(t) = "tryAll"
    BY <1>w, <2>2 DEF Valid, IndexOK
  <2>3. CASE At(t) = "cancel"
    <3>1. ToCancel(t) = {}
      BY <1>e, <1>h, <2>3
    <3>2. op[t] \in {"any", "all", "signalAndWait"} /\ Distinct(array[t])
      BY <1>i, <1>w, <2>3 DEF CallOK, WaitsTypes, Ops
    <3>3. SUFFICES ASSUME NEW j \in linked[t], j \notin got[t] PROVE FALSE
      BY DEF Valid
    <3>4. j \in 1..Len(array[t]) /\ j \in 1..(IF op[t] = "all" THEN Len(array[t]) ELSE visited[t])
      BY <1>w, <3>2 DEF IndexOK, IsAny
    <3>5. array[t][j] \notin Acquired(t)
      <4> SUFFICES ASSUME NEW k \in got[t], array[t][k] = array[t][j] PROVE FALSE
        BY DEF Acquired
      <4>1. k \in 1..Len(array[t])
        BY <1>w DEF IndexOK
      <4>2. QED
        BY <3>2, <3>3, <3>4, <4>1 DEF Distinct
    <3>6. QED
      BY <3>1, <3>3, <3>4, <3>5 DEF ToCancel
  <2>4. QED
    BY <1>e, <1>h, <2>1, <2>2, <2>3
<1>a. \A r \in Threads, j \in Nat, v \in Waitables : Valid(r, j, v) => Valid(r, j, v)' /\ r # t
  BY <1>f, <1>l, FrameLemma
<1>b. \A r \in Threads, how \in {"unparkAny", "unparkAll"} :
        BeingUnparked(r, how) => BeingUnparked(r, how)'
  BY <1>i, <1>e, <1>v, <1>o DEF BeingUnparked
<1>c. \A r \in Threads \ {t} : op[r] = "all" => Pending(r)' = Pending(r)
  BY <1>e, <1>v, <1>o DEF Pending
<1>g. \A v \in Waitables : /\ IsFiniteSet({i \in got[t] : array[t][i] = v})
                           /\ Cardinality({i \in got[t] : array[t][i] = v}) \in Nat
  <2>1. got[t] \subseteq 1..Len(array[t])
    BY <1>w DEF IndexOK
  <2>2. IsFiniteSet(1..Len(array[t]))
    <3>1. Len(array[t]) \in Nat
      BY <1>i DEF WaitsTypes
    <3>2. QED
      BY <3>1, UpToIsFinite
  <2>3. IsFiniteSet(got[t])
    BY <2>1, <2>2, FS_Subset
  <2>4. \A v \in Waitables : IsFiniteSet({i \in got[t] : array[t][i] = v})
    BY <2>3, FS_Subset
  <2>5. QED
    BY <2>4, FS_CardinalityType
<1>1. WaitsTypes'
  <2>1. pc' \in [Threads -> Points \cup Releasing]
    BY <1>i, <1>e DEF WaitsTypes, Points, Resumes, Releasing, Handing
  <2>2. op' \in [Threads -> Ops]
    BY <1>i, <1>e DEF WaitsTypes, Ops
  <2>3. array' \in [Threads -> Seq(Waitables)]
    BY <1>i, <1>e DEF WaitsTypes
  <2>4. index' \in [Threads -> Nat]
    BY <1>i, <1>e DEF WaitsTypes
  <2>5. visited' \in [Threads -> Nat]
    BY <1>i, <1>e DEF WaitsTypes
  <2>6. got' \in [Threads -> SUBSET Nat]
    BY <1>i, <1>e DEF WaitsTypes
  <2>7. count' \in [Threads -> Nat]
    BY <1>i, <1>e DEF WaitsTypes
  <2>8. key' \in [Threads -> Keys]
    BY <1>i, <1>e DEF WaitsTypes, Keys
  <2>9. linked' \in [Threads -> SUBSET Nat]
    BY <1>i, <1>e DEF WaitsTypes
  <2>10. total' \in [Waitables -> Int]
    <3>1. ASSUME NEW v \in Waitables
          PROVE  total[v] - Cardinality({i \in got[t] : array[t][i] = v}) \in Int
      <4>1. total[v] \in Int
        BY <1>i DEF WaitsTypes
      <4>2. Cardinality({i \in got[t] : array[t][i] = v}) \in Nat
        BY <1>g
      <4>3. QED
        BY <4>1, <4>2
    <3>2. QED
      BY <1>e, <3>1
  <2>11. QED
    BY <1>i, <1>e, <2>1, <2>2, <2>3, <2>4, <2>5, <2>6, <2>7, <2>8, <2>9, <2>10
       DEF WaitsTypes, LookTypes
<1>2. ReleaserInv'
  BY <1>i, <1>e, <1>v, <1>o DEF ReleaserInv, Releasing, Handing, AfterPrologues, NoBlock
<1>3. CallInv'
  <2>1. CallOK(t)'
    <3>1. /\ At(t)' = "out" /\ op'[t] = "none" /\ array'[t] = <<>>
          /\ Distinct(array'[t])
      BY <1>v, <1>h, SmallStacks
    <3>2. QED
      BY <3>1 DEF CallOK, IsAny
  <2>2. QED
    BY <1>i, <1>f, <2>1, FrameLemma DEF CallInv
<1>4. IndexInv'
  <2>1. IndexOK(t)'
    BY <1>i, <1>e, <1>v, <1>o, <1>h, <1>f, <1>w, <1>l, <1>a, <1>b, <1>c, <1>g
       DEF IndexOK, CallOK, ParkerOK, IsAny, AfterPrologues, Waiting
  <2>2. QED
    BY <1>i, <1>f, <2>1, FrameLemma DEF IndexInv
<1>5. QueueInv'
  BY <1>i, <1>e, <1>a DEF QueueInv
<1>6. FrontInv'
  <2>1. \A r \in Threads \ {t} : pc'[r] = pc[r] /\ serving'[r] = serving[r]
    BY <1>e, <1>v, <1>o
  <2>2. ASSUME NEW r \in Threads \ {t}, NEW q \in Threads, NEW j \in Nat,
               front[r] = <<q, j>>, FrontOK(r, q, j)
        PROVE  KeepsFront(r, q, j)
    <3>0. serving[r][1] \in Waitables
      BY <1>i, <2>2, HoldsFront
    <3>1. Valid(q, j, serving[r][1])'
      BY <1>a, <2>1, <2>2, <3>0 DEF FrontOK
    <3>2. ~In(<<q, j>>, queue'[serving[r][1]])
      BY <1>e, <2>2, <3>0 DEF FrontOK
    <3>q. q # t
      BY <1>a, <2>2, <3>0 DEF FrontOK
    <3>3. (IsAny(q) => IsAny(q)') /\ (op[q] = "all" => op'[q] = "all")
      BY <1>o, <3>q DEF IsAny
    <3>4. pc[r] = "unparkAny" => count'[q] = 0 /\ key'[q] = "none" /\ At(q)' \in Waiting
      BY <1>i, <1>e, <1>v, <1>o, <1>h, <1>f, <1>w, <1>l, <1>a, <1>b, <1>c, <1>g, <2>2
         DEF FrontOK, Waiting, AfterPrologues, CallOK, ParkerOK, Valid
    <3>5. QED
      BY <3>1, <3>2, <3>3, <3>4 DEF KeepsFront
  <2>3. pc[t] \notin Handing /\ pc'[t] # "unparkAny"
    BY <1>e, <1>v, <1>o DEF Handing, Resumes
  <2>4. QED
    BY <1>i, <1>e, <2>1, <2>2, <2>3, FrontKept
<1>7. LinkedInv'
  <2>1. ASSUME NEW r \in Threads, NEW j \in Nat, j \in linked'[r]
        PROVE  /\ j \in linked[r] /\ array'[r] = array[r] /\ (IsAny(r) => IsAny(r)')
               /\ IsAny(r) /\ (j \in got[r] \/ At(r) = "return") =>
                    j \in got'[r] \/ At(r)' = "return"
    BY <1>i, <1>e, <1>v, <1>o, <1>h, <1>f, <1>w, <1>l, <1>a, <1>b, <1>c, <1>g, <2>1
       DEF SameLocal, IsAny, IndexOK, CallOK
  <2>2. QED
    BY <1>i, <1>e, <2>1, LinkedKept
<1>8. ParkerInv'
  <2>1. ParkerOK(t)'
    <3>1. At(t)' = "out" /\ op'[t] = "none" /\ key'[t] = "none"
      BY <1>v, <1>h DEF ParkerOK
    <3>2. QED
      BY <3>1 DEF ParkerOK, IsAny, Waiting
  <2>2. QED
    BY <1>i, <1>f, <1>b, <2>1, FrameLemma DEF ParkerInv
<1>9. CountInv'
  <2>1. CountOK(t)'
    BY <1>i, <1>e, <1>v, <1>o, <1>h, <1>f, <1>w, <1>l, <1>a, <1>b, <1>c, <1>g, <1>b, <1>c
       DEF CountOK, CallOK, IndexOK, ParkerOK, IsAny, AfterPrologues
  <2>2. QED
    BY <1>i, <1>f, <1>b, <1>c, <2>1, FrameLemma DEF CountInv
<1>10. PermitInv'
  BY <1>i, <1>e, <1>v, <1>o DEF PermitInv, AllowsAcquire
<1>11. TotalInv'
  <2>1. ASSUME NEW v \in Waitables PROVE TotalOK(v)'
    <3> DEFINE G == {i \in got[t] : array[t][i] = v}
    <3>1. total'[v] = total[v] - Cardinality(G) /\ permits'[v] = permits[v]
      BY <1>e
    <3>2. InHands(v)' = InHands(v)
      <4>1. \A r \in Threads \ {t} : InHand(r, v)' <=> InHand(r, v)
        BY <1>e, <1>o DEF InHand
      <4>2. ~InHand(t, v) /\ ~InHand(t, v)'
        BY <1>e, <1>v DEF InHand
      <4>3. QED
        BY <4>1, <4>2 DEF InHands
    <3>3. /\ TotalOK(v) /\ IsFiniteSet(Used(v)) /\ Cardinality(Used(v)) \in Nat
          /\ permits[v] \in Nat /\ total[v] \in Int /\ Cardinality(InHands(v)) \in Nat
      <4>1. TotalOK(v) /\ IsFiniteSet(Used(v)) /\ permits[v] \in Nat /\ total[v] \in Int
        BY <1>i DEF TotalInv, TotalOK, WaitsTypes
      <4>2. InHands(v) \subseteq Threads
        BY DEF InHands
      <4>3. IsFiniteSet(InHands(v))
        BY <1>i, <4>2, FS_Subset
      <4>4. QED
        BY <4>1, <4>3, FS_CardinalityType
    <3>4. ASSUME NEW p \in Threads \X Nat, p[1] # t PROVE p \in Used(v)' <=> p \in Used(v)
      BY <1>o, <3>4 DEF Used
    <3>5. \A p \in Threads \X Nat : p[1] = t => p \notin Used(v)' /\ (p \in Used(v) <=> p[2] \in G)
      BY <1>v DEF Used
    <3>6. Used(v) \subseteq Threads \X Nat /\ Used(v)' \subseteq Threads \X Nat
      BY DEF Used
    <3>7. CASE G = {}
      <4>1. Used(v)' = Used(v)
        BY <3>4, <3>5, <3>6, <3>7
      <4>2. Cardinality(G) = 0
        BY <3>7, FS_EmptySet
      <4>3. QED
        BY <3>1, <3>2, <3>3, <4>1, <4>2 DEF TotalOK
    <3>8. CASE G # {}
      <4>1. PICK k \in G : TRUE
        BY <3>8
      <4>2. k \in got[t] /\ array[t][k] = v /\ k \in Nat
        BY <1>j, <4>1
      <4>3. G = {k}
        <5> SUFFICES ASSUME NEW i \in got[t], array[t][i] = v PROVE i = k
          BY <4>1
        <5>1. i \in 1..Len(array[t]) /\ k \in 1..Len(array[t]) /\ Distinct(array[t])
          BY <1>w, <4>2 DEF IndexOK, CallOK
        <5>2. QED
          BY <4>2, <5>1 DEF Distinct
      <4>4. Cardinality(G) = 1
        BY <4>3, FS_Singleton
      <4>5. <<t, k>> \in Used(v) /\ <<t, k>> \in Threads \X Nat /\ <<t, k>> \notin Used(v)'
        BY <3>5, <4>1, <4>2
      <4>6. Used(v)' = Used(v) \ {<<t, k>>}
        <5>1. ASSUME NEW p \in Threads \X Nat, p[1] = t, p # <<t, k>> PROVE p \notin Used(v)
          BY <3>5, <4>3, <5>1
        <5>2. ASSUME NEW p \in Threads \X Nat, p[1] = t PROVE p \notin Used(v)'
          BY <3>5, <5>2
        <5>3. \A p \in Threads \X Nat : p \in Used(v)' <=> p \in Used(v) /\ p # <<t, k>>
          BY <3>4, <4>5, <5>1, <5>2
        <5>4. QED
          BY <3>6, <5>3
      <4>7. /\ IsFiniteSet(Used(v) \ {<<t, k>>})
            /\ Cardinality(Used(v) \ {<<t, k>>}) = Cardinality(Used(v)) - 1
        BY <3>3, <4>5, FS_RemoveElement
      <4> HIDE DEF G
      <4>8. QED
        BY <3>1, <3>2, <3>3, <4>4, <4>6, <4>7 DEF TotalOK
    <3>9. QED
      BY <3>7, <3>8
  <2>2. QED
    BY <2>1 DEF TotalInv
<1>12. QED
  BY <1>1, <1>2, <1>3, <1>4, <1>5, <1>6, <1>7, <1>8, <1>9, <1>10, <1>11 DEF WaitsInv

\* A prologue of a wait-all finds a permit, and another one follows.
LEMMA AllAllowMoreStep ==
  ASSUME WaitsInv, NEW t \in Threads,
         PrologueAll(t), AllowsAcquire(Object(t)), index[t] < Len(array[t])
  PROVE  WaitsInv'
<1>i. /\ WaitsTypes /\ ReleaserInv /\ CallInv /\ IndexInv /\ QueueInv /\ FrontInv
      /\ LinkedInv /\ ParkerInv /\ CountInv /\ PermitInv /\ TotalInv
      /\ NoThread \notin Threads /\ IsFiniteSet(Threads) /\ MaxCount \in Nat
  BY WaitsParts
<1>0. PICK w0 \in Waitables, i0 \in Nat :
            i0 = index[t] /\ i0 \in 1..Len(array[t]) /\ w0 = array[t][i0]
  <2>1. CallOK(t) /\ At(t) = "prologueAll" /\ index[t] \in 1..Len(array[t])
    BY <1>i
       DEF CallInv, CallOK, WaitsTypes, At, AtEnd, ReleaserInv, Releasing, Handing, PrologueAll,
           NextPrologue, Enqueue, AllowsAcquire
  <2>2. QED
    BY <1>i, <2>1 DEF WaitsTypes
<1>e. /\ pc[t] = "prologueAll" /\ (i0 < Len(array[t]))
      /\ count' = [count EXCEPT ![t] = count[t] - 1]
      /\ key' = [key EXCEPT ![t] = (IF count[t] = 1 THEN "changed" ELSE key[t])]
      /\ index' = [index EXCEPT ![t] = i0 + 1]
      /\ UNCHANGED <<permits, queue, holder, pc, op, array, visited, linked, got, serving, front,
                     total>>
  BY <1>i, <1>0
     DEF PrologueAll, NextPrologue, Enqueue, AllowsAcquire, semaphores, callVars, waitVars, Step,
         Goto, SetIndex, Object, AtEnd
<1>v. /\ count'[t] = count[t] - 1
      /\ key'[t] = (IF count[t] = 1 THEN "changed" ELSE key[t])
      /\ index'[t] = i0 + 1
  BY <1>i, <1>e, <1>0 DEF WaitsTypes
<1>o. /\ \A r \in Threads \ {t} : count'[r] = count[r]
      /\ \A r \in Threads \ {t} : key'[r] = key[r]
      /\ \A r \in Threads \ {t} : index'[r] = index[r]
  BY <1>i, <1>e DEF WaitsTypes
<1>h. /\ At(t) = "prologueAll" /\ At(t)' = "prologueAll"
      /\ \A r \in Threads \ {t} : At(r)' = At(r)
  <2>1. pc[t] \notin Releasing /\ UNCHANGED serving /\ \A r \in Threads \ {t} : pc'[r] = pc[r]
    BY <1>e DEF Releasing, Handing
  <2>2. QED
    BY <1>i, <1>e, <1>v, <2>1, AtLemma
<1>f. \A r \in Threads \ {t} : SameLocal(r)
  BY <1>e, <1>o, <1>h DEF SameLocal
<1>w. CallOK(t) /\ IndexOK(t) /\ ParkerOK(t) /\ CountOK(t)
  BY <1>i, <1>0 DEF CallInv, IndexInv, ParkerInv, CountInv
<1>l. op[t] = "all" /\ got[t] = {} /\ i0 \notin linked[t] /\ i0 \notin got[t]
      /\ linked[t] \subseteq 1..(i0 - 1)
  <2>1. op[t] = "all"
    BY <1>i, <1>h, <1>w DEF CallOK, WaitsTypes, Ops
  <2>2. QED
    BY <1>h, <1>w, <1>0, <2>1 DEF IndexOK
<1>y. /\ IsFiniteSet(Pending(t)) /\ Cardinality(Pending(t)) \in Nat /\ Len(array[t]) \in Nat
      /\ count[t] = Cardinality(Pending(t)) + Len(array[t]) - i0 + 1 /\ i0 \in 1..Len(array[t])
      /\ Pending(t) \subseteq linked[t] /\ count[t] \in Nat
      /\ count[t] - 1 \in Nat /\ count[t] # 0 /\ i0 + 1 \in Nat /\ linked[t] \cup {i0} \subseteq Nat
  <2>0. Len(array[t]) \in Nat
    BY <1>i DEF WaitsTypes
  <2>1. Pending(t) \subseteq linked[t] /\ Pending(t) \subseteq 1..Len(array[t])
        /\ i0 \in 1..Len(array[t]) /\ count[t] \in Nat
        /\ linked[t] \cup {i0} \subseteq Nat
    BY <1>i, <1>0, <1>w DEF Pending, IndexOK, WaitsTypes
  <2>2. IsFiniteSet(1..Len(array[t]))
    BY <2>0, UpToIsFinite
  <2>3. IsFiniteSet(Pending(t)) /\ Cardinality(Pending(t)) \in Nat
    BY <2>1, <2>2, FS_Subset, FS_CardinalityType
  <2>4. count[t] = Cardinality(Pending(t)) + (Len(array[t]) - i0 + 1)
    BY <1>0, <1>h, <1>l, <1>w DEF CountOK
  <2>5. i0 \in Nat /\ Len(array[t]) - i0 >= 0
    BY <2>0, <2>1
  <2>6. count[t] # 0 /\ count[t] - 1 \in Nat
        /\ count[t] = Cardinality(Pending(t)) + Len(array[t]) - i0 + 1
    BY <2>0, <2>1, <2>3, <2>4, <2>5, SMTT(30)
  <2>7. QED
    BY <2>0, <2>1, <2>3, <2>5, <2>6
<1>b. \A r \in Threads, how \in {"unparkAny", "unparkAll"} :
        BeingUnparked(r, how) => BeingUnparked(r, how)'
  BY <1>i, <1>e, <1>v, <1>o DEF BeingUnparked, AfterPrologues, Resumes, Points
<1>c. \A r \in Threads : op[r] = "all" => Pending(r)' = Pending(r)
  BY <1>i, <1>e, <1>v, <1>o DEF Pending, AfterPrologues, Resumes, Points
<1>1. WaitsTypes'
  <2>1. count' \in [Threads -> Nat]
    BY <1>i, <1>e, <1>0, <1>y DEF WaitsTypes
  <2>2. key' \in [Threads -> Keys]
    BY <1>i, <1>e, <1>0, <1>y DEF WaitsTypes, Keys
  <2>3. index' \in [Threads -> Nat]
    BY <1>i, <1>e, <1>0, <1>y DEF WaitsTypes
  <2>4. QED
    BY <1>i, <1>e, <2>1, <2>2, <2>3 DEF WaitsTypes, LookTypes
<1>2. CallOK(t)'
  BY <1>i, <1>e, <1>v, <1>o, <1>0, <1>h, <1>f, <1>w, <1>l, <1>y, SMTT(30)
     DEF CallOK, IndexOK, ParkerOK, IsAny, AfterPrologues, Waiting
<1>3. IndexOK(t)'
  <2>1. /\ op'[t] = op[t] /\ array'[t] = array[t] /\ got'[t] = got[t] /\ visited'[t] = visited[t]
        /\ linked'[t] = linked[t] /\ At(t) = "prologueAll" /\ At(t)' = "prologueAll"
        /\ index'[t] = i0 + 1
    BY <1>e, <1>v, <1>h
  <2>2. linked[t] \subseteq 1..((i0 + 1) - 1)
    BY <1>0, <1>l
  <2>3. QED
    BY <1>w, <1>l, <2>1, <2>2 DEF IndexOK, IsAny
<1>4. ParkerOK(t)'
  <2>1. At(t)' = "prologueAll" /\ op'[t] = "all"
    BY <1>e, <1>v, <1>h, <1>l DEF ParkerOK
  <2>2. QED
    BY <2>1 DEF ParkerOK, IsAny, Waiting
<1>5. CountOK(t)'
  <2>1. /\ op'[t] = "all" /\ array'[t] = array[t] /\ Pending(t)' = Pending(t)
        /\ At(t)' = "prologueAll" /\ index'[t] = i0 + 1 /\ count'[t] = count[t] - 1
    BY <1>e, <1>v, <1>h, <1>l, <1>c
  <2>2. /\ count'[t] = Cardinality(Pending(t)) + (Len(array[t]) - (i0 + 1) + 1)
        /\ count'[t] # 0
    BY <1>0, <1>e, <1>y, <2>1, SMTT(30)
  <2>3. QED
    BY <2>1, <2>2 DEF CountOK
<1>6. /\ pc[t] \in Points \ {"lockSelf", "return"} /\ pc'[t] \in Points \ {"lockSelf"}
      /\ pc'[t] = "return" => linked[t] = {}
      /\ IsAny(t) /\ count[t] = 0 /\ key[t] = "none" /\ pc[t] \in Waiting =>
           count'[t] = 0 /\ key'[t] = "none" /\ pc'[t] \in Waiting
  BY <1>e, <1>v, <1>h, <1>w, <1>l DEF Points, Waiting, IsAny, CallOK, IndexOK, ParkerOK
<1>7. QED
  BY <1>e, <1>o, <1>1, <1>2, <1>3, <1>4, <1>5, <1>6, OwnStep

\* The last prologue of a wait-all finds a permit.
LEMMA AllAllowLastStep ==
  ASSUME WaitsInv, NEW t \in Threads,
         PrologueAll(t), AllowsAcquire(Object(t)), ~(index[t] < Len(array[t]))
  PROVE  WaitsInv'
<1>i. /\ WaitsTypes /\ ReleaserInv /\ CallInv /\ IndexInv /\ QueueInv /\ FrontInv
      /\ LinkedInv /\ ParkerInv /\ CountInv /\ PermitInv /\ TotalInv
      /\ NoThread \notin Threads /\ IsFiniteSet(Threads) /\ MaxCount \in Nat
  BY WaitsParts
<1>0. PICK w0 \in Waitables, i0 \in Nat :
            i0 = index[t] /\ i0 \in 1..Len(array[t]) /\ w0 = array[t][i0]
  <2>1. CallOK(t) /\ At(t) = "prologueAll" /\ index[t] \in 1..Len(array[t])
    BY <1>i
       DEF CallInv, CallOK, WaitsTypes, At, AtEnd, ReleaserInv, Releasing, Handing, PrologueAll,
           NextPrologue, Enqueue, AllowsAcquire
  <2>2. QED
    BY <1>i, <2>1 DEF WaitsTypes
<1>e. /\ pc[t] = "prologueAll" /\ ~(i0 < Len(array[t]))
      /\ count' = [count EXCEPT ![t] = count[t] - 1]
      /\ key' = [key EXCEPT ![t] = (IF count[t] = 1 THEN "changed" ELSE key[t])]
      /\ index' = [index EXCEPT ![t] = 1]
      /\ pc' = [pc EXCEPT ![t] = "park"]
      /\ UNCHANGED <<permits, queue, holder, op, array, visited, linked, got, serving, front,
                     total>>
  BY <1>i, <1>0
     DEF PrologueAll, NextPrologue, Enqueue, AllowsAcquire, semaphores, callVars, waitVars, Step,
         Goto, SetIndex, Object, AtEnd
<1>v. /\ count'[t] = count[t] - 1
      /\ key'[t] = (IF count[t] = 1 THEN "changed" ELSE key[t])
      /\ index'[t] = 1
      /\ pc'[t] = "park"
  BY <1>i, <1>e, <1>0 DEF WaitsTypes
<1>o. /\ \A r \in Threads \ {t} : count'[r] = count[r]
      /\ \A r \in Threads \ {t} : key'[r] = key[r]
      /\ \A r \in Threads \ {t} : index'[r] = index[r]
      /\ \A r \in Threads \ {t} : pc'[r] = pc[r]
  BY <1>i, <1>e DEF WaitsTypes
<1>h. /\ At(t) = "prologueAll" /\ At(t)' = "park"
      /\ \A r \in Threads \ {t} : At(r)' = At(r)
  <2>1. pc[t] \notin Releasing /\ UNCHANGED serving /\ \A r \in Threads \ {t} : pc'[r] = pc[r]
    BY <1>e, <1>o DEF Releasing, Handing
  <2>2. QED
    BY <1>i, <1>e, <1>v, <2>1, AtLemma
<1>f. \A r \in Threads \ {t} : SameLocal(r)
  BY <1>e, <1>o, <1>h DEF SameLocal
<1>w. CallOK(t) /\ IndexOK(t) /\ ParkerOK(t) /\ CountOK(t)
  BY <1>i, <1>0 DEF CallInv, IndexInv, ParkerInv, CountInv
<1>l. op[t] = "all" /\ got[t] = {} /\ i0 \notin linked[t] /\ i0 \notin got[t]
      /\ linked[t] \subseteq 1..(i0 - 1)
  <2>1. op[t] = "all"
    BY <1>i, <1>h, <1>w DEF CallOK, WaitsTypes, Ops
  <2>2. QED
    BY <1>h, <1>w, <1>0, <2>1 DEF IndexOK
<1>y. /\ IsFiniteSet(Pending(t)) /\ Cardinality(Pending(t)) \in Nat /\ Len(array[t]) \in Nat
      /\ count[t] = Cardinality(Pending(t)) + Len(array[t]) - i0 + 1 /\ i0 \in 1..Len(array[t])
      /\ Pending(t) \subseteq linked[t] /\ count[t] \in Nat
      /\ count[t] - 1 \in Nat /\ count[t] # 0 /\ i0 + 1 \in Nat /\ linked[t] \cup {i0} \subseteq Nat
  <2>0. Len(array[t]) \in Nat
    BY <1>i DEF WaitsTypes
  <2>1. Pending(t) \subseteq linked[t] /\ Pending(t) \subseteq 1..Len(array[t])
        /\ i0 \in 1..Len(array[t]) /\ count[t] \in Nat
        /\ linked[t] \cup {i0} \subseteq Nat
    BY <1>i, <1>0, <1>w DEF Pending, IndexOK, WaitsTypes
  <2>2. IsFiniteSet(1..Len(array[t]))
    BY <2>0, UpToIsFinite
  <2>3. IsFiniteSet(Pending(t)) /\ Cardinality(Pending(t)) \in Nat
    BY <2>1, <2>2, FS_Subset, FS_CardinalityType
  <2>4. count[t] = Cardinality(Pending(t)) + (Len(array[t]) - i0 + 1)
    BY <1>0, <1>h, <1>l, <1>w DEF CountOK
  <2>5. i0 \in Nat /\ Len(array[t]) - i0 >= 0
    BY <2>0, <2>1
  <2>6. count[t] # 0 /\ count[t] - 1 \in Nat
        /\ count[t] = Cardinality(Pending(t)) + Len(array[t]) - i0 + 1
    BY <2>0, <2>1, <2>3, <2>4, <2>5, SMTT(30)
  <2>7. QED
    BY <2>0, <2>1, <2>3, <2>5, <2>6
<1>b. \A r \in Threads, how \in {"unparkAny", "unparkAll"} :
        BeingUnparked(r, how) => BeingUnparked(r, how)'
  BY <1>i, <1>e, <1>v, <1>o DEF BeingUnparked, AfterPrologues, Resumes, Points
<1>c. \A r \in Threads : op[r] = "all" => Pending(r)' = Pending(r)
  BY <1>i, <1>e, <1>v, <1>o DEF Pending, AfterPrologues, Resumes, Points
<1>1. WaitsTypes'
  <2>1. count' \in [Threads -> Nat]
    BY <1>i, <1>e, <1>0, <1>y DEF WaitsTypes
  <2>2. key' \in [Threads -> Keys]
    BY <1>i, <1>e, <1>0, <1>y DEF WaitsTypes, Keys
  <2>3. index' \in [Threads -> Nat]
    BY <1>i, <1>e, <1>0, <1>y DEF WaitsTypes
  <2>4. pc' \in [Threads -> Points \cup Releasing]
    BY <1>i, <1>e, <1>0, <1>y DEF WaitsTypes, Points, Resumes, Releasing, Handing
  <2>5. QED
    BY <1>i, <1>e, <2>1, <2>2, <2>3, <2>4 DEF WaitsTypes, LookTypes
<1>2. CallOK(t)'
  BY <1>i, <1>e, <1>v, <1>o, <1>0, <1>h, <1>f, <1>w, <1>l, <1>y
     DEF CallOK, IndexOK, ParkerOK, IsAny, AfterPrologues, Waiting
<1>3. IndexOK(t)'
  BY <1>i, <1>e, <1>v, <1>o, <1>0, <1>h, <1>f, <1>w, <1>l, <1>y
     DEF IndexOK, CallOK, ParkerOK, IsAny, AfterPrologues, Waiting
<1>4. ParkerOK(t)'
  <2>1. At(t)' = "park" /\ op'[t] = "all"
    BY <1>e, <1>v, <1>h, <1>l DEF ParkerOK
  <2>2. QED
    BY <2>1 DEF ParkerOK, IsAny, Waiting
<1>5. CountOK(t)'
  <2>a. count[t] = Cardinality(Pending(t)) + 1 /\ Cardinality(Pending(t)) \in Nat
    BY <1>e, <1>y
  <2>b. /\ Pending(t)' = Pending(t) /\ op'[t] = "all" /\ count'[t] = count[t] - 1
        /\ key'[t] = IF count[t] = 1 THEN "changed" ELSE key[t]
    BY <1>c, <1>e, <1>l, <1>v
  <2>1. /\ op'[t] = "all" /\ At(t)' = "park" /\ count'[t] = Cardinality(Pending(t)')
        /\ Cardinality(Pending(t)') \in Nat
        /\ count'[t] = 0 => key'[t] = "changed" 
    BY <2>a, <2>b, <1>h
  <2>2. QED
    BY <2>1 DEF CountOK, IsAny
<1>6. /\ pc[t] \in Points \ {"lockSelf", "return"} /\ pc'[t] \in Points \ {"lockSelf"}
      /\ pc'[t] = "return" => linked[t] = {}
      /\ IsAny(t) /\ count[t] = 0 /\ key[t] = "none" /\ pc[t] \in Waiting =>
           count'[t] = 0 /\ key'[t] = "none" /\ pc'[t] \in Waiting
  BY <1>e, <1>v, <1>h, <1>w, <1>l, SMTT(30) DEF Points, Waiting, IsAny, CallOK, IndexOK, ParkerOK
<1>7. QED
  BY <1>e, <1>o, <1>1, <1>2, <1>3, <1>4, <1>5, <1>6, OwnStep

\* A prologue of a wait-all inserts a block, and another one follows.
LEMMA AllEnqMoreStep ==
  ASSUME WaitsInv, NEW t \in Threads,
         PrologueAll(t), ~AllowsAcquire(Object(t)), index[t] < Len(array[t])
  PROVE  WaitsInv'
<1>i. /\ WaitsTypes /\ ReleaserInv /\ CallInv /\ IndexInv /\ QueueInv /\ FrontInv
      /\ LinkedInv /\ ParkerInv /\ CountInv /\ PermitInv /\ TotalInv
      /\ NoThread \notin Threads /\ IsFiniteSet(Threads) /\ MaxCount \in Nat
  BY WaitsParts
<1>0. PICK w0 \in Waitables, i0 \in Nat :
            i0 = index[t] /\ i0 \in 1..Len(array[t]) /\ w0 = array[t][i0]
  <2>1. CallOK(t) /\ At(t) = "prologueAll" /\ index[t] \in 1..Len(array[t])
    BY <1>i
       DEF CallInv, CallOK, WaitsTypes, At, AtEnd, ReleaserInv, Releasing, Handing, PrologueAll,
           NextPrologue, Enqueue
  <2>2. QED
    BY <1>i, <2>1, SMTT(30) DEF WaitsTypes
<1>e. /\ pc[t] = "prologueAll" /\ ~AllowsAcquire(w0) /\ (i0 < Len(array[t]))
      /\ queue' = [queue EXCEPT ![w0] = Append(queue[w0], <<t, i0>>)]
      /\ linked' = [linked EXCEPT ![t] = linked[t] \cup {i0}]
      /\ index' = [index EXCEPT ![t] = i0 + 1]
      /\ UNCHANGED <<permits, holder, pc, op, array, visited, count, key, got, serving, front,
                     total>>
  BY <1>i, <1>0
     DEF PrologueAll, NextPrologue, Enqueue, semaphores, callVars, waitVars, Step, Goto,
         SetIndex, Object, AtEnd
<1>v. /\ queue'[w0] = Append(queue[w0], <<t, i0>>)
      /\ linked'[t] = linked[t] \cup {i0}
      /\ index'[t] = i0 + 1
  BY <1>i, <1>e, <1>0 DEF WaitsTypes
<1>o. /\ \A r \in Waitables \ {w0} : queue'[r] = queue[r]
      /\ \A r \in Threads \ {t} : linked'[r] = linked[r]
      /\ \A r \in Threads \ {t} : index'[r] = index[r]
  BY <1>i, <1>e DEF WaitsTypes
<1>h. /\ At(t) = "prologueAll" /\ At(t)' = "prologueAll"
      /\ \A r \in Threads \ {t} : At(r)' = At(r)
  <2>1. pc[t] \notin Releasing /\ UNCHANGED serving /\ \A r \in Threads \ {t} : pc'[r] = pc[r]
    BY <1>e DEF Releasing, Handing
  <2>2. QED
    BY <1>i, <1>e, <1>v, <2>1, AtLemma
<1>f. \A r \in Threads \ {t} : SameLocal(r)
  BY <1>e, <1>o, <1>h DEF SameLocal
<1>w. CallOK(t) /\ IndexOK(t) /\ ParkerOK(t) /\ CountOK(t)
  BY <1>i, <1>0 DEF CallInv, IndexInv, ParkerInv, CountInv
<1>l. op[t] = "all" /\ got[t] = {} /\ i0 \notin linked[t] /\ i0 \notin got[t]
      /\ linked[t] \subseteq 1..(i0 - 1)
  <2>1. op[t] = "all"
    BY <1>i, <1>h, <1>w, SMTT(30) DEF CallOK, WaitsTypes, Ops
  <2>2. QED
    BY <1>h, <1>w, <1>0, <2>1 DEF IndexOK
<1>n. pc[t] \in Points \ {"lockSelf", "return"} /\ pc'[t] \in Points \ {"lockSelf", "return"}
  BY <1>0, <1>e, <1>v DEF Points
<1>p. Inserted(t, w0, i0)
  <2>1. /\ pc[t] \in Points /\ pc'[t] \in Points /\ UNCHANGED <<array, front>>
        /\ \A r \in Threads \ {t} : pc'[r] = pc[r]
    BY <1>e, <1>n, <1>o
  <2>2. QED
    BY <1>0, <1>e, <1>l, <2>1, EnqueueFacts
<1>q. Append(queue[w0], <<t, i0>>) \in Seq(Blocks)
  BY <1>p DEF Inserted
<1>y. /\ IsFiniteSet(Pending(t)) /\ Cardinality(Pending(t)) \in Nat /\ Len(array[t]) \in Nat
      /\ count[t] = Cardinality(Pending(t)) + Len(array[t]) - i0 + 1 /\ i0 \in 1..Len(array[t])
      /\ Pending(t) \subseteq linked[t] /\ count[t] \in Nat
      /\ count[t] - 1 \in Nat /\ count[t] # 0 /\ i0 + 1 \in Nat /\ linked[t] \cup {i0} \subseteq Nat
  <2>0. Len(array[t]) \in Nat
    BY <1>i DEF WaitsTypes
  <2>1. Pending(t) \subseteq linked[t] /\ Pending(t) \subseteq 1..Len(array[t])
        /\ i0 \in 1..Len(array[t]) /\ count[t] \in Nat
        /\ linked[t] \cup {i0} \subseteq Nat
    BY <1>i, <1>0, <1>w DEF Pending, IndexOK, WaitsTypes
  <2>2. IsFiniteSet(1..Len(array[t]))
    BY <2>0, UpToIsFinite
  <2>3. IsFiniteSet(Pending(t)) /\ Cardinality(Pending(t)) \in Nat
    BY <2>1, <2>2, FS_Subset, FS_CardinalityType
  <2>4. count[t] = Cardinality(Pending(t)) + (Len(array[t]) - i0 + 1)
    BY <1>0, <1>h, <1>l, <1>w DEF CountOK
  <2>5. i0 \in Nat /\ Len(array[t]) - i0 >= 0
    BY <2>0, <2>1
  <2>6. count[t] # 0 /\ count[t] - 1 \in Nat
        /\ count[t] = Cardinality(Pending(t)) + Len(array[t]) - i0 + 1
    BY <2>0, <2>1, <2>3, <2>4, <2>5, SMTT(30)
  <2>7. QED
    BY <2>0, <2>1, <2>3, <2>5, <2>6
<1>m. Cardinality(Pending(t)') = Cardinality(Pending(t)) + 1
  <2>1. Pending(t)' = Pending(t) \cup {i0} /\ i0 \notin Pending(t)
    BY <1>p DEF Inserted
  <2>2. Cardinality(Pending(t) \cup {i0}) = Cardinality(Pending(t)) + 1
    BY <1>y, <2>1, FS_AddElement
  <2>3. QED
    BY <2>1, <2>2
<1>b. \A r \in Threads, how \in {"unparkAny", "unparkAll"} :
        BeingUnparked(r, how) => BeingUnparked(r, how)'
  BY <1>i, <1>e, <1>v, <1>o DEF BeingUnparked, AfterPrologues, Resumes, Points
<1>1. WaitsTypes'
  <2>1. queue' \in [Waitables -> Seq(Blocks)]
    BY <1>i, <1>e, <1>0, <1>y, <1>q DEF WaitsTypes, Blocks
  <2>2. linked' \in [Threads -> SUBSET Nat]
    BY <1>i, <1>e, <1>0, <1>y DEF WaitsTypes
  <2>3. index' \in [Threads -> Nat]
    BY <1>i, <1>e, <1>0, <1>y DEF WaitsTypes
  <2>4. QED
    BY <1>i, <1>e, <2>1, <2>2, <2>3 DEF WaitsTypes, LookTypes
<1>2. CallOK(t)'
  <2>a. array'[t] = array[t] /\ Distinct(array[t]) /\ array[t] # <<>>
    BY <1>e, <1>l, <1>w DEF CallOK
  <2>b. index'[t] = i0 + 1 /\ i0 + 1 \in 1..Len(array[t])
    BY <1>e, <1>v, <1>y
  <2>1. /\ op'[t] = "all" /\ At(t)' = "prologueAll" /\ Distinct(array'[t])
        /\ array'[t] # <<>> /\ index'[t] \in 1..Len(array'[t])
    BY <1>e, <1>h, <1>l, <2>a, <2>b
  <2>2. QED
    BY <2>1 DEF CallOK, IsAny
<1>3. IndexOK(t)'
  <2>a. index'[t] = i0 + 1 /\ i0 \in Nat /\ Len(array[t]) \in Nat /\ i0 <= Len(array[t])
    BY <1>0, <1>v, <1>y, SMTT(30)
  <2>b. linked'[t] = linked[t] \cup {i0} /\ linked[t] \subseteq 1..(i0 - 1) /\ i0 \in 1..i0
    BY <1>0, <1>l, <1>v
  <2>1. /\ op'[t] = "all" /\ At(t)' = "prologueAll" /\ got'[t] = {} /\ linked'[t] \subseteq 1..i0
        /\ linked'[t] \subseteq 1..Len(array'[t]) /\ index'[t] - 1 = i0
    BY <1>e, <1>h, <1>l, <2>a, <2>b
  <2>2. QED
    BY <2>1, SMTT(30) DEF IndexOK, IsAny
<1>4. ParkerOK(t)'
  <2>1. At(t)' = "prologueAll" /\ op'[t] = "all"
    BY <1>e, <1>v, <1>h, <1>l DEF ParkerOK
  <2>2. QED
    BY <2>1 DEF ParkerOK, IsAny, Waiting
<1>5. CountOK(t)'
  <2>a. /\ count[t] = Cardinality(Pending(t)) + Len(array[t]) - i0 + 1 /\ count[t] # 0
        /\ Cardinality(Pending(t)) \in Nat /\ Len(array[t]) \in Nat /\ i0 \in Nat
    BY <1>0, <1>y
  <2>b. /\ Cardinality(Pending(t)') = Cardinality(Pending(t)) + 1 /\ op'[t] = "all"
        /\ count'[t] = count[t] /\ array'[t] = array[t] /\ index'[t] = i0 + 1
    BY <1>e, <1>l, <1>m, <1>v
  <2>1. /\ op'[t] = "all" /\ At(t)' = "prologueAll" /\ count'[t] # 0
        /\ count'[t] = Cardinality(Pending(t)') + Len(array'[t]) - index'[t] + 1
        /\ Cardinality(Pending(t)') \in Nat /\ Len(array'[t]) \in Nat /\ index'[t] \in Nat
    BY <2>a, <2>b, <1>h, SMTT(30)
  <2>2. QED
    BY <2>1 DEF CountOK, IsAny
<1>6. IsAny(t) /\ pc[t] \in Waiting => pc'[t] \in Waiting
  BY <1>0, <1>e, <1>v, <1>l, SMTT(30) DEF Waiting, IsAny
<1>7. QED
  BY <1>0, <1>e, <1>l, <1>n, <1>o, <1>1, <1>2, <1>3, <1>4, <1>5, <1>6, EnqueueStep

\* The last prologue of a wait-all inserts a block.
LEMMA AllEnqLastStep ==
  ASSUME WaitsInv, NEW t \in Threads,
         PrologueAll(t), ~AllowsAcquire(Object(t)), ~(index[t] < Len(array[t]))
  PROVE  WaitsInv'
<1>i. /\ WaitsTypes /\ ReleaserInv /\ CallInv /\ IndexInv /\ QueueInv /\ FrontInv
      /\ LinkedInv /\ ParkerInv /\ CountInv /\ PermitInv /\ TotalInv
      /\ NoThread \notin Threads /\ IsFiniteSet(Threads) /\ MaxCount \in Nat
  BY WaitsParts
<1>0. PICK w0 \in Waitables, i0 \in Nat :
            i0 = index[t] /\ i0 \in 1..Len(array[t]) /\ w0 = array[t][i0]
  <2>1. CallOK(t) /\ At(t) = "prologueAll" /\ index[t] \in 1..Len(array[t])
    BY <1>i
       DEF CallInv, CallOK, WaitsTypes, At, AtEnd, ReleaserInv, Releasing, Handing, PrologueAll,
           NextPrologue, Enqueue
  <2>2. QED
    BY <1>i, <2>1 DEF WaitsTypes
<1>e. /\ pc[t] = "prologueAll" /\ ~AllowsAcquire(w0) /\ ~(i0 < Len(array[t]))
      /\ queue' = [queue EXCEPT ![w0] = Append(queue[w0], <<t, i0>>)]
      /\ linked' = [linked EXCEPT ![t] = linked[t] \cup {i0}]
      /\ index' = [index EXCEPT ![t] = 1]
      /\ pc' = [pc EXCEPT ![t] = "park"]
      /\ UNCHANGED <<permits, holder, op, array, visited, count, key, got, serving, front, total>>
  BY <1>i, <1>0
     DEF PrologueAll, NextPrologue, Enqueue, semaphores, callVars, waitVars, Step, Goto,
         SetIndex, Object, AtEnd
<1>v. /\ queue'[w0] = Append(queue[w0], <<t, i0>>)
      /\ linked'[t] = linked[t] \cup {i0}
      /\ index'[t] = 1
      /\ pc'[t] = "park"
  BY <1>i, <1>e, <1>0 DEF WaitsTypes
<1>o. /\ \A r \in Waitables \ {w0} : queue'[r] = queue[r]
      /\ \A r \in Threads \ {t} : linked'[r] = linked[r]
      /\ \A r \in Threads \ {t} : index'[r] = index[r]
      /\ \A r \in Threads \ {t} : pc'[r] = pc[r]
  BY <1>i, <1>e DEF WaitsTypes
<1>h. /\ At(t) = "prologueAll" /\ At(t)' = "park"
      /\ \A r \in Threads \ {t} : At(r)' = At(r)
  <2>1. pc[t] \notin Releasing /\ UNCHANGED serving /\ \A r \in Threads \ {t} : pc'[r] = pc[r]
    BY <1>e, <1>o DEF Releasing, Handing
  <2>2. QED
    BY <1>i, <1>e, <1>v, <2>1, AtLemma
<1>f. \A r \in Threads \ {t} : SameLocal(r)
  BY <1>e, <1>o, <1>h DEF SameLocal
<1>w. CallOK(t) /\ IndexOK(t) /\ ParkerOK(t) /\ CountOK(t)
  BY <1>i, <1>0 DEF CallInv, IndexInv, ParkerInv, CountInv
<1>l. op[t] = "all" /\ got[t] = {} /\ i0 \notin linked[t] /\ i0 \notin got[t]
      /\ linked[t] \subseteq 1..(i0 - 1)
  <2>1. op[t] = "all"
    BY <1>i, <1>h, <1>w, SMTT(30) DEF CallOK, WaitsTypes, Ops
  <2>2. QED
    BY <1>h, <1>w, <1>0, <2>1 DEF IndexOK
<1>n. pc[t] \in Points \ {"lockSelf", "return"} /\ pc'[t] \in Points \ {"lockSelf", "return"}
  BY <1>0, <1>e, <1>v, SMTT(30) DEF Points
<1>p. Inserted(t, w0, i0)
  <2>1. /\ pc[t] \in Points /\ pc'[t] \in Points /\ UNCHANGED <<array, front>>
        /\ \A r \in Threads \ {t} : pc'[r] = pc[r]
    BY <1>e, <1>n, <1>o
  <2>2. QED
    BY <1>0, <1>e, <1>l, <2>1, EnqueueFacts
<1>q. Append(queue[w0], <<t, i0>>) \in Seq(Blocks)
  BY <1>p DEF Inserted
<1>y. /\ IsFiniteSet(Pending(t)) /\ Cardinality(Pending(t)) \in Nat /\ Len(array[t]) \in Nat
      /\ count[t] = Cardinality(Pending(t)) + Len(array[t]) - i0 + 1 /\ i0 \in 1..Len(array[t])
      /\ Pending(t) \subseteq linked[t] /\ count[t] \in Nat
      /\ count[t] - 1 \in Nat /\ count[t] # 0 /\ i0 + 1 \in Nat /\ linked[t] \cup {i0} \subseteq Nat
  <2>0. Len(array[t]) \in Nat
    BY <1>i DEF WaitsTypes
  <2>1. Pending(t) \subseteq linked[t] /\ Pending(t) \subseteq 1..Len(array[t])
        /\ i0 \in 1..Len(array[t]) /\ count[t] \in Nat
        /\ linked[t] \cup {i0} \subseteq Nat
    BY <1>i, <1>0, <1>w DEF Pending, IndexOK, WaitsTypes
  <2>2. IsFiniteSet(1..Len(array[t]))
    BY <2>0, UpToIsFinite
  <2>3. IsFiniteSet(Pending(t)) /\ Cardinality(Pending(t)) \in Nat
    BY <2>1, <2>2, FS_Subset, FS_CardinalityType
  <2>4. count[t] = Cardinality(Pending(t)) + (Len(array[t]) - i0 + 1)
    BY <1>0, <1>h, <1>l, <1>w DEF CountOK
  <2>5. i0 \in Nat /\ Len(array[t]) - i0 >= 0
    BY <2>0, <2>1
  <2>6. count[t] # 0 /\ count[t] - 1 \in Nat
        /\ count[t] = Cardinality(Pending(t)) + Len(array[t]) - i0 + 1
    BY <2>0, <2>1, <2>3, <2>4, <2>5, SMTT(30)
  <2>7. QED
    BY <2>0, <2>1, <2>3, <2>5, <2>6
<1>m. Cardinality(Pending(t)') = Cardinality(Pending(t)) + 1
  <2>1. Pending(t)' = Pending(t) \cup {i0} /\ i0 \notin Pending(t)
    BY <1>p DEF Inserted
  <2>2. Cardinality(Pending(t) \cup {i0}) = Cardinality(Pending(t)) + 1
    BY <1>y, <2>1, FS_AddElement
  <2>3. QED
    BY <2>1, <2>2
<1>b. \A r \in Threads, how \in {"unparkAny", "unparkAll"} :
        BeingUnparked(r, how) => BeingUnparked(r, how)'
  BY <1>i, <1>e, <1>v, <1>o DEF BeingUnparked, AfterPrologues, Resumes, Points
<1>1. WaitsTypes'
  <2>1. queue' \in [Waitables -> Seq(Blocks)]
    BY <1>i, <1>e, <1>0, <1>y, <1>q DEF WaitsTypes, Blocks
  <2>2. linked' \in [Threads -> SUBSET Nat]
    BY <1>i, <1>e, <1>0, <1>y DEF WaitsTypes
  <2>3. index' \in [Threads -> Nat]
    BY <1>i, <1>e, <1>0, <1>y DEF WaitsTypes
  <2>4. pc' \in [Threads -> Points \cup Releasing]
    BY <1>i, <1>e, <1>0, <1>y, SMTT(30) DEF WaitsTypes, Points, Resumes, Releasing, Handing
  <2>5. QED
    BY <1>i, <1>e, <2>1, <2>2, <2>3, <2>4 DEF WaitsTypes, LookTypes
<1>2. CallOK(t)'
  BY <1>i, <1>e, <1>v, <1>o, <1>0, <1>h, <1>f, <1>w, <1>l, <1>n, <1>p, <1>q, <1>y, <1>m, SMTT(30)
     DEF CallOK, IndexOK, ParkerOK, IsAny, AfterPrologues, Waiting
<1>3. IndexOK(t)'
  BY <1>i, <1>e, <1>v, <1>o, <1>0, <1>h, <1>f, <1>w, <1>l, <1>n, <1>p, <1>q, <1>y, <1>m
     DEF IndexOK, CallOK, ParkerOK, IsAny, AfterPrologues, Waiting
<1>4. ParkerOK(t)'
  <2>1. At(t)' = "park" /\ op'[t] = "all"
    BY <1>e, <1>v, <1>h, <1>l DEF ParkerOK
  <2>2. QED
    BY <2>1 DEF ParkerOK, IsAny, Waiting
<1>5. CountOK(t)'
  <2>1. /\ op'[t] = "all" /\ array'[t] = array[t] /\ At(t)' = "park" /\ count'[t] = count[t]
        /\ Cardinality(Pending(t)') = Cardinality(Pending(t)) + 1
    BY <1>e, <1>v, <1>h, <1>l, <1>m
  <2>2. count'[t] = Cardinality(Pending(t)') + 0 /\ count'[t] # 0
    BY <1>0, <1>e, <1>y, <2>1, SMTT(30)
  <2>3. QED
    BY <2>1, <2>2 DEF CountOK
<1>6. IsAny(t) /\ pc[t] \in Waiting => pc'[t] \in Waiting
  BY <1>0, <1>e, <1>v, <1>l DEF Waiting, IsAny
<1>7. QED
  BY <1>0, <1>e, <1>l, <1>n, <1>o, <1>1, <1>2, <1>3, <1>4, <1>5, <1>6, EnqueueStep

\* All blocks of a wait-all are marked: the objects are tried.
LEMMA SpinUnlinkedStep ==
  ASSUME WaitsInv, NEW t \in Threads,
         SpinUntilUnlinked(t)
  PROVE  WaitsInv'
<1>i. /\ WaitsTypes /\ ReleaserInv /\ CallInv /\ IndexInv /\ QueueInv /\ FrontInv
      /\ LinkedInv /\ ParkerInv /\ CountInv /\ PermitInv /\ TotalInv
      /\ NoThread \notin Threads /\ IsFiniteSet(Threads) /\ MaxCount \in Nat
  BY WaitsParts
<1>e. /\ pc[t] = "spinUnlinked" /\ linked[t] = {}
      /\ index' = [index EXCEPT ![t] = 1]
      /\ pc' = [pc EXCEPT ![t] = "tryAll"]
      /\ UNCHANGED <<permits, queue, holder, op, array, visited, count, key, linked, got,
                     serving, front, total>>
  BY <1>i
     DEF SpinUntilUnlinked, semaphores, callVars, waitVars, Step, Goto, SetIndex, Object, AtEnd
<1>v. /\ index'[t] = 1
      /\ pc'[t] = "tryAll"
  BY <1>i, <1>e DEF WaitsTypes
<1>o. /\ \A r \in Threads \ {t} : index'[r] = index[r]
      /\ \A r \in Threads \ {t} : pc'[r] = pc[r]
  BY <1>i, <1>e DEF WaitsTypes
<1>h. /\ At(t) = "spinUnlinked" /\ At(t)' = "tryAll"
      /\ \A r \in Threads \ {t} : At(r)' = At(r)
  <2>1. pc[t] \notin Releasing /\ UNCHANGED serving /\ \A r \in Threads \ {t} : pc'[r] = pc[r]
    BY <1>e, <1>o DEF Releasing, Handing
  <2>2. QED
    BY <1>i, <1>e, <1>v, <2>1, AtLemma
<1>f. \A r \in Threads \ {t} : SameLocal(r)
  BY <1>e, <1>o, <1>h DEF SameLocal
<1>w. CallOK(t) /\ IndexOK(t) /\ ParkerOK(t) /\ CountOK(t)
  BY <1>i DEF CallInv, IndexInv, ParkerInv, CountInv
<1>b. \A r \in Threads, how \in {"unparkAny", "unparkAll"} :
        BeingUnparked(r, how) => BeingUnparked(r, how)'
  BY <1>i, <1>e, <1>v, <1>o DEF BeingUnparked, AfterPrologues, Resumes, Points
<1>c. \A r \in Threads : op[r] = "all" => Pending(r)' = Pending(r)
  BY <1>i, <1>e, <1>v, <1>o DEF Pending, AfterPrologues, Resumes, Points
<1>1. WaitsTypes'
  <2>1. index' \in [Threads -> Nat]
    BY <1>i, <1>e DEF WaitsTypes
  <2>2. pc' \in [Threads -> Points \cup Releasing]
    BY <1>i, <1>e DEF WaitsTypes, Points, Resumes, Releasing, Handing
  <2>3. QED
    BY <1>i, <1>e, <2>1, <2>2 DEF WaitsTypes, LookTypes
<1>2. CallOK(t)'
  BY <1>i, <1>e, <1>v, <1>o, <1>h, <1>f, <1>w
     DEF CallOK, IndexOK, ParkerOK, IsAny, AfterPrologues, Waiting
<1>3. IndexOK(t)'
  <2>a. op[t] = "all" /\ got[t] = {}
    <3>1. op[t] = "all"
      BY <1>i, <1>h, <1>w DEF CallOK, WaitsTypes, Ops
    <3>2. QED
      BY <1>h, <1>w, <3>1 DEF IndexOK
  <2>1. /\ op'[t] = "all" /\ At(t)' = "tryAll" /\ linked'[t] = {} /\ got'[t] = {}
        /\ index'[t] - 1 = 0 /\ 1..0 = {}
    BY <1>e, <1>h, <1>v, <2>a
  <2>2. QED
    BY <2>1 DEF IndexOK, IsAny
<1>4. ParkerOK(t)'
  BY <1>i, <1>e, <1>v, <1>o, <1>h, <1>f, <1>w, <1>b
     DEF ParkerOK, CallOK, IndexOK, IsAny, Waiting, AfterPrologues
<1>5. CountOK(t)'
  BY <1>i, <1>e, <1>v, <1>o, <1>h, <1>f, <1>w, <1>b, <1>c
     DEF CountOK, CallOK, IndexOK, ParkerOK, IsAny, AfterPrologues
<1>6. /\ pc[t] \in Points \ {"lockSelf", "return"} /\ pc'[t] \in Points \ {"lockSelf"}
      /\ pc'[t] = "return" => linked[t] = {}
      /\ IsAny(t) /\ count[t] = 0 /\ key[t] = "none" /\ pc[t] \in Waiting =>
           count'[t] = 0 /\ key'[t] = "none" /\ pc'[t] \in Waiting
  BY <1>e, <1>v, <1>h, <1>w DEF Points, Waiting, IsAny, CallOK, IndexOK, ParkerOK
<1>7. QED
  BY <1>e, <1>o, <1>1, <1>2, <1>3, <1>4, <1>5, <1>6, OwnStep

\* TRY_ACQUIRE of a wait-all succeeds on one object.
LEMMA TryAllTakesStep ==
  ASSUME WaitsInv, NEW t \in Threads,
         TryAll(t), AllowsAcquire(Object(t))
  PROVE  WaitsInv'
<1>i. /\ WaitsTypes /\ ReleaserInv /\ CallInv /\ IndexInv /\ QueueInv /\ FrontInv
      /\ LinkedInv /\ ParkerInv /\ CountInv /\ PermitInv /\ TotalInv
      /\ NoThread \notin Threads /\ IsFiniteSet(Threads) /\ MaxCount \in Nat
  BY WaitsParts
<1>0. PICK w0 \in Waitables, i0 \in Nat :
            i0 = index[t] /\ i0 \in 1..Len(array[t]) /\ w0 = array[t][i0]
  <2>1. CallOK(t) /\ At(t) = "tryAll" /\ index[t] \in 1..Len(array[t])
    <3>1. At(t) = "tryAll"
      BY <1>i DEF At, ReleaserInv, Releasing, Handing, TryAll, AllowsAcquire
    <3>2. CallOK(t)
      BY <1>i DEF CallInv
    <3>3. index[t] \in 1..(Len(array[t]) + 1) /\ Len(array[t]) \in Nat /\ index[t] \in Nat
      BY <1>i, <3>1, <3>2 DEF CallOK, WaitsTypes, Ops
    <3>4. ~(index[t] > Len(array[t]))
      BY DEF AtEnd, TryAll, AllowsAcquire
    <3>5. QED
      BY <3>1, <3>2, <3>3, <3>4
  <2>2. QED
    BY <1>i, <2>1 DEF WaitsTypes
<1>e. /\ pc[t] = "tryAll" /\ permits[w0] > 0 /\ queue[w0] = <<>>
      /\ permits' = [permits EXCEPT ![w0] = permits[w0] - 1]
      /\ index' = [index EXCEPT ![t] = i0 + 1]
      /\ got' = [got EXCEPT ![t] = got[t] \cup {i0}]
      /\ UNCHANGED <<queue, holder, pc, op, array, visited, count, key, linked, serving, front,
                     total>>
  BY <1>i, <1>0
     DEF TryAll, AllowsAcquire, semaphores, callVars, waitVars, Step, Goto, SetIndex, Object,
         AtEnd
<1>v. /\ permits'[w0] = permits[w0] - 1
      /\ index'[t] = i0 + 1
      /\ got'[t] = got[t] \cup {i0}
  BY <1>i, <1>e, <1>0 DEF WaitsTypes
<1>o. /\ \A r \in Waitables \ {w0} : permits'[r] = permits[r]
      /\ \A r \in Threads \ {t} : index'[r] = index[r]
      /\ \A r \in Threads \ {t} : got'[r] = got[r]
  BY <1>i, <1>e DEF WaitsTypes
<1>h. /\ At(t) = "tryAll" /\ At(t)' = "tryAll"
      /\ \A r \in Threads \ {t} : At(r)' = At(r)
  <2>1. pc[t] \notin Releasing /\ UNCHANGED serving /\ \A r \in Threads \ {t} : pc'[r] = pc[r]
    BY <1>e DEF Releasing, Handing
  <2>2. QED
    BY <1>i, <1>e, <1>v, <2>1, AtLemma
<1>f. \A r \in Threads \ {t} : SameLocal(r)
  BY <1>e, <1>o, <1>h DEF SameLocal
<1>w. CallOK(t) /\ IndexOK(t) /\ ParkerOK(t) /\ CountOK(t)
  BY <1>i, <1>0 DEF CallInv, IndexInv, ParkerInv, CountInv
<1>l. op[t] = "all" /\ linked[t] = {} /\ got[t] = 1..(i0 - 1)
  <2>1. op[t] = "all"
    BY <1>i, <1>h, <1>w DEF CallOK, WaitsTypes, Ops
  <2>2. QED
    BY <1>h, <1>w, <1>0, <2>1 DEF IndexOK
<1>a. \A r \in Threads, j \in Nat, v \in Waitables : Valid(r, j, v) => Valid(r, j, v)'
  <2>1. \A j \in Nat, v \in Waitables : Valid(t, j, v) => Valid(t, j, v)'
    BY <1>i, <1>e, <1>v, <1>o, <1>0, <1>h, <1>f, <1>w, <1>l
       DEF Valid, CallOK, IndexOK, ParkerOK, IsAny, AfterPrologues, Waiting
  <2>2. QED
    BY <1>f, <2>1, FrameLemma
<1>b. \A r \in Threads, how \in {"unparkAny", "unparkAll"} :
        BeingUnparked(r, how) => BeingUnparked(r, how)'
  BY <1>i, <1>e, <1>v, <1>o DEF BeingUnparked, AfterPrologues, Resumes, Points
<1>c. \A r \in Threads : op[r] = "all" => Pending(r)' = Pending(r)
  BY <1>i, <1>e, <1>v, <1>o DEF Pending, AfterPrologues, Resumes, Points
<1>1. WaitsTypes'
  <2>1. permits' \in [Waitables -> Nat]
    <3>1. permits \in [Waitables -> Nat] /\ permits[w0] - 1 \in Nat
      BY <1>i, <1>e, <1>0, SMTT(30) DEF WaitsTypes
    <3>2. QED
      BY <1>e, <3>1
  <2>2. index' \in [Threads -> Nat]
    <3>1. index \in [Threads -> Nat] /\ i0 + 1 \in Nat
      BY <1>i, <1>e, <1>0, SMTT(30) DEF WaitsTypes
    <3>2. QED
      BY <1>e, <3>1
  <2>3. got' \in [Threads -> SUBSET Nat]
    BY <1>i, <1>e, <1>0 DEF WaitsTypes
  <2>4. QED
    BY <1>i, <1>e, <2>1, <2>2, <2>3 DEF WaitsTypes, LookTypes
<1>2. ReleaserInv'
  BY <1>i, <1>e, <1>v, <1>o, <1>0 DEF ReleaserInv, Releasing, Handing, AfterPrologues, NoBlock
<1>3. CallInv'
  <2>1. CallOK(t)'
    BY <1>i, <1>e, <1>v, <1>o, <1>0, <1>h, <1>f, <1>w, <1>l
       DEF CallOK, IndexOK, ParkerOK, IsAny, AfterPrologues, Waiting
  <2>2. QED
    BY <1>i, <1>f, <2>1, FrameLemma DEF CallInv
<1>4. IndexInv'
  <2>1. IndexOK(t)'
    <3>a. /\ op'[t] = "all" /\ At(t)' = "tryAll" /\ linked'[t] = {} /\ array'[t] = array[t]
          /\ got'[t] = (1..(i0 - 1)) \cup {i0} /\ index'[t] = i0 + 1
      BY <1>e, <1>h, <1>l, <1>v
    <3>b. /\ (1..(i0 - 1)) \cup {i0} = 1..i0 /\ i0 \in Nat /\ 1..i0 \subseteq 1..Len(array[t])
      BY <1>0
    <3>1. /\ op'[t] = "all" /\ At(t)' = "tryAll" /\ linked'[t] = {} /\ got'[t] = 1..i0
          /\ got'[t] \subseteq 1..Len(array'[t]) /\ index'[t] - 1 = i0
      BY <3>a, <3>b
    <3>2. QED
      BY <3>1 DEF IndexOK, IsAny
  <2>2. QED
    BY <1>i, <1>f, <2>1, FrameLemma DEF IndexInv
<1>5. QueueInv'
  BY <1>i, <1>e, <1>a DEF QueueInv
<1>6. FrontInv'
  <2>1. \A r \in Threads \ {t} : pc'[r] = pc[r] /\ serving'[r] = serving[r]
    BY <1>e, <1>v, <1>o
  <2>2. ASSUME NEW r \in Threads \ {t}, NEW q \in Threads, NEW j \in Nat,
               front[r] = <<q, j>>, FrontOK(r, q, j)
        PROVE  KeepsFront(r, q, j)
    <3>0. serving[r][1] \in Waitables
      BY <1>i, <2>2, HoldsFront
    <3>1. Valid(q, j, serving[r][1])'
      BY <1>a, <2>1, <2>2, <3>0 DEF FrontOK
    <3>2. ~In(<<q, j>>, queue'[serving[r][1]])
      BY <1>e, <2>2, <3>0 DEF FrontOK
    <3>3. (IsAny(q) => IsAny(q)') /\ (op[q] = "all" => op'[q] = "all")
      BY <1>i, <1>e, <1>v, <1>o, <2>2, <1>w, <1>l, <1>h DEF IsAny, FrontOK, Valid, IndexOK
    <3>4. pc[r] = "unparkAny" => count'[q] = 0 /\ key'[q] = "none" /\ At(q)' \in Waiting
      BY <1>i, <1>e, <1>v, <1>o, <1>0, <1>h, <1>f, <1>w, <1>l, <2>2
         DEF FrontOK, Waiting, AfterPrologues, CallOK, ParkerOK, Valid
    <3>5. QED
      BY <3>1, <3>2, <3>3, <3>4 DEF KeepsFront
  <2>3. pc[t] \notin Handing /\ pc'[t] # "unparkAny"
    BY <1>e, <1>v, <1>o, <1>0 DEF Handing, Resumes
  <2>4. QED
    BY <1>i, <1>e, <2>1, <2>2, <2>3, FrontKept
<1>7. LinkedInv'
  <2>1. ASSUME NEW r \in Threads, NEW j \in Nat, j \in linked'[r]
        PROVE  /\ j \in linked[r] /\ array'[r] = array[r] /\ (IsAny(r) => IsAny(r)')
               /\ IsAny(r) /\ (j \in got[r] \/ At(r) = "return") =>
                    j \in got'[r] \/ At(r)' = "return"
    BY <1>i, <1>e, <1>v, <1>o, <1>0, <1>h, <1>f, <1>w, <1>l, <2>1
       DEF SameLocal, IsAny, IndexOK, CallOK
  <2>2. QED
    BY <1>i, <1>e, <2>1, LinkedKept
<1>8. ParkerInv'
  <2>1. ParkerOK(t)'
    BY <1>i, <1>e, <1>v, <1>o, <1>0, <1>h, <1>f, <1>w, <1>l, <1>b
       DEF ParkerOK, CallOK, IndexOK, IsAny, Waiting, AfterPrologues
  <2>2. QED
    BY <1>i, <1>f, <1>b, <2>1, FrameLemma DEF ParkerInv
<1>9. CountInv'
  <2>1. CountOK(t)'
    BY <1>i, <1>e, <1>v, <1>o, <1>0, <1>h, <1>f, <1>w, <1>l, <1>b, <1>c
       DEF CountOK, CallOK, IndexOK, ParkerOK, IsAny, AfterPrologues
  <2>2. QED
    BY <1>i, <1>f, <1>b, <1>c, <2>1, FrameLemma DEF CountInv
<1>10. PermitInv'
  BY <1>i, <1>e, <1>v, <1>o, <1>0 DEF PermitInv, AllowsAcquire
<1>11. TotalInv'
  <2>1. /\ \A v \in Waitables \ {w0} : Used(v)' = Used(v)
        /\ IsFiniteSet(Used(w0)') /\ Cardinality(Used(w0)) \in Nat
        /\ Cardinality(Used(w0)') = Cardinality(Used(w0)) + 1
    <3>1. /\ t \in Threads /\ i0 \in Nat /\ w0 \in Waitables
          /\ i0 \notin got[t] /\ array[t][i0] = w0
          /\ got'[t] = got[t] \cup {i0}
      BY <1>i, <1>e, <1>v, <1>o, <1>0, <1>h, <1>f, <1>w, <1>l DEF Valid, WaitsTypes
    <3>2. UNCHANGED array /\ \A r \in Threads \ {t} : got'[r] = got[r]
      BY <1>e, <1>o
    <3>3. QED
      BY <1>i, <3>1, <3>2, UsedAdds
  <2>2. /\ \A v \in Waitables : InHands(v)' = InHands(v)
        /\ Cardinality(InHands(w0)) \in Nat
        /\ Cardinality(InHands(w0)') = Cardinality(InHands(w0))
    <3>1. \A v \in Waitables : \A r \in Threads : InHand(r, v)' <=> InHand(r, v)
      BY <1>i, <1>e, <1>v, <1>o, <1>0 DEF InHand, Resumes, AfterPrologues, Points
    <3>2. QED
      BY <1>i, <1>0, <3>1, HandsKept
  <2>3. /\ permits'[w0] = permits[w0] - 1 /\ permits[w0] \in Nat
        /\ total'[w0] = total[w0] /\ total[w0] \in Int
        /\ \A v \in Waitables \ {w0} : permits'[v] = permits[v] /\ total'[v] = total[v]
    BY <1>i, <1>e, <1>v, <1>o, <1>0 DEF WaitsTypes
  <2>4. ASSUME TotalOK(w0)
        PROVE  total'[w0] = permits'[w0] + Cardinality(Used(w0)') + Cardinality(InHands(w0)')
    <3>1. total[w0] = permits[w0] + Cardinality(Used(w0)) + Cardinality(InHands(w0))
      BY <2>4 DEF TotalOK
    <3>2. QED
      BY <2>1, <2>2, <2>3, <3>1
  <2>5. QED
    BY <1>i, <2>1, <2>2, <2>3, <2>4, <1>0, TotalLemma
<1>12. QED
  BY <1>1, <1>2, <1>3, <1>4, <1>5, <1>6, <1>7, <1>8, <1>9, <1>10, <1>11 DEF WaitsInv

\* TRY_ACQUIRE of a wait-all fails on one object: what was acquired is undone.
LEMMA TryAllFailsStep ==
  ASSUME WaitsInv, NEW t \in Threads,
         TryAll(t), ~AllowsAcquire(Object(t))
  PROVE  WaitsInv'
<1>i. /\ WaitsTypes /\ ReleaserInv /\ CallInv /\ IndexInv /\ QueueInv /\ FrontInv
      /\ LinkedInv /\ ParkerInv /\ CountInv /\ PermitInv /\ TotalInv
      /\ NoThread \notin Threads /\ IsFiniteSet(Threads) /\ MaxCount \in Nat
  BY WaitsParts
<1>0. PICK w0 \in Waitables, i0 \in Nat :
            i0 = index[t] /\ i0 \in 1..Len(array[t]) /\ w0 = array[t][i0]
  <2>1. CallOK(t) /\ At(t) = "tryAll" /\ index[t] \in 1..Len(array[t])
    <3>1. At(t) = "tryAll"
      BY <1>i DEF At, ReleaserInv, Releasing, Handing, TryAll
    <3>2. CallOK(t)
      BY <1>i DEF CallInv
    <3>3. index[t] \in 1..(Len(array[t]) + 1) /\ Len(array[t]) \in Nat /\ index[t] \in Nat
      BY <1>i, <3>1, <3>2 DEF CallOK, WaitsTypes, Ops
    <3>4. ~(index[t] > Len(array[t]))
      BY DEF AtEnd, TryAll
    <3>5. QED
      BY <3>1, <3>2, <3>3, <3>4
  <2>2. QED
    BY <1>i, <2>1 DEF WaitsTypes
<1>e. /\ pc[t] = "tryAll"
      /\ index' = [index EXCEPT ![t] = i0 - 1]
      /\ pc' = [pc EXCEPT ![t] = "undo"]
      /\ UNCHANGED <<permits, queue, holder, op, array, visited, count, key, linked, got,
                     serving, front, total>>
  BY <1>i, <1>0 DEF TryAll, semaphores, callVars, waitVars, Step, Goto, SetIndex, Object, AtEnd
<1>v. /\ index'[t] = i0 - 1
      /\ pc'[t] = "undo"
  BY <1>i, <1>e, <1>0 DEF WaitsTypes
<1>o. /\ \A r \in Threads \ {t} : index'[r] = index[r]
      /\ \A r \in Threads \ {t} : pc'[r] = pc[r]
  BY <1>i, <1>e DEF WaitsTypes
<1>h. /\ At(t) = "tryAll" /\ At(t)' = "undo"
      /\ \A r \in Threads \ {t} : At(r)' = At(r)
  <2>1. pc[t] \notin Releasing /\ UNCHANGED serving /\ \A r \in Threads \ {t} : pc'[r] = pc[r]
    BY <1>e, <1>o DEF Releasing, Handing
  <2>2. QED
    BY <1>i, <1>e, <1>v, <2>1, AtLemma
<1>f. \A r \in Threads \ {t} : SameLocal(r)
  BY <1>e, <1>o, <1>h DEF SameLocal
<1>w. CallOK(t) /\ IndexOK(t) /\ ParkerOK(t) /\ CountOK(t)
  BY <1>i, <1>0 DEF CallInv, IndexInv, ParkerInv, CountInv
<1>l. op[t] = "all" /\ linked[t] = {} /\ got[t] = 1..(i0 - 1)
  <2>1. op[t] = "all"
    BY <1>i, <1>h, <1>w DEF CallOK, WaitsTypes, Ops
  <2>2. QED
    BY <1>h, <1>w, <1>0, <2>1 DEF IndexOK
<1>b. \A r \in Threads, how \in {"unparkAny", "unparkAll"} :
        BeingUnparked(r, how) => BeingUnparked(r, how)'
  BY <1>i, <1>e, <1>v, <1>o DEF BeingUnparked, AfterPrologues, Resumes, Points
<1>c. \A r \in Threads : op[r] = "all" => Pending(r)' = Pending(r)
  BY <1>i, <1>e, <1>v, <1>o DEF Pending, AfterPrologues, Resumes, Points
<1>1. WaitsTypes'
  <2>1. index' \in [Threads -> Nat]
    BY <1>i, <1>e, <1>0, SMTT(30) DEF WaitsTypes
  <2>2. pc' \in [Threads -> Points \cup Releasing]
    BY <1>i, <1>e, <1>0 DEF WaitsTypes, Points, Resumes, Releasing, Handing
  <2>3. QED
    BY <1>i, <1>e, <2>1, <2>2 DEF WaitsTypes, LookTypes
<1>2. CallOK(t)'
  BY <1>i, <1>e, <1>v, <1>o, <1>0, <1>h, <1>f, <1>w, <1>l
     DEF CallOK, IndexOK, ParkerOK, IsAny, AfterPrologues, Waiting
<1>3. IndexOK(t)'
  BY <1>i, <1>e, <1>v, <1>o, <1>0, <1>h, <1>f, <1>w, <1>l
     DEF IndexOK, CallOK, ParkerOK, IsAny, AfterPrologues, Waiting
<1>4. ParkerOK(t)'
  BY <1>i, <1>e, <1>v, <1>o, <1>0, <1>h, <1>f, <1>w, <1>l, <1>b
     DEF ParkerOK, CallOK, IndexOK, IsAny, Waiting, AfterPrologues
<1>5. CountOK(t)'
  BY <1>i, <1>e, <1>v, <1>o, <1>0, <1>h, <1>f, <1>w, <1>l, <1>b, <1>c
     DEF CountOK, CallOK, IndexOK, ParkerOK, IsAny, AfterPrologues
<1>6. /\ pc[t] \in Points \ {"lockSelf", "return"} /\ pc'[t] \in Points \ {"lockSelf"}
      /\ pc'[t] = "return" => linked[t] = {}
      /\ IsAny(t) /\ count[t] = 0 /\ key[t] = "none" /\ pc[t] \in Waiting =>
           count'[t] = 0 /\ key'[t] = "none" /\ pc'[t] \in Waiting
  BY <1>e, <1>v, <1>h, <1>w, <1>l DEF Points, Waiting, IsAny, CallOK, IndexOK, ParkerOK
<1>7. QED
  BY <1>e, <1>o, <1>1, <1>2, <1>3, <1>4, <1>5, <1>6, OwnStep

\* UNDO_ACQUIRE on one object.
LEMMA UndoStep ==
  ASSUME WaitsInv, NEW t \in Threads,
         Undo(t)
  PROVE  WaitsInv'
<1>i. /\ WaitsTypes /\ ReleaserInv /\ CallInv /\ IndexInv /\ QueueInv /\ FrontInv
      /\ LinkedInv /\ ParkerInv /\ CountInv /\ PermitInv /\ TotalInv
      /\ NoThread \notin Threads /\ IsFiniteSet(Threads) /\ MaxCount \in Nat
  BY WaitsParts
<1>0. PICK w0 \in Waitables, i0 \in Nat :
            i0 = index[t] /\ i0 \in 1..Len(array[t]) /\ w0 = array[t][i0]
  <2>1. CallOK(t) /\ At(t) = "undo" /\ index[t] \in 1..Len(array[t])
    <3>1. At(t) = "undo"
      BY <1>i DEF At, ReleaserInv, Releasing, Handing, Undo
    <3>2. CallOK(t)
      BY <1>i DEF CallInv
    <3>3. index[t] \in 0..(Len(array[t])) /\ Len(array[t]) \in Nat /\ index[t] \in Nat
      BY <1>i, <3>1, <3>2 DEF CallOK, WaitsTypes, Ops
    <3>4. index[t] > 0
      BY DEF AtEnd, Undo
    <3>5. QED
      BY <3>1, <3>2, <3>3, <3>4
  <2>2. QED
    BY <1>i, <2>1, SMTT(30) DEF WaitsTypes
<1>e. /\ pc[t] = "undo" /\ index[t] > 0
      /\ index' = [index EXCEPT ![t] = i0 - 1]
      /\ got' = [got EXCEPT ![t] = got[t] \ {i0}]
      /\ Look(t, w0, permits[w0] + 1, "undo")
      /\ UNCHANGED <<queue, op, array, visited, count, key, linked, front, total>>
  BY <1>i, <1>0 DEF Undo, semaphores, callVars, waitVars, Step, Goto, SetIndex, Object, AtEnd
<1>k. /\ permits[w0] + 1 \in Nat /\ "undo" \in Resumes /\ pc[t] \in Points /\ w0 \in Waitables
  <2>1. permits \in [Waitables -> Nat] /\ pc[t] = "undo"
    BY <1>i, <1>e DEF WaitsTypes
  <2>2. QED
    BY <1>0, <2>1 DEF Points, Resumes
<1>x. /\ At(t) = pc[t] /\ At(t)' = "undo" /\ pc'[t] \in {"undo", "release"}
      /\ permits'[w0] = permits[w0] + 1 /\ \A r \in Waitables \ {w0} : permits'[r] = permits[r]
      /\ \A r \in Threads \ {t} : pc'[r] = pc[r] /\ serving'[r] = serving[r]
      /\ LookTypes' /\ ReleaserInv' /\ PermitInv'
  BY <1>i, <1>e, <1>k, LookLemma
<1>v. /\ index'[t] = i0 - 1
      /\ got'[t] = got[t] \ {i0}
  BY <1>i, <1>e, <1>0 DEF WaitsTypes
<1>o. /\ \A r \in Threads \ {t} : index'[r] = index[r]
      /\ \A r \in Threads \ {t} : got'[r] = got[r]
  BY <1>i, <1>e DEF WaitsTypes
<1>h. /\ At(t) = pc[t] /\ At(t)' = "undo"
      /\ \A r \in Threads \ {t} : At(r)' = At(r)
  BY <1>x DEF At
<1>f. \A r \in Threads \ {t} : SameLocal(r)
  BY <1>e, <1>o, <1>h DEF SameLocal
<1>w. CallOK(t) /\ IndexOK(t) /\ ParkerOK(t) /\ CountOK(t)
  BY <1>i, <1>0 DEF CallInv, IndexInv, ParkerInv, CountInv
<1>l. op[t] = "all" /\ linked[t] = {} /\ got[t] = 1..i0
  <2>1. op[t] = "all" /\ At(t) = "undo"
    BY <1>i, <1>e, <1>h, <1>w DEF CallOK, WaitsTypes, Ops
  <2>2. QED
    BY <1>w, <1>0, <2>1 DEF IndexOK
<1>a. \A r \in Threads, j \in Nat, v \in Waitables : Valid(r, j, v) => Valid(r, j, v)'
  <2>1. \A j \in Nat, v \in Waitables : Valid(t, j, v) => Valid(t, j, v)'
    BY <1>i, <1>e, <1>x, <1>v, <1>o, <1>0, <1>h, <1>f, <1>w, <1>l
       DEF Valid, CallOK, IndexOK, ParkerOK, IsAny, AfterPrologues, Waiting
  <2>2. QED
    BY <1>f, <2>1, FrameLemma
<1>b. \A r \in Threads, how \in {"unparkAny", "unparkAll"} :
        BeingUnparked(r, how) => BeingUnparked(r, how)'
  BY <1>i, <1>e, <1>x, <1>v, <1>o DEF BeingUnparked, AfterPrologues, Resumes, Points
<1>c. \A r \in Threads : op[r] = "all" => Pending(r)' = Pending(r)
  BY <1>i, <1>e, <1>x, <1>v, <1>o DEF Pending, AfterPrologues, Resumes, Points
<1>1. WaitsTypes'
  <2>1. index' \in [Threads -> Nat]
    <3>1. index \in [Threads -> Nat] /\ i0 - 1 \in Nat
      BY <1>i, <1>e, <1>0, SMTT(30) DEF WaitsTypes
    <3>2. QED
      BY <1>e, <3>1
  <2>2. got' \in [Threads -> SUBSET Nat]
    BY <1>i, <1>e, <1>0 DEF WaitsTypes
  <2>3. QED
    BY <1>i, <1>e, <1>x, <2>1, <2>2 DEF WaitsTypes, LookTypes
<1>2. ReleaserInv'
  BY <1>x
<1>3. CallInv'
  <2>1. CallOK(t)'
    BY <1>i, <1>e, <1>x, <1>v, <1>o, <1>0, <1>h, <1>f, <1>w, <1>l
       DEF CallOK, IndexOK, ParkerOK, IsAny, AfterPrologues, Waiting
  <2>2. QED
    BY <1>i, <1>f, <2>1, FrameLemma DEF CallInv
<1>4. IndexInv'
  <2>1. IndexOK(t)'
    <3>a. /\ op'[t] = "all" /\ At(t)' = "undo" /\ linked'[t] = {} /\ array'[t] = array[t]
          /\ got'[t] = (1..i0) \ {i0} /\ index'[t] = i0 - 1
      BY <1>e, <1>h, <1>l, <1>v
    <3>b. /\ (1..i0) \ {i0} = 1..(i0 - 1) /\ 1..(i0 - 1) \subseteq 1..Len(array[t])
      BY <1>0
    <3>1. /\ op'[t] = "all" /\ At(t)' = "undo" /\ linked'[t] = {} /\ got'[t] = 1..(i0 - 1)
          /\ got'[t] \subseteq 1..Len(array'[t]) /\ index'[t] = i0 - 1
      BY <3>a, <3>b
    <3>2. QED
      BY <3>1 DEF IndexOK, IsAny
  <2>2. QED
    BY <1>i, <1>f, <2>1, FrameLemma DEF IndexInv
<1>5. QueueInv'
  BY <1>i, <1>e, <1>a DEF QueueInv
<1>6. FrontInv'
  <2>1. \A r \in Threads \ {t} : pc'[r] = pc[r] /\ serving'[r] = serving[r]
    BY <1>e, <1>x, <1>v, <1>o
  <2>2. ASSUME NEW r \in Threads \ {t}, NEW q \in Threads, NEW j \in Nat,
               front[r] = <<q, j>>, FrontOK(r, q, j)
        PROVE  KeepsFront(r, q, j)
    <3>0. serving[r][1] \in Waitables
      BY <1>i, <2>2, HoldsFront
    <3>1. Valid(q, j, serving[r][1])'
      BY <1>a, <2>1, <2>2, <3>0 DEF FrontOK
    <3>2. ~In(<<q, j>>, queue'[serving[r][1]])
      BY <1>e, <2>2, <3>0 DEF FrontOK
    <3>3. (IsAny(q) => IsAny(q)') /\ (op[q] = "all" => op'[q] = "all")
      BY <1>i, <1>e, <1>x, <1>v, <1>o, <2>2, <1>w, <1>l, <1>h DEF IsAny, FrontOK, Valid, IndexOK
    <3>4. pc[r] = "unparkAny" => count'[q] = 0 /\ key'[q] = "none" /\ At(q)' \in Waiting
      BY <1>i, <1>e, <1>x, <1>v, <1>o, <1>0, <1>h, <1>f, <1>w, <1>l, <2>2
         DEF FrontOK, Waiting, AfterPrologues, CallOK, ParkerOK, Valid
    <3>5. QED
      BY <3>1, <3>2, <3>3, <3>4 DEF KeepsFront
  <2>3. pc[t] \notin Handing /\ pc'[t] # "unparkAny"
    BY <1>e, <1>x, <1>v, <1>o, <1>0 DEF Handing, Resumes
  <2>4. QED
    BY <1>i, <1>e, <2>1, <2>2, <2>3, FrontKept
<1>7. LinkedInv'
  <2>1. ASSUME NEW r \in Threads, NEW j \in Nat, j \in linked'[r]
        PROVE  /\ j \in linked[r] /\ array'[r] = array[r] /\ (IsAny(r) => IsAny(r)')
               /\ IsAny(r) /\ (j \in got[r] \/ At(r) = "return") =>
                    j \in got'[r] \/ At(r)' = "return"
    BY <1>i, <1>e, <1>x, <1>v, <1>o, <1>0, <1>h, <1>f, <1>w, <1>l, <2>1
       DEF SameLocal, IsAny, IndexOK, CallOK
  <2>2. QED
    BY <1>i, <1>e, <2>1, LinkedKept
<1>8. ParkerInv'
  <2>1. ParkerOK(t)'
    BY <1>i, <1>e, <1>x, <1>v, <1>o, <1>0, <1>h, <1>f, <1>w, <1>l, <1>b
       DEF ParkerOK, CallOK, IndexOK, IsAny, Waiting, AfterPrologues
  <2>2. QED
    BY <1>i, <1>f, <1>b, <2>1, FrameLemma DEF ParkerInv
<1>9. CountInv'
  <2>1. CountOK(t)'
    BY <1>i, <1>e, <1>x, <1>v, <1>o, <1>0, <1>h, <1>f, <1>w, <1>l, <1>b, <1>c
       DEF CountOK, CallOK, IndexOK, ParkerOK, IsAny, AfterPrologues
  <2>2. QED
    BY <1>i, <1>f, <1>b, <1>c, <2>1, FrameLemma DEF CountInv
<1>10. PermitInv'
  BY <1>x
<1>11. TotalInv'
  <2>1. /\ \A v \in Waitables \ {w0} : Used(v)' = Used(v)
        /\ IsFiniteSet(Used(w0)') /\ Cardinality(Used(w0)) \in Nat
        /\ Cardinality(Used(w0)') = Cardinality(Used(w0)) - 1
    <3>1. /\ t \in Threads /\ i0 \in Nat /\ w0 \in Waitables
          /\ i0 \in got[t] /\ array[t][i0] = w0
          /\ got'[t] = got[t] \ {i0}
      BY <1>i, <1>e, <1>x, <1>v, <1>o, <1>0, <1>h, <1>f, <1>w, <1>l DEF Valid, WaitsTypes
    <3>2. UNCHANGED array /\ \A r \in Threads \ {t} : got'[r] = got[r]
      BY <1>e, <1>o
    <3>3. QED
      BY <1>i, <3>1, <3>2, UsedRemoves
  <2>2. /\ \A v \in Waitables : InHands(v)' = InHands(v)
        /\ Cardinality(InHands(w0)) \in Nat
        /\ Cardinality(InHands(w0)') = Cardinality(InHands(w0))
    <3>1. \A v \in Waitables : \A r \in Threads : InHand(r, v)' <=> InHand(r, v)
      BY <1>i, <1>e, <1>x, <1>v, <1>o, <1>0 DEF InHand, Resumes, AfterPrologues, Points
    <3>2. QED
      BY <1>i, <1>0, <1>k, <3>1, HandsKept
  <2>3. /\ permits'[w0] = permits[w0] + 1 /\ permits[w0] \in Nat
        /\ total'[w0] = total[w0] /\ total[w0] \in Int
        /\ \A v \in Waitables \ {w0} : permits'[v] = permits[v] /\ total'[v] = total[v]
    BY <1>i, <1>e, <1>x, <1>v, <1>o, <1>0, <1>k DEF WaitsTypes
  <2>4. ASSUME TotalOK(w0)
        PROVE  total'[w0] = permits'[w0] + Cardinality(Used(w0)') + Cardinality(InHands(w0)')
    <3>1. total[w0] = permits[w0] + Cardinality(Used(w0)) + Cardinality(InHands(w0))
      BY <2>4 DEF TotalOK
    <3>2. QED
      BY <2>1, <2>2, <2>3, <3>1
  <2>5. QED
    BY <1>i, <2>1, <2>2, <2>3, <2>4, <1>0, <1>k, TotalLemma
<1>12. QED
  BY <1>1, <1>2, <1>3, <1>4, <1>5, <1>6, <1>7, <1>8, <1>9, <1>10, <1>11 DEF WaitsInv

\* Nothing is acquired any more: the wait-all begins again.
LEMMA AgainWaitsStep ==
  ASSUME WaitsInv, NEW t \in Threads,
         Again(t), pc'[t] = "prologueAll"
  PROVE  WaitsInv'
<1>i. /\ WaitsTypes /\ ReleaserInv /\ CallInv /\ IndexInv /\ QueueInv /\ FrontInv
      /\ LinkedInv /\ ParkerInv /\ CountInv /\ PermitInv /\ TotalInv
      /\ NoThread \notin Threads /\ IsFiniteSet(Threads) /\ MaxCount \in Nat
  BY WaitsParts
<1>e. /\ pc[t] = "undo" /\ index[t] = 0
      /\ pc' = [pc EXCEPT ![t] = "prologueAll"]
      /\ index' = [index EXCEPT ![t] = 1]
      /\ count' = [count EXCEPT ![t] = Len(array[t])]
      /\ key' = [key EXCEPT ![t] = "none"]
      /\ UNCHANGED <<permits, queue, holder, op, array, visited, linked, got, serving, front,
                     total>>
  BY <1>i
     DEF Again, WaitsTypes, semaphores, callVars, waitVars, Step, Goto, SetIndex, Object, AtEnd
<1>v. /\ pc'[t] = "prologueAll"
      /\ index'[t] = 1
      /\ count'[t] = Len(array[t])
      /\ key'[t] = "none"
  BY <1>i, <1>e DEF WaitsTypes
<1>o. /\ \A r \in Threads \ {t} : pc'[r] = pc[r]
      /\ \A r \in Threads \ {t} : index'[r] = index[r]
      /\ \A r \in Threads \ {t} : count'[r] = count[r]
      /\ \A r \in Threads \ {t} : key'[r] = key[r]
  BY <1>i, <1>e DEF WaitsTypes
<1>h. /\ At(t) = "undo" /\ At(t)' = "prologueAll"
      /\ \A r \in Threads \ {t} : At(r)' = At(r)
  <2>1. pc[t] \notin Releasing /\ UNCHANGED serving /\ \A r \in Threads \ {t} : pc'[r] = pc[r]
    BY <1>e, <1>o DEF Releasing, Handing
  <2>2. QED
    BY <1>i, <1>e, <1>v, <2>1, AtLemma
<1>f. \A r \in Threads \ {t} : SameLocal(r)
  BY <1>e, <1>o, <1>h DEF SameLocal
<1>w. CallOK(t) /\ IndexOK(t) /\ ParkerOK(t) /\ CountOK(t)
  BY <1>i DEF CallInv, IndexInv, ParkerInv, CountInv
<1>y. op[t] = "all" /\ Len(array[t]) \in Nat /\ Len(array[t]) >= 1
  <2>1. op[t] = "all" /\ array[t] \in Seq(Waitables)
    BY <1>i, <1>h, <1>w DEF CallOK, WaitsTypes, Ops
  <2>2. array[t] # <<>>
    BY <1>w, <2>1 DEF CallOK
  <2>3. QED
    BY <2>1, <2>2
<1>z. Pending(t)' = {} /\ Cardinality(Pending(t)') = 0
  <2>1. Pending(t)' = {}
    BY <1>e, <1>h, <1>w DEF Pending, IndexOK
  <2>2. QED
    BY <2>1, FS_EmptySet
<1>b. \A r \in Threads, how \in {"unparkAny", "unparkAll"} :
        BeingUnparked(r, how) => BeingUnparked(r, how)'
  BY <1>i, <1>e, <1>v, <1>o DEF BeingUnparked, AfterPrologues, Resumes, Points
<1>c. \A r \in Threads : op[r] = "all" => Pending(r)' = Pending(r)
  BY <1>i, <1>e, <1>v, <1>o DEF Pending, AfterPrologues, Resumes, Points
<1>1. WaitsTypes'
  <2>1. pc' \in [Threads -> Points \cup Releasing]
    BY <1>i, <1>e, <1>y DEF WaitsTypes, Points, Resumes, Releasing, Handing
  <2>2. index' \in [Threads -> Nat]
    BY <1>i, <1>e, <1>y DEF WaitsTypes
  <2>3. count' \in [Threads -> Nat]
    BY <1>i, <1>e, <1>y DEF WaitsTypes
  <2>4. key' \in [Threads -> Keys]
    BY <1>i, <1>e, <1>y DEF WaitsTypes, Keys
  <2>5. QED
    BY <1>i, <1>e, <2>1, <2>2, <2>3, <2>4 DEF WaitsTypes, LookTypes
<1>2. CallOK(t)'
  BY <1>i, <1>e, <1>v, <1>o, <1>h, <1>f, <1>w, <1>y, <1>z
     DEF CallOK, IndexOK, ParkerOK, IsAny, AfterPrologues, Waiting
<1>3. IndexOK(t)'
  BY <1>i, <1>e, <1>v, <1>o, <1>h, <1>f, <1>w, <1>y, <1>z
     DEF IndexOK, CallOK, ParkerOK, IsAny, AfterPrologues, Waiting
<1>4. ParkerOK(t)'
  BY <1>i, <1>e, <1>v, <1>o, <1>h, <1>f, <1>w, <1>y, <1>z, <1>b
     DEF ParkerOK, CallOK, IndexOK, IsAny, Waiting, AfterPrologues
<1>5. CountOK(t)'
  BY <1>e, <1>v, <1>h, <1>y, <1>z DEF CountOK
<1>6. /\ pc[t] \in Points \ {"lockSelf", "return"} /\ pc'[t] \in Points \ {"lockSelf"}
      /\ pc'[t] = "return" => linked[t] = {}
      /\ IsAny(t) /\ count[t] = 0 /\ key[t] = "none" /\ pc[t] \in Waiting =>
           count'[t] = 0 /\ key'[t] = "none" /\ pc'[t] \in Waiting
  BY <1>e, <1>v, <1>h, <1>w DEF Points, Waiting, IsAny, CallOK, IndexOK, ParkerOK
<1>7. QED
  BY <1>e, <1>o, <1>1, <1>2, <1>3, <1>4, <1>5, <1>6, OwnStep

\* Nothing is acquired any more: the wait-all returns.
LEMMA AgainReturnsStep ==
  ASSUME WaitsInv, NEW t \in Threads,
         Again(t), pc'[t] # "prologueAll"
  PROVE  WaitsInv'
<1>i. /\ WaitsTypes /\ ReleaserInv /\ CallInv /\ IndexInv /\ QueueInv /\ FrontInv
      /\ LinkedInv /\ ParkerInv /\ CountInv /\ PermitInv /\ TotalInv
      /\ NoThread \notin Threads /\ IsFiniteSet(Threads) /\ MaxCount \in Nat
  BY WaitsParts
<1>e. /\ pc[t] = "undo" /\ index[t] = 0
      /\ pc' = [pc EXCEPT ![t] = "return"]
      /\ UNCHANGED <<permits, queue, holder, op, array, index, visited, count, key, linked, got,
                     serving, front, total>>
  BY <1>i
     DEF Again, WaitsTypes, semaphores, callVars, waitVars, Step, Goto, SetIndex, Object, AtEnd
<1>v. /\ pc'[t] = "return"
  BY <1>i, <1>e DEF WaitsTypes
<1>o. /\ \A r \in Threads \ {t} : pc'[r] = pc[r]
  BY <1>i, <1>e DEF WaitsTypes
<1>h. /\ At(t) = "undo" /\ At(t)' = "return"
      /\ \A r \in Threads \ {t} : At(r)' = At(r)
  <2>1. pc[t] \notin Releasing /\ UNCHANGED serving /\ \A r \in Threads \ {t} : pc'[r] = pc[r]
    BY <1>e, <1>o DEF Releasing, Handing
  <2>2. QED
    BY <1>i, <1>e, <1>v, <2>1, AtLemma
<1>f. \A r \in Threads \ {t} : SameLocal(r)
  BY <1>e, <1>o, <1>h DEF SameLocal
<1>w. CallOK(t) /\ IndexOK(t) /\ ParkerOK(t) /\ CountOK(t)
  BY <1>i DEF CallInv, IndexInv, ParkerInv, CountInv
<1>b. \A r \in Threads, how \in {"unparkAny", "unparkAll"} :
        BeingUnparked(r, how) => BeingUnparked(r, how)'
  BY <1>i, <1>e, <1>v, <1>o DEF BeingUnparked, AfterPrologues, Resumes, Points
<1>c. \A r \in Threads : op[r] = "all" => Pending(r)' = Pending(r)
  BY <1>i, <1>e, <1>v, <1>o DEF Pending, AfterPrologues, Resumes, Points
<1>1. WaitsTypes'
  <2>1. pc' \in [Threads -> Points \cup Releasing]
    BY <1>i, <1>e DEF WaitsTypes, Points, Resumes, Releasing, Handing
  <2>2. QED
    BY <1>i, <1>e, <2>1 DEF WaitsTypes, LookTypes
<1>2. CallOK(t)'
  BY <1>i, <1>e, <1>v, <1>o, <1>h, <1>f, <1>w
     DEF CallOK, IndexOK, ParkerOK, IsAny, AfterPrologues, Waiting
<1>3. IndexOK(t)'
  BY <1>i, <1>e, <1>v, <1>o, <1>h, <1>f, <1>w
     DEF IndexOK, CallOK, ParkerOK, IsAny, AfterPrologues, Waiting
<1>4. ParkerOK(t)'
  BY <1>i, <1>e, <1>v, <1>o, <1>h, <1>f, <1>w, <1>b
     DEF ParkerOK, CallOK, IndexOK, IsAny, Waiting, AfterPrologues
<1>5. CountOK(t)'
  BY <1>i, <1>e, <1>v, <1>o, <1>h, <1>f, <1>w, <1>b, <1>c
     DEF CountOK, CallOK, IndexOK, ParkerOK, IsAny, AfterPrologues
<1>6. /\ pc[t] \in Points \ {"lockSelf", "return"} /\ pc'[t] \in Points \ {"lockSelf"}
      /\ pc'[t] = "return" => linked[t] = {}
      /\ IsAny(t) /\ count[t] = 0 /\ key[t] = "none" /\ pc[t] \in Waiting =>
           count'[t] = 0 /\ key'[t] = "none" /\ pc'[t] \in Waiting
  BY <1>e, <1>v, <1>h, <1>w DEF Points, Waiting, IsAny, CallOK, IndexOK, ParkerOK
<1>7. QED
  BY <1>e, <1>o, <1>1, <1>2, <1>3, <1>4, <1>5, <1>6, OwnStep

\* Every step keeps the invariant.
LEMMA WaitsStep == ASSUME NoDuplicates, WaitsInv, Next PROVE WaitsInv'
<1>1. PICK t \in Threads : WaitAny(t) \/ WaitAll(t) \/ Signal(t) \/ SignalAndWait(t) \/ Run(t)
  BY DEF Next
<1>2. CASE WaitAny(t)
  <2>1. PICK a \in AnyArrays : Call(t, "any", a, "tryAny", 1)
    BY <1>2 DEF WaitAny
  <2>2. a \in Seq(Waitables) /\ a # <<>> /\ Distinct(a)
    BY WaitsAssumption DEF WaitsAssumption, WaitablesAssumption, NoDuplicates
  <2>3. QED
    BY <2>1, <2>2, CallStep
<1>3. CASE WaitAll(t)
  <2>1. PICK a \in AllArrays, to \in {"tryAll", "prologueAll"} : Call(t, "all", a, to, Len(a))
    BY <1>3 DEF WaitAll
  <2>2. a \in Seq(Waitables) /\ a # <<>> /\ Distinct(a) /\ Len(a) \in Nat
    BY WaitsAssumption DEF WaitsAssumption, WaitablesAssumption
  <2>3. QED
    BY <2>1, <2>2, CallStep
<1>4. CASE Signal(t)
  BY <1>4, SignalStep DEF Signal
<1>5. CASE SignalAndWait(t)
  <2>1. PICK w \in Waitables : Call(t, "signalAndWait", <<w>>, "prologueAny", 1)
    BY <1>5 DEF SignalAndWait
  <2>2. <<w>> \in Seq(Waitables) /\ <<w>> # <<>> /\ Distinct(<<w>>) /\ Len(<<w>>) = 1
    BY DEF Distinct
  <2>3. QED
    BY <2>1, <2>2, CallStep
<1>6. CASE ReleaseWaiters(t)
  BY <1>6, RelAnyStep, RelAllStep, RelUnlockStep
<1>7. CASE LockAny(t) \/ UnparkAny(t)
  BY <1>7, LockAnyOkStep, LockAnyFailStep, UnparkAnyStep
<1>8. CASE LockAll(t) \/ UnparkAll(t) \/ MarkAll(t)
  BY <1>8, LockAllOneStep, LockAllMoreStep, UnparkAllStep, MarkAllStep
<1>9. CASE TryAny(t)
  BY <1>9, TryAnyTakesStep, TryAnyNextStep, TryAnyWaitsStep, TryAnyReturnsStep
<1>10. CASE ProloguesStop(t) \/ PrologueAcquires(t)
  BY <1>10, ProloguesStopStep, ProAcquiresStep
<1>11. CASE LockSelf(t)
  BY <1>11, LockSelfOkStep, LockSelfFailsStep
<1>12. CASE PrologueEnqueues(t)
  BY <1>12, ProEnqueuesStep, ProEnqueuesLastStep
<1>13. CASE SignalFirst(t)
  <2>1. PICK w \in Waitables :
          \/ Release(t, w, "park") /\ UNCHANGED <<queue, callVars, waitVars, front>>
          \/ /\ permits[w] = MaxCount
             /\ IF count[t] = 0
                  THEN Goto(t, "parkUndo") /\ UNCHANGED <<count, key>>
                  ELSE /\ count' = [count EXCEPT ![t] = 0] /\ Goto(t, "cancel")
                       /\ key' = [key EXCEPT ![t] = "failed"]
             /\ UNCHANGED <<semaphores, callVars, linked, serving, front, total>>
    BY <1>13 DEF SignalFirst
  <2>2. pc[t] = "signal"
    BY <1>13 DEF SignalFirst
  <2>3. CASE Release(t, w, "park") /\ UNCHANGED <<queue, callVars, waitVars, front>>
    BY <2>2, <2>3, SigLookStep
  <2>4. CASE ~(Release(t, w, "park") /\ UNCHANGED <<queue, callVars, waitVars, front>>)
    BY <2>1, <2>2, <2>4, SigFullStep, SigCancelsStep
  <2>5. QED
    BY <2>3, <2>4
<1>14. CASE SignalFailed(t)
  BY <1>14, SigFailedStep
<1>15. CASE ParkThreadEx(t)
  <2>1. /\ pc[t] = "park" /\ pc' = [pc EXCEPT ![t] = IF key'[t] = "changed" THEN "spinUnlinked"
                                                                           ELSE "cancel"]
        /\ UNCHANGED <<semaphores, callVars, linked, serving, front, total>>
    BY <1>15 DEF ParkThreadEx, Goto
  <2>2. CASE key[t] # "none" /\ UNCHANGED <<count, key>>
    BY <1>15, <2>2, ParkKeyStep, ParkChangedStep
  <2>3. CASE count[t] > 0 /\ count' = [count EXCEPT ![t] = 0]
             /\ key' = [key EXCEPT ![t] = "timeout"]
    <3>1. key'[t] = "timeout"
      BY <2>3, WaitsParts DEF WaitsTypes
    <3>2. Goto(t, "cancel")
      BY <2>1, <3>1 DEF Goto
    <3>3. QED
      BY <2>1, <2>3, <3>2, ParkTimeoutStep
  <2>4. QED
    BY <1>15, <2>2, <2>3 DEF ParkThreadEx
<1>16. CASE Cancel(t) \/ Returns(t)
  BY <1>16, CancelStep, ReturnsStep
<1>17. CASE PrologueAll(t)
  BY <1>17, AllAllowMoreStep, AllAllowLastStep, AllEnqMoreStep, AllEnqLastStep
<1>18. CASE SpinUntilUnlinked(t) \/ TryAll(t)
  BY <1>18, SpinUnlinkedStep, TryAllTakesStep, TryAllFailsStep
<1>19. CASE Undo(t) \/ Again(t)
  BY <1>19, UndoStep, AgainWaitsStep, AgainReturnsStep
<1>20. QED
  BY <1>1, <1>2, <1>3, <1>4, <1>5, <1>6, <1>7, <1>8, <1>9, <1>10, <1>11, <1>12, <1>13,
     <1>14, <1>15, <1>16, <1>17, <1>18, <1>19 DEF Run

-----------------------------------------------------------------------------
(* The invariant in every behaviour. *)

\* At first nobody waits and there are no permits.
LEMMA WaitsInit == Init => WaitsInv
<1> SUFFICES ASSUME Init PROVE WaitsInv
  OBVIOUS
<1>1. NoThread \notin Threads
  BY WaitsAssumption DEF WaitsAssumption, WaitablesAssumption
<1>2. (\A b : ~In(b, <<>>)) /\ Distinct(<<>>) /\ <<>> \in Seq(Blocks) /\ <<>> \in Seq(Waitables)
  BY SmallStacks
<1>3. /\ \A w \in Waitables : /\ permits[w] = 0 /\ queue[w] = <<>> /\ holder[w] = NoThread
                              /\ total[w] = 0
      /\ \A t \in Threads :
           /\ pc[t] = "out" /\ op[t] = "none" /\ array[t] = <<>> /\ visited[t] = 0
           /\ count[t] = 0 /\ key[t] = "none" /\ linked[t] = {} /\ got[t] = {}
           /\ serving[t] = <<>> /\ front[t] = NoBlock /\ At(t) = "out"
  BY DEF Init, At
<1>4. WaitsTypes
  BY <1>2 DEF Init, WaitsTypes, Points, Ops, Keys
<1>5. ReleaserInv
  BY <1>1, <1>3 DEF ReleaserInv, Releasing, Handing
<1>6. CallInv
  BY <1>2, <1>3 DEF CallInv, CallOK
<1>7. IndexInv
  BY <1>3 DEF IndexInv, IndexOK, IsAny
<1>8. QueueInv
  BY <1>2, <1>3 DEF QueueInv
<1>9. FrontInv
  BY <1>1, <1>3 DEF FrontInv, OneUnparker, NoBlock
<1>10. LinkedInv
  BY <1>3 DEF LinkedInv
<1>11. ParkerInv
  BY <1>3 DEF ParkerInv, ParkerOK, IsAny, Waiting
<1>12. CountInv
  BY <1>3 DEF CountInv, CountOK
<1>13. PermitInv
  BY <1>3 DEF PermitInv
<1>14. ASSUME NEW w \in Waitables PROVE TotalOK(w)
  <2>1. Used(w) = {} /\ InHands(w) = {}
    BY <1>3 DEF Used, InHands, InHand
  <2>2. QED
    BY <1>3, <2>1, FS_EmptySet DEF TotalOK
<1>15. QED
  BY <1>4, <1>5, <1>6, <1>7, <1>8, <1>9, <1>10, <1>11, <1>12, <1>13, <1>14
     DEF WaitsInv, TotalInv

\* A step of the other systems leaves the waits alone.
LEMMA WaitsStutter == ASSUME WaitsInv, UNCHANGED vars PROVE WaitsInv'
<1>1. WaitsTypes' /\ ReleaserInv'
  BY DEF vars, semaphores, callVars, waitVars, WaitsInv, WaitsTypes, ReleaserInv
<1>2. CallInv' /\ IndexInv'
  BY DEF vars, semaphores, callVars, waitVars, WaitsInv, CallInv, CallOK, IndexInv, IndexOK,
         At, IsAny
<1>3. QueueInv' /\ FrontInv'
  BY DEF vars, semaphores, callVars, waitVars, WaitsInv, QueueInv, FrontInv, FrontOK, OneUnparker,
         Valid, At, IsAny
<1>4. LinkedInv' /\ PermitInv'
  BY DEF vars, semaphores, callVars, waitVars, WaitsInv, LinkedInv, LinkedOK, Held, At, IsAny,
         PermitInv
<1>5. ParkerInv' /\ CountInv'
  <2>1. \A t \in Threads : SameLocal(t) /\ Pending(t)' = Pending(t)
    BY DEF vars, semaphores, callVars, waitVars, SameLocal, At, Pending
  <2>2. \A t \in Threads, how \in {"unparkAny", "unparkAll"} :
          BeingUnparked(t, how) => BeingUnparked(t, how)'
    BY DEF vars, semaphores, callVars, waitVars, BeingUnparked
  <2>3. QED
    BY <2>1, <2>2, FrameLemma DEF WaitsInv, ParkerInv, CountInv
<1>6. TotalInv'
  BY DEF vars, semaphores, callVars, waitVars, WaitsInv, TotalInv, TotalOK, Used, InHands, InHand
<1>7. QED
  BY <1>1, <1>2, <1>3, <1>4, <1>5, <1>6 DEF WaitsInv

\* The waits on several objects among the systems of MCWaits.
WaitsOK == which = "waits" => WaitsInv

\* The invariant of the waits on several objects holds in every behaviour.
LEMMA WaitsKeepInvariant == NoDuplicates => (MCSpec => []WaitsOK)
<1> SUFFICES ASSUME NoDuplicates PROVE MCSpec => []WaitsOK
  OBVIOUS
<1>1. MCInit => WaitsOK
  BY WaitsInit DEF MCInit, WaitsOK
<1>2. WaitsOK /\ [MCNext]_MCVars => WaitsOK'
  <2> SUFFICES ASSUME WaitsOK, [MCNext]_MCVars, which' = "waits" PROVE WaitsInv'
    BY DEF WaitsOK
  <2>1. CASE MCNext
    BY <2>1, WaitsStep DEF MCNext, WaitsOK
  <2>2. CASE UNCHANGED MCVars
    BY <2>2, WaitsStutter
       DEF MCVars, waitsOnly, WaitsOK, vars, callVars, waitVars, semaphores
  <2>3. QED
    BY <2>1, <2>2
<1>3. QED
  BY <1>1, <1>2, PTL DEF MCSpec

-----------------------------------------------------------------------------
(* The theorems. *)

\* What PermitsKept counts is what TotalInv counts.
LEMMA InFlightLemma ==
  ASSUME WaitsInv, NEW w \in Waitables
  PROVE  InFlight(w) = Cardinality(Used(w)) + Cardinality(InHands(w))
<1>1. UNION {{<<t, i>> : i \in {j \in got[t] : array[t][j] = w}} : t \in Threads} = Used(w)
  <2>1. \A t \in Threads : got[t] \subseteq Nat
    BY WaitsParts DEF WaitsTypes
  <2>2. QED
    BY <2>1 DEF Used
<1>2. {t \in Threads : \/ pc[t] \in {"lockAny", "unparkAny"} /\ serving[t][1] = w
                       \/ pc[t] = "lockSelf" /\ Object(t) = w} = InHands(w)
  BY DEF InHands, InHand, Object
<1>3. QED
  BY <1>1, <1>2 DEF InFlight

\* Permits are neither lost nor made: those that were released and not used by a call that
\* has returned are in the semaphore, acquired by calls, or in the hands of releasers.
PermitsAreKept == which = "waits" => PermitsKept

THEOREM NoPermitLost == NoDuplicates => (MCSpec => []PermitsAreKept)
<1>1. WaitsOK => PermitsAreKept
  <2> SUFFICES ASSUME WaitsInv, NEW w \in Waitables
               PROVE  total[w] = permits[w] + InFlight(w)
    BY DEF WaitsOK, PermitsAreKept, PermitsKept
  <2>1. IsFiniteSet(Used(w)) /\ IsFiniteSet(InHands(w))
    BY WaitsParts, FS_Subset DEF TotalInv, TotalOK, InHands
  <2>2. Cardinality(Used(w)) \in Nat /\ Cardinality(InHands(w)) \in Nat /\ permits[w] \in Nat
    BY <2>1, WaitsParts, FS_CardinalityType DEF WaitsTypes
  <2>3. total[w] = permits[w] + Cardinality(Used(w)) + Cardinality(InHands(w))
    BY WaitsParts DEF TotalInv, TotalOK
  <2>4. QED
    BY <2>2, <2>3, InFlightLemma
<1>2. QED
  BY <1>1, WaitsKeepInvariant, PTL

\* No wait block outlives its call: the part of BlocksLeave that is about these waits.
WaitsBlocksLeave == which = "waits" => WaitBlocksLeave

THEOREM WaitBlocksAreRemoved == NoDuplicates => (MCSpec => []WaitsBlocksLeave)
<1>1. WaitsOK => WaitsBlocksLeave
  <2> SUFFICES ASSUME WaitsInv, NEW t \in Threads
               PROVE  /\ pc[t] = "cancel" => \A i \in ToCancel(t) :
                           \/ holder[array[t][i]] # NoThread
                           \/ \E k \in 1..Len(queue[array[t][i]]) :
                                queue[array[t][i]][k] = <<t, i>>
                      /\ pc[t] = "out" =>
                           /\ \A w \in Waitables : \A k \in 1..Len(queue[w]) :
                                queue[w][k][1] # t
                           /\ \A s \in Threads : front[s][1] # t
    BY DEF WaitsOK, WaitsBlocksLeave, WaitBlocksLeave
  <2>1. /\ WaitsTypes /\ ReleaserInv /\ IndexInv /\ QueueInv /\ FrontInv /\ LinkedInv
        /\ NoThread \notin Threads
    BY WaitsParts
  <2>2. pc[t] \in {"cancel", "out"} => At(t) = pc[t]
    BY <2>1 DEF ReleaserInv, Releasing, Handing, At
  <2>3. ASSUME pc[t] = "cancel", NEW i \in ToCancel(t)
        PROVE  \/ holder[array[t][i]] # NoThread
               \/ \E k \in 1..Len(queue[array[t][i]]) : queue[array[t][i]][k] = <<t, i>>
    <3>1. i \in linked[t] /\ i \in Nat /\ i \notin got[t]
      BY <2>1, <2>3, Indices DEF ToCancel, Acquired
    <3>2. In(<<t, i>>, queue[array[t][i]]) \/ Held(t, i)
      BY <2>1, <2>2, <2>3, <3>1 DEF LinkedInv, LinkedOK
    <3>3. ASSUME NEW s \in Threads, front[s] = <<t, i>> PROVE holder[array[t][i]] = s
      <4>1. array[t][i] = serving[s][1]
        BY <2>1, <3>1, <3>3, SMTT(30) DEF FrontInv, FrontOK, Valid
      <4>2. serving[s] # <<>> /\ serving[s][1] \in Waitables
        BY <2>1, <3>3, HoldsFront
      <4>3. QED
        BY <2>1, <4>1, <4>2 DEF ReleaserInv
    <3>4. QED
      BY <2>1, <3>2, <3>3 DEF Held, In
  <2>4. ASSUME pc[t] = "out" PROVE \A i, w : ~Valid(t, i, w)
    BY <2>1, <2>2, <2>4 DEF Valid, IndexInv, IndexOK
  <2>5. ASSUME pc[t] = "out", NEW w \in Waitables, NEW k \in 1..Len(queue[w])
        PROVE  queue[w][k][1] # t
    <3>1. queue[w] \in Seq(Blocks)
      BY <2>1 DEF WaitsTypes
    <3>2. queue[w][k] \in Blocks
      BY <3>1
    <3>3. PICK s \in Threads, i \in Nat : queue[w][k] = <<s, i>>
      BY <3>2 DEF Blocks
    <3>4. Valid(s, i, w)
      BY <2>1, <3>3 DEF QueueInv, In
    <3>5. QED
      BY <2>4, <2>5, <3>3, <3>4
  <2>6. ASSUME pc[t] = "out", NEW s \in Threads PROVE front[s][1] # t
    <3>1. front[s] \in Blocks \cup {NoBlock}
      BY <2>1 DEF WaitsTypes
    <3>2. CASE front[s] = NoBlock
      BY <2>1, <3>2 DEF NoBlock
    <3>3. CASE front[s] \in Blocks
      <4>1. PICK r \in Threads, i \in Nat : front[s] = <<r, i>>
        BY <3>3 DEF Blocks
      <4>2. Valid(r, i, serving[s][1])
        BY <2>1, <4>1 DEF FrontInv, FrontOK
      <4>3. QED
        BY <2>4, <2>6, <4>1, <4>2
    <3>4. QED
      BY <3>1, <3>2, <3>3
  <2>7. QED
    BY <2>3, <2>5, <2>6
<1>2. QED
  BY <1>1, WaitsKeepInvariant, PTL

\* At rest nobody waits for what is there: a parked wait-any for a permit of one of its
\* semaphores, or a parked wait-all for permits of all of them.
THEOREM NoWaiterStuck == NoDuplicates => (MCSpec => []NobodyStuckBeside)
<1>1. WaitsOK => NobodyStuckBeside
  <2> SUFFICES ASSUME WaitsInv, \A r \in Threads : pc[r] \in {"out", "park"} /\ key[r] = "none",
                      NEW t \in Threads, pc[t] = "park"
               PROVE  IF op[t] = "all" THEN \E i \in 1..Len(array[t]) : permits[array[t][i]] = 0
                      ELSE \A i \in 1..Len(array[t]) : permits[array[t][i]] = 0
    BY DEF WaitsOK, NobodyStuckBeside, NobodyStuck
  <2>1. /\ WaitsTypes /\ ReleaserInv /\ CallInv /\ IndexInv /\ LinkedInv /\ ParkerInv
        /\ CountInv /\ PermitInv /\ NoThread \notin Threads /\ IsFiniteSet(Threads)
    BY WaitsParts
  <2>2. \A r \in Threads : /\ pc[r] \notin Releasing /\ pc[r] \notin Handing
                           /\ serving[r] = <<>> /\ front[r] = NoBlock /\ At(r) = pc[r]
    BY <2>1 DEF ReleaserInv, Releasing, Handing, At
  <2>3. \A w \in Waitables : permits[w] = 0 \/ queue[w] = <<>>
    <3>1. \A w \in Waitables : holder[w] = NoThread
      BY <2>1, <2>2 DEF ReleaserInv, WaitsTypes
    <3>2. QED
      BY <2>1, <3>1 DEF PermitInv, WaitsTypes
  <2>4. ASSUME NEW i \in linked[t], ~(i \in got[t]) PROVE permits[array[t][i]] = 0
    <3>1. i \in Nat /\ array[t][i] \in Waitables
      BY <2>1, Indices
    <3>2. ~Held(t, i)
      BY <2>1, <2>2 DEF Held, NoBlock
    <3>3. In(<<t, i>>, queue[array[t][i]])
      BY <2>1, <2>2, <2>4, <3>1, <3>2 DEF LinkedInv, LinkedOK
    <3>4. queue[array[t][i]] # <<>>
      BY <3>3, SmallStacks
    <3>5. QED
      BY <2>3, <3>1, <3>4
  <2>5. \A how \in {"unparkAny", "unparkAll"} : ~BeingUnparked(t, how)
    BY <2>2 DEF BeingUnparked, Handing
  <2>6. op[t] \in {"any", "signalAndWait", "all"}
    BY <2>1, <2>2 DEF WaitsTypes, Ops, CallInv, CallOK
  <2>7. CASE op[t] = "all"
    <3>1. count[t] = Cardinality(Pending(t)) /\ count[t] # 0
      <4>1. CountOK(t) /\ At(t) = "park" /\ key[t] = "none"
        BY <2>1, <2>2 DEF CountInv
      <4>2. linked[t] \subseteq 1..Len(array[t]) /\ Len(array[t]) \in Nat
        BY <2>1 DEF IndexInv, IndexOK, WaitsTypes
      <4>3. Pending(t) \in SUBSET (1..Len(array[t]))
        BY <4>2 DEF Pending
      <4>4. Cardinality(Pending(t)) \in Nat
        BY <4>2, <4>3, UpToIsFinite, FS_Subset, FS_CardinalityType
      <4>5. QED
        BY <2>5, <2>7, <4>1, <4>4 DEF CountOK
    <3>2. PICK i : i \in Pending(t)
      BY <3>1, FS_EmptySet
    <3>3. i \in linked[t] /\ i \in 1..Len(array[t]) /\ got[t] = {}
      BY <2>1, <2>2, <2>7, <3>2 DEF Pending, IndexInv, IndexOK
    <3>4. QED
      BY <2>4, <2>7, <3>3
  <2>8. CASE op[t] # "all"
    <3>1. /\ IsAny(t) /\ At(t) = "park" /\ At(t) \in Waiting /\ key[t] = "none"
          /\ count[t] \in {0, 1}
      BY <2>1, <2>2, <2>6, <2>8 DEF IsAny, Waiting, ParkerInv, ParkerOK
    <3>2. count[t] = 1
      BY <2>1, <2>5, <3>1 DEF ParkerInv, ParkerOK
    <3>3. got[t] = {} /\ linked[t] = 1..Len(array[t])
      BY <2>1, <3>1, <3>2 DEF ParkerInv, ParkerOK
    <3>4. QED
      BY <2>4, <2>8, <3>3
  <2>9. QED
    BY <2>7, <2>8
<1>2. QED
  BY <1>1, WaitsKeepInvariant, PTL

\* The pending indices are one for each queue with a block of the call, and one for each
\* releaser that has such a block in hand.
LEMMA PendingLemma ==
  ASSUME WaitsInv, NEW t \in Threads, op[t] = "all"
  PROVE  Cardinality(Pending(t)) =
           Cardinality({w \in Waitables : \E k \in 1..Len(queue[w]) : queue[w][k][1] = t})
             + Cardinality({s \in Threads : pc[s] = "lockAll" /\ front[s][1] = t})
<1> DEFINE A == {i \in linked[t] : In(<<t, i>>, queue[array[t][i]])}
           B == {i \in linked[t] : \E s \in Threads : pc[s] = "lockAll" /\ front[s] = <<t, i>>}
           Q == {w \in Waitables : \E k \in 1..Len(queue[w]) : queue[w][k][1] = t}
           H == {s \in Threads : pc[s] = "lockAll" /\ front[s][1] = t}
<1>1. /\ WaitsTypes /\ ReleaserInv /\ CallInv /\ IndexInv /\ QueueInv /\ FrontInv
      /\ NoThread \notin Threads /\ IsFiniteSet(Threads)
  BY WaitsParts
<1>2. /\ linked[t] \subseteq 1..Len(array[t]) /\ Len(array[t]) \in Nat /\ Distinct(array[t])
      /\ \A i \in linked[t] : i \in Nat /\ array[t][i] \in Waitables
  BY <1>1, Indices, SMTT(30) DEF IndexInv, IndexOK, WaitsTypes, CallInv, CallOK
<1>3. IsFiniteSet(A) /\ IsFiniteSet(B)
  <2>1. A \in SUBSET (1..Len(array[t])) /\ B \in SUBSET (1..Len(array[t]))
    BY <1>2
  <2>2. QED
    BY <1>2, <2>1, UpToIsFinite, FS_Subset
<1>4. ASSUME NEW s \in H
      PROVE  /\ front[s] = <<t, front[s][2]>> /\ front[s][2] \in linked[t]
             /\ serving[s][1] = array[t][front[s][2]]
             /\ ~In(front[s], queue[array[t][front[s][2]]])
             /\ holder[array[t][front[s][2]]] = s
  <2>1. front[s] \in Blocks
    BY <1>1, <1>4 DEF WaitsTypes, NoBlock
  <2>2. front[s] = <<t, front[s][2]>> /\ front[s][2] \in Nat
    BY <1>4, <2>1 DEF Blocks
  <2>3. FrontOK(s, t, front[s][2])
    BY <1>1, <1>4, <2>2 DEF FrontInv
  <2>4. holder[serving[s][1]] = s
    BY <1>1, <1>4, <2>2, HoldsFront DEF ReleaserInv
  <2>5. QED
    BY <2>2, <2>3, <2>4 DEF FrontOK, Valid
<1>5. A \cap B = {} /\ Pending(t) = A \cup B
  <2>1. \A i \in B : i \notin A
    BY <1>4
  <2>2. Pending(t) = A \cup B
    BY DEF Pending
  <2>3. QED
    BY <2>1, <2>2
<1>6. Cardinality(Pending(t)) = Cardinality(A) + Cardinality(B)
  <2> HIDE DEF A, B
  <2>1. Cardinality(A) \in Nat /\ Cardinality(B) \in Nat /\ Cardinality(A \cap B) = 0
    BY <1>3, <1>5, FS_EmptySet, FS_CardinalityType
  <2>2. Cardinality(A \cup B) = Cardinality(A) + Cardinality(B) - Cardinality(A \cap B)
    BY <1>3, FS_Union
  <2>3. QED
    BY <1>5, <2>1, <2>2
<1>7. Cardinality(Q) = Cardinality(A)
  <2> DEFINE f == [i \in A |-> array[t][i]]
  <2>1. f \in [A -> Q]
    <3>1. ASSUME NEW i \in A PROVE array[t][i] \in Q
      BY <1>2 DEF In
    <3>2. QED
      BY <3>1
  <2>2. \A i, j \in A : f[i] = f[j] => i = j
    BY <1>2 DEF Distinct
  <2>3. ASSUME NEW w \in Q PROVE \E i \in A : f[i] = w
    <3>1. PICK k \in 1..Len(queue[w]) : queue[w][k][1] = t
      OBVIOUS
    <3>2. queue[w] \in Seq(Blocks)
      BY <1>1 DEF WaitsTypes
    <3>3. queue[w][k] \in Blocks
      BY <3>2
    <3>4. PICK i \in Nat : queue[w][k] = <<t, i>>
      BY <3>1, <3>3 DEF Blocks
    <3>5. In(<<t, i>>, queue[w])
      BY <3>4 DEF In
    <3>6. i \in linked[t] /\ array[t][i] = w
      BY <1>1, <3>5 DEF QueueInv, Valid
    <3>7. QED
      BY <3>5, <3>6
  <2>4. f \in Bijection(A, Q)
    BY <2>1, <2>2, <2>3 DEF Bijection, Injection, Surjection, IsInjective
  <2>5. QED
    BY <1>3, <2>4, FS_Bijection DEF ExistsBijection
<1>8. Cardinality(H) = Cardinality(B)
  <2> DEFINE g == [s \in H |-> front[s][2]]
  <2>1. g \in [H -> B]
    <3>1. ASSUME NEW s \in H PROVE front[s][2] \in B
      BY <1>4
    <3>2. QED
      BY <3>1
  <2>2. \A s, r \in H : g[s] = g[r] => s = r
    BY <1>4
  <2>3. ASSUME NEW i \in B PROVE \E s \in H : g[s] = i
    OBVIOUS
  <2>4. g \in Bijection(H, B)
    BY <2>1, <2>2, <2>3 DEF Bijection, Injection, Surjection, IsInjective
  <2>5. IsFiniteSet(H)
    BY <1>1, FS_Subset
  <2>6. QED
    BY <2>4, <2>5, FS_Bijection DEF ExistsBijection
<1>9. QED
  BY <1>6, <1>7, <1>8

\* The count of a parked wait-all is what its releasers have still to do: its wait blocks in
\* the queues, and those whose releaser has not yet locked the parker.
THEOREM WaitAllCountsAgree == NoDuplicates => (MCSpec => []WaitAllCounts)
<1>1. WaitsOK => WaitAllCounts
  <2> SUFFICES ASSUME WaitsInv, NEW t \in Threads, op[t] = "all", pc[t] = "park", count[t] > 0
               PROVE  count[t] =
                        Cardinality({w \in Waitables :
                                       \E k \in 1..Len(queue[w]) : queue[w][k][1] = t})
                          + Cardinality({s \in Threads : pc[s] = "lockAll" /\ front[s][1] = t})
    BY DEF WaitsOK, WaitAllCounts, CountsAgree
  <2>1. At(t) = "park"
    BY WaitsParts DEF ReleaserInv, Releasing, Handing, At
  <2>2. CountOK(t) /\ linked[t] \subseteq 1..Len(array[t]) /\ Len(array[t]) \in Nat
    BY WaitsParts DEF CountInv, IndexInv, IndexOK, WaitsTypes
  <2>3. Pending(t) \in SUBSET (1..Len(array[t]))
    BY <2>2 DEF Pending
  <2>4. Cardinality(Pending(t)) \in Nat
    BY <2>2, <2>3, UpToIsFinite, FS_Subset, FS_CardinalityType
  <2>5. count[t] = Cardinality(Pending(t))
    BY <2>1, <2>2, <2>4 DEF CountOK
  <2>6. QED
    BY <2>5, PendingLemma
<1>2. QED
  BY <1>1, WaitsKeepInvariant, PTL

\* Nothing is lost in any of the systems, for any finite set of threads: permits and
\* recursive acquisitions are neither lost nor made, as long as WaitAny is called with no
\* object twice.
THEOREM NothingIsLost == NoDuplicates => (MCSpec => []NothingLost)
<1>1. PermitsAreKept /\ ReentrantCounts /\ ReentrantRWCounts /\ ReentrantRWWord => NothingLost
  BY DEF PermitsAreKept, ReentrantCounts, ReentrantRWCounts, ReentrantRWWord, NothingLost
<1>2. QED
  BY <1>1, NoPermitLost, ReentrantCountsAreRight, ReentrantRWCountsAreRight,
     ReentrantRWWordIsRight, PTL

\* No wait block outlives its call, in a queue, on the list of a condition or the lock, or
\* among the parkers of an alerter, under the same condition.
THEOREM BlocksAreRemoved == NoDuplicates => (MCSpec => []BlocksLeave)
<1>1. WaitsBlocksLeave /\ MonitorBlocksLeave /\ AlerterParkersLeave => BlocksLeave
  BY DEF WaitsBlocksLeave, MonitorBlocksLeave, AlerterParkersLeave, BlocksLeave
<1>2. QED
  BY <1>1, WaitBlocksAreRemoved, MonitorBlocksAreRemoved, AlerterParkersAreRemoved, PTL

=============================================================================
