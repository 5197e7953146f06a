----------------------------- MODULE MCChannels -----------------------------
(***************************************************************************)
(* The bounded queue, TakeAnyEx over linked queues, the stream queue, the  *)
(* exchanger and the rendezvous channel, side by side, and what hands one  *)
(* value to all threads: one-time initialisation and the future.  The      *)
(* initial state chooses one.  Threads are interchangeable.                *)
(***************************************************************************)
EXTENDS BoundedBlockingQueue, TLC

CONSTANTS NoThread, Length, Disposable, StreamCapacity, Sizes,
          MaxQueued, MaxBytes, MaxExchanges, MaxMessages, MaxBuilt, MaxValues

VARIABLES
  which,
  first, lists, closed, results, channels, range, iter, last, entry, gone, corrupt,
  owner, served, items, head, tail, size, op, asked, remaining, offered,
  written, delivered, ordered, reported,
  slot, offer, yours, got,
  sendList, recvList, kind, message, token, sent, received, told,
  mode, once, target, at, mine, context, built, destroyed,
  fixed, value, isAvailable, goes, offers, read, values

ASSUME ChannelsAssumption ==
  /\ IsFiniteSet(Threads) /\ NoThread \notin Threads
  /\ Capacity \in Nat \ {0} /\ StreamCapacity \in Nat \ {0}
  /\ Sizes \subseteq Nat /\ MaxExchanges \in Nat /\ Length = 2

\* Callers take from both queues, the second one first, or from the first one.
Linked == INSTANCE BlockingQueue WITH Ranges <- {<<1, 2>>, <<0, 1>>},
            MaxItems <- MaxQueued, list <- lists, disposed <- closed,
            status <- results, channel <- channels
Stream == INSTANCE StreamBlockingQueue WITH Capacity <- StreamCapacity
Exchanges == INSTANCE Exchanger WITH MaxItems <- MaxExchanges
Rendezvous == INSTANCE RendezvousChannel WITH ended <- told
Once == INSTANCE InitOnce WITH Modes <- {{"sync"}, {"async"}}
Futures == INSTANCE Future

\* The variables of one of them alone.
boundedOnly == <<buffer, taken, ended>>
linkedOnly == <<first, lists, closed, results, channels, range, iter, last, entry,
                gone, corrupt>>
streamOnly == <<owner, served, items, head, tail, size, op, asked, remaining,
                written, delivered, ordered, reported>>
exchangerOnly == <<slot, offer, yours, got>>
rendezvousOnly == <<sendList, recvList, kind, message, token, sent, received, told>>
onceOnly == <<mode, once, target, at, mine, context, built, destroyed>>
futureOnly == <<fixed, value, isAvailable, goes, offers, read, values>>

Kinds == {"bounded", "linked", "stream", "exchanger", "rendezvous", "once", "future"}

MCInit ==
  /\ which \in Kinds /\ Init /\ Linked!Init /\ Stream!Init /\ Exchanges!Init
  /\ Rendezvous!Init /\ Futures!Init
  /\ Once!Init /\ (which # "once" => mode = {"sync"})
  /\ which \in {"once", "future"} => lifo = FALSE

\* The variables that the chosen one does not have.
Others ==
  /\ which # "bounded" => UNCHANGED boundedOnly
  /\ which # "linked" => UNCHANGED linkedOnly
  /\ which # "stream" => UNCHANGED streamOnly
  /\ which # "exchanger" => UNCHANGED exchangerOnly
  /\ which # "rendezvous" => UNCHANGED rendezvousOnly
  /\ which # "once" => UNCHANGED onceOnly
  /\ which # "future" => UNCHANGED futureOnly
  /\ which \in {"exchanger", "rendezvous"} => UNCHANGED <<disposed, list>>
  /\ which = "linked" => UNCHANGED <<disposed, list, status, unlinked>>
  /\ which \in {"linked", "stream"} => UNCHANGED channel
  /\ which \in {"stream", "exchanger"} => UNCHANGED lifo
  /\ which = "exchanger" => UNCHANGED <<status, wake>>
  /\ which \notin {"bounded", "linked"} => UNCHANGED added
  /\ which \notin {"stream", "exchanger"} => UNCHANGED offered
  /\ which \in {"once", "future"} =>
       UNCHANGED <<vars, offered>>

MCNext ==
  /\ UNCHANGED which
  /\ \/ which = "bounded" /\ Next
     \/ which = "linked" /\ Linked!Next
     \/ which = "stream" /\ Stream!Next
     \/ which = "exchanger" /\ Exchanges!Next
     \/ which = "rendezvous" /\ Rendezvous!Next
     \/ which = "once" /\ Once!Next
     \/ which = "future" /\ Futures!Next
  /\ Others

MCSpec ==
  MCInit /\ [][MCNext]_<<which, vars, linkedOnly, streamOnly, exchangerOnly,
                         rendezvousOnly, onceOnly, futureOnly, offered>>

MCSymmetry == Permutations(Threads)

-----------------------------------------------------------------------------
(* Properties *)

\* What is offered is in one place, is got once, and is got by whom it was for:
\* items of the queues, bytes of a stream, items exchanged, messages.  One target, or
\* value, is for all threads, and no other that was constructed is left.
NothingLostOrTwice ==
  CASE which = "bounded"    -> ItemsInOnePlace
    [] which = "linked"     -> Linked!ItemsInOnePlace
    [] which = "stream"     -> Stream!TransfersAddUp
    [] which = "exchanger"  -> Exchanges!Mutual
    [] which = "rendezvous" -> Rendezvous!MessagesOnce
    [] which = "once"       -> Once!OneTarget
    [] which = "future"     -> Futures!OneValue

\* The bounded queue and the stream are first in, first out, through waiting
\* adders, the buffer and waiting takers.
InOrder ==
  /\ which = "bounded" => FirstInFirstOut
  /\ which = "stream"  => Stream!BytesInOrder

\* Nobody waits beside what it waits for.
NobodyStuckBeside ==
  CASE which = "bounded"    -> NobodyStuck /\ NobodyLost(list)
    [] which = "linked"     -> Linked!NobodyStuck
    [] which = "stream"     -> Stream!NobodyStuck
    [] which = "rendezvous" -> Rendezvous!NobodyStuck /\ Rendezvous!TokensAlive
    [] OTHER                -> TRUE

\* A wait block leaves its list, slot or unparker before its call returns.
BlocksLeave ==
  CASE which = "linked"     -> Linked!BlocksLeave
    [] which = "exchanger"  -> Exchanges!BlocksLeave
    [] which = "rendezvous" -> Rendezvous!BlocksLeave
    [] OTHER                -> EntriesLeave(list)
=============================================================================
