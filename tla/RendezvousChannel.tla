------------------------- MODULE RendezvousChannel --------------------------
(***************************************************************************)
(* The rendezvous channel: a sender waits for a receiver, and, when it     *)
(* expects a response, for the reply.  Senders and receivers have a list   *)
(* each, under one spin lock.  A sender whose message was received cannot  *)
(* give up any more: its wait block is the token with which the receiver   *)
(* replies.                                                                *)
(***************************************************************************)
EXTENDS ListedWaiters

CONSTANTS NoThread,
          MaxMessages   \* bound: how many messages are sent

VARIABLES
  sendList, recvList,   \* the two wait lists
  lifo,       \* the LIFO_WAIT_LIST flag, of the receivers' list
  kind,       \* SEND_ONLY, SEND_AND_WAIT_REPLY or RECEIVE: the wait block's Request
  channel,    \* the Channel of each thread's wait block: a message, a response,
              \* or, for a receiver, the wait block of a sender
  message,    \* the number of the message that a thread sends
  token,      \* the token that a receiver has to reply to
  sent,       \* ghost: how many messages were sent
  received,   \* ghost: the messages received, in order
  ended       \* ghost: the messages whose senders were told of success or failure

blockVars == <<kind, channel, message, token>>
ghostVars == <<sent, received, ended>>
vars == <<waiterVars, sendList, recvList, lifo, blockVars, ghostVars>>

Init ==
  /\ ListInit /\ sendList = <<>> /\ recvList = <<>> /\ lifo \in BOOLEAN
  /\ kind = [t \in Threads |-> "RECEIVE"] /\ channel = [t \in Threads |-> 0]
  /\ message = [t \in Threads |-> 0] /\ token = [t \in Threads |-> NoThread]
  /\ sent = 0 /\ received = <<>> /\ ended = [success |-> {}, failure |-> {}]

\* The message of the next sender.
NewMessage(t, k) ==
  /\ sent < MaxMessages /\ sent' = sent + 1
  /\ kind' = [kind EXCEPT ![t] = k] /\ message' = [message EXCEPT ![t] = sent']
  /\ UNCHANGED <<lifo, token>>

\* SendEx, to a receiver that waits.
SendToReceiver(t) ==
  /\ NewMessage(t, "SEND_ONLY") /\ LockFirst(t, recvList, "message")
  /\ recvList' = Rest(recvList) /\ channel' = [channel EXCEPT ![Live(recvList)] = sent']
  /\ received' = Append(received, sent')
  /\ ended' = [ended EXCEPT !.success = @ \cup {sent'}]
  /\ UNCHANGED sendList

\* SendAndWaitReplyEx, to a receiver that waits: the receiver gets the sender's
\* wait block, and the sender parks without a way to cancel.
SendForReply(t) ==
  LET u == Live(recvList) IN
  /\ NewMessage(t, "SEND_AND_WAIT_REPLY") /\ HasLive(recvList) /\ Skip(recvList)
  /\ Step(t, "out", "parked") /\ wake' = [wake EXCEPT ![t] = <<u>>]
  /\ count' = [count EXCEPT ![u] = 0, ![t] = 0]
  /\ status' = [status EXCEPT ![u] = "block", ![t] = "none"]
  /\ unparked' = [unparked EXCEPT ![t] = 0] /\ recvList' = Rest(recvList)
  /\ channel' = [channel EXCEPT ![u] = t, ![t] = sent'] /\ UNCHANGED <<sendList, received, ended>>

\* Nobody receives: wait.
SendWaits(t) ==
  /\ \E k \in {"SEND_ONLY", "SEND_AND_WAIT_REPLY"} : NewMessage(t, k)
  /\ ~HasLive(recvList) /\ recvList' = <<>> /\ Step(t, "out", "parked")
  /\ count' = [count EXCEPT ![t] = 1] /\ status' = [status EXCEPT ![t] = "none"]
  /\ unparked' = [unparked EXCEPT ![t] = 0]
  /\ unlinked' = [u \in Threads |-> IF u = t THEN 0
       ELSE IF \E i \in 1..Len(recvList) : recvList[i] = u THEN 1 ELSE unlinked[u]]
  /\ sendList' = Append(sendList, t) /\ channel' = [channel EXCEPT ![t] = sent']
  /\ UNCHANGED <<wake, received, ended>>

\* ReceiveEx, from a sender that waits.  The code looks for SEND_ONLY in the wait
\* type of the sender's block, which is always WaitAny: every sender is kept
\* waiting for a reply.
ReceiveFromSender(t) ==
  LET u == Live(sendList) IN
  /\ HasLive(sendList) /\ Skip(sendList) /\ Step(t, "out", "serving")
  /\ count' = [count EXCEPT ![u] = 0] /\ sendList' = Rest(sendList)
  /\ token' = [token EXCEPT ![t] = u] /\ received' = Append(received, channel[u])
  /\ UNCHANGED <<status, unparked, wake, recvList, lifo, kind, channel, message, sent, ended>>

\* Nobody sends: wait.
ReceiveWaits(t) ==
  /\ ~HasLive(sendList) /\ sendList' = <<>> /\ Step(t, "out", "parked")
  /\ count' = [count EXCEPT ![t] = 1] /\ status' = [status EXCEPT ![t] = "none"]
  /\ unparked' = [unparked EXCEPT ![t] = 0]
  /\ unlinked' = [u \in Threads |-> IF u = t THEN 0
       ELSE IF \E i \in 1..Len(sendList) : sendList[i] = u THEN 1 ELSE unlinked[u]]
  /\ recvList' = IF lifo THEN <<t>> \o recvList ELSE Append(recvList, t)
  /\ kind' = [kind EXCEPT ![t] = "RECEIVE"] /\ channel' = [channel EXCEPT ![t] = 0]
  /\ UNCHANGED <<wake, lifo, message, token, ghostVars>>

\* A receiver is unparked with a message, or with the wait block of a sender.
ReceivesMessage(t) ==
  /\ Unparked(t, "message")
  /\ UNCHANGED <<sendList, recvList, lifo, blockVars, ghostVars>>

ReceivesBlock(t) ==
  /\ wake[t] = <<>> /\ unparked[t] = 1 /\ status[t] = "block" /\ Step(t, "parked", "serving")
  /\ token' = [token EXCEPT ![t] = channel[t]]
  /\ received' = Append(received, channel[channel[t]])
  /\ UNCHANGED <<count, status, unparked, unlinked, wake, sendList, recvList, lifo,
                 kind, channel, message, sent, ended>>

\* StRendezvousChannel_Reply: the response, here the number of the message that it
\* answers, goes into the sender's wait block.
Reply(t) ==
  LET u == token[t] IN
  /\ Step(t, "serving", "out") /\ unparked' = [unparked EXCEPT ![u] = 1]
  /\ status' = [status EXCEPT ![u] = "reply"]
  /\ token' = [token EXCEPT ![t] = NoThread]
  /\ UNCHANGED <<count, unlinked, wake, sendList, recvList, lifo, kind, channel, message, ghostVars>>

\* The sender gets its response.
SendReturns(t) ==
  /\ Unparked(t, "reply") /\ ended' = [ended EXCEPT !.success = @ \cup {message[t]}]
  /\ UNCHANGED <<sendList, recvList, lifo, blockVars, sent, received>>

\* A cancelled call unlinks its entry.
GivesUp(t) ==
  /\ IF kind[t] = "RECEIVE"
     THEN UnlinkEntryList(t, recvList) /\ UNCHANGED <<sendList, ended>>
     ELSE /\ UnlinkEntryList(t, sendList) /\ UNCHANGED recvList
          /\ ended' = [ended EXCEPT !.failure = @ \cup {message[t]}]
  /\ UNCHANGED <<lifo, blockVars, sent, received>>

Unparking(t) ==
  /\ UnparkThread(t) \/ WakeDone(t) \/ Cancelled(t)
  /\ UNCHANGED <<sendList, recvList, lifo, blockVars, ghostVars>>

Next == \E t \in Threads :
  \/ SendToReceiver(t) \/ SendForReply(t) \/ SendWaits(t) \/ ReceiveFromSender(t)
  \/ ReceiveWaits(t) \/ ReceivesMessage(t) \/ ReceivesBlock(t) \/ Reply(t)
  \/ SendReturns(t) \/ GivesUp(t) \/ Unparking(t)

Spec == Init /\ [][Next]_vars

-----------------------------------------------------------------------------
(* Properties *)

Received == {received[i] : i \in 1..Len(received)}

\* A message is received once at most, and never when its sender was told that
\* it was not sent; a sender that waits for a reply is told of success only when
\* its message was received.
MessagesOnce ==
  /\ Cardinality(Received) = Len(received)
  /\ ended.failure \cap (Received \cup ended.success) = {}
  /\ \A t \in Threads : unparked[t] = 1 /\ status[t] = "reply" => message[t] \in Received

\* The token of a receiver is the wait block of a sender that waits and that
\* nobody else can release; no two receivers have the same.
TokensAlive ==
  \A t, u \in Threads : pc[t] = "serving" =>
    /\ pc[token[t]] = "parked" /\ count[token[t]] = 0 /\ unparked[token[t]] = 0
    /\ pc[u] = "serving" /\ token[u] = token[t] => t = u

\* A receiver gets a token only from a sender that expects a reply.
TokenMeansReply ==
  \A t \in Threads : pc[t] = "serving" => kind[token[t]] = "SEND_AND_WAIT_REPLY"

\* Nobody waits beside a partner: not both lists have a live waiter.
NobodyStuck == ~(HasLive(sendList) /\ HasLive(recvList))

BlocksLeave == EntriesLeave(sendList \o recvList)
=============================================================================
