--------------------------- MODULE ReliableChannel ---------------------------
(***************************************************************************)
(* The reliable data channel of a session: publish_data, the task that     *)
(* owns the send queues (data_channel_task), the queue kept for a retry    *)
(* (TxQueue), and what a resumed connection does to them                   *)
(* (livekit/src/rtc_engine/rtc_session.rs).                                *)
(*                                                                         *)
(* Callers and the reconnection meet in the engine's reconnecting_lock: a  *)
(* call of publish_data keeps its read guard until the packet is handed to *)
(* the channel, and a reconnection waits for every guard.                  *)
(***************************************************************************)
EXTENDS Naturals, Sequences, SequencesExt, FiniteSets, FiniteSetsExt

CONSTANTS
  Call,        \* the calls of publish_data, one packet each
  Size,        \* the encoded size of each packet
  Thresholds,  \* the values the low threshold is set to
  MaxDrops     \* bound: how often the connection is lost

ASSUME ChannelAssumption ==
  /\ Size \in [Call -> Nat \ {0}]
  /\ Thresholds \in SUBSET Nat /\ Thresholds # {}
  /\ MaxDrops \in Nat

VARIABLES
  call,       \* where each call is; it holds its read guard while "waiting"
  dcEvents,   \* the channel of DataChannelEvents
  running,    \* data_channel_task runs
  nextSeq,    \* next_packet_sequence
  threshold,  \* reliable_dc_buffered_amount_low_threshold
  queue,      \* reliable_queue
  amount,     \* reliable_buffered_amount
  retry,      \* retry_queue
  open,       \* the data channel is open
  buffer,     \* packets in the channel's own send buffer
  drained,    \* buffered-amount changes on their way through the rtc task
  alive,      \* the transport below the channel moves packets
  wire,       \* packets between the transport and the server
  received,   \* what the server received, in order
  link,       \* the connection, as the engine sees it
  drops       \* how often it was lost (bound only)

dcTask == <<nextSeq, queue, amount, retry>>
sctp == <<open, buffer, wire, received, drained>>
conn == <<alive, link, drops>>
channelVars == <<call, dcEvents, running, threshold, dcTask, sctp, conn>>

(* A packet is known by its sequence number, one that was handed out, and   *)
(* the call that published it.                                              *)
Packet == [seq : 1 .. nextSeq - 1, call : Call]
DataChannelEvent ==
       [type : {"publishPacket"}, call : Call]
  \cup [type : {"publishData"}, packet : Packet, reply : BOOLEAN]
  \cup [type : {"bufferedAmountChange"}, sent : Nat]
  \cup [type : {"retryFrom"}, last : Nat]

ChannelTypeOK ==
  /\ call \in [Call -> {"idle", "waiting", "ok", "err"}]
  /\ dcEvents \in Seq(DataChannelEvent)
  /\ {running, open, alive} \subseteq BOOLEAN
  /\ nextSeq \in Nat \ {0} /\ {amount, drops} \subseteq Nat
  /\ threshold \in Thresholds
  /\ queue \in Seq([packet : Packet, reply : BOOLEAN])
  /\ {retry, buffer, wire, received} \subseteq Seq(Packet)
  /\ drained \in Seq(Nat)
  /\ link \in {"up", "lost", "locking", "resuming"}

ChannelInit ==
  /\ call = [c \in Call |-> "idle"]
  /\ dcEvents = <<>>
  /\ running = TRUE
  /\ nextSeq = 1
  /\ threshold \in Thresholds
  /\ queue = <<>> /\ amount = 0 /\ retry = <<>>
  /\ open = TRUE /\ buffer = <<>> /\ drained = <<>>
  /\ alive = TRUE /\ wire = <<>> /\ received = <<>>
  /\ link = "up" /\ drops = 0

-----------------------------------------------------------------------------
(* The sum of a sequence of sizes, counted byte by byte.                    *)
Total(sizes) == Cardinality(UNION {{i} \X (1 .. sizes[i]) : i \in DOMAIN sizes})

Bytes(packets) == Total([i \in DOMAIN packets |-> Size[packets[i].call]])
From(packets, i) == SubSeq(packets, i, Len(packets))

(* TxQueue::trim: the longest end of the queue that fits into target.       *)
Trim(packets, target) ==
  From(packets, Min({i \in 1 .. Len(packets) + 1 : Bytes(From(packets, i)) <= target}))

(* What a sequence holds at the places given, in its order.                 *)
Selected(packets, places) ==
  LET n == Cardinality(places)
      order == CHOOSE f \in [1 .. n -> places] : \A i, j \in 1 .. n : i < j => f[i] < f[j]
  IN  [i \in 1 .. n |-> packets[order[i]]]

Packets(requests) == [i \in DOMAIN requests |-> requests[i].packet]

(* The calls whose requests, of those given, still have a completion_tx.    *)
Answered(requests) ==
  {requests[i].packet.call : i \in {j \in DOMAIN requests : requests[j].reply}}

-----------------------------------------------------------------------------
(* SessionInner::publish_data, on an open channel.  A reconnection that     *)
(* holds or awaits reconnecting_lock keeps new callers out.                 *)
PublishData(c) ==
  /\ call[c] = "idle"
  /\ link \in {"up", "lost"}
  /\ open /\ running
  /\ call' = [call EXCEPT ![c] = "waiting"]
  /\ dcEvents' = Append(dcEvents, [type |-> "publishPacket", call |-> c])
  /\ UNCHANGED <<running, threshold, dcTask, sctp, conn>>

(* set_data_channel_buffered_amount_low_threshold, at any time.             *)
SetThreshold(t) ==
  /\ threshold # t
  /\ threshold' = t
  /\ UNCHANGED <<call, dcEvents, running, dcTask, sctp, conn>>

-----------------------------------------------------------------------------
(* data_channel_task takes one event.                                       *)
Handles(type) ==
  /\ running
  /\ dcEvents # <<>>
  /\ Head(dcEvents).type = type

(* Mutant: a number is read, and the next call gets it again.               *)
HandlePublishPacketReused ==
  /\ Handles("publishPacket")
  /\ dcEvents' = Append(Tail(dcEvents),
                        [type |-> "publishData", reply |-> TRUE,
                         packet |-> [seq |-> nextSeq, call |-> Head(dcEvents).call]])
  /\ UNCHANGED <<call, running, threshold, dcTask, sctp, conn>>

(* PublishPacket: number and encode the packet, queue it as PublishData.    *)
HandlePublishPacket ==
  /\ Handles("publishPacket")
  /\ dcEvents' = Append(Tail(dcEvents),
                        [type |-> "publishData", reply |-> TRUE,
                         packet |-> [seq |-> nextSeq, call |-> Head(dcEvents).call]])
  /\ nextSeq' = nextSeq + 1
  /\ UNCHANGED <<call, running, threshold, queue, amount, retry, sctp, conn>>

(* Mutant: the whole queue is sent, whatever is buffered already.           *)
SentNowAll(requests, buffered) == requests

(* The requests that the loop of _send_until_threshold takes: the next one, *)
(* while no more than threshold is buffered.                                *)
SentNow(requests, buffered) ==
  LET Before(i) == Packets(SubSeq(requests, 1, i - 1))
  IN  SubSeq(requests, 1, Cardinality({i \in DOMAIN requests :
                                         buffered + Bytes(Before(i)) <= threshold}))

(* Mutant: the completion of a request is dropped with the request.         *)
SendUntilThresholdSilent(requests, buffered) ==
  LET sent == SentNow(requests, buffered)
  IN  /\ amount' = buffered + Bytes(Packets(sent))
      /\ queue' = From(requests, Len(sent) + 1)
      /\ buffer' = IF open THEN buffer \o Packets(sent) ELSE buffer
      /\ call' = call

(* _send_until_threshold hands these to the channel and answers them.  What *)
(* it takes counts as buffered whether or not the channel accepted it.  The *)
(* handlers say what is kept for a retry: all of it, then perhaps trimmed.  *)
SendUntilThreshold(requests, buffered) ==
  LET sent == SentNow(requests, buffered)
  IN  /\ amount' = buffered + Bytes(Packets(sent))
      /\ queue' = From(requests, Len(sent) + 1)
      /\ buffer' = IF open THEN buffer \o Packets(sent) ELSE buffer
      /\ call' = [c \in Call |-> IF c \in Answered(sent)
                                 THEN IF open THEN "ok" ELSE "err"
                                 ELSE call[c]]

handlerUnchanged == UNCHANGED <<running, nextSeq, threshold, open, wire, received, drained, conn>>

Request == [packet |-> Head(dcEvents).packet, reply |-> Head(dcEvents).reply]

(* Mutant: the request is queued in front.                                  *)
HandlePublishDataInFront ==
  /\ Handles("publishData")
  /\ SendUntilThreshold(<<Request>> \o queue, amount)
  /\ retry' = retry \o Packets(SentNow(<<Request>> \o queue, amount))
  /\ dcEvents' = Tail(dcEvents)
  /\ handlerUnchanged

HandlePublishData ==
  /\ Handles("publishData")
  /\ SendUntilThreshold(Append(queue, Request), amount)
  /\ retry' = retry \o Packets(SentNow(Append(queue, Request), amount))
  /\ dcEvents' = Tail(dcEvents)
  /\ handlerUnchanged

(* Mutant: what was drained is not taken off the amount.                    *)
HandleBufferedAmountChangeLeak ==
  /\ Handles("bufferedAmountChange")
  /\ SendUntilThreshold(queue, amount)
  /\ retry' = Trim(retry \o Packets(SentNow(queue, amount)), Head(dcEvents).sent)
  /\ dcEvents' = Tail(dcEvents)
  /\ handlerUnchanged

(* Mutant: what waits in the queue is not sent.                             *)
HandleBufferedAmountChangeIdle ==
  /\ Handles("bufferedAmountChange")
  /\ LET sent == Head(dcEvents).sent
     IN  /\ amount' = IF amount < sent THEN 0 ELSE amount - sent
         /\ retry' = Trim(retry, sent)
  /\ dcEvents' = Tail(dcEvents)
  /\ UNCHANGED <<call, queue, buffer>>
  /\ handlerUnchanged

(* BufferedAmountChange: send more, then trim the retry queue to the size   *)
(* that was drained.                                                        *)
HandleBufferedAmountChange ==
  /\ Handles("bufferedAmountChange")
  /\ LET sent == Head(dcEvents).sent
         left == IF amount < sent THEN 0 ELSE amount - sent
     IN  /\ SendUntilThreshold(queue, left)
         /\ retry' = Trim(retry \o Packets(SentNow(queue, left)), sent)
  /\ dcEvents' = Tail(dcEvents)
  /\ handlerUnchanged

Unreceived(packets, last) ==
  Selected(packets, {i \in DOMAIN packets : packets[i].seq > last})

(* Mutant: the retried packets stay in the retry queue.                     *)
HandleRetryFromKept ==
  /\ Handles("retryFrom")
  /\ LET missing == Unreceived(retry, Head(dcEvents).last)
     IN  dcEvents' = Tail(dcEvents) \o
           [i \in DOMAIN missing |->
             [type |-> "publishData", reply |-> FALSE, packet |-> missing[i]]]
  /\ UNCHANGED <<call, running, threshold, dcTask, sctp, conn>>

(* _enqueue_for_retry_from: the retry queue is emptied into dc_events,      *)
(* without the packets that the server has.                                 *)
HandleRetryFrom ==
  /\ Handles("retryFrom")
  /\ LET missing == Unreceived(retry, Head(dcEvents).last)
     IN  dcEvents' = Tail(dcEvents) \o
           [i \in DOMAIN missing |->
             [type |-> "publishData", reply |-> FALSE, packet |-> missing[i]]]
  /\ retry' = <<>>
  /\ UNCHANGED <<call, running, threshold, nextSeq, queue, amount, sctp, conn>>

(* RtcSession::close: the task ends and drops its queues; a call that waits *)
(* for its completion gets an error.                                        *)
CloseSession ==
  /\ running
  /\ running' = FALSE
  /\ dcEvents' = <<>> /\ queue' = <<>> /\ retry' = <<>>
  /\ call' = [c \in Call |-> IF call[c] = "waiting" THEN "err" ELSE call[c]]
  /\ UNCHANGED <<threshold, nextSeq, amount, sctp, conn>>

-----------------------------------------------------------------------------
(* The channel and its transport, which are libwebrtc's.                    *)

(* The transport takes the first n packets of the buffer.                   *)
Drain(n) ==
  /\ alive /\ open
  /\ n \in 1 .. Len(buffer)
  /\ buffer' = From(buffer, n + 1)
  /\ wire' = wire \o SubSeq(buffer, 1, n)
  /\ drained' = Append(drained, Bytes(SubSeq(buffer, 1, n)))
  /\ UNCHANGED <<call, dcEvents, running, threshold, dcTask, open, received, conn>>

Deliver ==
  /\ alive /\ wire # <<>>
  /\ received' = Append(received, Head(wire))
  /\ wire' = Tail(wire)
  /\ UNCHANGED <<call, dcEvents, running, threshold, dcTask, open, buffer, drained, conn>>

(* on_buffered_amount_change reaches dc_events through the rtc task.        *)
ForwardDrained ==
  /\ drained # <<>>
  /\ drained' = Tail(drained)
  /\ dcEvents' = IF running
                 THEN Append(dcEvents, [type |-> "bufferedAmountChange", sent |-> Head(drained)])
                 ELSE dcEvents
  /\ UNCHANGED <<call, running, threshold, dcTask, open, buffer, wire, received, conn>>

(* A dead transport ends the association and with it the channel.           *)
ChannelCloses ==
  /\ open /\ ~alive
  /\ open' = FALSE
  /\ buffer' = <<>>
  /\ UNCHANGED <<call, dcEvents, running, threshold, dcTask, wire, received, drained, conn>>

-----------------------------------------------------------------------------
(* The connection, and the reconnection of the engine, which resumes.       *)

(* Only the signal connection is lost ...                                   *)
SignalLost ==
  /\ link = "up" /\ drops < MaxDrops
  /\ link' = "lost"
  /\ drops' = drops + 1
  /\ UNCHANGED <<call, dcEvents, running, threshold, dcTask, sctp, alive>>

(* ... or the peer connection fails, with or without what it had in flight. *)
TransportLost(inFlight) ==
  /\ link = "up" /\ drops < MaxDrops
  /\ link' = "lost"
  /\ alive' = FALSE
  /\ drops' = drops + 1
  /\ wire' = IF inFlight THEN <<>> ELSE wire
  /\ UNCHANGED <<call, dcEvents, running, threshold, dcTask, open, buffer, received, drained>>

(* The engine handles the Close event: its reconnect task is queued for the *)
(* write guard.                                                             *)
ReconnectionNeeded ==
  /\ link = "lost"
  /\ link' = "locking"
  /\ UNCHANGED <<call, dcEvents, running, threshold, dcTask, sctp, alive, drops>>

Highest(packets) == Max({0} \cup {packets[i].seq : i \in DOMAIN packets})

(* The write guard is taken and restart() gets the ReconnectResponse with   *)
(* the last sequence number that the server received.                       *)
Restart ==
  /\ link = "locking"
  /\ \A c \in Call : call[c] # "waiting"
  /\ link' = "resuming"
  /\ dcEvents' = IF running
                 THEN Append(dcEvents, [type |-> "retryFrom", last |-> Highest(received)])
                 ELSE dcEvents
  /\ UNCHANGED <<call, running, threshold, dcTask, sctp, alive, drops>>

Resumed ==
  /\ link = "resuming"
  /\ link' = "up"
  /\ alive' = TRUE
  /\ UNCHANGED <<call, dcEvents, running, threshold, dcTask, sctp, drops>>

-----------------------------------------------------------------------------
DataChannelTask ==
  \/ HandlePublishPacket
  \/ HandlePublishData
  \/ HandleBufferedAmountChange
  \/ HandleRetryFrom

Transport == Deliver \/ \E n \in 1 .. Cardinality(Call) : Drain(n)
Reconnection == ReconnectionNeeded \/ Restart \/ Resumed

ChannelNext ==
  \/ \E c \in Call : PublishData(c)
  \/ \E t \in Thresholds : SetThreshold(t)
  \/ DataChannelTask \/ CloseSession
  \/ Transport \/ ForwardDrained \/ ChannelCloses
  \/ SignalLost \/ \E inFlight \in BOOLEAN : TransportLost(inFlight)
  \/ Reconnection

ChannelSpec == ChannelInit /\ [][ChannelNext]_channelVars

(* The tasks are polled, a live transport moves what it has, and a resume   *)
(* ends.  Only finitely many of these steps are ever possible, so it is     *)
(* enough that one of them is taken as long as there is one.                *)
System ==
  \/ ForwardDrained \/ Deliver \/ Reconnection
  \/ DataChannelTask
  \/ \E n \in 1 .. Cardinality(Call) : Drain(n)

ChannelFairness == WF_channelVars(System)

FairChannelSpec == ChannelSpec /\ ChannelFairness
-----------------------------------------------------------------------------
(* Properties.                                                              *)

(* The places where data_channel_task holds a packet, and what is there.    *)
HeldAt == ({"dcEvents"} \X {i \in DOMAIN dcEvents : dcEvents[i].type = "publishData"})
     \cup ({"queue"} \X DOMAIN queue)
     \cup ({"retry"} \X DOMAIN retry)
Held == [at \in HeldAt |-> CASE at[1] = "dcEvents" -> dcEvents[at[2]].packet
                             [] at[1] = "queue" -> queue[at[2]].packet
                             [] at[1] = "retry" -> retry[at[2]]]
Everywhere == Range(Held) \cup Range(buffer) \cup Range(wire) \cup Range(received)

(* A sequence number stands for one packet and a packet has one number,     *)
(* through every retry: the server tells packets apart by it.               *)
OneNumberPerPacket ==
  \A p, q \in Everywhere : p.seq = q.seq <=> p.call = q.call

(* data_channel_task holds a packet once, to send or to retry: a retry      *)
(* moves packets, so that reconnections do not multiply them.               *)
HeldOnce == IsInjective(Held)

(* A call that waits has exactly one request pending with the task, so it   *)
(* is answered once and never forgotten.                                    *)
Pending(c) ==
  ({"dcEvents"} \X {i \in DOMAIN dcEvents :
       \/ dcEvents[i].type = "publishPacket" /\ dcEvents[i].call = c
       \/ /\ dcEvents[i].type = "publishData"
          /\ dcEvents[i].reply /\ dcEvents[i].packet.call = c})
  \cup ({"queue"} \X {i \in DOMAIN queue : queue[i].reply /\ queue[i].packet.call = c})
WaitingIsPending ==
  running => \A c \in Call : Cardinality(Pending(c)) = (IF call[c] = "waiting" THEN 1 ELSE 0)

(* However calls, drains and reconnections interleave: packets keep their   *)
(* numbers, the task holds each at most once, and every call that waits has *)
(* one request left.                                                        *)
PacketsAccounted == OneNumberPerPacket /\ HeldOnce /\ WaitingIsPending

(* The task's own account of the channel's buffer is exact: what it counts  *)
(* is buffered, or its drain is still on the way to the task.               *)
Changes(events) ==
  [i \in DOMAIN events |->
     IF events[i].type = "bufferedAmountChange" THEN events[i].sent ELSE 0]
AmountIsExact ==
  (open /\ running) =>
    amount = Bytes(buffer) + Total(drained) + Total(Changes(dcEvents))

(* The channel's buffer never holds more than one packet above a threshold  *)
(* that may have been set.                                                  *)
BufferIsBounded ==
  buffer # <<>> => \E t \in Thresholds, c \in Call : Bytes(buffer) <= t + Size[c]

(* Until a connection is lost, packets reach the server in the order of     *)
(* their numbers and without a gap, however the low threshold is set.       *)
InOrderUntilLoss ==
  drops = 0 => \A i \in DOMAIN received : received[i].seq = i

(* publish_data returns unless the transport is down.                       *)
PublishCompletes ==
  \A c \in Call : call[c] = "waiting" ~> (call[c] # "waiting" \/ ~alive)

(* A lost signal connection is resumed: calls of publish_data do not keep   *)
(* the reconnection out, as long as the transport works.                    *)
SignalLossResumes == (link = "lost" /\ alive) ~> link = "up"

(* What test_reliable_retry asserts of reconnections: a packet that         *)
(* publish_data accepted is received.  Then until the session is closed, or *)
(* its channel, it is somewhere on its way.                                 *)
NothingForgotten ==
  (running /\ open) =>
    \A c \in Call : call[c] = "ok" => \E p \in Everywhere : p.call = c

(* What the doc of reconnect_task says: it runs every time a connection is  *)
(* lost.                                                                    *)
LossReconnects == link = "lost" ~> (link = "up" \/ ~running)
=============================================================================
