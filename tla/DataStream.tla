------------------------------ MODULE DataStream ------------------------------
(***************************************************************************)
(* One data stream from its writers to its readers                         *)
(* (livekit/src/room/data_stream/outgoing.rs, incoming.rs).                *)
(*                                                                         *)
(* Clones of a writer share a RawStream behind a mutex and cut what they   *)
(* are given into numbered chunks, each sent and acknowledged before the   *)
(* next one.  Between the two rooms packets stay in order, but some are    *)
(* lost when a connection is replaced, and the last of them come again     *)
(* when one is resumed.  A chunk is a unit of length; pieces are numbered  *)
(* in the order they were sent in.                                         *)
(***************************************************************************)
EXTENDS Naturals, Sequences

CONSTANTS
  Writer,      \* the clones of the writer's handle
  Sizes,       \* how many chunks a call of write() makes
  Totals,      \* the total_length the header may announce
  NoTotal,     \* no total_length
  MaxPieces,   \* bound: chunks ever sent
  MaxResends,  \* bound: how often packets come again
  MaxReaders   \* bound: how many readers are opened

ASSUME StreamAssumption ==
  /\ Sizes \subseteq Nat \ {0}
  /\ Totals \subseteq Nat \cup {NoTotal}
  /\ NoTotal \notin Nat
  /\ MaxPieces \in Nat /\ MaxResends \in Nat /\ MaxReaders \in Nat

VARIABLES
  total,         \* header.total_length
  writing,       \* each clone: "idle", "writing" with the mutex, "gone"
  remaining,     \* chunks the call under way has still to send
  nextChunk,     \* RawStream.progress.chunk_index
  isClosed,      \* RawStream.is_closed
  pieces,        \* how many chunks were sent (history)
  wire,          \* packets under way
  passed,        \* packets that were received or lost
  resends,       \* bound only
  descriptor,    \* open_streams: the reader it feeds (0: none), and its chunk_index
  streamReaders, \* what each reader got, and how it ended
  trailerLost    \* no trailer of the writer reached the receiver (history)

senderVars == <<total, writing, remaining, nextChunk, isClosed, pieces>>
wireVars == <<wire, passed, resends>>
receiverVars == <<descriptor, streamReaders>>
streamVars == <<senderVars, wireVars, receiverVars, trailerLost>>

Packet == [type : {"header", "trailer", "abnormal"}, index : {0}, piece : {0}]
     \cup [type : {"chunk"}, index : Nat, piece : Nat]
Reader == [got : Seq(Nat),
           end : {"open", "ended", "missed", "exceeded", "incomplete", "abnormal", "dropped"}]

StreamTypeOK ==
  /\ total \in Totals
  /\ writing \in [Writer -> {"idle", "writing", "gone"}]
  /\ remaining \in Nat /\ nextChunk \in Nat /\ pieces \in Nat /\ resends \in Nat
  /\ isClosed \in BOOLEAN /\ trailerLost \in BOOLEAN
  /\ wire \in Seq(Packet) /\ passed \in Seq(Packet)
  /\ streamReaders \in Seq(Reader)
  /\ descriptor \in [reader : Nat, chunk_index : Nat]
  /\ descriptor.reader = 0 \/ descriptor.reader \in DOMAIN streamReaders

Marker(type) == [type |-> type, index |-> 0, piece |-> 0]
NoDescriptor == [reader |-> 0, chunk_index |-> 0]

(* RawStream::open sent the header.                                         *)
StreamInit ==
  /\ total \in Totals
  /\ writing = [w \in Writer |-> "idle"] /\ remaining = 0
  /\ nextChunk = 0 /\ isClosed = FALSE
  /\ pieces = 0
  /\ wire = <<Marker("header")>> /\ passed = <<>> /\ resends = 0
  /\ descriptor = NoDescriptor
  /\ streamReaders = <<>>
  /\ trailerLost = FALSE

Free == \A w \in Writer : writing[w] # "writing"
Put(packet) == wire' = Append(wire, packet)

-----------------------------------------------------------------------------
(* write(): the mutex is held for the whole call.                           *)
Write(w, n) ==
  /\ writing[w] = "idle" /\ Free
  /\ pieces + n \leq MaxPieces
  /\ writing' = [writing EXCEPT ![w] = "writing"]
  /\ remaining' = n
  /\ UNCHANGED <<total, nextChunk, isClosed, pieces, wireVars, receiverVars, trailerLost>>

Chunk == [type |-> "chunk", index |-> nextChunk, piece |-> pieces + 1]

(* write_chunk                                                              *)
WriteChunk(w) ==
  /\ writing[w] = "writing"
  /\ Put(Chunk)
  /\ pieces' = pieces + 1
  /\ nextChunk' = nextChunk + 1
  /\ remaining' = remaining - 1
  /\ writing' = [writing EXCEPT ![w] = IF remaining = 1 THEN "idle" ELSE "writing"]
  /\ UNCHANGED <<total, isClosed, passed, resends, receiverVars, trailerLost>>

(* It fails, or the caller drops the future while it waits; the packet may  *)
(* have been sent all the same.                                             *)
WriteChunkFails(w) ==
  /\ writing[w] = "writing"
  /\ \/ Put(Chunk) /\ pieces' = pieces + 1
     \/ UNCHANGED <<wire, pieces>>
  /\ remaining' = 0
  /\ writing' = [writing EXCEPT ![w] = "idle"]
  /\ UNCHANGED <<total, nextChunk, isClosed, passed, resends, receiverVars, trailerLost>>

(* close() consumes the handle: AlreadyClosed, or a trailer.  When that     *)
(* fails, or the future is dropped, the trailer may have been sent, and the *)
(* stream is not closed.                                                    *)
Close(w, trailer) ==
  /\ writing[w] = "idle" /\ Free
  /\ writing' = [writing EXCEPT ![w] = "gone"]
  /\ \/ isClosed /\ UNCHANGED <<isClosed, wire>>
     \/ ~isClosed /\ isClosed' = TRUE /\ Put(Marker(trailer))
     \/ ~isClosed /\ UNCHANGED isClosed /\ (Put(Marker(trailer)) \/ UNCHANGED wire)
  /\ UNCHANGED <<total, remaining, nextChunk, pieces, passed, resends, receiverVars, trailerLost>>

(* A handle is dropped.                                                     *)
DropWriter(w) ==
  /\ writing[w] = "idle"
  /\ writing' = [writing EXCEPT ![w] = "gone"]
  /\ UNCHANGED <<total, remaining, nextChunk, isClosed, pieces, wireVars, receiverVars, trailerLost>>

(* Mutant: nothing is sent.                                                 *)
DropStreamSilently ==
  /\ \A w \in Writer : writing[w] = "gone"
  /\ ~isClosed
  /\ isClosed' = TRUE
  /\ UNCHANGED <<total, writing, remaining, nextChunk, pieces, wireVars, receiverVars, trailerLost>>

(* Drop for RawStream, after the last of them: a stream that is not closed  *)
(* is closed normally by a task of its own.                                 *)
DropStream ==
  /\ \A w \in Writer : writing[w] = "gone"
  /\ ~isClosed
  /\ isClosed' = TRUE
  /\ \/ Put(Marker("trailer")) /\ UNCHANGED trailerLost
     \/ trailerLost' = TRUE /\ UNCHANGED wire
  /\ UNCHANGED <<total, writing, remaining, nextChunk, pieces, passed, resends, receiverVars>>

-----------------------------------------------------------------------------
(* The network.                                                             *)
Passes ==
  /\ wire # <<>>
  /\ wire' = Tail(wire)
  /\ passed' = Append(passed, Head(wire))

Lose ==
  /\ Passes
  /\ trailerLost' = (trailerLost \/ Head(wire).type \in {"trailer", "abnormal"})
  /\ UNCHANGED <<senderVars, resends, receiverVars>>

Resend(n) ==
  /\ resends < MaxResends
  /\ resends' = resends + 1
  /\ wire' = SubSeq(passed, n, Len(passed)) \o wire
  /\ passed' = SubSeq(passed, 1, n - 1)
  /\ UNCHANGED <<senderVars, receiverVars, trailerLost>>

-----------------------------------------------------------------------------
(* IncomingStreamManager.                                                   *)
IsOpen == descriptor.reader # 0
Current == streamReaders[descriptor.reader]
ReadersWith(got, end) ==
  streamReaders' = [streamReaders EXCEPT ![descriptor.reader] =
                [got |-> got, end |-> IF @.end = "open" THEN end ELSE @.end]]
CloseStream(end) == descriptor' = NoDescriptor /\ ReadersWith(Current.got, end)

(* handle_header: a stream that is open is not opened again.                *)
HandleHeader ==
  /\ Head(wire).type = "header"
  /\ IF IsOpen
     THEN UNCHANGED receiverVars
     ELSE /\ Len(streamReaders) < MaxReaders
          /\ streamReaders' = Append(streamReaders, [got |-> <<>>, end |-> "open"])
          /\ descriptor' = [reader |-> Len(streamReaders) + 1, chunk_index |-> 0]

(* handle_chunk, with close_stream_with_error and yield_chunk               *)
TooLong == total # NoTotal /\ descriptor.chunk_index + 1 > total

(* Mutant: the index is not compared.                                       *)
HandleChunkUnchecked ==
  /\ Head(wire).type = "chunk"
  /\ CASE ~IsOpen -> UNCHANGED receiverVars
       [] IsOpen /\ TooLong -> CloseStream("exceeded")
       [] OTHER ->
            IF Current.end = "dropped"
            THEN CloseStream("dropped")
            ELSE /\ descriptor' = [descriptor EXCEPT !.chunk_index = @ + 1]
                 /\ ReadersWith(Append(Current.got, Head(wire).piece), "open")

HandleChunk ==
  /\ Head(wire).type = "chunk"
  /\ CASE ~IsOpen -> UNCHANGED receiverVars
       [] IsOpen /\ descriptor.chunk_index # Head(wire).index -> CloseStream("missed")
       [] IsOpen /\ descriptor.chunk_index = Head(wire).index /\ TooLong ->
            CloseStream("exceeded")
       [] OTHER ->
            IF Current.end = "dropped"
            THEN CloseStream("dropped")
            ELSE /\ descriptor' = [descriptor EXCEPT !.chunk_index = @ + 1]
                 /\ ReadersWith(Append(Current.got, Head(wire).piece), "open")

(* handle_trailer                                                           *)
HandleTrailer ==
  /\ Head(wire).type \in {"trailer", "abnormal"}
  /\ CASE ~IsOpen -> UNCHANGED receiverVars
       [] IsOpen /\ total # NoTotal /\ descriptor.chunk_index < total ->
            CloseStream("incomplete")
       [] OTHER ->
            CloseStream(IF Head(wire).type = "abnormal" THEN "abnormal" ELSE "ended")

Receiving ==
  /\ Passes
  /\ HandleHeader \/ HandleChunk \/ HandleTrailer
  /\ UNCHANGED <<senderVars, resends, trailerLost>>

(* The application drops a reader; the manager sees it at the next chunk.   *)
DropReader(r) ==
  /\ streamReaders[r].end = "open"
  /\ streamReaders' = [streamReaders EXCEPT ![r].end = "dropped"]
  /\ UNCHANGED <<senderVars, wireVars, descriptor, trailerLost>>

-----------------------------------------------------------------------------
StreamNext ==
  \/ \E w \in Writer : \/ \E n \in Sizes : Write(w, n)
                       \/ WriteChunk(w) \/ WriteChunkFails(w)
                       \/ \E trailer \in {"trailer", "abnormal"} : Close(w, trailer)
                       \/ DropWriter(w)
  \/ DropStream
  \/ Lose
  \/ \E n \in DOMAIN passed : Resend(n)
  \/ Receiving
  \/ \E r \in DOMAIN streamReaders : DropReader(r)

StreamSpec == StreamInit /\ [][StreamNext]_streamVars

(* The trailer of a dropped stream is sent by a task that runs, and what    *)
(* is not lost arrives.                                                     *)
StreamFairness ==
  /\ WF_streamVars(DropStream)
  /\ WF_streamVars((Receiving \/ Lose))
-----------------------------------------------------------------------------
Gone == \A w \in Writer : writing[w] = "gone"

(* What a reader yields was sent in this order, whatever is lost or comes   *)
(* again and however writers overlap (handle_chunk compares the index).     *)
ReadInOrder ==
  \A r \in DOMAIN streamReaders : \A i, j \in DOMAIN streamReaders[r].got :
    i < j => streamReaders[r].got[i] < streamReaders[r].got[j]

(* A reader that ends normally, of a stream that announced its length, got  *)
(* that much.                                                               *)
CleanEndIsWhole ==
  \A r \in DOMAIN streamReaders :
    streamReaders[r].end = "ended" /\ total # NoTotal => Len(streamReaders[r].got) = total

(* What readers get of a stream is a true part of it, in its order, and all *)
(* of it when they are told so (handle_chunk, handle_trailer).              *)
StreamIntegrity == ReadInOrder /\ CleanEndIsWhole

(* When the last writer is gone every reader ends, also after a failed      *)
(* write or close, unless the trailer itself is lost or cannot be sent.     *)
StreamEnds ==
  Gone ~> trailerLost \/ \A r \in DOMAIN streamReaders : streamReaders[r].end # "open"
=============================================================================
