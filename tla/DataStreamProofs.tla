--------------------------- MODULE DataStreamProofs ---------------------------
(***************************************************************************)
(* Proofs about a data stream, for any writers, sizes, losses and resends. *)
(***************************************************************************)
EXTENDS DataStream, SequenceTheorems, TLAPS

Holds(q, p) == \E i \in DOMAIN q : q[i] = p

(* A packet that was sent is under way or behind.                           *)
Sent(p) == Holds(wire, p) \/ Holds(passed, p)
SentChunk(p) == p \in Packet /\ p.type = "chunk" /\ Sent(p)

(* One clone at a time writes, and has something left to write.             *)
WritingOne ==
  /\ \A w \in Writer : writing[w] = "writing" => remaining # 0
  /\ \A v, w \in Writer : writing[v] = "writing" /\ writing[w] = "writing" => v = w

(* A higher index was given later, though an index may be given twice.      *)
SentInOrder ==
  /\ \A p : SentChunk(p) => p.index \leq nextChunk /\ p.piece \leq pieces
  /\ \A p, q : SentChunk(p) /\ SentChunk(q) /\ p.index < q.index => p.piece < q.piece

(* The i-th piece a reader got was sent as the i-th.                        *)
GotWasSent ==
  \A r \in DOMAIN streamReaders : \A i \in DOMAIN streamReaders[r].got :
    \E p : SentChunk(p) /\ p.piece = streamReaders[r].got[i] /\ p.index + 1 = i

(* The reader of the open stream got as many chunks as were counted.        *)
OpenIsCounted ==
  IsOpen => /\ Current.end \in {"open", "dropped"}
            /\ descriptor.chunk_index = Len(Current.got)
            /\ total # NoTotal => descriptor.chunk_index \leq total

StreamInv ==
  /\ StreamTypeOK /\ WritingOne /\ SentInOrder
  /\ GotWasSent /\ OpenIsCounted /\ CleanEndIsWhole

-----------------------------------------------------------------------------
(* What a sequence holds.                                                   *)

(* Append adds one element.                                                 *)
LEMMA HoldsAppend ==
  ASSUME NEW S, NEW q \in Seq(S), NEW e \in S, NEW p
  PROVE  /\ Append(q, e) \in Seq(S)
         /\ Holds(Append(q, e), p) <=> Holds(q, p) \/ p = e
<1>1. /\ Append(q, e) \in Seq(S) /\ Len(Append(q, e)) = Len(q) + 1
      /\ \A i \in 1 .. Len(q) : Append(q, e)[i] = q[i]
      /\ Append(q, e)[Len(q) + 1] = e
  BY AppendProperties
<1>2. /\ DOMAIN q = 1 .. Len(q) /\ Len(q) \in Nat
      /\ DOMAIN Append(q, e) = 1 .. Len(q) + 1
  BY <1>1, LenProperties
<1>3. DOMAIN Append(q, e) = DOMAIN q \cup {Len(q) + 1}
  BY <1>2
<1>. QED
  BY <1>1, <1>2, <1>3 DEF Holds

(* Taking the head removes one occurrence.                                  *)
LEMMA HoldsTail ==
  ASSUME NEW S, NEW q \in Seq(S), q # <<>>, NEW p
  PROVE  /\ Tail(q) \in Seq(S) /\ Head(q) \in S
         /\ Holds(q, p) <=> Holds(Tail(q), p) \/ p = Head(q)
<1>1. /\ Tail(q) \in Seq(S) /\ Head(q) \in S /\ Len(Tail(q)) = Len(q) - 1
      /\ \A i \in 1 .. Len(Tail(q)) : Tail(q)[i] = q[i + 1]
      /\ Head(q) = q[1]
  BY HeadTailProperties
<1>2. /\ DOMAIN q = 1 .. Len(q) /\ Len(q) \in Nat \ {0}
      /\ DOMAIN Tail(q) = 1 .. Len(q) - 1
  BY <1>1, LenProperties, EmptySeq
<1>3. Holds(q, p) => Holds(Tail(q), p) \/ p = Head(q)
  <2>. SUFFICES ASSUME NEW i \in DOMAIN q, q[i] = p, i # 1
                PROVE  Holds(Tail(q), p)
    BY <1>1 DEF Holds
  <2>1. i - 1 \in DOMAIN Tail(q) /\ Tail(q)[i - 1] = p
    BY <1>1, <1>2
  <2>. QED
    BY <2>1 DEF Holds
<1>4. Holds(Tail(q), p) => Holds(q, p)
  <2>. SUFFICES ASSUME NEW i \in DOMAIN Tail(q), Tail(q)[i] = p
                PROVE  Holds(q, p)
    BY DEF Holds
  <2>1. i + 1 \in DOMAIN q /\ q[i + 1] = p
    BY <1>1, <1>2
  <2>. QED
    BY <2>1 DEF Holds
<1>5. p = Head(q) => Holds(q, p)
  BY <1>1, <1>2 DEF Holds
<1>. QED
  BY <1>1, <1>3, <1>4, <1>5

(* A sequence cut in two, the second part put in front of another one.      *)
LEMMA HoldsMoved ==
  ASSUME NEW S, NEW q \in Seq(S), NEW t \in Seq(S), NEW n \in DOMAIN q, NEW p
  PROVE  /\ SubSeq(q, 1, n - 1) \in Seq(S)
         /\ SubSeq(q, n, Len(q)) \o t \in Seq(S)
         /\ Holds(SubSeq(q, 1, n - 1), p) \/ Holds(SubSeq(q, n, Len(q)) \o t, p)
              <=> Holds(q, p) \/ Holds(t, p)
<1>. DEFINE a == SubSeq(q, 1, n - 1)
            b == SubSeq(q, n, Len(q))
<1>1. /\ DOMAIN q = 1 .. Len(q) /\ Len(q) \in Nat /\ n \in 1 .. Len(q)
      /\ q \in [1 .. Len(q) -> S]
      /\ DOMAIN t = 1 .. Len(t) /\ Len(t) \in Nat
  BY LenProperties
<1>2. /\ a \in Seq(S) /\ Len(a) = n - 1
      /\ \A i \in 1 .. n - 1 : a[i] = q[i]
  <2>1. \A i \in 1 .. n - 1 : q[i] \in S
    BY <1>1
  <2>2. /\ a \in Seq(S)
        /\ Len(a) = IF 1 <= n - 1 THEN n - 1 - 1 + 1 ELSE 0
        /\ \A i \in 1 .. n - 1 - 1 + 1 : a[i] = q[1 + i - 1]
    BY <1>1, <2>1, SubSeqProperties
  <2>. QED
    BY <1>1, <2>2
<1>3. /\ b \in Seq(S) /\ Len(b) = Len(q) - n + 1
      /\ \A i \in 1 .. Len(q) - n + 1 : b[i] = q[n + i - 1]
  <2>1. \A i \in n .. Len(q) : q[i] \in S
    BY <1>1
  <2>. QED
    BY <1>1, <2>1, SubSeqProperties
<1>. HIDE DEF a, b
<1>4. /\ b \o t \in Seq(S) /\ Len(b \o t) = Len(b) + Len(t)
      /\ \A i \in 1 .. Len(b) + Len(t) : (b \o t)[i] =
            IF i <= Len(b) THEN b[i] ELSE t[i - Len(b)]
  BY <1>3, ConcatProperties
<1>5. /\ DOMAIN a = 1 .. n - 1
      /\ DOMAIN (b \o t) = 1 .. Len(b) + Len(t)
      /\ Len(b) \in Nat
  BY <1>2, <1>3, <1>4, LenProperties
<1>6. Holds(a, p) => Holds(q, p)
  BY <1>1, <1>2, <1>5 DEF Holds
<1>7. Holds(b \o t, p) => Holds(q, p) \/ Holds(t, p)
  <2>. SUFFICES ASSUME NEW i \in DOMAIN (b \o t), (b \o t)[i] = p
                PROVE  Holds(q, p) \/ Holds(t, p)
    BY DEF Holds
  <2>1. CASE i <= Len(b)
    <3>1. n + i - 1 \in DOMAIN q /\ q[n + i - 1] = p
      BY <2>1, <1>1, <1>3, <1>4, <1>5
    <3>. QED
      BY <3>1 DEF Holds
  <2>2. CASE i > Len(b)
    <3>1. i - Len(b) \in DOMAIN t /\ t[i - Len(b)] = p
      BY <2>2, <1>1, <1>4, <1>5
    <3>. QED
      BY <3>1 DEF Holds
  <2>. QED
    BY <2>1, <2>2, <1>5
<1>8. Holds(t, p) => Holds(b \o t, p)
  <2>. SUFFICES ASSUME NEW i \in DOMAIN t, t[i] = p
                PROVE  Holds(b \o t, p)
    BY DEF Holds
  <2>1. Len(b) + i \in DOMAIN (b \o t) /\ (b \o t)[Len(b) + i] = p
    BY <1>1, <1>4, <1>5
  <2>. QED
    BY <2>1 DEF Holds
<1>9. Holds(q, p) => Holds(a, p) \/ Holds(b \o t, p)
  <2>. SUFFICES ASSUME NEW i \in DOMAIN q, q[i] = p
                PROVE  Holds(a, p) \/ Holds(b \o t, p)
    BY DEF Holds
  <2>1. CASE i < n
    BY <2>1, <1>1, <1>2, <1>5 DEF Holds
  <2>2. CASE i >= n
    <3>1. PICK k \in 1 .. Len(b) : n + k - 1 = i
      <4>1. i - n + 1 \in 1 .. Len(b) /\ n + (i - n + 1) - 1 = i
        BY <2>2, <1>1, <1>3
      <4>. QED
        BY <4>1
    <3>2. k \in DOMAIN (b \o t) /\ (b \o t)[k] = b[k] /\ b[k] = q[i]
      BY <3>1, <1>1, <1>3, <1>4, <1>5
    <3>. QED
      BY <3>2 DEF Holds
  <2>. QED
    BY <2>1, <2>2, <1>1
<1>. QED
  BY <1>2, <1>4, <1>6, <1>7, <1>8, <1>9 DEF a, b

-----------------------------------------------------------------------------
(* What was sent.                                                           *)

(* A packet is sent.                                                        *)
LEMMA SentPut ==
  ASSUME StreamTypeOK, NEW e \in Packet, Put(e), passed' = passed
  PROVE  /\ wire' \in Seq(Packet)
         /\ \A p : Sent(p)' <=> Sent(p) \/ p = e
<1>1. wire \in Seq(Packet)
  BY DEF StreamTypeOK
<1>2. wire' = Append(wire, e)
  BY DEF Put
<1>. QED
  BY <1>1, <1>2, HoldsAppend DEF Sent

(* A packet leaves the wire.                                                *)
LEMMA SentPasses ==
  ASSUME StreamTypeOK, Passes
  PROVE  /\ wire' \in Seq(Packet) /\ passed' \in Seq(Packet)
         /\ \A p : Sent(p)' <=> Sent(p)
         /\ Head(wire) \in Packet /\ Sent(Head(wire))
<1>1. /\ wire \in Seq(Packet) /\ wire # <<>> /\ passed \in Seq(Packet)
      /\ wire' = Tail(wire) /\ passed' = Append(passed, Head(wire))
  BY DEF StreamTypeOK, Passes
<1>2. /\ wire' \in Seq(Packet) /\ Head(wire) \in Packet
      /\ \A p : Holds(wire, p) <=> Holds(wire', p) \/ p = Head(wire)
  BY <1>1, HoldsTail
<1>3. /\ passed' \in Seq(Packet)
      /\ \A p : Holds(passed', p) <=> Holds(passed, p) \/ p = Head(wire)
  BY <1>1, <1>2, HoldsAppend
<1>. QED
  BY <1>2, <1>3 DEF Sent

(* Packets come again.                                                      *)
LEMMA SentResend ==
  ASSUME StreamTypeOK, NEW n \in DOMAIN passed, Resend(n)
  PROVE  /\ wire' \in Seq(Packet) /\ passed' \in Seq(Packet)
         /\ \A p : Sent(p)' <=> Sent(p)
<1>1. /\ wire \in Seq(Packet) /\ passed \in Seq(Packet)
      /\ wire' = SubSeq(passed, n, Len(passed)) \o wire
      /\ passed' = SubSeq(passed, 1, n - 1)
  BY DEF StreamTypeOK, Resend
<1>. QED
  BY <1>1, HoldsMoved DEF Sent

(* A step that leaves the readers alone.                                    *)
LEMMA ReadersKept ==
  ASSUME StreamInv, UNCHANGED <<receiverVars, total>>, \A p : SentChunk(p) => SentChunk(p)'
  PROVE  GotWasSent' /\ OpenIsCounted' /\ CleanEndIsWhole'
<1>1. GotWasSent'
  BY DEF StreamInv, GotWasSent, receiverVars
<1>2. OpenIsCounted'
  BY DEF StreamInv, OpenIsCounted, receiverVars, IsOpen, Current
<1>3. CleanEndIsWhole'
  BY DEF StreamInv, CleanEndIsWhole, receiverVars
<1>. QED
  BY <1>1, <1>2, <1>3

(* A step that sends no chunk.                                              *)
LEMMA OrderKept ==
  ASSUME SentInOrder, UNCHANGED <<nextChunk, pieces>>, \A p : SentChunk(p)' => SentChunk(p)
  PROVE  SentInOrder'
BY DEF SentInOrder

(* A chunk is sent, whether or not its writer learns of it.                 *)
LEMMA OrderChunk ==
  ASSUME StreamTypeOK, SentInOrder, Put(Chunk), passed' = passed, pieces' = pieces + 1,
         nextChunk' \in {nextChunk, nextChunk + 1}
  PROVE  SentInOrder' /\ Chunk \in Packet
<1>1. nextChunk \in Nat /\ pieces \in Nat
  BY DEF StreamTypeOK
<1>2. /\ Chunk \in Packet /\ Chunk.index = nextChunk /\ Chunk.piece = pieces + 1
  BY <1>1 DEF Chunk, Packet
<1>3. \A p : SentChunk(p)' => SentChunk(p) \/ p = Chunk
  BY <1>2, SentPut DEF SentChunk
<1>4. \A p : SentChunk(p) => p.index \in Nat /\ p.piece \in Nat
  BY DEF SentChunk, Packet
<1>5. ASSUME NEW p, SentChunk(p)'
      PROVE  p.index \leq nextChunk' /\ p.piece \leq pieces'
  <2>1. CASE SentChunk(p)
    BY <1>1, <1>4, <2>1 DEF SentInOrder
  <2>2. CASE p = Chunk
    BY <1>1, <1>2, <2>2
  <2>. QED
    BY <1>3, <1>5, <2>1, <2>2
<1>6. ASSUME NEW p, NEW q, SentChunk(p)', SentChunk(q)', p.index < q.index
      PROVE  p.piece < q.piece
  <2>1. CASE SentChunk(p) /\ SentChunk(q)
    BY <1>6, <2>1 DEF SentInOrder
  <2>2. CASE SentChunk(p) /\ q = Chunk
    BY <1>1, <1>2, <1>4, <2>2 DEF SentInOrder
  <2>3. CASE p = Chunk /\ SentChunk(q)
    <3>1. q.index \leq nextChunk
      BY <2>3 DEF SentInOrder
    <3>. QED
      BY <1>1, <1>2, <1>4, <1>6, <2>3, <3>1
  <2>4. CASE p = Chunk /\ q = Chunk
    BY <1>1, <1>2, <1>6, <2>4
  <2>. QED
    BY <1>3, <1>6, <2>1, <2>2, <2>3, <2>4
<1>. QED
  BY <1>2, <1>5, <1>6 DEF SentInOrder

-----------------------------------------------------------------------------
(* Steps.                                                                   *)

(* A call of write() starts, sends a chunk, or fails.                       *)
LEMMA StepWrite ==
  ASSUME StreamInv, StreamAssumption, NEW w \in Writer,
         \/ \E n \in Sizes : Write(w, n)
         \/ WriteChunk(w) \/ WriteChunkFails(w)
  PROVE  StreamInv'
<1>. USE DEF StreamInv
<1>1. ASSUME NEW n \in Sizes, Write(w, n)
      PROVE  StreamInv'
  <2>1. \A p : SentChunk(p)' <=> SentChunk(p)
    BY <1>1 DEF Write, SentChunk, Sent, wireVars
  <2>2. n \in Nat /\ n # 0
    BY DEF StreamAssumption
  <2>3. StreamTypeOK'
    BY <1>1, <2>2 DEF Write, StreamTypeOK, wireVars, receiverVars
  <2>4. WritingOne'
    BY <1>1, <2>2 DEF Write, WritingOne, Free, StreamTypeOK
  <2>. QED
    BY <1>1, <2>1, <2>3, <2>4, ReadersKept, OrderKept DEF Write
<1>2. CASE WriteChunk(w)
  <2>1. Put(Chunk) /\ passed' = passed /\ Chunk \in Packet /\ SentInOrder'
    BY <1>2, OrderChunk DEF WriteChunk
  <2>2. wire' \in Seq(Packet) /\ \A p : SentChunk(p) => SentChunk(p)'
    BY <2>1, SentPut DEF SentChunk
  <2>3. remaining - 1 \in Nat /\ remaining \in Nat
    BY <1>2 DEF WriteChunk, WritingOne, StreamTypeOK
  <2>4. StreamTypeOK'
    BY <1>2, <2>2, <2>3 DEF WriteChunk, StreamTypeOK, receiverVars
  <2>5. WritingOne'
    BY <1>2, <2>3 DEF WriteChunk, WritingOne, StreamTypeOK
  <2>. QED
    BY <1>2, <2>1, <2>2, <2>4, <2>5, ReadersKept DEF WriteChunk
<1>3. CASE WriteChunkFails(w)
  <2>1. CASE Put(Chunk) /\ pieces' = pieces + 1
    <3>1. passed' = passed /\ Chunk \in Packet /\ SentInOrder'
      BY <1>3, <2>1, OrderChunk DEF WriteChunkFails
    <3>2. wire' \in Seq(Packet) /\ \A p : SentChunk(p) => SentChunk(p)'
      BY <2>1, <3>1, SentPut DEF SentChunk
    <3>3. StreamTypeOK'
      BY <1>3, <2>1, <3>2 DEF WriteChunkFails, StreamTypeOK, receiverVars
    <3>4. WritingOne'
      BY <1>3 DEF WriteChunkFails, WritingOne, StreamTypeOK
    <3>. QED
      BY <1>3, <3>1, <3>2, <3>3, <3>4, ReadersKept DEF WriteChunkFails
  <2>2. CASE UNCHANGED <<wire, pieces>>
    <3>1. \A p : SentChunk(p)' <=> SentChunk(p)
      BY <1>3, <2>2 DEF WriteChunkFails, SentChunk, Sent
    <3>2. StreamTypeOK' /\ WritingOne'
      BY <1>3, <2>2 DEF WriteChunkFails, StreamTypeOK, WritingOne, receiverVars
    <3>. QED
      BY <1>3, <2>2, <3>1, <3>2, ReadersKept, OrderKept DEF WriteChunkFails
  <2>. QED
    BY <1>3, <2>1, <2>2 DEF WriteChunkFails
<1>. QED
  BY <1>1, <1>2, <1>3

(* A writer is closed or dropped, and the stream with the last of them.     *)
LEMMA StepClose ==
  ASSUME StreamInv,
         \/ \E w \in Writer : \/ \E trailer \in {"trailer", "abnormal"} : Close(w, trailer)
                              \/ DropWriter(w)
         \/ DropStream
  PROVE  StreamInv'
<1>. USE DEF StreamInv
<1>1. /\ UNCHANGED <<total, remaining, nextChunk, pieces, passed, resends, receiverVars>>
      /\ \/ wire' = wire
         \/ \E e \in {"trailer", "abnormal"} : Put(Marker(e))
      /\ isClosed' \in BOOLEAN /\ trailerLost' \in BOOLEAN
  <2>1. ASSUME NEW w \in Writer, NEW trailer \in {"trailer", "abnormal"}, Close(w, trailer)
        PROVE  <1>1!1 /\ <1>1!2 /\ <1>1!3
    BY <2>1 DEF Close, StreamTypeOK
  <2>2. ASSUME NEW w \in Writer, DropWriter(w)
        PROVE  <1>1!1 /\ <1>1!2 /\ <1>1!3
    BY <2>2 DEF DropWriter, StreamTypeOK, wireVars
  <2>3. CASE DropStream
    BY <2>3 DEF DropStream, StreamTypeOK, wireVars
  <2>. QED
    BY <2>1, <2>2, <2>3
<1>2. /\ writing' \in [Writer -> {"idle", "writing", "gone"}]
      /\ \A v \in Writer : writing'[v] = "writing" => writing[v] = "writing"
  BY DEF Close, DropWriter, DropStream, StreamTypeOK
<1>3. wire' \in Seq(Packet) /\ \A p : SentChunk(p)' <=> SentChunk(p)
  <2>1. CASE wire' = wire
    BY <1>1, <2>1 DEF SentChunk, Sent, StreamTypeOK
  <2>2. ASSUME NEW e \in {"trailer", "abnormal"}, Put(Marker(e))
        PROVE  <1>3
    <3>1. Marker(e) \in Packet /\ Marker(e).type # "chunk"
      BY DEF Marker, Packet
    <3>. QED
      BY <1>1, <2>2, <3>1, SentPut DEF SentChunk
  <2>. QED
    BY <1>1, <2>1, <2>2
<1>4. StreamTypeOK'
  BY <1>1, <1>2, <1>3 DEF StreamTypeOK, receiverVars
<1>5. WritingOne'
  BY <1>1, <1>2 DEF WritingOne
<1>. QED
  BY <1>1, <1>3, <1>4, <1>5, ReadersKept, OrderKept

(* Packets are lost, or come again.                                         *)
LEMMA StepNetwork ==
  ASSUME StreamInv, Lose \/ \E n \in DOMAIN passed : Resend(n)
  PROVE  StreamInv'
<1>. USE DEF StreamInv
<1>1. /\ wire' \in Seq(Packet) /\ passed' \in Seq(Packet)
      /\ \A p : SentChunk(p)' <=> SentChunk(p)
  <2>1. CASE Lose
    BY <2>1, SentPasses DEF Lose, SentChunk
  <2>2. ASSUME NEW n \in DOMAIN passed, Resend(n)
        PROVE  <1>1
    BY <2>2, SentResend DEF SentChunk
  <2>. QED
    BY <2>1, <2>2
<1>2. /\ UNCHANGED <<senderVars, receiverVars>>
      /\ resends' \in Nat /\ trailerLost' \in BOOLEAN
  <2>1. CASE Lose
    <3>1. UNCHANGED <<senderVars, receiverVars, resends>> /\ trailerLost' \in BOOLEAN
      BY <2>1 DEF Lose
    <3>. QED
      BY <3>1 DEF StreamTypeOK
  <2>2. ASSUME NEW n \in DOMAIN passed, Resend(n)
        PROVE  <1>2
    BY <2>2 DEF Resend, StreamTypeOK
  <2>. QED
    BY <2>1, <2>2
<1>3. StreamTypeOK' /\ WritingOne'
  BY <1>1, <1>2 DEF StreamTypeOK, WritingOne, senderVars, receiverVars
<1>. QED
  BY <1>1, <1>2, <1>3, ReadersKept, OrderKept DEF senderVars

(* The stream that is open changes its reader, and may go.                  *)
LEMMA ReaderStep ==
  ASSUME StreamInv, IsOpen, NEW got \in Seq(Nat), NEW end,
         end \in {"open", "ended", "missed", "exceeded", "incomplete", "abnormal", "dropped"},
         ReadersWith(got, end),
         UNCHANGED <<total>>,
         \A p : SentChunk(p)' <=> SentChunk(p),
         \A i \in DOMAIN got :
           \E p : SentChunk(p) /\ p.piece = got[i] /\ p.index + 1 = i,
         end = "ended" /\ total # NoTotal => Len(got) = total,
         \/ descriptor' = NoDescriptor
         \/ /\ end = "open" /\ descriptor'.reader = descriptor.reader
            /\ descriptor'.chunk_index = Len(got)
            /\ total # NoTotal => Len(got) \leq total
            /\ descriptor' \in [reader : Nat, chunk_index : Nat]
  PROVE  /\ streamReaders' \in Seq(Reader)
         /\ descriptor' \in [reader : Nat, chunk_index : Nat]
         /\ descriptor'.reader = 0 \/ descriptor'.reader \in DOMAIN streamReaders'
         /\ GotWasSent' /\ OpenIsCounted' /\ CleanEndIsWhole'
<1>. USE DEF StreamInv
<1>. DEFINE n == descriptor.reader
            c == Current
            new == [got |-> got, end |-> IF c.end = "open" THEN end ELSE c.end]
<1>1. /\ streamReaders \in Seq(Reader) /\ n \in DOMAIN streamReaders
      /\ n # 0 /\ c = streamReaders[n]
      /\ DOMAIN streamReaders = 1 .. Len(streamReaders)
  BY LenProperties DEF IsOpen, StreamTypeOK, Current
<1>2. c \in Reader
  BY <1>1, ElementOfSeq
<1>3. c.end \in {"open", "dropped"}
  BY DEF OpenIsCounted
<1>4. streamReaders' = [streamReaders EXCEPT ![n] = new]
  BY <1>1 DEF ReadersWith
<1>5. /\ new \in Reader /\ new.got = got /\ new.end \in {end, "dropped"}
      /\ end = "open" => new.end \in {"open", "dropped"}
  BY <1>2, <1>3 DEF Reader
<1>. HIDE DEF new, n, c
<1>6. /\ streamReaders' \in Seq(Reader)
      /\ DOMAIN streamReaders' = DOMAIN streamReaders
      /\ streamReaders'[n] = new
      /\ \A r \in DOMAIN streamReaders \ {n} : streamReaders'[r] = streamReaders[r]
  BY <1>1, <1>4, <1>5, ExceptSeq
<1>7. /\ descriptor' \in [reader : Nat, chunk_index : Nat]
      /\ descriptor'.reader \in {0, n}
      /\ descriptor'.reader = n => /\ end = "open" /\ descriptor'.chunk_index = Len(got)
                                   /\ total # NoTotal => Len(got) \leq total
  BY <1>1 DEF NoDescriptor, n
<1>8. GotWasSent'
  <2>1. ASSUME NEW r \in DOMAIN streamReaders', NEW i \in DOMAIN streamReaders'[r].got
        PROVE  \E p : SentChunk(p) /\ p.piece = streamReaders'[r].got[i] /\ p.index + 1 = i
    <3>1. CASE r = n
      BY <1>5, <1>6, <2>1, <3>1
    <3>2. CASE r # n
      BY <1>6, <2>1, <3>2 DEF GotWasSent
    <3>. QED
      BY <3>1, <3>2
  <2>. QED
    BY <2>1 DEF GotWasSent
<1>9. OpenIsCounted'
  <2>1. CASE descriptor'.reader = n
    <3>1. Current' = new
      BY <1>6, <2>1 DEF Current
    <3>. QED
      BY <1>5, <1>7, <2>1, <3>1 DEF OpenIsCounted
  <2>2. CASE descriptor'.reader = 0
    BY <2>2 DEF OpenIsCounted, IsOpen
  <2>. QED
    BY <1>7, <2>1, <2>2
<1>10. CleanEndIsWhole'
  BY <1>5, <1>6 DEF CleanEndIsWhole
<1>. QED
  BY <1>1, <1>6, <1>7, <1>8, <1>9, <1>10

(* The open stream is closed, with what its reader has.                     *)
LEMMA CloseStep ==
  ASSUME StreamInv, IsOpen, NEW end, CloseStream(end),
         end \in {"ended", "missed", "exceeded", "incomplete", "abnormal", "dropped"},
         end = "ended" /\ total # NoTotal => descriptor.chunk_index = total,
         UNCHANGED <<total>>,
         \A p : SentChunk(p)' <=> SentChunk(p)
  PROVE  /\ streamReaders' \in Seq(Reader)
         /\ descriptor' \in [reader : Nat, chunk_index : Nat]
         /\ descriptor'.reader = 0 \/ descriptor'.reader \in DOMAIN streamReaders'
         /\ GotWasSent' /\ OpenIsCounted' /\ CleanEndIsWhole'
<1>1. /\ descriptor.reader \in DOMAIN streamReaders
      /\ streamReaders \in Seq(Reader)
      /\ DOMAIN streamReaders = 1 .. Len(streamReaders)
  BY LenProperties DEF StreamInv, StreamTypeOK, IsOpen
<1>2. Current \in Reader
  BY <1>1, ElementOfSeq DEF Current
<1>3. Current.got \in Seq(Nat)
  BY <1>2 DEF Reader
<1>4. \A i \in DOMAIN Current.got :
        \E p : SentChunk(p) /\ p.piece = Current.got[i] /\ p.index + 1 = i
  BY <1>1 DEF StreamInv, GotWasSent, Current
<1>5. descriptor' = NoDescriptor /\ ReadersWith(Current.got, end)
  BY DEF CloseStream
<1>6. descriptor.chunk_index = Len(Current.got)
  BY DEF StreamInv, OpenIsCounted
<1>. QED
  BY <1>3, <1>4, <1>5, <1>6, ReaderStep

(* A packet reaches the manager.                                            *)
LEMMA StepReceiving ==
  ASSUME StreamInv, StreamAssumption, Receiving
  PROVE  StreamInv'
<1>. DEFINE Read ==
       /\ streamReaders' \in Seq(Reader)
       /\ descriptor' \in [reader : Nat, chunk_index : Nat]
       /\ descriptor'.reader = 0 \/ descriptor'.reader \in DOMAIN streamReaders'
       /\ GotWasSent' /\ OpenIsCounted' /\ CleanEndIsWhole'
<1>1. /\ wire' \in Seq(Packet) /\ passed' \in Seq(Packet)
      /\ \A p : Sent(p)' <=> Sent(p)
      /\ Head(wire) \in Packet /\ Sent(Head(wire))
      /\ UNCHANGED <<senderVars, resends, trailerLost>>
  BY SentPasses DEF Receiving, StreamInv
<1>2. /\ \A p : SentChunk(p)' <=> SentChunk(p)
      /\ UNCHANGED total
  BY <1>1 DEF SentChunk, senderVars
<1>3. total \in Nat \cup {NoTotal} /\ (total # NoTotal => total \in Nat)
  BY DEF StreamInv, StreamTypeOK, StreamAssumption
<1>4. /\ descriptor \in [reader : Nat, chunk_index : Nat]
      /\ descriptor.reader = 0 \/ descriptor.reader \in DOMAIN streamReaders
      /\ streamReaders \in Seq(Reader) /\ DOMAIN streamReaders = 1 .. Len(streamReaders)
      /\ Len(streamReaders) \in Nat
  BY LenProperties DEF StreamInv, StreamTypeOK
<1>5. ASSUME UNCHANGED receiverVars
      PROVE  Read
  BY <1>2, <1>4, <1>5, ReadersKept DEF receiverVars
<1>6. ASSUME HandleHeader, ~IsOpen
      PROVE  Read
  <2>. DEFINE new == [got |-> <<>>, end |-> "open"]
              n == Len(streamReaders) + 1
  <2>1. new \in Reader /\ new.got = <<>> /\ Len(<<>>) = 0 /\ new.end = "open"
    BY EmptySeq DEF Reader
  <2>2. streamReaders' = Append(streamReaders, new) /\ descriptor' = [reader |-> n, chunk_index |-> 0]
    BY <1>6 DEF HandleHeader
  <2>. HIDE DEF new
  <2>3. /\ streamReaders' \in Seq(Reader) /\ Len(streamReaders') = n
        /\ \A i \in 1 .. Len(streamReaders) : streamReaders'[i] = streamReaders[i]
        /\ streamReaders'[n] = new
    BY <1>4, <2>1, <2>2, AppendProperties
  <2>4. DOMAIN streamReaders' = DOMAIN streamReaders \cup {n} /\ n \in Nat
    BY <1>4, <2>3, LenProperties
  <2>5. GotWasSent'
    <3>1. \A i \in DOMAIN new.got : FALSE
      BY <2>1
    <3>. QED
      BY <1>2, <1>4, <2>3, <2>4, <3>1 DEF GotWasSent, StreamInv
  <2>6. CleanEndIsWhole'
    BY <1>2, <1>4, <2>1, <2>3, <2>4 DEF CleanEndIsWhole, StreamInv
  <2>7. OpenIsCounted'
    <3>1. Current' = new
      BY <2>2, <2>3 DEF Current
    <3>2. descriptor'.chunk_index = 0
      BY <2>2
    <3>. QED
      BY <1>2, <1>3, <2>1, <3>1, <3>2 DEF OpenIsCounted
  <2>. QED
    BY <1>4, <2>2, <2>3, <2>4, <2>5, <2>6, <2>7
<1>7. ASSUME IsOpen, NEW end \in {"missed", "exceeded", "dropped"}, CloseStream(end)
      PROVE  Read
  BY <1>2, <1>7, CloseStep
<1>8. ASSUME HandleTrailer, IsOpen
      PROVE  Read
  <2>1. CASE total # NoTotal /\ descriptor.chunk_index < total
    BY <1>2, <1>8, <2>1, CloseStep DEF HandleTrailer
  <2>2. CASE ~(total # NoTotal /\ descriptor.chunk_index < total)
    <3>1. total # NoTotal => descriptor.chunk_index = total
      BY <1>3, <1>4, <1>8, <2>2 DEF StreamInv, OpenIsCounted
    <3>2. CloseStream("abnormal") \/ CloseStream("ended")
      BY <1>8, <2>2 DEF HandleTrailer
    <3>. QED
      BY <1>2, <1>8, <3>1, <3>2, CloseStep
  <2>. QED
    BY <2>1, <2>2
<1>9. ASSUME IsOpen, Head(wire).type = "chunk",
             descriptor.chunk_index = Head(wire).index, ~TooLong,
             descriptor' = [descriptor EXCEPT !.chunk_index = @ + 1],
             ReadersWith(Append(Current.got, Head(wire).piece), "open")
      PROVE  Read
  <2>. DEFINE got == Append(Current.got, Head(wire).piece)
              k == Len(Current.got)
  <2>1. /\ Current \in Reader
        /\ \A i \in DOMAIN Current.got :
             \E p : SentChunk(p) /\ p.piece = Current.got[i] /\ p.index + 1 = i
        /\ descriptor.chunk_index = k
    <3>1. descriptor.reader \in DOMAIN streamReaders
      BY <1>4, <1>9 DEF IsOpen
    <3>. QED
      BY <1>4, <1>9, <3>1, ElementOfSeq
         DEF Current, StreamInv, GotWasSent, OpenIsCounted
  <2>2. Current.got \in Seq(Nat) /\ Head(wire).piece \in Nat /\ SentChunk(Head(wire))
    BY <1>1, <1>9, <2>1 DEF Reader, Packet, SentChunk
  <2>3. /\ got \in Seq(Nat) /\ Len(got) = k + 1
        /\ \A i \in 1 .. k : got[i] = Current.got[i]
        /\ got[k + 1] = Head(wire).piece
    BY <2>2, AppendProperties
  <2>4. /\ k \in Nat /\ DOMAIN Current.got = 1 .. k
        /\ DOMAIN got = 1 .. k + 1
    BY <2>2, <2>3, LenProperties
  <2>. HIDE DEF got, k
  <2>5. \A i \in DOMAIN got : \E p : SentChunk(p) /\ p.piece = got[i] /\ p.index + 1 = i
    <3>1. ASSUME NEW i \in 1 .. k
          PROVE  \E p : SentChunk(p) /\ p.piece = got[i] /\ p.index + 1 = i
      BY <2>1, <2>3, <2>4
    <3>2. /\ SentChunk(Head(wire)) /\ Head(wire).piece = got[k + 1]
          /\ Head(wire).index + 1 = k + 1
      BY <1>9, <2>1, <2>2, <2>3
    <3>3. \A i \in DOMAIN got : i \in 1 .. k \/ i = k + 1
      BY <2>4
    <3>. QED
      BY <3>1, <3>2, <3>3
  <2>6. /\ descriptor'.reader = descriptor.reader /\ descriptor'.chunk_index = Len(got)
        /\ descriptor' \in [reader : Nat, chunk_index : Nat]
    <3>1. descriptor' = [descriptor EXCEPT !.chunk_index = descriptor.chunk_index + 1]
      BY <1>9
    <3>2. descriptor \in [reader : Nat, chunk_index : Nat]
      BY <1>4
    <3>3. descriptor.chunk_index = k /\ k + 1 = Len(got)
      BY <2>1, <2>3
    <3>. QED
      BY <3>1, <3>2, <3>3
  <2>7. total # NoTotal => Len(got) \leq total
    BY <1>3, <1>9, <2>1, <2>3, <2>4 DEF TooLong
  <2>8. ReadersWith(got, "open")
    BY <1>9 DEF got
  <2>. QED
    <3>1. IsOpen /\ UNCHANGED <<total>>
      BY <1>2, <1>9
    <3>. QED
      BY <1>2, <2>3, <2>5, <2>6, <2>7, <2>8, <3>1, ReaderStep, SMTT(30)
<1>10. Read
  BY <1>5, <1>6, <1>7, <1>8, <1>9 DEF Receiving, HandleHeader, HandleChunk, HandleTrailer
<1>11. StreamTypeOK' /\ WritingOne'
  BY <1>1, <1>10 DEF StreamInv, StreamTypeOK, WritingOne, senderVars
<1>. QED
  BY <1>1, <1>2, <1>10, <1>11, OrderKept DEF StreamInv, senderVars

(* The application drops a reader.                                          *)
LEMMA StepDropReader ==
  ASSUME StreamInv, NEW r \in DOMAIN streamReaders, DropReader(r)
  PROVE  StreamInv'
<1>. USE DEF StreamInv
<1>1. /\ \A p : SentChunk(p)' <=> SentChunk(p)
      /\ UNCHANGED <<senderVars, wireVars, descriptor, trailerLost>>
  BY DEF DropReader, SentChunk, Sent, wireVars
<1>2. /\ streamReaders \in Seq(Reader) /\ streamReaders[r] \in Reader
      /\ DOMAIN streamReaders = 1 .. Len(streamReaders)
  BY LenProperties, ElementOfSeq DEF StreamTypeOK
<1>. DEFINE new == [streamReaders[r] EXCEPT !.end = "dropped"]
<1>3. new \in Reader /\ new.got = streamReaders[r].got /\ new.end = "dropped"
  BY <1>2 DEF Reader
<1>4. streamReaders' = [streamReaders EXCEPT ![r] = new]
  BY DEF DropReader
<1>. HIDE DEF new
<1>5. /\ streamReaders' \in Seq(Reader) /\ DOMAIN streamReaders' = DOMAIN streamReaders
      /\ streamReaders'[r] = new
      /\ \A s \in DOMAIN streamReaders \ {r} : streamReaders'[s] = streamReaders[s]
  BY <1>2, <1>3, <1>4, ExceptSeq
<1>6. GotWasSent'
  BY <1>1, <1>3, <1>5 DEF GotWasSent
<1>7. CleanEndIsWhole'
  BY <1>1, <1>3, <1>5 DEF CleanEndIsWhole, senderVars
<1>8. OpenIsCounted'
  <2>. SUFFICES ASSUME IsOpen
                PROVE  /\ Current'.end \in {"open", "dropped"}
                       /\ Current'.got = Current.got
    BY <1>1 DEF OpenIsCounted, IsOpen, senderVars
  <2>1. descriptor.reader \in DOMAIN streamReaders
    BY DEF IsOpen, StreamTypeOK
  <2>. QED
    BY <1>1, <1>3, <1>5, <2>1 DEF OpenIsCounted, Current
<1>9. StreamTypeOK' /\ WritingOne'
  BY <1>1, <1>5 DEF StreamTypeOK, WritingOne, senderVars, wireVars
<1>. QED
  BY <1>1, <1>6, <1>7, <1>8, <1>9, OrderKept DEF senderVars

-----------------------------------------------------------------------------
(* Theorems.                                                                *)

(* Every variable keeps its type, what readers got was sent in that order,  *)
(* and the open stream counts what its reader got.                          *)
THEOREM DataStreamInvariant == StreamSpec => []StreamInv
<1>1. ASSUME StreamInit
      PROVE  StreamInv
  <2>1. /\ Marker("header") \in Packet /\ Marker("header").type # "chunk"
        /\ <<Marker("header")>> \in Seq(Packet) /\ <<>> \in Seq(Packet)
        /\ <<>> \in Seq(Reader)
        /\ NoDescriptor \in [reader : Nat, chunk_index : Nat] /\ NoDescriptor.reader = 0
    BY EmptySeq DEF Marker, Packet, NoDescriptor
  <2>2. \A p : ~SentChunk(p)
    BY <1>1, <2>1 DEF StreamInit, SentChunk, Sent, Holds
  <2>3. StreamTypeOK
    BY <1>1, <2>1 DEF StreamInit, StreamTypeOK
  <2>4. WritingOne /\ SentInOrder
    BY <1>1, <2>2 DEF StreamInit, WritingOne, SentInOrder
  <2>5. GotWasSent /\ CleanEndIsWhole
    BY <1>1 DEF StreamInit, GotWasSent, CleanEndIsWhole
  <2>6. OpenIsCounted
    BY <1>1, <2>1 DEF StreamInit, OpenIsCounted, IsOpen
  <2>. QED
    BY <2>3, <2>4, <2>5, <2>6 DEF StreamInv
<1>2. ASSUME StreamInv, [StreamNext]_streamVars
      PROVE  StreamInv'
  <2>1. CASE UNCHANGED streamVars
    <3>1. \A p : SentChunk(p)' <=> SentChunk(p)
      BY <2>1 DEF streamVars, wireVars, SentChunk, Sent
    <3>2. StreamTypeOK' /\ WritingOne'
      BY <1>2, <2>1 DEF StreamInv, StreamTypeOK, WritingOne, streamVars, senderVars,
                        wireVars, receiverVars
    <3>. QED
      BY <1>2, <2>1, <3>1, <3>2, ReadersKept, OrderKept DEF StreamInv, streamVars, senderVars
  <2>. QED
    BY <1>2, <2>1, StepWrite, StepClose, StepNetwork, StepReceiving, StepDropReader,
       StreamAssumption DEF StreamNext
<1>. QED
  BY <1>1, <1>2, PTL DEF StreamSpec

(* What a reader yields was sent in this order, however packets are lost    *)
(* and come again and writers overlap, and a stream of a known length ends  *)
(* normally only when it is whole (handle_chunk, handle_trailer).           *)
THEOREM StreamsAreWhole == StreamSpec => []StreamIntegrity
<1>1. ASSUME StreamInv
      PROVE  ReadInOrder
  <2>. SUFFICES ASSUME NEW r \in DOMAIN streamReaders,
                       NEW i \in DOMAIN streamReaders[r].got,
                       NEW j \in DOMAIN streamReaders[r].got, i < j
                PROVE  streamReaders[r].got[i] < streamReaders[r].got[j]
    BY DEF ReadInOrder
  <2>1. PICK p : SentChunk(p) /\ p.piece = streamReaders[r].got[i] /\ p.index + 1 = i
    BY <1>1 DEF StreamInv, GotWasSent
  <2>2. PICK q : SentChunk(q) /\ q.piece = streamReaders[r].got[j] /\ q.index + 1 = j
    BY <1>1 DEF StreamInv, GotWasSent
  <2>3. p.index \in Nat /\ q.index \in Nat
    BY <2>1, <2>2 DEF SentChunk, Packet
  <2>4. p.index < q.index
    BY <2>1, <2>2, <2>3
  <2>. QED
    BY <1>1, <2>1, <2>2, <2>4 DEF StreamInv, SentInOrder
<1>2. StreamInv => StreamIntegrity
  BY <1>1 DEF StreamInv, StreamIntegrity
<1>. QED
  BY <1>2, DataStreamInvariant, PTL
=============================================================================
