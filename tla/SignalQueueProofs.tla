--------------------------- MODULE SignalQueueProofs ---------------------------
(***************************************************************************)
(* Proofs about the signal client's queue, for any set of requests and any *)
(* number of restarts.                                                     *)
(***************************************************************************)
EXTENDS SignalQueue, SequenceTheorems, TLAPS

-----------------------------------------------------------------------------
(* Type correctness.                                                        *)

(* Whoever asks for the stream is a process, in every step.                 *)
LEMMA TurnType ==
  ASSUME TypeOK, QueueAssumption, [Next]_signalVars
  PROVE  turn' \in Seq(Process)
<1>1. /\ turn \in Seq(Process)
      /\ \A q \in Process : Append(turn, q) \in Seq(Process)
      /\ turn # <<>> => /\ Tail(turn) \in Seq(Process)
                        /\ \A q \in Process : Append(Tail(turn), q) \in Seq(Process)
  <2>1. turn \in Seq(Process)
    BY DEF TypeOK
  <2>2. turn # <<>> => Tail(turn) \in Seq(Process)
    BY <2>1, HeadTailProperties
  <2>. QED
    BY <2>1, <2>2, AppendProperties
<1>2. Flusher \subseteq Process /\ Message \subseteq Process
      /\ Restart \in Process /\ SignalTask \in Process
  BY DEF Process, Flusher
<1>3. ASSUME NEW m \in Message, Send(m) \/ Sending(m)
      PROVE  turn' \in Seq(Process)
  <2>1. turn' = turn \/ (turn # <<>> /\ turn' = Tail(turn))
    BY <1>3 DEF Send, Sending, QueueMessage, ReadStream, Written, NotWritten, MayRead, locks
  <2>. QED
    BY <1>1, <2>1
<1>4. ASSUME NEW p \in Flusher, Flush(p)
      PROVE  turn' \in Seq(Process)
  <2>1. \/ turn' \in {turn, Append(turn, p)}
        \/ turn # <<>> /\ turn' \in {Tail(turn), Append(Tail(turn), p)}
    BY <1>4 DEF Flush, FlushLock, FlushRead, FlushOne, Flushed, AfterFlush, Ask, MayRead, locks
  <2>. QED
    BY <1>1, <1>2, <2>1
<1>5. CASE Breaks \/ SignalTaskEnds \/ SignalTaskCloses
  <2>1. \/ turn' \in {turn, Append(turn, SignalTask)}
        \/ turn # <<>> /\ turn' = Tail(turn)
    BY <1>5 DEF Breaks, SignalTaskEnds, SignalTaskCloses, Ask, MayRead, MayWrite, locks
  <2>. QED
    BY <1>1, <1>2, <2>1
<1>6. CASE RestartCalled \/ Restarting
  <2>1. \/ turn' \in {turn, Append(turn, Restart)}
        \/ turn # <<>> /\ turn' = Tail(turn)
    BY <1>6 DEF RestartCalled, Restarting, RestartCloses, RestartAwaits, RestartLocks,
       RestartConnected, RestartFails, RestartEnds, Ask, MayRead, MayWrite, locks
  <2>. QED
    BY <1>1, <1>2, <2>1
<1>7. CASE UNCHANGED signalVars
  BY <1>1, <1>7 DEF signalVars, locks
<1>. QED
  BY <1>3, <1>4, <1>5, <1>6, <1>7 DEF Next

(* The calls of send().                                                     *)
LEMMA TypeSend ==
  ASSUME TypeOK, QueueAssumption, turn' \in Seq(Process),
         NEW m \in Message, Send(m) \/ Sending(m)
  PROVE  TypeOK'
<1>. USE DEF TypeOK, QueueAssumption, Process, Flusher, Goto, locks
<1>1. CASE Send(m)
  BY <1>1 DEF Send
<1>2. CASE QueueMessage(m)
  <2>1. queue' \in Seq(Queuable)
    <3>1. CASE m \in Queuable
      BY <1>2, <3>1, AppendProperties, SMTT(30) DEF QueueMessage
    <3>2. CASE m \notin Queuable
      BY <1>2, <3>2 DEF QueueMessage
    <3>. QED
      BY <3>1, <3>2
  <2>. QED
    BY <1>2, <2>1 DEF QueueMessage
<1>3. CASE ReadStream(m)
  BY <1>3 DEF ReadStream
<1>4. CASE Written(m)
  <2>1. sent' \in Seq(Message)
    BY <1>4, AppendProperties DEF Written
  <2>. QED
    BY <1>4, <2>1 DEF Written
<1>5. ASSUME NEW sendError \in BOOLEAN, NotWritten(m, sendError)
      PROVE  TypeOK'
  BY <1>5 DEF NotWritten
<1>. QED
  BY <1>1, <1>2, <1>3, <1>4, <1>5 DEF Sending

(* flush_queue.                                                             *)
LEMMA TypeFlush ==
  ASSUME TypeOK, QueueAssumption, turn' \in Seq(Process), NEW p \in Flusher, Flush(p)
  PROVE  TypeOK'
<1>. USE DEF TypeOK, QueueAssumption, Process, Flusher, Goto, locks, AfterFlush
<1>1. CASE FlushLock(p)
  BY <1>1 DEF FlushLock
<1>2. CASE FlushRead(p)
  BY <1>2 DEF FlushRead
<1>3. CASE FlushOne(p)
  <2>1. Head(queue) \in Queuable /\ queue' \in Seq(Queuable)
    BY <1>3, HeadTailProperties DEF FlushOne
  <2>2. sent' \in Seq(Message)
    BY <1>3, <2>1, AppendProperties DEF FlushOne
  <2>. QED
    BY <1>3, <2>1, <2>2 DEF FlushOne
<1>4. CASE Flushed(p)
  BY <1>4 DEF Flushed
<1>. QED
  BY <1>1, <1>2, <1>3, <1>4 DEF Flush

(* The connection, signal_task and the restart.                             *)
LEMMA TypeRestart ==
  ASSUME TypeOK, QueueAssumption, turn' \in Seq(Process),
         \/ Breaks \/ SignalTaskEnds \/ SignalTaskCloses \/ RestartCalled \/ Restarting
         \/ UNCHANGED signalVars
  PROVE  TypeOK'
<1>. USE DEF TypeOK, QueueAssumption, Process, Flusher, Goto, locks
<1>1. CASE Breaks \/ SignalTaskEnds \/ SignalTaskCloses
  BY <1>1 DEF Breaks, SignalTaskEnds, SignalTaskCloses
<1>2. CASE RestartCalled
  BY <1>2 DEF RestartCalled
<1>3. CASE Restarting
  BY <1>3 DEF Restarting, RestartCloses, RestartAwaits, RestartLocks, RestartConnected,
     RestartFails, RestartEnds
<1>4. CASE UNCHANGED signalVars
  BY <1>4 DEF signalVars
<1>. QED
  BY <1>1, <1>2, <1>3, <1>4

(* Every step.                                                              *)
LEMMA TypeStep ==
  ASSUME TypeOK, QueueAssumption, [Next]_signalVars
  PROVE  TypeOK'
BY TurnType, TypeSend, TypeFlush, TypeRestart DEF Next

-----------------------------------------------------------------------------
(* Who holds which lock.                                                    *)

(* The calls of send() take and drop the read guard of the stream, and the  *)
(* queue only while nobody has it.                                          *)
LEMMA LocksSend ==
  ASSUME TypeOK, QueueGuard, StreamGuards, QueueAssumption,
         NEW m \in Message, Send(m) \/ Sending(m)
  PROVE  QueueGuard' /\ StreamGuards'
<1>. USE DEF TypeOK, QueueGuard, StreamGuards, QueueAssumption, Process, Flusher, Goto, locks,
             MayRead, MayWrite
<1>1. CASE Send(m)
  BY <1>1 DEF Send
<1>2. CASE QueueMessage(m)
  BY <1>2 DEF QueueMessage
<1>3. CASE ReadStream(m)
  BY <1>3 DEF ReadStream
<1>4. CASE Written(m)
  BY <1>4 DEF Written
<1>5. ASSUME NEW sendError \in BOOLEAN, NotWritten(m, sendError)
      PROVE  QueueGuard' /\ StreamGuards'
  BY <1>5 DEF NotWritten
<1>. QED
  BY <1>1, <1>2, <1>3, <1>4, <1>5 DEF Sending

(* A flush has the queue from the first look at it to the last message.     *)
LEMMA LocksFlush ==
  ASSUME TypeOK, QueueGuard, StreamGuards, QueueAssumption,
         NEW p \in Flusher, Flush(p)
  PROVE  QueueGuard' /\ StreamGuards'
<1>. USE DEF TypeOK, QueueGuard, StreamGuards, QueueAssumption, Process, Flusher, Goto, locks,
             AfterFlush, MayRead
<1>1. CASE FlushLock(p)
  BY <1>1 DEF FlushLock
<1>2. CASE FlushRead(p)
  BY <1>2 DEF FlushRead
<1>3. CASE FlushOne(p)
  BY <1>3 DEF FlushOne
<1>4. CASE Flushed(p)
  BY <1>4 DEF Flushed
<1>. QED
  BY <1>1, <1>2, <1>3, <1>4 DEF Flush

(* The stream is taken away only while nobody reads it.                     *)
LEMMA LocksRestart ==
  ASSUME TypeOK, QueueGuard, StreamGuards, QueueAssumption,
         \/ Breaks \/ SignalTaskEnds \/ SignalTaskCloses \/ RestartCalled \/ Restarting
         \/ UNCHANGED signalVars
  PROVE  QueueGuard' /\ StreamGuards'
<1>. USE DEF TypeOK, QueueGuard, StreamGuards, QueueAssumption, Process, Flusher, Goto, locks,
             MayRead, MayWrite
<1>1. CASE Breaks
  BY <1>1 DEF Breaks
<1>10. CASE SignalTaskEnds
  BY <1>10 DEF SignalTaskEnds
<1>11. CASE SignalTaskCloses
  BY <1>11 DEF SignalTaskCloses
<1>2. CASE RestartCalled
  BY <1>2 DEF RestartCalled
<1>3. CASE RestartCloses
  BY <1>3 DEF RestartCloses
<1>4. CASE RestartLocks
  BY <1>4 DEF RestartLocks
<1>5. CASE RestartConnected
  BY <1>5 DEF RestartConnected
<1>6. CASE RestartFails
  BY <1>6 DEF RestartFails
<1>7. CASE RestartEnds
  BY <1>7 DEF RestartEnds
<1>8. CASE RestartAwaits
  BY <1>8 DEF RestartAwaits
<1>9. CASE UNCHANGED signalVars
  BY <1>9 DEF signalVars
<1>. QED
  BY <1>1, <1>2, <1>3, <1>4, <1>5, <1>6, <1>7, <1>8, <1>9, <1>10, <1>11
     DEF Restarting

-----------------------------------------------------------------------------
(* Where a request can be.                                                  *)

(* Appending adds one element to the range, and leaves a sequence without   *)
(* duplicates without them when the element is new.                         *)
LEMMA AppendOnce ==
  ASSUME NEW S, NEW seq \in Seq(S), NEW e \in S
  PROVE  /\ Range(Append(seq, e)) = Range(seq) \cup {e}
         /\ IsInjective(seq) /\ e \notin Range(seq) => IsInjective(Append(seq, e))
BY AppendProperties DEF Range, IsInjective

(* Taking the first element leaves the others; without duplicates, it is    *)
(* none of them.                                                            *)
LEMMA TailOnce ==
  ASSUME NEW S, NEW seq \in Seq(S), seq # <<>>
  PROVE  /\ Range(Tail(seq)) \subseteq Range(seq)
         /\ Head(seq) \in Range(seq)
         /\ IsInjective(seq) => /\ IsInjective(Tail(seq))
                                /\ Head(seq) \notin Range(Tail(seq))
<1>1. /\ Len(seq) \in Nat \ {0}
      /\ Head(seq) = seq[1]
      /\ DOMAIN seq = 1 .. Len(seq) /\ DOMAIN Tail(seq) = 1 .. Len(seq) - 1
      /\ \A i \in 1 .. Len(seq) - 1 : Tail(seq)[i] = seq[i + 1]
  BY HeadTailProperties, EmptySeq, LenProperties
<1>. QED
  BY <1>1 DEF Range, IsInjective

(* A concatenation has no duplicates when its parts have none and share     *)
(* nothing.                                                                 *)
LEMMA ConcatOnce ==
  ASSUME NEW S, NEW s \in Seq(S), NEW q \in Seq(S)
  PROVE  IsInjective(s \o q) <=>
           IsInjective(s) /\ IsInjective(q) /\ Range(s) \cap Range(q) = {}
<1>1. /\ Len(s) \in Nat /\ Len(q) \in Nat
      /\ DOMAIN s = 1 .. Len(s) /\ DOMAIN q = 1 .. Len(q)
      /\ DOMAIN (s \o q) = 1 .. Len(s) + Len(q)
      /\ \A i \in 1 .. Len(s) + Len(q) : (s \o q)[i] = IF i <= Len(s) THEN s[i] ELSE q[i - Len(s)]
  BY ConcatProperties, LenProperties
<1>2. ASSUME IsInjective(s), IsInjective(q), Range(s) \cap Range(q) = {}
      PROVE  IsInjective(s \o q)
  <2>1. SUFFICES ASSUME NEW i \in DOMAIN (s \o q), NEW j \in DOMAIN (s \o q),
                        (s \o q)[i] = (s \o q)[j]
                 PROVE  i = j
    BY DEF IsInjective
  <2>2. \A k \in 1 .. Len(s), l \in 1 .. Len(q) : s[k] # q[l]
    BY <1>1, <1>2 DEF Range
  <2>3. CASE i <= Len(s) /\ j <= Len(s)
    BY <1>1, <1>2, <2>1, <2>3 DEF IsInjective
  <2>4. CASE i > Len(s) /\ j > Len(s)
    <3>1. i - Len(s) \in 1 .. Len(q) /\ j - Len(s) \in 1 .. Len(q)
      BY <1>1, <2>4
    <3>2. q[i - Len(s)] = q[j - Len(s)]
      BY <1>1, <2>1, <2>4
    <3>3. i - Len(s) = j - Len(s)
      BY <1>1, <1>2, <3>1, <3>2 DEF IsInjective
    <3>. QED
      BY <1>1, <2>1, <3>3
  <2>5. CASE i <= Len(s) /\ j > Len(s)
    BY <1>1, <2>1, <2>2, <2>5
  <2>6. CASE i > Len(s) /\ j <= Len(s)
    BY <1>1, <2>1, <2>2, <2>6
  <2>. QED
    BY <1>1, <2>3, <2>4, <2>5, <2>6
<1>3. ASSUME IsInjective(s \o q)
      PROVE  IsInjective(s) /\ IsInjective(q) /\ Range(s) \cap Range(q) = {}
  <2>1. IsInjective(s)
    <3>1. \A i \in 1 .. Len(s) : i \in DOMAIN (s \o q) /\ (s \o q)[i] = s[i]
      BY <1>1
    <3>. QED
      BY <1>1, <1>3, <3>1 DEF IsInjective
  <2>2. \A l \in 1 .. Len(q) : Len(s) + l \in DOMAIN (s \o q) /\ (s \o q)[Len(s) + l] = q[l]
    BY <1>1
  <2>3. IsInjective(q)
    <3>1. SUFFICES ASSUME NEW i \in 1 .. Len(q), NEW j \in 1 .. Len(q), q[i] = q[j]
                   PROVE  i = j
      BY <1>1 DEF IsInjective
    <3>2. Len(s) + i = Len(s) + j
      BY <1>3, <2>2, <3>1 DEF IsInjective
    <3>. QED
      BY <1>1, <3>2
  <2>4. ASSUME NEW k \in 1 .. Len(s), NEW l \in 1 .. Len(q), s[k] = q[l]
        PROVE  FALSE
    <3>1. k \in DOMAIN (s \o q) /\ (s \o q)[k] = s[k]
      BY <1>1
    <3>2. k = Len(s) + l
      BY <1>3, <2>2, <2>4, <3>1 DEF IsInjective
    <3>. QED
      BY <1>1, <3>2
  <2>5. Range(s) \cap Range(q) = {}
    BY <1>1, <2>4 DEF Range
  <2>. QED
    BY <2>1, <2>3, <2>5
<1>. QED
  BY <1>2, <1>3

-----------------------------------------------------------------------------
(* The inductive invariant and the theorems.                                *)

(* A request is in the queue, or written, once its own call has returned;   *)
(* a step adds it there when it was nowhere, or moves it.                   *)
LEMMA OnceStep ==
  ASSUME SignalInv, AtMostOnce, QueueAssumption, [Next]_signalVars
  PROVE  HandledByCall' /\ AtMostOnce'
<1>. DEFINE Once == IsInjective(sent) /\ IsInjective(queue) /\ Range(sent) \cap Range(queue) = {}
<1>. USE DEF SignalInv, QueueAssumption
<1>1. sent \in Seq(Message) /\ queue \in Seq(Message) /\ queue \in Seq(Queuable)
  <2>1. queue \in Seq(Queuable) /\ sent \in Seq(Message)
    BY DEF TypeOK
  <2>2. Seq(Queuable) \subseteq Seq(Message)
    OBVIOUS
  <2>. QED
    BY <2>1, <2>2
<1>2. Once
  BY <1>1, ConcatOnce DEF AtMostOnce
<1>3. TypeOK'
  BY TypeStep
<1>4. sent' \in Seq(Message) /\ queue' \in Seq(Message)
  <2>1. queue' \in Seq(Queuable) /\ sent' \in Seq(Message)
    BY <1>3 DEF TypeOK
  <2>2. Seq(Queuable) \subseteq Seq(Message)
    OBVIOUS
  <2>. QED
    BY <2>1, <2>2
<1>5. Once' => AtMostOnce'
  BY <1>4, ConcatOnce DEF AtMostOnce
<1>6. ASSUME NEW m \in Message, QueueMessage(m)
      PROVE  HandledByCall' /\ Once'
  <2>1. m \notin Range(sent) \cup Range(queue)
    BY <1>6 DEF HandledByCall, QueueMessage
  <2>2. CASE m \in Queuable
    <3>1. queue' = Append(queue, m) /\ sent' = sent
      BY <1>6, <2>2 DEF QueueMessage
    <3>2. Range(queue') = Range(queue) \cup {m} /\ IsInjective(queue')
      BY <1>1, <1>2, <2>1, <3>1, AppendOnce
    <3>. QED
      BY <1>2, <1>6, <2>1, <3>1, <3>2 DEF HandledByCall, QueueMessage, Goto, TypeOK, Process, Flusher
  <2>3. CASE m \notin Queuable
    BY <1>2, <1>6, <2>3 DEF HandledByCall, QueueMessage, Goto, TypeOK, Process, Flusher
  <2>. QED
    BY <2>2, <2>3
<1>7. ASSUME NEW m \in Message, Written(m)
      PROVE  HandledByCall' /\ Once'
  <2>1. m \notin Range(sent) \cup Range(queue)
    BY <1>7 DEF HandledByCall, Written
  <2>2. sent' = Append(sent, m) /\ queue' = queue
    BY <1>7 DEF Written
  <2>3. Range(sent') = Range(sent) \cup {m} /\ IsInjective(sent')
    BY <1>1, <1>2, <2>1, <2>2, AppendOnce
  <2>. QED
    BY <1>2, <1>7, <2>1, <2>2, <2>3 DEF HandledByCall, Written, Goto, TypeOK, Process, Flusher
<1>8. ASSUME NEW p \in Flusher, FlushOne(p)
      PROVE  HandledByCall' /\ Once'
  <2>1. queue # <<>> /\ queue' = Tail(queue) /\ pc' = pc
    BY <1>8 DEF FlushOne
  <2>2. /\ Range(queue') \subseteq Range(queue) /\ Head(queue) \in Range(queue)
        /\ IsInjective(queue') /\ Head(queue) \notin Range(queue')
    BY <1>1, <1>2, <2>1, TailOnce
  <2>3. Head(queue) \in Message
    BY <1>1, <2>1, HeadTailProperties
  <2>4. CASE stream = "open"
    <3>1. sent' = Append(sent, Head(queue))
      BY <1>8, <2>4 DEF FlushOne
    <3>2. Range(sent') = Range(sent) \cup {Head(queue)} /\ IsInjective(sent')
      BY <1>1, <1>2, <2>2, <2>3, <3>1, AppendOnce
    <3>. QED
      BY <1>2, <2>1, <2>2, <3>2 DEF HandledByCall
  <2>5. CASE stream # "open"
    <3>1. sent' = sent
      BY <1>8, <2>5 DEF FlushOne
    <3>. QED
      BY <1>2, <2>1, <2>2, <3>1 DEF HandledByCall
  <2>. QED
    BY <2>4, <2>5
<1>9. ASSUME UNCHANGED <<sent, queue>>,
             \A m \in Message : pc[m] = "done" => pc'[m] = "done"
      PROVE  HandledByCall' /\ Once'
  BY <1>2, <1>9 DEF HandledByCall
<1>10. ASSUME \/ \E m \in Message : \/ Send(m) \/ ReadStream(m)
                                   \/ \E sendError \in BOOLEAN : NotWritten(m, sendError)
              \/ \E p \in Flusher : FlushLock(p) \/ FlushRead(p) \/ Flushed(p)
              \/ Breaks \/ SignalTaskEnds \/ SignalTaskCloses \/ RestartCalled \/ Restarting
              \/ UNCHANGED signalVars
       PROVE  HandledByCall' /\ Once'
  <2>1. UNCHANGED <<sent, queue>>
    BY <1>10 DEF Send, ReadStream, NotWritten, FlushLock, FlushRead, Flushed, Breaks,
       SignalTaskEnds, SignalTaskCloses, RestartCalled, Restarting, RestartCloses,
       RestartAwaits, RestartLocks,
       RestartConnected, RestartFails, RestartEnds, signalVars
  <2>2. \A m \in Message : pc[m] = "done" => pc'[m] = "done"
    BY <1>10 DEF Send, ReadStream, NotWritten, FlushLock, FlushRead, Flushed, Breaks,
       SignalTaskEnds, SignalTaskCloses, RestartCalled, Restarting, RestartCloses,
       RestartAwaits, RestartLocks,
       RestartConnected, RestartFails, RestartEnds, signalVars, Goto, TypeOK, AfterFlush,
       Process, Flusher
  <2>. QED
    BY <1>9, <2>1, <2>2
<1>. QED
  BY <1>5, <1>6, <1>7, <1>8, <1>10 DEF Next, Sending, Flush

(* Every variable keeps its type, and the guards exclude each other as the  *)
(* locks of tokio do (send, flush_queue, restart).                          *)
THEOREM SignalInvariant == Spec => [](SignalInv /\ AtMostOnce)
<1>1. Init => SignalInv /\ AtMostOnce
  <2>1. ASSUME Init
        PROVE  SignalInv /\ AtMostOnce
    <3>1. <<>> \in Seq(Queuable) /\ <<>> \in Seq(Message) /\ <<>> \in Seq(Process) /\ <<>> \o <<>> = <<>>
      BY EmptySeq, ConcatEmptySeq
    <3>2. TypeOK /\ QueueGuard /\ StreamGuards
      BY <2>1, <3>1, QueueAssumption DEF Init, TypeOK, QueueGuard, StreamGuards, Process, Flusher, QueueAssumption
    <3>3. HandledByCall /\ AtMostOnce
      BY <2>1, <3>1 DEF Init, HandledByCall, AtMostOnce, Range, IsInjective
    <3>. QED
      BY <3>2, <3>3 DEF SignalInv
  <2>. QED
    BY <2>1
<1>2. SignalInv /\ AtMostOnce /\ [Next]_signalVars => SignalInv' /\ AtMostOnce'
  <2>1. ASSUME SignalInv, AtMostOnce, [Next]_signalVars
        PROVE  SignalInv' /\ AtMostOnce'
    <3>1. TypeOK'
      BY <2>1, QueueAssumption, TypeStep DEF SignalInv
    <3>2. QueueGuard' /\ StreamGuards'
      BY <2>1, QueueAssumption, LocksSend, LocksFlush, LocksRestart DEF Next, SignalInv
    <3>3. HandledByCall' /\ AtMostOnce'
      BY <2>1, QueueAssumption, OnceStep
    <3>. QED
      BY <3>1, <3>2, <3>3 DEF SignalInv
  <2>. QED
    BY <2>1
<1>. QED
  BY <1>1, <1>2, PTL DEF Spec

(* Every variable keeps its type, and only requests that may follow a       *)
(* reconnection ever wait in the queue (is_queuable).                       *)
THEOREM SignalTypeOK == Spec => []TypeOK
BY SignalInvariant, PTL DEF SignalInv

(* A request is never written twice (send, flush_queue, queue_message).     *)
THEOREM WrittenAtMostOnce == Spec => []AtMostOnce
BY SignalInvariant, PTL

(* A flush has the queue for itself and a stream that stays (flush_queue).  *)
THEOREM FlushIsExclusive == Spec => []DrainIsExclusive
<1>1. SignalInv => DrainIsExclusive
  BY DEF SignalInv, TypeOK, QueueGuard, StreamGuards, DrainIsExclusive
<1>. QED
  BY <1>1, SignalInvariant, PTL

(* Requests bypass the connection for the queue only while a restart runs   *)
(* (restart and its scope guard).                                           *)
THEOREM QueueingComesToAnEnd == Spec => []QueueingEnds
<1>1. Init => QueueingEnds
  BY DEF Init, QueueingEnds
<1>2. TypeOK /\ QueueingEnds /\ [Next]_signalVars => QueueingEnds'
  <2>. SUFFICES ASSUME TypeOK, QueueingEnds, [Next]_signalVars
                PROVE  QueueingEnds'
    OBVIOUS
  <2>. USE QueueAssumption DEF QueueAssumption, TypeOK, QueueingEnds, Process, Flusher, Goto, locks
  <2>1. ASSUME NEW m \in Message, Send(m) \/ Sending(m)
        PROVE  QueueingEnds'
    BY <2>1 DEF Send, Sending, QueueMessage, ReadStream, Written, NotWritten
  <2>2. ASSUME NEW p \in Flusher, Flush(p)
        PROVE  QueueingEnds'
    BY <2>2 DEF Flush, FlushLock, FlushRead, FlushOne, Flushed, AfterFlush
  <2>3. CASE Breaks \/ SignalTaskEnds \/ SignalTaskCloses \/ RestartCalled
    BY <2>3 DEF Breaks, SignalTaskEnds, SignalTaskCloses, RestartCalled
  <2>4. CASE Restarting
    BY <2>4 DEF Restarting, RestartCloses, RestartAwaits, RestartLocks, RestartConnected, RestartFails,
       RestartEnds
  <2>5. CASE UNCHANGED signalVars
    BY <2>5 DEF signalVars
  <2>. QED
    BY <2>1, <2>2, <2>3, <2>4, <2>5 DEF Next
<1>. QED
  BY <1>1, <1>2, SignalTypeOK, PTL DEF Spec
=============================================================================
