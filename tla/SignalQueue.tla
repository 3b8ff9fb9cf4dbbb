----------------------------- MODULE SignalQueue ------------------------------
(***************************************************************************)
(* SignalClient: sending signal requests over a websocket that is closed   *)
(* and reopened, with the queue for what could not be sent                 *)
(* (livekit-api/src/signal_client/mod.rs and signal_stream.rs).            *)
(*                                                                         *)
(* Every call of send() is a process, a restart and signal_task are two    *)
(* more.  They meet in two async locks, the RwLock of the stream and the   *)
(* Mutex of the queue, which flush_queue takes one inside the other.  The  *)
(* RwLock is tokio's: it serves requests in the order they are made, and a *)
(* reader waits behind a writer that asked before it.                      *)
(***************************************************************************)
EXTENDS Naturals, Sequences, SequencesExt, FiniteSets

CONSTANTS
  Message,      \* the requests, one for each call of send()
  Queuable,     \* those for which is_queuable holds
  Restart,      \* the process of SignalClient::restart
  SignalTask,   \* the process of signal_task
  MaxRestarts   \* bound: how often restart is called

ASSUME QueueAssumption ==
  /\ Queuable \subseteq Message
  /\ {Restart, SignalTask} \cap Message = {}
  /\ Restart # SignalTask
  /\ MaxRestarts \in Nat

VARIABLES
  pc,            \* the step of each process
  stream,        \* SignalInner.stream: None, or a connection that works or not
  writer,        \* its write guard is held (while a restart connects)
  readers,       \* the processes with a read guard of it
  turn,          \* the processes waiting for a guard of it, in order
  queue,         \* SignalInner.queue
  queueOwner,    \* the processes, at most one, with the guard of the queue
  reconnecting,  \* SignalInner.reconnecting
  sent,          \* what was written to a websocket, in order
  restarts       \* how often restart was called (bound only)

locks == <<writer, readers, turn, queueOwner>>
signalVars == <<pc, stream, locks, queue, reconnecting, sent, restarts>>

Flusher == Message \cup {Restart}
Process == Flusher \cup {SignalTask}

(* Only requests that may follow a reconnection ever wait in the queue.     *)
TypeOK ==
  /\ pc \in [Process -> {"idle", "queue", "flush", "flushRead", "drain", "read", "write",
                         "done", "close", "await", "lock", "connect", "end",
                         "running", "closing", "ended"}]
  /\ pc[SignalTask] \in {"running", "closing", "ended"}
  /\ stream \in {"None", "open", "broken"}
  /\ writer \in BOOLEAN /\ reconnecting \in BOOLEAN
  /\ readers \in SUBSET Process /\ queueOwner \in SUBSET Process
  /\ turn \in Seq(Process)
  /\ queue \in Seq(Queuable) /\ sent \in Seq(Message)
  /\ restarts \in Nat

Init ==
  /\ pc = [p \in Process |-> IF p = SignalTask THEN "running" ELSE "idle"]
  /\ stream = "open"
  /\ writer = FALSE /\ readers = {} /\ turn = <<>>
  /\ queue = <<>> /\ queueOwner = {}
  /\ reconnecting = FALSE
  /\ sent = <<>>
  /\ restarts = 0

Goto(p, step) == pc' = [pc EXCEPT ![p] = step]

(* The guards of the stream: a process asks, and is served when it is first *)
(* and no guard that excludes its own is held.                              *)
Ask(p) == turn' = Append(turn, p)
MayRead(p) == turn # <<>> /\ Head(turn) = p /\ ~writer
MayWrite(p) == MayRead(p) /\ readers = {}

-----------------------------------------------------------------------------
(* SignalInner::send.                                                       *)
Send(m) ==
  /\ pc[m] = "idle"
  /\ Goto(m, IF reconnecting THEN "queue" ELSE "flush")
  /\ UNCHANGED <<stream, locks, queue, reconnecting, sent, restarts>>

(* Mutant: is_queuable is not consulted.                                    *)
QueueMessageAny(m) ==
  /\ pc[m] = "queue"
  /\ queueOwner = {}
  /\ queue' = Append(queue, m)
  /\ readers' = readers \ {m}
  /\ Goto(m, "done")
  /\ UNCHANGED <<stream, writer, turn, queueOwner, reconnecting, sent, restarts>>

(* queue_message; a sender that failed still has its read guard and drops   *)
(* it on return.                                                            *)
QueueMessage(m) ==
  /\ pc[m] = "queue"
  /\ IF m \in Queuable
     THEN queueOwner = {} /\ queue' = Append(queue, m)
     ELSE UNCHANGED queue
  /\ readers' = readers \ {m}
  /\ Goto(m, "done")
  /\ UNCHANGED <<stream, writer, turn, queueOwner, reconnecting, sent, restarts>>

(* self.stream.read().await: the message is gone when there is no stream.   *)
ReadStream(m) ==
  /\ pc[m] = "read"
  /\ MayRead(m)
  /\ turn' = Tail(turn)
  /\ IF stream = "None"
     THEN Goto(m, "done") /\ UNCHANGED readers
     ELSE Goto(m, "write") /\ readers' = readers \cup {m}
  /\ UNCHANGED <<stream, writer, queueOwner, queue, reconnecting, sent, restarts>>

(* stream.send: written ...                                                 *)
Written(m) ==
  /\ pc[m] = "write"
  /\ stream = "open"
  /\ sent' = Append(sent, m)
  /\ readers' = readers \ {m}
  /\ Goto(m, "done")
  /\ UNCHANGED <<stream, writer, turn, queueOwner, queue, reconnecting, restarts>>

(* ... or refused by a write task that has ended (SendError), and queued    *)
(* while the read guard is held; or failed by the socket (WsError).         *)
NotWritten(m, sendError) ==
  /\ pc[m] = "write"
  /\ stream = "broken"
  /\ Goto(m, IF sendError THEN "queue" ELSE "done")
  /\ readers' = IF sendError THEN readers ELSE readers \ {m}
  /\ UNCHANGED <<stream, writer, turn, queueOwner, queue, reconnecting, sent, restarts>>

-----------------------------------------------------------------------------
(* flush_queue, by a send or by the restart.  When it returns, a restart is *)
(* at its end, and a send asks for the stream behind those that wait.       *)
AfterFlush(p, waiting) ==
  /\ Goto(p, IF p = Restart THEN "end" ELSE "read")
  /\ turn' = IF p = Restart THEN waiting ELSE Append(waiting, p)

(* Mutant: the queue is drained by whoever finds messages in it.            *)
FlushLockShared(p) ==
  /\ pc[p] = "flush"
  /\ IF queue = <<>>
     THEN AfterFlush(p, turn) /\ UNCHANGED queueOwner
     ELSE Goto(p, "flushRead") /\ Ask(p) /\ queueOwner' = queueOwner \cup {p}
  /\ UNCHANGED <<stream, writer, readers, queue, reconnecting, sent, restarts>>

FlushLock(p) ==
  /\ pc[p] = "flush"
  /\ queueOwner = {}
  /\ IF queue = <<>>
     THEN AfterFlush(p, turn) /\ UNCHANGED queueOwner
     ELSE Goto(p, "flushRead") /\ Ask(p) /\ queueOwner' = {p}
  /\ UNCHANGED <<stream, writer, readers, queue, reconnecting, sent, restarts>>

FlushRead(p) ==
  /\ pc[p] = "flushRead"
  /\ MayRead(p)
  /\ IF stream = "None"
     THEN AfterFlush(p, Tail(turn)) /\ queueOwner' = {} /\ UNCHANGED readers
     ELSE /\ Goto(p, "drain") /\ turn' = Tail(turn)
          /\ readers' = readers \cup {p} /\ UNCHANGED queueOwner
  /\ UNCHANGED <<stream, writer, queue, reconnecting, sent, restarts>>

(* Mutant: the message that is sent stays in the queue.                     *)
FlushOneKept(p) ==
  /\ pc[p] = "drain" /\ queue # <<>>
  /\ sent' = IF stream = "open" THEN Append(sent, Head(queue)) ELSE sent
  /\ AfterFlush(p, turn)
  /\ readers' = readers \ {p}
  /\ queueOwner' = {}
  /\ UNCHANGED <<stream, writer, queue, reconnecting, restarts>>

(* A queued message that cannot be written is lost.                         *)
FlushOne(p) ==
  /\ pc[p] = "drain" /\ queue # <<>>
  /\ queue' = Tail(queue)
  /\ sent' = IF stream = "open" THEN Append(sent, Head(queue)) ELSE sent
  /\ UNCHANGED <<pc, stream, locks, reconnecting, restarts>>

Flushed(p) ==
  /\ pc[p] = "drain" /\ queue = <<>>
  /\ AfterFlush(p, turn)
  /\ readers' = readers \ {p}
  /\ queueOwner' = {}
  /\ UNCHANGED <<stream, writer, queue, reconnecting, sent, restarts>>

-----------------------------------------------------------------------------
(* The connection breaks.                                                   *)
Breaks ==
  /\ stream = "open"
  /\ stream' = "broken"
  /\ UNCHANGED <<pc, locks, queue, reconnecting, sent, restarts>>

(* signal_task leaves its loop, when the stream is closed or a pong is late, *)
(* and closes the stream.                                                   *)
SignalTaskEnds ==
  /\ pc[SignalTask] = "running"
  /\ Goto(SignalTask, "closing")
  /\ Ask(SignalTask)
  /\ UNCHANGED <<stream, writer, readers, queueOwner, queue, reconnecting, sent, restarts>>

SignalTaskCloses ==
  /\ pc[SignalTask] = "closing"
  /\ MayWrite(SignalTask)
  /\ turn' = Tail(turn)
  /\ stream' = "None"
  /\ Goto(SignalTask, "ended")
  /\ UNCHANGED <<writer, readers, queueOwner, queue, reconnecting, sent, restarts>>

(* SignalClient::restart, which RtcSession::restart calls for every resume. *)
RestartCalled ==
  /\ pc[Restart] \in {"idle", "done"}
  /\ restarts < MaxRestarts
  /\ restarts' = restarts + 1
  /\ Goto(Restart, "close")
  /\ Ask(Restart)
  /\ UNCHANGED <<stream, writer, readers, queueOwner, queue, reconnecting, sent>>

RestartCloses ==
  /\ pc[Restart] = "close"
  /\ MayWrite(Restart)
  /\ turn' = Tail(turn)
  /\ stream' = "None"
  /\ Goto(Restart, "await")
  /\ UNCHANGED <<writer, readers, queueOwner, queue, reconnecting, sent, restarts>>

(* signal_task.await; the inner close(false) then finds no stream.          *)
RestartAwaits ==
  /\ pc[Restart] = "await"
  /\ pc[SignalTask] = "ended"
  /\ Goto(Restart, "lock")
  /\ Ask(Restart)
  /\ UNCHANGED <<stream, writer, readers, queueOwner, queue, reconnecting, sent, restarts>>

RestartLocks ==
  /\ pc[Restart] = "lock"
  /\ MayWrite(Restart)
  /\ turn' = Tail(turn)
  /\ writer' = TRUE
  /\ reconnecting' = TRUE
  /\ Goto(Restart, "connect")
  /\ UNCHANGED <<stream, readers, queueOwner, queue, sent, restarts>>

(* Mutant: the write guard is kept while the queue is flushed.              *)
RestartConnectedLocked ==
  /\ pc[Restart] = "connect"
  /\ stream' = "open"
  /\ Goto(Restart, "flush")
  /\ UNCHANGED <<locks, queue, reconnecting, sent, restarts>>

(* The stream is in place, drop(stream).                                    *)
RestartConnected ==
  /\ pc[Restart] = "connect"
  /\ stream' = "open"
  /\ writer' = FALSE
  /\ Goto(Restart, "flush")
  /\ UNCHANGED <<readers, turn, queueOwner, queue, reconnecting, sent, restarts>>

(* Mutant: an early return leaves reconnecting set.                         *)
RestartFailsMarked ==
  /\ pc[Restart] = "connect"
  /\ writer' = FALSE
  /\ Goto(Restart, "done")
  /\ UNCHANGED <<stream, readers, turn, queueOwner, queue, reconnecting, sent, restarts>>

(* No connection, or no ReconnectResponse: the scope guard resets the flag. *)
RestartFails ==
  /\ pc[Restart] = "connect"
  /\ writer' = FALSE
  /\ reconnecting' = FALSE
  /\ Goto(Restart, "done")
  /\ UNCHANGED <<stream, readers, turn, queueOwner, queue, sent, restarts>>

(* The restart returns and a new signal_task is spawned.                    *)
RestartEnds ==
  /\ pc[Restart] = "end"
  /\ reconnecting' = FALSE
  /\ pc' = [pc EXCEPT ![Restart] = "done", ![SignalTask] = "running"]
  /\ UNCHANGED <<stream, locks, queue, sent, restarts>>

-----------------------------------------------------------------------------
Flush(p) == FlushLock(p) \/ FlushRead(p) \/ FlushOne(p) \/ Flushed(p)

Sending(m) == QueueMessage(m) \/ ReadStream(m) \/ Written(m)
              \/ \E sendError \in BOOLEAN : NotWritten(m, sendError)

Restarting == RestartCloses \/ RestartAwaits \/ RestartLocks
              \/ RestartConnected \/ RestartFails \/ RestartEnds

Next ==
  \/ \E m \in Message : Send(m) \/ Sending(m)
  \/ \E p \in Flusher : Flush(p)
  \/ Breaks \/ SignalTaskEnds \/ SignalTaskCloses
  \/ RestartCalled \/ Restarting

Spec == Init /\ [][Next]_signalVars

(* Tasks are polled; signal_task sees that its stream is gone; connecting   *)
(* ends with a result.                                                      *)
SignalFairness ==
  /\ \A m \in Message : WF_signalVars(Sending(m))
  /\ \A p \in Flusher : WF_signalVars(Flush(p))
  /\ WF_signalVars(stream # "open" /\ SignalTaskEnds)
  /\ WF_signalVars(SignalTaskCloses)
  /\ WF_signalVars(Restarting)

FairSpec == Spec /\ SignalFairness
-----------------------------------------------------------------------------
(* Properties.                                                              *)

(* A request is written once at most, whether a call of send(), a flush or  *)
(* the queueing after a failed write handled it.                            *)
AtMostOnce == IsInjective(sent \o queue)

(* A sender that has to queue its message with a read guard in hand waits   *)
(* for the process that has the queue, which waits for a read guard behind  *)
(* a writer, which waits for the first.                                     *)
Writes(p) == pc[p] \in {"closing", "close", "lock"}
LockCycle ==
  /\ \E m \in readers \cap Queuable : pc[m] = "queue"
  /\ \E p \in queueOwner : pc[p] = "flushRead"
  /\ turn # <<>> /\ Writes(Head(turn))

(* Every call of send() returns, through any number of failed restarts,     *)
(* unless the two locks are waited for in that cycle: there is no other.    *)
SendsReturn == \A m \in Message : pc[m] # "idle" ~> (pc[m] = "done" \/ LockCycle)

(* A restart returns, after its flush, unless there is that cycle.          *)
RestartEnded ==
  pc[Restart] \notin {"idle", "done"} ~> (pc[Restart] = "done" \/ LockCycle)

(* Every call of the signal client returns, send() and restart() alike.     *)
CallsReturn == SendsReturn /\ RestartEnded

(* Requests bypass the connection for the queue only while a restart runs.  *)
QueueingEnds ==
  reconnecting => pc[Restart] \in {"connect", "flush", "flushRead", "drain", "end"}

(* A process that drains the queue alone has it, and with a stream that     *)
(* nobody takes away meanwhile.                                             *)
DrainIsExclusive ==
  \A p \in Process : pc[p] = "drain" => queueOwner = {p} /\ stream # "None" /\ ~writer

(* What makes the safety properties inductive: who holds which lock, and    *)
(* that a request is handled by its own call before anybody else.           *)
QueueGuard ==
  /\ queueOwner = {p \in Process : pc[p] \in {"flushRead", "drain"}}
  /\ \A p, q \in queueOwner : p = q
StreamGuards ==
  /\ \A p \in Process : pc[p] \in {"drain", "write"} => p \in readers
  /\ \A p \in readers : pc[p] \in {"drain", "write", "queue"}
  /\ writer <=> pc[Restart] = "connect"
  /\ readers # {} => stream # "None" /\ ~writer
HandledByCall ==
  \A m \in Message : m \in Range(sent) \cup Range(queue) => pc[m] = "done"
SignalInv == TypeOK /\ QueueGuard /\ StreamGuards /\ HandledByCall

(* What the comment at the end of signal_task says: the connection is       *)
(* always closed when its loop is terminated.                               *)
AlwaysCloses == pc[SignalTask] = "closing" ~> pc[SignalTask] = "ended"
=============================================================================
