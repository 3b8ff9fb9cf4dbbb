--------------------------- MODULE RtcEngineProofs ---------------------------
(***************************************************************************)
(* Proofs about the engine, for any set of sessions and callers.           *)
(***************************************************************************)
EXTENDS RtcEngine, SequenceTheorems, TLAPS

-----------------------------------------------------------------------------
(* Type correctness.                                                        *)

(* Sending keeps the channel of engine events a sequence of engine events.  *)
LEMMA SendType ==
  ASSUME TypeOK,
         NEW type, NEW s \in Session, NEW body,
         [type |-> type, session |-> s, body |-> body] \in EngineEvent,
         Send(type, s, body)
  PROVE  events' \in Seq(EngineEvent)
<1>1. events \in Seq(EngineEvent)
  BY DEF TypeOK
<1>2. Append(events, [type |-> type, session |-> s, body |-> body]) \in Seq(EngineEvent)
  BY <1>1, AppendProperties
<1>. QED
  BY <1>1, <1>2 DEF Send

(* The same for an event that carries a oneshot.                            *)
LEMMA SendAndWaitType ==
  ASSUME TypeOK,
         NEW type \in WithReply, NEW s \in Session,
         SendAndWait(type, s)
  PROVE  events' \in Seq(EngineEvent) /\ reply' \in BOOLEAN
<1>1. [type |-> type, session |-> s, body |-> "none"] \in EngineEvent
  BY DEF EngineEvent, WithReply
<1>2. events' \in Seq(EngineEvent)
  BY <1>1, SendType DEF SendAndWait
<1>. QED
  BY <1>2 DEF SendAndWait, TypeOK

(* The session events and the room.                                         *)
LEMMA TypeSession ==
  ASSUME TypeOK, NEW s \in Session
  PROVE  /\ (\E a \in CloseAction : Fail(s, a)) => TypeOK'
         /\ (\E p \in Payload : Emit(s, p)) => TypeOK'
<1>1. ASSUME NEW a \in CloseAction, Fail(s, a)
      PROVE  TypeOK'
  <2>1. [kind |-> a, body |-> "none"] \in SessionEvent
    BY DEF SessionEvent
  <2>2. Append(inbox[s], [kind |-> a, body |-> "none"]) \in Seq(SessionEvent)
    BY <2>1, AppendProperties DEF TypeOK
  <2>. QED
    BY <1>1, <2>2 DEF Fail, TypeOK, SessionState
<1>2. ASSUME NEW p \in Payload, Emit(s, p)
      PROVE  TypeOK'
  <2>1. [kind |-> "data", body |-> p] \in SessionEvent
    BY DEF SessionEvent
  <2>2. Append(inbox[s], [kind |-> "data", body |-> p]) \in Seq(SessionEvent)
    BY <2>1, AppendProperties DEF TypeOK
  <2>. QED
    BY <1>2, <2>2 DEF Emit, TypeOK
<1>. QED
  BY <1>1, <1>2

(* Handling an event, whichever it is, or dropping what is left.            *)
LEMMA TypeEngineTask ==
  ASSUME TypeOK, NEW s \in Session, EngineTask(s)
  PROVE  TypeOK'
<1>1. CASE EngineTaskEvent(s)
  <2>. DEFINE e == Head(inbox[s])
  <2>1. inbox[s] \in Seq(SessionEvent) /\ inbox[s] # <<>>
    BY <1>1 DEF TypeOK, EngineTaskEvent
  <2>2. e \in SessionEvent /\ Tail(inbox[s]) \in Seq(SessionEvent)
    BY <2>1, HeadTailProperties
  <2>3. inbox' \in [Session -> Seq(SessionEvent)]
    BY <1>1, <2>2 DEF EngineTaskEvent, TypeOK
  <2>4. /\ OnSessionEvent(s, e)
        /\ UNCHANGED <<session, task, reply, listening, caller, emitted>>
    BY <1>1 DEF EngineTaskEvent
  <2>5. CASE /\ e.kind \in {"resume", "reconnect"}
             /\ ReconnectionNeeded(e.kind = "reconnect")
             /\ UNCHANGED <<closer, events>>
    <3>. DEFINE full == e.kind = "reconnect"
    <3>1. full \in BOOLEAN
      OBVIOUS
    <3>2. ReconnectionNeeded(full) => handle' \in EngineHandle /\ rc' \in ReconnectTask
      <4>. HIDE DEF full
      <4>1. ReconnectionNeeded(full) => handle' \in EngineHandle
        BY <3>1 DEF ReconnectionNeeded, TypeOK, EngineHandle
      <4>2. ReconnectionNeeded(full) => rc' \in ReconnectTask
        BY DEF ReconnectionNeeded, TypeOK, RcStep, ReconnectTask
      <4>. QED
        BY <4>1, <4>2
    <3>. QED
      BY <2>3, <2>4, <2>5, <3>2 DEF TypeOK
  <2>6. CASE /\ e.kind = "disconnect"
             /\ handle' = [handle EXCEPT !.can_reconnect = FALSE]
             /\ closer' = [closer EXCEPT ![s].step = "start"]
             /\ UNCHANGED <<rc, events>>
    BY <2>3, <2>4, <2>6 DEF TypeOK, Closer, CloseCall, EngineHandle
  <2>7. CASE /\ e.kind = "data"
             /\ Send("Forward", s, e.body)
             /\ UNCHANGED <<handle, rc, closer>>
    <3>1. [type |-> "Forward", session |-> s, body |-> e.body] \in EngineEvent
      BY <2>2 DEF SessionEvent, EngineEvent
    <3>2. events' \in Seq(EngineEvent)
      BY <2>7, <3>1, SendType
    <3>. QED
      BY <2>3, <2>4, <2>7, <3>2 DEF TypeOK
  <2>. QED
    BY <2>4, <2>5, <2>6, <2>7 DEF OnSessionEvent
<1>2. CASE EngineTaskExit(s)
  <2>1. <<>> \in Seq(SessionEvent)
    BY EmptySeq
  <2>. QED
    BY <1>2, <2>1 DEF EngineTaskExit, TypeOK, TaskState
<1>. QED
  BY <1>1, <1>2 DEF EngineTask

(* A call of close() sends Disconnected about the session it closed.        *)
LEMMA TypeClose ==
  ASSUME TypeOK, CloserHasTarget, NEW c \in Closer, Close(c)
  PROVE  TypeOK'
<1>1. CASE CloseTake(c)
  BY <1>1 DEF CloseTake, TypeOK, EngineHandle, CloseCall
<1>2. CASE CloseSession(c)
  BY <1>2 DEF CloseSession, TypeOK, SessionState, TaskState, CloseCall
<1>3. CASE CloseAwait(c)
  <2>1. closer[c].target \in Session
    BY <1>3 DEF CloserHasTarget, CloseAwait
  <2>2. ReasonOf(c) \in Reason
    BY DEF ReasonOf, Reason
  <2>3. [type |-> "Disconnected", session |-> closer[c].target, body |-> ReasonOf(c)]
          \in EngineEvent
    BY <2>1, <2>2 DEF EngineEvent
  <2>4. events' \in Seq(EngineEvent)
    BY <1>3, <2>1, <2>3, SendType DEF CloseAwait
  <2>. QED
    BY <1>3, <2>4 DEF CloseAwait, TypeOK, CloseCall
<1>. QED
  BY <1>1, <1>2, <1>3 DEF Close

(* A call of close() that starts.                                           *)
LEMMA CloseStartType ==
  ASSUME NEW calls \in [Closer -> CloseCall], NEW c \in Closer
  PROVE  [calls EXCEPT ![c].step = "start"] \in [Closer -> CloseCall]
BY DEF CloseCall

(* Every step of the reconnect task.                                        *)
LEMMA TypeReconnect ==
  ASSUME TypeOK, NewIsFresh, EngineAssumption, Reconnect
  PROVE  TypeOK'
<1>. USE DEF TypeOK, RcUnchanged, ReconnectTask, RcStep
<1>1. CASE RcQueue \/ RcLock
  <2>1. CASE RcQueue
    BY <2>1 DEF RcQueue
  <2>2. CASE RcLock
    BY <2>2 DEF RcLock
  <2>. QED
    BY <1>1, <2>1, <2>2
<1>2. CASE RcGiveUp
  <2>1. rc' \in ReconnectTask
    BY <1>2 DEF RcGiveUp
  <2>2. closer' \in [Closer -> CloseCall]
    <3>1. "retry" \in Closer
      BY DEF Closer
    <3>2. closer' = [closer EXCEPT !["retry"].step = "start"]
      BY <1>2 DEF RcGiveUp
    <3>. QED
      BY <3>1, <3>2, CloseStartType
  <2>. QED
    BY <1>2, <2>1, <2>2 DEF RcGiveUp
<1>3. CASE RcAttempt
  <2>. DEFINE e == IF handle.full_reconnect THEN "Restarting" ELSE "Resuming"
  <2>1. e \in WithReply /\ handle.session \in Session
    BY DEF WithReply, EngineHandle
  <2>2. CASE rc.attempt = 0
    <3>1. events' \in Seq(EngineEvent) /\ reply' \in BOOLEAN
      BY <1>3, <2>1, <2>2, SendAndWaitType DEF RcAttempt
    <3>2. rc' \in ReconnectTask
      BY <1>3, <2>2 DEF RcAttempt, AckStep
    <3>. QED
      BY <1>3, <2>2, <3>1, <3>2 DEF RcAttempt
  <2>3. CASE rc.attempt # 0
    BY <1>3, <2>3 DEF RcAttempt
  <2>. QED
    BY <2>2, <2>3
<1>4. CASE RcAcked
  BY <1>4 DEF RcAcked
<1>5. CASE RcTick
  <2>1. rc.attempt \in Nat /\ rc.attempt + 1 \in Nat
    OBVIOUS
  <2>. HIDE DEF TypeOK
  <2>2. rc' = [rc EXCEPT !.step = "attempt", !.attempt = @ + 1]
    BY <1>5 DEF RcTick
  <2>3. rc \in ReconnectTask
    BY DEF TypeOK
  <2>4. rc' \in ReconnectTask
    BY <2>1, <2>2, <2>3
  <2>. QED
    BY <1>5, <2>4 DEF RcTick, TypeOK
<1>6. CASE RcFinish
  BY <1>6 DEF RcFinish, CloseCall, EngineHandle
<1>7. CASE RcTake
  BY <1>7 DEF RcTake, EngineHandle
<1>8. CASE RcCloseOld
  BY <1>8 DEF RcCloseOld, SessionState, TaskState
<1>9. CASE RcAwaitOld
  BY <1>9 DEF RcAwaitOld
<1>10. CASE RcInstall
  BY <1>10 DEF RcInstall, NewIsFresh, EngineHandle, TaskState
<1>11. CASE RcRestarted
  <2>1. events' \in Seq(EngineEvent) /\ reply' \in BOOLEAN
    BY <1>11, SendAndWaitType DEF RcRestarted, EngineHandle, WithReply
  <2>. QED
    BY <1>11, <2>1 DEF RcRestarted, AckStep
<1>12. CASE RcRestartFails
  BY <1>12 DEF RcRestartFails, SessionState
<1>13. ASSUME NEW s \in Session, RcConnect(s)
       PROVE  TypeOK'
  <2>1. events' \in Seq(EngineEvent) /\ reply' \in BOOLEAN
    BY <1>13, SendAndWaitType DEF RcConnect, WithReply
  <2>. QED
    BY <1>13, <2>1 DEF RcConnect, AckStep, SessionState
<1>14. CASE RcSignalResumed
  <2>1. events' \in Seq(EngineEvent) /\ reply' \in BOOLEAN
    BY <1>14, SendAndWaitType DEF RcSignalResumed, WithReply, EngineHandle
  <2>. QED
    BY <1>14, <2>1 DEF RcSignalResumed, AckStep, SessionState
<1>15. CASE RcResumePc
  BY <1>15 DEF RcResumePc
<1>16. CASE RcResumed
  <2>1. events' \in Seq(EngineEvent) /\ reply' \in BOOLEAN
    BY <1>16, SendAndWaitType DEF RcResumed, EngineHandle, WithReply
  <2>. QED
    BY <1>16, <2>1 DEF RcResumed, AckStep
<1>17. ASSUME NEW signalError \in BOOLEAN, RcResumeFails(signalError)
       PROVE  TypeOK'
  BY <1>17 DEF RcResumeFails, EngineHandle
<1>. QED
  BY <1>1, <1>2, <1>3, <1>4, <1>5, <1>6, <1>7, <1>8, <1>9, <1>10, <1>11, <1>12,
     <1>13, <1>14, <1>15, <1>16, <1>17 DEF Reconnect

(* The callers, the room, and steps that change nothing.                    *)
LEMMA TypeRest ==
  ASSUME TypeOK,
         \/ \E c \in Caller : CallerAcquire(c) \/ CallerRelease(c)
         \/ UserClose \/ RoomTakes \/ RoomStops
         \/ UNCHANGED engineVars
  PROVE  TypeOK'
<1>1. ASSUME NEW c \in Caller, CallerAcquire(c) \/ CallerRelease(c)
      PROVE  TypeOK'
  BY <1>1 DEF CallerAcquire, CallerRelease, TypeOK, EngineHandle
<1>2. CASE UserClose
  BY <1>2 DEF UserClose, TypeOK, CloseCall
<1>3. CASE RoomTakes
  <2>1. Tail(events) \in Seq(EngineEvent)
    BY <1>3, HeadTailProperties DEF RoomTakes, TypeOK
  <2>. QED
    BY <1>3, <2>1 DEF RoomTakes, TypeOK
<1>4. CASE RoomStops
  <2>1. <<>> \in Seq(EngineEvent)
    BY EmptySeq
  <2>. QED
    BY <1>4, <2>1 DEF RoomStops, TypeOK
<1>5. CASE UNCHANGED engineVars
  BY <1>5 DEF engineVars, TypeOK
<1>. QED
  BY <1>1, <1>2, <1>3, <1>4, <1>5

-----------------------------------------------------------------------------
(* The inductive invariant.                                                 *)

(* The invariant holds when the engine is connected.                        *)
LEMMA InitInv ==
  ASSUME EngineAssumption, Init
  PROVE  TypeOK /\ IInv
<1>1. TypeOK
  <2>1. <<>> \in Seq(SessionEvent) /\ <<>> \in Seq(EngineEvent)
    BY EmptySeq
  <2>. QED
    BY <2>1 DEF Init, EngineAssumption, TypeOK, EngineHandle, SessionState, TaskState,
                ReconnectTask, RcStep, CloseCall
<1>2. IInv
  BY DEF Init, EngineAssumption, IInv, TaskIsCurrent, TaskTaken, NoTaskNoneAlive,
         NewIsFresh, UnbornIsIdle, CloserHasTarget, ReconnectingIsTask,
         WriteGuardExcludes, LatestSession, OneEngineTask, Alive
<1>. QED
  BY <1>1, <1>2
(* A step of a session, of the room or of an API call.                      *)
LEMMA InvEnvironment ==
  ASSUME TypeOK, IInv,
         \/ \E s \in Session : \/ \E a \in CloseAction : Fail(s, a)
                               \/ \E p \in Payload : Emit(s, p)
         \/ \E c \in Caller : CallerAcquire(c) \/ CallerRelease(c)
         \/ UserClose \/ RoomTakes \/ RoomStops
         \/ UNCHANGED engineVars
  PROVE  IInv'
<1>. USE DEF TypeOK, IInv, TaskIsCurrent, TaskTaken, NoTaskNoneAlive,
         NewIsFresh, UnbornIsIdle, CloserHasTarget, ReconnectingIsTask,
         WriteGuardExcludes, LatestSession, OneEngineTask, Alive
<1>1. ASSUME NEW s \in Session, NEW a \in CloseAction, Fail(s, a)
      PROVE  IInv'
  BY <1>1 DEF Fail
<1>2. ASSUME NEW s \in Session, NEW p \in Payload, Emit(s, p)
      PROVE  IInv'
  BY <1>2 DEF Emit
<1>3. ASSUME NEW c \in Caller, CallerAcquire(c)
      PROVE  IInv'
  BY <1>3 DEF CallerAcquire
<1>4. ASSUME NEW c \in Caller, CallerRelease(c)
      PROVE  IInv'
  BY <1>4 DEF CallerRelease
<1>5. CASE UserClose
  BY <1>5 DEF UserClose, CloseCall
<1>6. CASE RoomTakes
  BY <1>6 DEF RoomTakes
<1>7. CASE RoomStops
  BY <1>7 DEF RoomStops
<1>8. CASE UNCHANGED engineVars
  BY <1>8 DEF engineVars
<1>. QED
  BY <1>1, <1>2, <1>3, <1>4, <1>5, <1>6, <1>7, <1>8

(* A step of an engine task.                                                *)
LEMMA InvEngineTask ==
  ASSUME TypeOK, IInv, NEW s \in Session, EngineTask(s)
  PROVE  IInv'
<1>. USE DEF TypeOK, IInv, TaskIsCurrent, TaskTaken, NoTaskNoneAlive,
         NewIsFresh, UnbornIsIdle, CloserHasTarget, ReconnectingIsTask,
         WriteGuardExcludes, LatestSession, OneEngineTask, Alive
<1>1. CASE EngineTaskEvent(s)
  <2>. DEFINE e == Head(inbox[s])
  <2>1. /\ OnSessionEvent(s, e)
        /\ UNCHANGED <<session, task, reply, listening, caller, emitted>>
    BY <1>1 DEF EngineTaskEvent
  <2>2. CASE ReconnectionNeeded(e.kind = "reconnect") /\ UNCHANGED <<closer, events>>
    <3>. DEFINE full == e.kind = "reconnect"
    <3>1. ReconnectionNeeded(full)
      BY <2>2
    <3>. HIDE DEF full
    <3>2. /\ handle'.session = handle.session
          /\ handle'.task = handle.task
          /\ handle'.closed = handle.closed
      BY <3>1 DEF ReconnectionNeeded, EngineHandle
    <3>3. rc' = rc \/ (rc.step = "idle" /\ rc'.step = "spawned" /\ rc'.new = rc.new)
      BY <3>1 DEF ReconnectionNeeded, ReconnectTask
    <3>4. ReconnectingIsTask'
      BY <3>1 DEF ReconnectionNeeded, ReconnectTask, EngineHandle
    <3>. QED
      BY <2>1, <2>2, <3>2, <3>3, <3>4
  <2>3. CASE /\ handle' = [handle EXCEPT !.can_reconnect = FALSE]
             /\ closer' = [closer EXCEPT ![s].step = "start"]
             /\ UNCHANGED <<rc, events>>
    BY <2>1, <2>3 DEF EngineHandle, CloseCall
  <2>4. CASE UNCHANGED <<handle, rc, closer>>
    BY <2>1, <2>4
  <2>. QED
    BY <2>1, <2>2, <2>3, <2>4 DEF OnSessionEvent
<1>2. CASE EngineTaskExit(s)
  BY <1>2 DEF EngineTaskExit
<1>. QED
  BY <1>1, <1>2 DEF EngineTask

(* A step of a call of close().                                             *)
LEMMA InvClose ==
  ASSUME TypeOK, IInv, EngineAssumption, NEW c \in Closer, Close(c)
  PROVE  IInv'
<1>. USE DEF TypeOK, IInv, TaskIsCurrent, TaskTaken, NoTaskNoneAlive,
         NewIsFresh, UnbornIsIdle, CloserHasTarget, ReconnectingIsTask,
         WriteGuardExcludes, LatestSession, OneEngineTask, Alive
<1>1. CASE CloseTake(c)
  BY <1>1 DEF CloseTake, EngineAssumption, EngineHandle, CloseCall
<1>2. CASE CloseSession(c)
  BY <1>2 DEF CloseSession, CloseCall
<1>3. CASE CloseAwait(c)
  BY <1>3 DEF CloseAwait, CloseCall
<1>. QED
  BY <1>1, <1>2, <1>3 DEF Close

(* A step of the reconnect task.                                            *)
LEMMA InvReconnect ==
  ASSUME TypeOK, IInv, EngineAssumption, Reconnect
  PROVE  IInv'
<1>. USE DEF TypeOK, IInv, TaskIsCurrent, TaskTaken, NoTaskNoneAlive,
         NewIsFresh, UnbornIsIdle, CloserHasTarget, ReconnectingIsTask,
         WriteGuardExcludes, LatestSession, OneEngineTask, Alive,
         RcUnchanged, ReconnectTask, AckStep, EngineHandle
<1>1. CASE RcQueue
  BY <1>1 DEF RcQueue
<1>18. CASE RcLock
  BY <1>18 DEF RcLock
<1>2. CASE RcGiveUp
  BY <1>2 DEF RcGiveUp, CloseCall
<1>3. CASE RcAttempt
  BY <1>3 DEF RcAttempt
<1>4. CASE RcAcked
  BY <1>4 DEF RcAcked
<1>5. CASE RcTick
  BY <1>5 DEF RcTick
<1>6. CASE RcFinish
  BY <1>6 DEF RcFinish, CloseCall
<1>7. CASE RcTake
  BY <1>7 DEF RcTake, EngineAssumption
<1>8. CASE RcCloseOld
  BY <1>8 DEF RcCloseOld
<1>9. CASE RcAwaitOld
  BY <1>9 DEF RcAwaitOld
<1>10. CASE RcInstall
  BY <1>10 DEF RcInstall
<1>11. CASE RcRestarted
  BY <1>11 DEF RcRestarted
<1>12. CASE RcRestartFails
  BY <1>12 DEF RcRestartFails
<1>13. ASSUME NEW s \in Session, RcConnect(s)
       PROVE  IInv'
  BY <1>13 DEF RcConnect, EngineAssumption
<1>14. CASE RcSignalResumed
  BY <1>14 DEF RcSignalResumed
<1>15. CASE RcResumePc
  BY <1>15 DEF RcResumePc
<1>16. CASE RcResumed
  BY <1>16 DEF RcResumed
<1>17. ASSUME NEW signalError \in BOOLEAN, RcResumeFails(signalError)
       PROVE  IInv'
  BY <1>17 DEF RcResumeFails
<1>. QED
  BY <1>1, <1>2, <1>3, <1>4, <1>5, <1>6, <1>7, <1>8, <1>9, <1>10, <1>11, <1>12,
     <1>13, <1>14, <1>15, <1>16, <1>17, <1>18 DEF Reconnect

(* Every step keeps the invariant.                                          *)
LEMMA Inductive ==
  ASSUME TypeOK, IInv, EngineAssumption, [Next]_engineVars
  PROVE  TypeOK' /\ IInv'
<1>1. ASSUME NEW s \in Session, EngineTask(s)
      PROVE  TypeOK' /\ IInv'
  BY <1>1, TypeEngineTask, InvEngineTask
<1>2. ASSUME NEW c \in Closer, Close(c)
      PROVE  TypeOK' /\ IInv'
  BY <1>2, TypeClose, InvClose DEF IInv
<1>3. CASE Reconnect
  BY <1>3, TypeReconnect, InvReconnect DEF IInv
<1>4. CASE \E s \in Session : \/ \E a \in CloseAction : Fail(s, a)
                              \/ \E p \in Payload : Emit(s, p)
  BY <1>4, TypeSession, InvEnvironment
<1>5. CASE \/ \E c \in Caller : CallerAcquire(c) \/ CallerRelease(c)
           \/ UserClose \/ RoomTakes \/ RoomStops
           \/ UNCHANGED engineVars
  BY <1>5, TypeRest, InvEnvironment
<1>. QED
  BY <1>1, <1>2, <1>3, <1>4, <1>5 DEF Next, Engine, Environment

-----------------------------------------------------------------------------
(* Theorems.                                                                *)

(* Every variable of the engine keeps its type, and the invariant that the  *)
(* safety properties follow from holds.                                     *)
THEOREM EngineInvariant == Spec => [](TypeOK /\ IInv)
<1>1. Init => TypeOK /\ IInv
  BY InitInv, EngineAssumption
<1>2. TypeOK /\ IInv /\ [Next]_engineVars => (TypeOK /\ IInv)'
  BY Inductive, EngineAssumption
<1>. QED
  BY <1>1, <1>2, PTL DEF Spec

(* The type invariant of the engine.                                        *)
THEOREM EngineTypeOK == Spec => []TypeOK
BY EngineInvariant, PTL

(* An API call always works on the current session (wait_reconnection).     *)
THEOREM CallersUseLatestSession == Spec => []LatestSession
<1>1. IInv => LatestSession
  BY DEF IInv
<1>. QED
  BY <1>1, EngineInvariant, PTL

(* At most one engine task is alive while the engine is not closed          *)
(* (try_restart_connection awaits the old one).                             *)
THEOREM OneEngineTaskAlive == Spec => []OneEngineTask
<1>1. IInv => OneEngineTask
  BY DEF IInv
<1>. QED
  BY <1>1, EngineInvariant, PTL

-----------------------------------------------------------------------------
(* Refinement.                                                              *)

Fresh == {s \in Session : session[s] = "unborn" \/ rc.new = s}
LeaseSame == UNCHANGED <<handle.session, handle.closed, caller,
                         rc.step \notin {"idle", "spawned", "lock"}, Fresh>>

(* Steps of sessions, engine tasks, close(), the room and the API calls.    *)
LEMMA LeaseOtherStep ==
  ASSUME TypeOK, IInv, EngineAssumption,
         \/ \E s \in Session : EngineTask(s)
         \/ \E c \in Closer : Close(c)
         \/ Environment \/ UserClose \/ RoomTakes \/ RoomStops
         \/ UNCHANGED engineVars
  PROVE  [Lease!Next]_(Lease!leaseVars)
<1>. USE DEF TypeOK, EngineHandle, ReconnectTask, IInv
<1>1. ASSUME NEW s \in Session, EngineTaskEvent(s)
      PROVE  LeaseSame
  <2>1. /\ handle'.session = handle.session
        /\ handle'.closed = handle.closed
        /\ rc'.new = rc.new
        /\ rc' = rc \/ (rc.step = "idle" /\ rc'.step = "spawned")
        /\ UNCHANGED <<caller, session>>
    <3>. DEFINE full == Head(inbox[s]).kind = "reconnect"
    <3>1. UNCHANGED <<caller, session>>
      BY <1>1 DEF EngineTaskEvent
    <3>2. \/ ReconnectionNeeded(full)
          \/ UNCHANGED rc /\ handle' \in {handle, [handle EXCEPT !.can_reconnect = FALSE]}
      BY <1>1 DEF EngineTaskEvent, OnSessionEvent
    <3>. HIDE DEF full
    <3>3. CASE ReconnectionNeeded(full)
      <4>1. handle'.session = handle.session /\ handle'.closed = handle.closed
        BY <3>3 DEF ReconnectionNeeded
      <4>2. /\ rc' = rc \/ (rc.step = "idle" /\ rc'.step = "spawned")
            /\ rc'.new = rc.new
        BY <3>3 DEF ReconnectionNeeded, ReconnectingIsTask
      <4>. QED
        BY <3>1, <4>1, <4>2
    <3>. QED
      BY <3>1, <3>2, <3>3
  <2>. QED
    BY <2>1 DEF LeaseSame, Fresh
<1>2. ASSUME NEW s \in Session, EngineTaskExit(s)
      PROVE  LeaseSame
  BY <1>2 DEF EngineTaskExit, LeaseSame, Fresh
<1>3. ASSUME NEW c \in Closer, CloseTake(c)
      PROVE  Lease!Shut
  BY <1>3 DEF CloseTake, Lease!Shut, Fresh
<1>4. ASSUME NEW c \in Closer, CloseSession(c) \/ CloseAwait(c)
      PROVE  LeaseSame
  BY <1>4 DEF CloseSession, CloseAwait, CloserHasTarget, LeaseSame, Fresh
<1>5. ASSUME NEW s \in Session,
             \/ \E a \in CloseAction : Fail(s, a)
             \/ \E p \in Payload : Emit(s, p)
      PROVE  LeaseSame
  <2>1. ASSUME NEW a \in CloseAction, Fail(s, a)
        PROVE  LeaseSame
    BY <2>1 DEF Fail, LeaseSame, Fresh
  <2>2. ASSUME NEW p \in Payload, Emit(s, p)
        PROVE  LeaseSame
    BY <2>2 DEF Emit, LeaseSame, Fresh
  <2>. QED
    BY <1>5, <2>1, <2>2
<1>6. ASSUME NEW c \in Caller, CallerAcquire(c)
      PROVE  Lease!Acquire(c)
  BY <1>6 DEF CallerAcquire, Lease!Acquire, Fresh
<1>7. ASSUME NEW c \in Caller, CallerRelease(c)
      PROVE  Lease!Release(c)
  BY <1>7 DEF CallerRelease, Lease!Release, Fresh
<1>8. CASE UserClose \/ RoomTakes \/ RoomStops \/ UNCHANGED engineVars
  <2>1. LeaseSame
    BY <1>8 DEF UserClose, RoomTakes, RoomStops, engineVars, LeaseSame, Fresh
  <2>. QED
    BY <2>1 DEF LeaseSame, Lease!leaseVars, Fresh
<1>. QED
  BY <1>1, <1>2, <1>3, <1>4, <1>5, <1>6, <1>7, <1>8
     DEF EngineTask, Close, Environment, Lease!Next, Lease!leaseVars, LeaseSame, Fresh

(* Steps of the reconnect task.                                             *)
LEMMA LeaseReconnectStep ==
  ASSUME TypeOK, IInv, EngineAssumption, Reconnect
  PROVE  [Lease!Next]_(Lease!leaseVars)
<1>. USE DEF TypeOK, EngineHandle, ReconnectTask, IInv, RcUnchanged
<1>1. CASE RcLock
  <2>1. Lease!BeginReplace
    BY <1>1 DEF RcLock, Lease!BeginReplace
  <2>. QED
    BY <2>1 DEF Lease!Next
<1>2. CASE RcFinish
  <2>1. Lease!EndReplace
    BY <1>2 DEF RcFinish, Lease!EndReplace
  <2>. QED
    BY <2>1 DEF Lease!Next
<1>3. CASE RcInstall
  <2>1. PICK s \in Session : s = rc.new /\ session[s] # "unborn"
    BY <1>3 DEF RcInstall, NewIsFresh
  <2>2. Lease!Replace(s)
    BY <1>3, <2>1, EngineAssumption DEF RcInstall, Lease!Replace
  <2>. QED
    BY <2>1, <2>2 DEF Lease!Next
<1>4. CASE RcRestartFails
  <2>1. CASE rc.new = NoSession
    <3>1. LeaseSame
      BY <1>4, <2>1, EngineAssumption DEF RcRestartFails, LeaseSame, Fresh
    <3>. QED
      BY <3>1 DEF LeaseSame, Lease!leaseVars, Fresh
  <2>2. CASE rc.new # NoSession
    <3>1. PICK s \in Session : s = rc.new /\ session[s] # "unborn"
      BY <2>2 DEF NewIsFresh
    <3>2. Lease!Discard(s)
      BY <1>4, <3>1, EngineAssumption DEF RcRestartFails, Lease!Discard
    <3>. QED
      BY <3>1, <3>2 DEF Lease!Next
  <2>. QED
    BY <2>1, <2>2
<1>5. ASSUME NEW s \in Session, RcConnect(s)
      PROVE  LeaseSame
  <2>1. rc.new = NoSession
    BY <1>5 DEF RcConnect, NewIsFresh
  <2>. QED
    BY <1>5, <2>1, EngineAssumption DEF RcConnect, LeaseSame, Fresh
<1>6. CASE RcSignalResumed
  <2>1. LeaseSame
    BY <1>6 DEF RcSignalResumed, UnbornIsIdle, LeaseSame, Fresh
  <2>. QED
    BY <2>1 DEF LeaseSame, Lease!leaseVars, Fresh
<1>7. CASE RcCloseOld
  <2>1. LeaseSame
    BY <1>7 DEF RcCloseOld, UnbornIsIdle, LeaseSame, Fresh
  <2>. QED
    BY <2>1 DEF LeaseSame, Lease!leaseVars, Fresh
<1>8. ASSUME \/ RcGiveUp \/ RcAttempt \/ RcAcked \/ RcTick \/ RcTake \/ RcAwaitOld
             \/ RcRestarted \/ RcResumePc \/ RcResumed
             \/ \E signalError \in BOOLEAN : RcResumeFails(signalError)
      PROVE  LeaseSame
  <2>1. /\ handle'.session = handle.session
        /\ handle'.closed = handle.closed
        /\ rc'.new = rc.new
        /\ UNCHANGED <<caller, session>>
    <3>1. CASE RcGiveUp \/ RcAttempt \/ RcAcked \/ RcTick
      BY <3>1 DEF RcGiveUp, RcAttempt, RcAcked, RcTick
    <3>2. CASE RcTake \/ RcAwaitOld \/ RcRestarted
      BY <3>2 DEF RcTake, RcAwaitOld, RcRestarted
    <3>3. CASE \/ RcResumePc \/ RcResumed
               \/ \E signalError \in BOOLEAN : RcResumeFails(signalError)
      BY <3>3 DEF RcResumePc, RcResumed, RcResumeFails
    <3>. QED
      BY <1>8, <3>1, <3>2, <3>3
  <2>2. rc.step \notin {"idle", "spawned", "lock"} /\ rc'.step \notin {"idle", "spawned", "lock"}
    <3>1. CASE RcGiveUp \/ RcAttempt \/ RcTick
      BY <3>1 DEF RcGiveUp, RcAttempt, RcTick
    <3>2. CASE RcAcked
      BY <3>2 DEF RcAcked, AckStep
    <3>3. CASE RcTake \/ RcAwaitOld \/ RcRestarted
      BY <3>3 DEF RcTake, RcAwaitOld, RcRestarted
    <3>4. CASE \/ RcResumePc \/ RcResumed
               \/ \E signalError \in BOOLEAN : RcResumeFails(signalError)
      BY <3>4 DEF RcResumePc, RcResumed, RcResumeFails
    <3>. QED
      BY <1>8, <3>1, <3>2, <3>3, <3>4
  <2>. QED
    BY <2>1, <2>2 DEF LeaseSame, Fresh
<1>9. CASE RcQueue
  <2>1. LeaseSame
    BY <1>9 DEF RcQueue, LeaseSame, Fresh
  <2>. QED
    BY <2>1 DEF LeaseSame, Lease!leaseVars, Fresh
<1>. QED
  BY <1>1, <1>2, <1>3, <1>4, <1>5, <1>6, <1>7, <1>8, <1>9
     DEF Reconnect, LeaseSame, Lease!leaseVars, Fresh

(* The engine implements the lease on the current session: it is replaced   *)
(* only while no API call runs, by a session that was never current, and a  *)
(* closed engine gives out no lease (wait_reconnection).                    *)
THEOREM EngineImplementsLease == Spec => LeaseSpec
<1>1. ASSUME Init
      PROVE  Lease!Init
  <2>1. \A s \in Session : (session[s] = "unborn" \/ rc.new = s) <=> s # First
    BY <1>1, EngineAssumption DEF Init
  <2>2. {s \in Session : session[s] = "unborn" \/ rc.new = s} = Session \ {First}
    BY <2>1
  <2>3. /\ handle.session = First
        /\ handle.closed = FALSE
        /\ caller = [c \in Caller |-> NoSession]
        /\ (rc.step \notin {"idle", "spawned", "lock"}) = FALSE
    BY <1>1 DEF Init
  <2>. QED
    BY <2>2, <2>3 DEF Lease!Init
<1>2. TypeOK /\ IInv /\ [Next]_engineVars => [Lease!Next]_(Lease!leaseVars)
  BY LeaseOtherStep, LeaseReconnectStep, EngineAssumption DEF Next, Engine
<1>. QED
  BY <1>1, <1>2, EngineInvariant, PTL DEF Spec, LeaseSpec, Lease!Spec

-----------------------------------------------------------------------------
(* The engine's events: they stay in order, and the engine is the one that  *)
(* a room is built on (EngineEvents).                                       *)

Question(e) == e.type \in WithReply

(* A session leaves the engine once, and no close() of it runs before.      *)
LeavesOnce(q, idle) ==
  \A i, j \in DOMAIN q : q[i].kind = "disconnect" =>
    idle /\ (q[j].kind = "disconnect" => i = j)
LeaveOnce == \A s \in Session : LeavesOnce(inbox[s], closer[s].step = "idle")
HasBody(q) == \A i \in DOMAIN q : q[i].kind = "data" => q[i].body \in Payload
DataHasBody == \A s \in Session : HasBody(inbox[s])
InboxInv == LeaveOnce /\ DataHasBody

(* What a call of close(), or its absence, tells of the engine.             *)
DoneIsClosed == \A c \in Closer : closer[c].step = "done" => handle.closed
RetryIsClosing == rc.step # "closing" => closer["retry"].step = "idle"

(* A session whose task was taken is closed; a resume cannot succeed on it. *)
TakenIsClosed ==
  (handle.task = NoSession /\ ~handle.closed)
     => rc.step = "closeOld" \/ session[handle.session] = "closed"
ResumedHasTask == rc.step = "resumed" => handle.task # NoSession \/ handle.closed

(* A session is closed by the one call that took its task.                  *)
TakenOnce ==
  /\ \A c \in Closer : closer[c].step = "session" => task[closer[c].target] = "running"
  /\ \A c, d \in Closer :
       (closer[c].step = "session" /\ closer[d].step = "session"
         /\ closer[c].target = closer[d].target) => c = d
  /\ rc.step = "closeOld" => task[handle.session] = "running"
  /\ rc.step = "closeOld" =>
       \A c \in Closer : closer[c].step = "session" => closer[c].target # handle.session

ControlInv == /\ DoneIsClosed /\ RetryIsClosing
              /\ TakenIsClosed /\ ResumedHasTask /\ TakenOnce

(* At most one event waits for an answer: that of the reconnect task.       *)
Owed(q, step, answered) ==
  \A i \in DOMAIN q : Question(q[i]) =>
    /\ step \in AckStep /\ ~answered
    /\ q[i].type = "SignalRestarted" => step = "ackSignalRestarted"
    /\ \A j \in DOMAIN q : Question(q[j]) => i = j
NothingBehindRestarted(q) ==
  \A i, j \in DOMAIN q :
    (i < j /\ q[i].type = "SignalRestarted") => q[j].type # "Forward"

(* Disconnected comes once the task of its session has ended.               *)
DisconnectedIsEnded(q) ==
  \A i \in DOMAIN q : q[i].type = "Disconnected" => task[q[i].session] = "ended"
NoForwardBehind(q) ==
  \A i, j \in DOMAIN q :
    (i < j /\ q[i].type = "Disconnected" /\ q[j].type = "Forward")
      => q[j].session # q[i].session

OrderInv == /\ Owed(events, rc.step, reply)
            /\ ~handle.closed => NothingBehindRestarted(events)
            /\ DisconnectedIsEnded(events)
            /\ NoForwardBehind(events)

EventsInv == InboxInv /\ ControlInv /\ OrderInv

-----------------------------------------------------------------------------
(* Sequences by position.                                                   *)

(* Append adds one position.                                                *)
LEMMA AppendAt ==
  ASSUME NEW S, NEW q \in Seq(S), NEW e \in S
  PROVE  /\ DOMAIN Append(q, e) = DOMAIN q \cup {Len(q) + 1}
         /\ Append(q, e)[Len(q) + 1] = e
         /\ \A i \in DOMAIN q : /\ i \in Nat /\ i < Len(q) + 1
                                /\ Append(q, e)[i] = q[i]
<1>1. /\ Append(q, e) \in Seq(S)
      /\ Len(Append(q, e)) = Len(q) + 1
      /\ \A i \in 1 .. Len(q) : Append(q, e)[i] = q[i]
      /\ Append(q, e)[Len(q) + 1] = e
  BY AppendProperties
<1>2. /\ DOMAIN q = 1 .. Len(q) /\ Len(q) \in Nat
      /\ DOMAIN Append(q, e) = 1 .. Len(q) + 1
  BY <1>1, LenProperties
<1>. QED
  BY <1>1, <1>2

(* Tail drops the first position.                                           *)
LEMMA TailAt ==
  ASSUME NEW S, NEW q \in Seq(S), q # <<>>
  PROVE  /\ 1 \in DOMAIN q /\ q[1] = Head(q)
         /\ \A i \in DOMAIN Tail(q) : /\ i \in Nat /\ i # 0
                                      /\ i + 1 \in DOMAIN q
                                      /\ Tail(q)[i] = q[i + 1]
<1>1. /\ Tail(q) \in Seq(S) /\ Len(Tail(q)) = Len(q) - 1
      /\ \A i \in 1 .. Len(Tail(q)) : Tail(q)[i] = q[i + 1]
  BY HeadTailProperties
<1>2. /\ DOMAIN q = 1 .. Len(q) /\ Len(q) \in Nat \ {0}
      /\ DOMAIN Tail(q) = 1 .. Len(q) - 1
  BY <1>1, LenProperties, EmptySeq
<1>. QED
  BY <1>1, <1>2

-----------------------------------------------------------------------------
(* The part of the invariant about the inboxes.                             *)

(* Another event of the session, or the next one taken.                     *)
LEMMA InboxAppend ==
  ASSUME NEW q \in Seq(SessionEvent), NEW e \in SessionEvent, NEW idle \in BOOLEAN,
         LeavesOnce(q, idle), HasBody(q),
         e.kind = "data" => e.body \in Payload,
         e.kind = "disconnect" => idle /\ \A i \in DOMAIN q : q[i].kind # "disconnect"
  PROVE  LeavesOnce(Append(q, e), idle) /\ HasBody(Append(q, e))
<1>1. /\ DOMAIN Append(q, e) = DOMAIN q \cup {Len(q) + 1}
      /\ Append(q, e)[Len(q) + 1] = e
      /\ \A i \in DOMAIN q : Append(q, e)[i] = q[i]
  BY AppendAt
<1>. QED
  BY <1>1 DEF LeavesOnce, HasBody

(* Taking the next event of a session.                                      *)
LEMMA InboxTail ==
  ASSUME NEW q \in Seq(SessionEvent), q # <<>>, NEW idle \in BOOLEAN,
         LeavesOnce(q, idle), HasBody(q)
  PROVE  /\ LeavesOnce(Tail(q), idle) /\ HasBody(Tail(q))
         /\ Head(q).kind = "disconnect" => LeavesOnce(Tail(q), FALSE)
<1>1. /\ 1 \in DOMAIN q /\ q[1] = Head(q)
      /\ \A i \in DOMAIN Tail(q) : /\ i \in Nat /\ i # 0
                                   /\ i + 1 \in DOMAIN q
                                   /\ Tail(q)[i] = q[i + 1]
  BY TailAt
<1>2. HasBody(Tail(q))
  BY <1>1 DEF HasBody
<1>3. LeavesOnce(Tail(q), idle)
  BY <1>1 DEF LeavesOnce
<1>4. Head(q).kind = "disconnect" => LeavesOnce(Tail(q), FALSE)
  BY <1>1 DEF LeavesOnce
<1>. QED
  BY <1>2, <1>3, <1>4

(* A session fails, or emits something else.                                *)
LEMMA InboxSession ==
  ASSUME TypeOK, InboxInv, NEW s \in Session,
         \/ \E a \in CloseAction : Fail(s, a)
         \/ \E p \in Payload : Emit(s, p)
  PROVE  InboxInv'
<1>. DEFINE idle == closer[s].step = "idle"
<1>1. PICK e \in SessionEvent :
        /\ inbox' = [inbox EXCEPT ![s] = Append(@, e)]
        /\ e.kind = "data" => e.body \in Payload
        /\ e.kind = "disconnect" =>
             idle /\ \A i \in DOMAIN inbox[s] : inbox[s][i].kind # "disconnect"
  <2>1. ASSUME NEW a \in CloseAction, Fail(s, a)
        PROVE  LET e == [kind |-> a, body |-> "none"]
               IN  /\ e \in SessionEvent
                   /\ inbox' = [inbox EXCEPT ![s] = Append(@, e)]
                   /\ e.kind # "data"
                   /\ e.kind = "disconnect" =>
                        idle /\ \A i \in DOMAIN inbox[s] : inbox[s][i].kind # "disconnect"
    BY <2>1 DEF Fail, SessionEvent, CloseAction
  <2>2. ASSUME NEW p \in Payload, Emit(s, p)
        PROVE  LET e == [kind |-> "data", body |-> p]
               IN  /\ e \in SessionEvent
                   /\ inbox' = [inbox EXCEPT ![s] = Append(@, e)]
                   /\ e.kind = "data" /\ e.body \in Payload
    BY <2>2 DEF Emit, SessionEvent
  <2>. QED
    BY <2>1, <2>2
<1>2. inbox[s] \in Seq(SessionEvent) /\ idle \in BOOLEAN
  BY DEF TypeOK
<1>3. LeavesOnce(inbox[s], idle) /\ HasBody(inbox[s])
  BY DEF InboxInv, LeaveOnce, DataHasBody
<1>4. /\ inbox'[s] = Append(inbox[s], e)
      /\ \A t \in Session \ {s} : inbox'[t] = inbox[t]
      /\ closer' = closer
  BY <1>1 DEF TypeOK, Fail, Emit
<1>5. LeavesOnce(inbox'[s], idle) /\ HasBody(inbox'[s])
  <2>. HIDE DEF idle
  <2>. QED
    BY <1>1, <1>2, <1>3, <1>4, InboxAppend
<1>. QED
  BY <1>4, <1>5 DEF InboxInv, LeaveOnce, DataHasBody

(* Other steps leave a Leave where it is, or take it and start the close.   *)
LEMMA InboxOther ==
  ASSUME TypeOK, InboxInv, EngineAssumption,
         \/ \E s \in Session : EngineTask(s)
         \/ \E c \in Closer : Close(c)
         \/ Reconnect \/ UserClose \/ RoomTakes \/ RoomStops
         \/ \E c \in Caller : CallerAcquire(c) \/ CallerRelease(c)
         \/ UNCHANGED engineVars
  PROVE  InboxInv'
<1>1. ASSUME NEW s \in Session, EngineTaskEvent(s)
      PROVE  InboxInv'
  <2>. DEFINE q == inbox[s]
  <2>1. /\ q \in Seq(SessionEvent) /\ q # <<>>
        /\ inbox' = [inbox EXCEPT ![s] = Tail(@)]
    BY <1>1 DEF EngineTaskEvent, TypeOK
  <2>2. inbox'[s] = Tail(q) /\ \A t \in Session \ {s} : inbox'[t] = inbox[t]
    BY <2>1 DEF TypeOK
  <2>3. closer' = closer \/ (/\ Head(q).kind = "disconnect"
                             /\ closer' = [closer EXCEPT ![s].step = "start"])
    BY <1>1 DEF EngineTaskEvent, OnSessionEvent
  <2>4. /\ \A t \in Session \ {s} : closer'[t] = closer[t]
        /\ Head(q).kind = "disconnect" \/ closer'[s].step = closer[s].step
    BY <2>3 DEF Closer, TypeOK
  <2>5. LeavesOnce(q, closer[s].step = "idle") /\ HasBody(q)
    BY DEF InboxInv, LeaveOnce, DataHasBody
  <2>6. /\ LeavesOnce(Tail(q), closer[s].step = "idle") /\ HasBody(Tail(q))
        /\ Head(q).kind = "disconnect" => LeavesOnce(Tail(q), FALSE)
    <3>1. (closer[s].step = "idle") \in BOOLEAN
      OBVIOUS
    <3>. QED
      BY <2>1, <2>5, <3>1, InboxTail
  <2>7. LeavesOnce(Tail(q), closer'[s].step = "idle")
    <3>1. CASE Head(q).kind = "disconnect"
      BY <3>1, <2>6 DEF LeavesOnce
    <3>2. CASE closer'[s].step = closer[s].step
      BY <3>2, <2>6
    <3>. QED
      BY <3>1, <3>2, <2>4
  <2>. QED
    BY <2>2, <2>4, <2>6, <2>7 DEF InboxInv, LeaveOnce, DataHasBody
<1>2. ASSUME NEW s \in Session, EngineTaskExit(s)
      PROVE  InboxInv'
  <2>1. /\ inbox'[s] = <<>> /\ \A t \in Session \ {s} : inbox'[t] = inbox[t]
        /\ closer' = closer
    BY <1>2 DEF EngineTaskExit, TypeOK
  <2>2. LeavesOnce(<<>>, closer[s].step = "idle") /\ HasBody(<<>>)
    BY DEF LeavesOnce, HasBody
  <2>. QED
    BY <2>1, <2>2 DEF InboxInv, LeaveOnce, DataHasBody
<1>3. ASSUME inbox' = inbox,
             \A s \in Session : closer'[s].step = closer[s].step
                                \/ closer[s].step # "idle"
      PROVE  InboxInv'
  <2>1. ASSUME NEW s \in Session
        PROVE  LeavesOnce(inbox[s], closer'[s].step = "idle")
    <3>1. LeavesOnce(inbox[s], closer[s].step = "idle")
      BY DEF InboxInv, LeaveOnce
    <3>. QED
      BY <1>3, <3>1 DEF LeavesOnce
  <2>. QED
    BY <1>3, <2>1 DEF InboxInv, LeaveOnce, DataHasBody
<1>4. ASSUME NEW c \in Closer, Close(c)
      PROVE  InboxInv'
  <2>1. inbox' = inbox
    BY <1>4 DEF Close, CloseTake, CloseSession, CloseAwait
  <2>2. closer[c].step # "idle" /\ \A d \in Closer \ {c} : closer'[d] = closer[d]
    BY <1>4 DEF Close, CloseTake, CloseSession, CloseAwait, TypeOK
  <2>. QED
    BY <1>3, <2>1, <2>2 DEF Closer
<1>5. CASE Reconnect
  <2>1. inbox' = inbox
    BY <1>5 DEF Reconnect, RcQueue, RcLock, RcGiveUp, RcAttempt, RcAcked, RcTick, RcFinish,
         RcTake, RcCloseOld, RcAwaitOld, RcInstall, RcRestarted, RcRestartFails, RcConnect,
         RcSignalResumed, RcResumePc, RcResumed, RcResumeFails, RcUnchanged
  <2>2. \A s \in Session : closer'[s] = closer[s]
    <3>1. CASE RcGiveUp \/ RcFinish
      BY <3>1 DEF RcGiveUp, RcFinish, EngineAssumption, Closer, TypeOK
    <3>2. CASE UNCHANGED closer
      BY <3>2
    <3>. QED
      BY <1>5, <3>1, <3>2 DEF Reconnect, RcQueue, RcLock, RcAttempt, RcAcked, RcTick,
         RcTake, RcCloseOld, RcAwaitOld, RcInstall, RcRestarted, RcRestartFails, RcConnect,
         RcSignalResumed, RcResumePc, RcResumed, RcResumeFails, RcUnchanged
  <2>. QED
    BY <1>3, <2>1, <2>2
<1>6. CASE UserClose
  <2>1. \A s \in Session : closer'[s] = closer[s]
    BY <1>6 DEF UserClose, EngineAssumption, Closer, TypeOK
  <2>. QED
    BY <1>3, <1>6, <2>1 DEF UserClose
<1>7. CASE \/ RoomTakes \/ RoomStops \/ UNCHANGED engineVars
           \/ \E c \in Caller : CallerAcquire(c) \/ CallerRelease(c)
  BY <1>3, <1>7 DEF RoomTakes, RoomStops, engineVars, CallerAcquire, CallerRelease
<1>. QED
  BY <1>1, <1>2, <1>4, <1>5, <1>6, <1>7 DEF EngineTask

-----------------------------------------------------------------------------
(* The part about the tasks and the calls of close().                       *)

(* Steps of the sessions, their engine tasks, the API calls and the room.   *)
LEMMA ControlOther ==
  ASSUME TypeOK, IInv, ControlInv, EngineAssumption,
         \/ \E s \in Session : \/ EngineTask(s)
                               \/ \E a \in CloseAction : Fail(s, a)
                               \/ \E p \in Payload : Emit(s, p)
         \/ \E c \in Caller : CallerAcquire(c) \/ CallerRelease(c)
         \/ UserClose \/ RoomTakes \/ RoomStops
         \/ UNCHANGED engineVars
  PROVE  ControlInv'
<1>. USE DEF TypeOK, IInv, ControlInv, DoneIsClosed, RetryIsClosing, TakenIsClosed,
         ResumedHasTask, TakenOnce, UnbornIsIdle
<1>1. ASSUME NEW s \in Session, EngineTaskEvent(s)
      PROVE  ControlInv'
  <2>. DEFINE e == Head(inbox[s])
  <2>1. OnSessionEvent(s, e) /\ UNCHANGED <<session, task>>
    BY <1>1 DEF EngineTaskEvent
  <2>2. CASE ReconnectionNeeded(e.kind = "reconnect") /\ UNCHANGED closer
    <3>. DEFINE full == e.kind = "reconnect"
    <3>1. ReconnectionNeeded(full)
      BY <2>2
    <3>. HIDE DEF full
    <3>2. /\ handle'.session = handle.session
          /\ handle'.task = handle.task
          /\ handle'.closed = handle.closed
      BY <3>1 DEF ReconnectionNeeded, EngineHandle
    <3>3. rc'.step = rc.step \/ (rc.step = "idle" /\ rc'.step = "spawned")
      BY <3>1 DEF ReconnectionNeeded, ReconnectTask, ReconnectingIsTask
    <3>. QED
      BY <2>1, <2>2, <3>2, <3>3
  <2>3. CASE /\ handle' = [handle EXCEPT !.can_reconnect = FALSE]
             /\ closer' = [closer EXCEPT ![s].step = "start"]
             /\ UNCHANGED rc
    BY <2>1, <2>3 DEF EngineHandle, CloseCall, Closer, EngineAssumption
  <2>4. CASE UNCHANGED <<handle, rc, closer>>
    BY <2>1, <2>4
  <2>. QED
    BY <2>1, <2>2, <2>3, <2>4 DEF OnSessionEvent
<1>2. ASSUME NEW s \in Session, EngineTaskExit(s)
      PROVE  ControlInv'
  BY <1>2 DEF EngineTaskExit
<1>3. ASSUME NEW s \in Session, NEW a \in CloseAction, Fail(s, a)
      PROVE  ControlInv'
  BY <1>3 DEF Fail
<1>4. ASSUME NEW s \in Session, NEW p \in Payload, Emit(s, p)
      PROVE  ControlInv'
  BY <1>4 DEF Emit
<1>5. ASSUME NEW c \in Caller, CallerAcquire(c) \/ CallerRelease(c)
      PROVE  ControlInv'
  BY <1>5 DEF CallerAcquire, CallerRelease
<1>6. CASE UserClose
  BY <1>6 DEF UserClose, CloseCall, Closer
<1>7. CASE RoomTakes \/ RoomStops \/ UNCHANGED engineVars
  BY <1>7 DEF RoomTakes, RoomStops, engineVars
<1>. QED
  BY <1>1, <1>2, <1>3, <1>4, <1>5, <1>6, <1>7 DEF EngineTask

(* Steps of close().                                                        *)
LEMMA ControlClose ==
  ASSUME TypeOK, IInv, ControlInv, EngineAssumption, NEW c \in Closer, Close(c)
  PROVE  ControlInv'
<1>. USE DEF TypeOK, IInv, ControlInv, DoneIsClosed, RetryIsClosing, TakenIsClosed,
         ResumedHasTask, TakenOnce, CloserHasTarget, TaskTaken, TaskIsCurrent,
         EngineHandle, CloseCall
<1>1. CASE CloseTake(c)
  BY <1>1 DEF CloseTake, EngineAssumption
<1>2. CASE CloseSession(c)
  BY <1>2 DEF CloseSession
<1>3. CASE CloseAwait(c)
  BY <1>3 DEF CloseAwait
<1>. QED
  BY <1>1, <1>2, <1>3 DEF Close

(* Steps of the reconnect task.                                             *)
LEMMA ControlReconnect ==
  ASSUME TypeOK, IInv, ControlInv, EngineAssumption, Reconnect
  PROVE  ControlInv'
<1>. USE DEF TypeOK, IInv, ControlInv, DoneIsClosed, RetryIsClosing, TakenIsClosed,
         ResumedHasTask, TakenOnce, CloserHasTarget, TaskTaken, TaskIsCurrent,
         NewIsFresh, UnbornIsIdle, EngineHandle, ReconnectTask, RcUnchanged
<1>1. CASE RcQueue \/ RcLock \/ RcAttempt \/ RcAcked \/ RcTick
  <2>1. UNCHANGED <<handle, session, task, closer>>
    BY <1>1 DEF RcQueue, RcLock, RcAttempt, RcAcked, RcTick
  <2>2. /\ rc.step \notin {"closing", "closeOld"}
        /\ rc'.step \notin {"closing", "closeOld", "resumed"}
    <3>1. CASE RcQueue \/ RcLock \/ RcAttempt \/ RcTick
      BY <3>1 DEF RcQueue, RcLock, RcAttempt, RcTick
    <3>2. CASE RcAcked
      BY <3>2 DEF RcAcked, AckStep
    <3>. QED
      BY <1>1, <3>1, <3>2
  <2>. QED
    BY <2>1, <2>2
<1>2. CASE RcGiveUp
  BY <1>2 DEF RcGiveUp, CloseCall, Closer
<1>3. CASE RcFinish
  BY <1>3 DEF RcFinish, CloseCall, Closer
<1>4. CASE RcTake
  BY <1>4 DEF RcTake, EngineAssumption
<1>5. CASE RcCloseOld
  BY <1>5 DEF RcCloseOld
<1>6. CASE RcAwaitOld \/ RcRestarted \/ RcResumePc \/ RcResumed
  BY <1>6 DEF RcAwaitOld, RcRestarted, RcResumePc, RcResumed
<1>7. CASE RcInstall
  BY <1>7, EngineAssumption DEF RcInstall
<1>8. CASE RcRestartFails
  BY <1>8 DEF RcRestartFails
<1>9. ASSUME NEW s \in Session, RcConnect(s)
      PROVE  ControlInv'
  BY <1>9 DEF RcConnect
<1>10. CASE RcSignalResumed
  BY <1>10 DEF RcSignalResumed
<1>11. ASSUME NEW signalError \in BOOLEAN, RcResumeFails(signalError)
       PROVE  ControlInv'
  BY <1>11 DEF RcResumeFails
<1>. QED
  BY <1>1, <1>2, <1>3, <1>4, <1>5, <1>6, <1>7, <1>8, <1>9, <1>10, <1>11 DEF Reconnect

-----------------------------------------------------------------------------
(* The part about the channel of engine events.                             *)

(* What the room takes leaves the rest in order.                            *)
LEMMA OrderTail ==
  ASSUME NEW q \in Seq(EngineEvent), q # <<>>, NEW step, NEW answered \in BOOLEAN
  PROVE  /\ Owed(q, step, answered)
              => Owed(Tail(q), step, answered \/ Head(q).type \in WithReply)
         /\ NothingBehindRestarted(q) => NothingBehindRestarted(Tail(q))
         /\ DisconnectedIsEnded(q) => DisconnectedIsEnded(Tail(q))
         /\ NoForwardBehind(q) => NoForwardBehind(Tail(q))
<1>1. /\ 1 \in DOMAIN q /\ q[1] = Head(q)
      /\ \A i \in DOMAIN Tail(q) : /\ i \in Nat /\ i # 0
                                   /\ i + 1 \in DOMAIN q
                                   /\ Tail(q)[i] = q[i + 1]
  BY TailAt
<1>2. Owed(q, step, answered) => Owed(Tail(q), step, answered \/ Head(q).type \in WithReply)
  BY <1>1 DEF Owed, Question
<1>3. NothingBehindRestarted(q) => NothingBehindRestarted(Tail(q))
  BY <1>1 DEF NothingBehindRestarted
<1>4. DisconnectedIsEnded(q) => DisconnectedIsEnded(Tail(q))
  BY <1>1 DEF DisconnectedIsEnded
<1>5. NoForwardBehind(q) => NoForwardBehind(Tail(q))
  BY <1>1 DEF NoForwardBehind
<1>. QED
  BY <1>2, <1>3, <1>4, <1>5

(* When the engine may send an event.                                       *)
LEMMA OrderAppend ==
  ASSUME NEW q \in Seq(EngineEvent), NEW e \in EngineEvent, NEW step
  PROVE  /\ Owed(q, step, reply) /\ ~Question(e) => Owed(Append(q, e), step, reply)
         /\ (/\ \A i \in DOMAIN q : ~Question(q[i])
             /\ step \in AckStep
             /\ e.type = "SignalRestarted" => step = "ackSignalRestarted")
               => Owed(Append(q, e), step, FALSE)
         /\ (/\ NothingBehindRestarted(q)
             /\ e.type = "Forward" => \A i \in DOMAIN q : q[i].type # "SignalRestarted")
               => NothingBehindRestarted(Append(q, e))
         /\ (/\ DisconnectedIsEnded(q)
             /\ e.type = "Disconnected" => task[e.session] = "ended")
               => DisconnectedIsEnded(Append(q, e))
         /\ (/\ NoForwardBehind(q)
             /\ e.type = "Forward" => \A i \in DOMAIN q :
                  q[i].type = "Disconnected" => q[i].session # e.session)
               => NoForwardBehind(Append(q, e))
<1>. DEFINE n == Len(q) + 1
<1>1. /\ DOMAIN Append(q, e) = DOMAIN q \cup {n}
      /\ Append(q, e)[n] = e
      /\ \A i \in DOMAIN q : /\ i \in Nat /\ i < n
                             /\ Append(q, e)[i] = q[i]
      /\ n \in Nat
  BY AppendAt, LenProperties
<1>. HIDE DEF n
<1>2. Owed(q, step, reply) /\ ~Question(e) => Owed(Append(q, e), step, reply)
  BY <1>1 DEF Owed
<1>3. (/\ \A i \in DOMAIN q : ~Question(q[i])
       /\ step \in AckStep
       /\ e.type = "SignalRestarted" => step = "ackSignalRestarted")
         => Owed(Append(q, e), step, FALSE)
  BY <1>1 DEF Owed
<1>4. (/\ NothingBehindRestarted(q)
       /\ e.type = "Forward" => \A i \in DOMAIN q : q[i].type # "SignalRestarted")
         => NothingBehindRestarted(Append(q, e))
  BY <1>1 DEF NothingBehindRestarted
<1>5. (/\ DisconnectedIsEnded(q)
       /\ e.type = "Disconnected" => task[e.session] = "ended")
         => DisconnectedIsEnded(Append(q, e))
  BY <1>1 DEF DisconnectedIsEnded
<1>6. (/\ NoForwardBehind(q)
       /\ e.type = "Forward" => \A i \in DOMAIN q :
            q[i].type = "Disconnected" => q[i].session # e.session)
         => NoForwardBehind(Append(q, e))
  BY <1>1 DEF NoForwardBehind
<1>. QED
  BY <1>2, <1>3, <1>4, <1>5, <1>6

(* A step that sends nothing.                                               *)
LEMMA OrderKept ==
  ASSUME TypeOK, OrderInv,
         events' = events, reply' = reply,
         rc'.step = rc.step \/ reply \/ rc.step \notin AckStep,
         handle.closed => handle'.closed,
         \A s \in Session : task[s] = "ended" => task'[s] = "ended"
  PROVE  OrderInv'
<1>1. Owed(events, rc'.step, reply)
  BY DEF OrderInv, Owed
<1>2. \A i \in DOMAIN events : events[i].session \in Session
  <2>1. /\ DOMAIN events = 1 .. Len(events)
        /\ events \in [1 .. Len(events) -> EngineEvent]
    BY LenProperties DEF TypeOK
  <2>. QED
    BY <2>1 DEF EngineEvent
<1>3. DisconnectedIsEnded(events)'
  BY <1>2 DEF OrderInv, DisconnectedIsEnded
<1>4. /\ (~handle'.closed => NothingBehindRestarted(events'))
      /\ NoForwardBehind(events')
  BY DEF OrderInv
<1>. QED
  BY <1>1, <1>3, <1>4 DEF OrderInv

(* The reconnect task sends an event and waits for its answer.              *)
LEMMA OrderQuestion ==
  ASSUME TypeOK, OrderInv, NEW type \in WithReply, NEW s \in Session,
         SendAndWait(type, s),
         rc.step \notin AckStep, rc'.step \in AckStep,
         type = "SignalRestarted" => rc'.step = "ackSignalRestarted",
         UNCHANGED <<handle, task>>
  PROVE  OrderInv'
<1>. DEFINE e == [type |-> type, session |-> s, body |-> "none"]
<1>1. /\ \A i \in DOMAIN events : ~Question(events[i])
      /\ DisconnectedIsEnded(events) /\ NoForwardBehind(events)
      /\ ~handle.closed => NothingBehindRestarted(events)
  BY DEF OrderInv, Owed
<1>2. CASE ~listening
  <2>1. events' = events
    BY <1>2 DEF SendAndWait, Send
  <2>2. Owed(events, rc'.step, reply')
    BY <1>1 DEF Owed
  <2>. QED
    BY <1>1, <2>1, <2>2 DEF OrderInv, DisconnectedIsEnded
<1>3. CASE listening
  <2>1. events' = Append(events, e) /\ reply' = FALSE
    BY <1>3 DEF SendAndWait, Send
  <2>2. e \in EngineEvent /\ e.type = type /\ events \in Seq(EngineEvent)
    BY DEF EngineEvent, WithReply, TypeOK
  <2>3. type # "Forward" /\ type # "Disconnected"
    BY DEF WithReply
  <2>. HIDE DEF e
  <2>4. /\ Owed(Append(events, e), rc'.step, FALSE)
        /\ ~handle.closed => NothingBehindRestarted(Append(events, e))
        /\ DisconnectedIsEnded(Append(events, e))
        /\ NoForwardBehind(Append(events, e))
    BY <1>1, <2>2, <2>3, OrderAppend
  <2>. QED
    BY <2>1, <2>4 DEF OrderInv, DisconnectedIsEnded
<1>. QED
  BY <1>2, <1>3 DEF TypeOK

(* Steps of the sessions, their engine tasks, the API calls and the room.   *)
LEMMA OrderOther ==
  ASSUME TypeOK, IInv, OrderInv,
         \/ \E s \in Session : \/ EngineTask(s)
                               \/ \E a \in CloseAction : Fail(s, a)
                               \/ \E p \in Payload : Emit(s, p)
         \/ \E c \in Caller : CallerAcquire(c) \/ CallerRelease(c)
         \/ UserClose \/ RoomTakes \/ RoomStops
         \/ UNCHANGED engineVars
  PROVE  OrderInv'
<1>1. ASSUME NEW s \in Session, EngineTaskEvent(s)
      PROVE  OrderInv'
  <2>. DEFINE h == Head(inbox[s])
             e == [type |-> "Forward", session |-> s, body |-> h.body]
  <2>1. OnSessionEvent(s, h) /\ UNCHANGED <<task, reply, listening>>
    BY <1>1 DEF EngineTaskEvent
  <2>2. CASE ReconnectionNeeded(h.kind = "reconnect") /\ UNCHANGED <<closer, events>>
    <3>. DEFINE full == h.kind = "reconnect"
    <3>1. ReconnectionNeeded(full)
      BY <2>2
    <3>. HIDE DEF full
    <3>2. handle'.closed = handle.closed
      BY <3>1 DEF ReconnectionNeeded, EngineHandle, TypeOK
    <3>3. rc'.step = rc.step \/ rc.step = "idle"
      BY <3>1 DEF ReconnectionNeeded, ReconnectTask, IInv, ReconnectingIsTask, TypeOK
    <3>. QED
      BY <2>1, <2>2, <3>2, <3>3, OrderKept DEF AckStep
  <2>3. CASE handle' = [handle EXCEPT !.can_reconnect = FALSE] /\ UNCHANGED <<rc, events>>
    BY <2>1, <2>3, OrderKept DEF EngineHandle, TypeOK
  <2>4. CASE h.kind = "data" /\ Send("Forward", s, h.body) /\ UNCHANGED <<handle, rc>>
    <3>1. CASE ~listening
      BY <2>1, <2>4, <3>1, OrderKept DEF Send
    <3>2. CASE listening
      <4>1. events' = Append(events, e)
        BY <2>4, <3>2 DEF Send
      <4>2. h \in SessionEvent
        <5>1. inbox[s] \in Seq(SessionEvent) /\ inbox[s] # <<>>
          BY <1>1 DEF EngineTaskEvent, TypeOK
        <5>. QED
          BY <5>1, HeadTailProperties
      <4>3. e \in EngineEvent /\ e.type = "Forward" /\ e.session = s
        BY <4>2 DEF EngineEvent, SessionEvent
      <4>4. Alive(s)
        BY <1>1 DEF EngineTaskEvent, Alive
      <4>5. rc.step = "ackSignalRestarted" => handle.closed
        BY <4>4 DEF IInv, TaskTaken, NoTaskNoneAlive
      <4>6. ~handle.closed => \A i \in DOMAIN events : events[i].type # "SignalRestarted"
        BY <4>5 DEF OrderInv, Owed, Question, WithReply
      <4>7. \A i \in DOMAIN events : events[i].type = "Disconnected" => events[i].session # s
        BY <4>4 DEF OrderInv, DisconnectedIsEnded, Alive
      <4>8. events \in Seq(EngineEvent)
        BY DEF TypeOK
      <4>9. ~Question(e)
        BY <4>3 DEF Question, WithReply
      <4>. HIDE DEF e
      <4>10. /\ Owed(Append(events, e), rc.step, reply)
             /\ ~handle.closed => NothingBehindRestarted(Append(events, e))
             /\ DisconnectedIsEnded(Append(events, e))
             /\ NoForwardBehind(Append(events, e))
        BY <4>3, <4>6, <4>7, <4>8, <4>9, OrderAppend DEF OrderInv
      <4>. QED
        BY <2>1, <2>4, <4>1, <4>10 DEF OrderInv, DisconnectedIsEnded
    <3>. QED
      BY <3>1, <3>2 DEF TypeOK
  <2>. QED
    BY <2>1, <2>2, <2>3, <2>4 DEF OnSessionEvent
<1>2. ASSUME NEW s \in Session, EngineTaskExit(s)
      PROVE  OrderInv'
  BY <1>2, OrderKept DEF EngineTaskExit, TypeOK
<1>3. ASSUME NEW s \in Session,
             \/ \E a \in CloseAction : Fail(s, a)
             \/ \E p \in Payload : Emit(s, p)
      PROVE  OrderInv'
  BY <1>3, OrderKept DEF Fail, Emit
<1>4. CASE \E c \in Caller : CallerAcquire(c) \/ CallerRelease(c)
  BY <1>4, OrderKept DEF CallerAcquire, CallerRelease
<1>5. CASE UserClose \/ UNCHANGED engineVars
  BY <1>5, OrderKept DEF UserClose, engineVars
<1>6. CASE RoomTakes
  <2>1. /\ events \in Seq(EngineEvent) /\ events # <<>> /\ reply \in BOOLEAN
        /\ events' = Tail(events)
        /\ reply' = (reply \/ Head(events).type \in WithReply)
        /\ UNCHANGED <<handle, task, rc>>
    BY <1>6 DEF RoomTakes, TypeOK
  <2>2. /\ Owed(Tail(events), rc.step, reply \/ Head(events).type \in WithReply)
        /\ ~handle.closed => NothingBehindRestarted(Tail(events))
        /\ DisconnectedIsEnded(Tail(events))
        /\ NoForwardBehind(Tail(events))
    BY <2>1, OrderTail DEF OrderInv
  <2>. QED
    BY <2>1, <2>2 DEF OrderInv, DisconnectedIsEnded
<1>7. CASE RoomStops
  <2>1. events' = <<>>
    BY <1>7 DEF RoomStops
  <2>2. /\ Owed(<<>>, rc'.step, reply') /\ NothingBehindRestarted(<<>>)
        /\ DisconnectedIsEnded(<<>>)' /\ NoForwardBehind(<<>>)
    BY DEF Owed, NothingBehindRestarted, DisconnectedIsEnded, NoForwardBehind
  <2>. QED
    BY <2>1, <2>2 DEF OrderInv
<1>. QED
  BY <1>1, <1>2, <1>3, <1>4, <1>5, <1>6, <1>7 DEF EngineTask

(* Steps of close().                                                        *)
LEMMA OrderClose ==
  ASSUME TypeOK, IInv, ControlInv, OrderInv, NEW c \in Closer, Close(c)
  PROVE  OrderInv'
<1>1. CASE CloseTake(c)
  BY <1>1, OrderKept DEF CloseTake, EngineHandle, TypeOK
<1>2. CASE CloseSession(c)
  <2>1. task[closer[c].target] = "running"
    BY <1>2 DEF CloseSession, ControlInv, TakenOnce
  <2>2. \A s \in Session : task[s] = "ended" => task'[s] = "ended"
    BY <1>2, <2>1 DEF CloseSession, TypeOK
  <2>. QED
    BY <1>2, <2>2, OrderKept DEF CloseSession
<1>3. CASE CloseAwait(c)
  <2>. DEFINE e == [type |-> "Disconnected", session |-> closer[c].target, body |-> ReasonOf(c)]
  <2>1. /\ Send("Disconnected", closer[c].target, ReasonOf(c))
        /\ task[closer[c].target] = "ended"
        /\ UNCHANGED <<handle, task, rc, reply>>
    BY <1>3 DEF CloseAwait
  <2>2. CASE ~listening
    BY <2>1, <2>2, OrderKept DEF Send
  <2>3. CASE listening
    <3>1. events' = Append(events, e)
      BY <2>1, <2>3 DEF Send
    <3>2. closer[c].target \in Session /\ ReasonOf(c) \in Reason
      BY <1>3 DEF CloseAwait, IInv, CloserHasTarget, ReasonOf, Reason
    <3>3. e \in EngineEvent /\ e.type = "Disconnected" /\ task[e.session] = "ended"
      BY <2>1, <3>2 DEF EngineEvent
    <3>4. ~Question(e)
      BY <3>3 DEF Question, WithReply
    <3>5. events \in Seq(EngineEvent)
      BY DEF TypeOK
    <3>. HIDE DEF e
    <3>6. /\ Owed(Append(events, e), rc.step, reply)
          /\ ~handle.closed => NothingBehindRestarted(Append(events, e))
          /\ DisconnectedIsEnded(Append(events, e))
          /\ NoForwardBehind(Append(events, e))
      BY <3>3, <3>4, <3>5, OrderAppend DEF OrderInv
    <3>. QED
      BY <2>1, <3>1, <3>6 DEF OrderInv, DisconnectedIsEnded
  <2>. QED
    BY <2>2, <2>3 DEF TypeOK
<1>. QED
  BY <1>1, <1>2, <1>3 DEF Close

(* Steps of the reconnect task.                                             *)
LEMMA OrderReconnect ==
  ASSUME TypeOK, IInv, ControlInv, OrderInv, Reconnect
  PROVE  OrderInv'
<1>. USE DEF TypeOK, EngineHandle, ReconnectTask, RcUnchanged, AckStep
<1>1. CASE RcQueue \/ RcLock \/ RcGiveUp \/ RcAcked \/ RcTick \/ RcFinish
  BY <1>1, OrderKept DEF RcQueue, RcLock, RcGiveUp, RcAcked, RcTick, RcFinish
<1>2. CASE RcAttempt
  <2>1. CASE rc.attempt = 0
    <3>. DEFINE type == IF handle.full_reconnect THEN "Restarting" ELSE "Resuming"
    <3>1. /\ type \in WithReply /\ type # "SignalRestarted" /\ handle.session \in Session
          /\ SendAndWait(type, handle.session)
          /\ rc.step = "attempt" /\ rc'.step \in {"ackRestarting", "ackResuming"}
          /\ UNCHANGED <<handle, task>>
      BY <1>2, <2>1 DEF RcAttempt, WithReply
    <3>. HIDE DEF type
    <3>. QED
      BY <3>1, OrderQuestion
  <2>2. CASE rc.attempt # 0
    BY <1>2, <2>2, OrderKept DEF RcAttempt
  <2>. QED
    BY <2>1, <2>2
<1>3. CASE RcTake \/ RcAwaitOld \/ RcResumePc
  BY <1>3, OrderKept DEF RcTake, RcAwaitOld, RcResumePc
<1>4. CASE RcCloseOld
  <2>1. \A s \in Session : task[s] = "ended" => task'[s] = "ended"
    BY <1>4 DEF RcCloseOld, ControlInv, TakenOnce
  <2>. QED
    BY <1>4, <2>1, OrderKept DEF RcCloseOld
<1>5. CASE RcInstall
  <2>1. \A s \in Session : task[s] = "ended" => task'[s] = "ended"
    BY <1>5 DEF RcInstall, IInv, NewIsFresh
  <2>. QED
    BY <1>5, <2>1, OrderKept DEF RcInstall
<1>6. CASE RcRestarted
  BY <1>6, OrderQuestion DEF RcRestarted, WithReply
<1>7. CASE RcRestartFails
  BY <1>7, OrderKept DEF RcRestartFails
<1>8. ASSUME NEW s \in Session, RcConnect(s)
      PROVE  OrderInv'
  BY <1>8, OrderQuestion DEF RcConnect, WithReply
<1>9. CASE RcSignalResumed
  BY <1>9, OrderQuestion DEF RcSignalResumed, WithReply
<1>10. CASE RcResumed
  BY <1>10, OrderQuestion DEF RcResumed, WithReply
<1>11. ASSUME NEW signalError \in BOOLEAN, RcResumeFails(signalError)
       PROVE  OrderInv'
  BY <1>11, OrderKept DEF RcResumeFails
<1>. QED
  BY <1>1, <1>2, <1>3, <1>4, <1>5, <1>6, <1>7, <1>8, <1>9, <1>10, <1>11 DEF Reconnect

-----------------------------------------------------------------------------
(* The invariant, and the order of what the room is told.                   *)

(* Every step keeps the invariant.                                          *)
LEMMA EventsInductive ==
  ASSUME TypeOK, IInv, EventsInv, EngineAssumption, [Next]_engineVars
  PROVE  EventsInv'
<1>. USE DEF EventsInv
<1>1. ASSUME NEW s \in Session,
             \/ \E a \in CloseAction : Fail(s, a)
             \/ \E p \in Payload : Emit(s, p)
      PROVE  EventsInv'
  BY <1>1, InboxSession, ControlOther, OrderOther
<1>2. CASE \/ \E s \in Session : EngineTask(s)
           \/ \E c \in Caller : CallerAcquire(c) \/ CallerRelease(c)
           \/ UserClose \/ RoomTakes \/ RoomStops
           \/ UNCHANGED engineVars
  BY <1>2, InboxOther, ControlOther, OrderOther
<1>3. ASSUME NEW c \in Closer, Close(c)
      PROVE  EventsInv'
  BY <1>3, InboxOther, ControlClose, OrderClose
<1>4. CASE Reconnect
  BY <1>4, InboxOther, ControlReconnect, OrderReconnect
<1>. QED
  BY <1>1, <1>2, <1>3, <1>4 DEF Next, Engine, Environment

(* The inboxes, the tasks and the channel of events stay consistent.        *)
THEOREM EngineEventsInvariant == Spec => []EventsInv
<1>1. ASSUME Init
      PROVE  EventsInv
  <2>1. \A s \in Session : inbox[s] = <<>>
    BY <1>1 DEF Init
  <2>2. InboxInv
    <3>1. HasBody(<<>>) /\ \A idle : LeavesOnce(<<>>, idle)
      BY DEF HasBody, LeavesOnce
    <3>. QED
      BY <2>1, <3>1 DEF InboxInv, LeaveOnce, DataHasBody
  <2>3. ControlInv
    BY <1>1, EngineAssumption
       DEF Init, ControlInv, DoneIsClosed, RetryIsClosing, TakenIsClosed,
           ResumedHasTask, TakenOnce, Closer
  <2>4. OrderInv
    BY <1>1 DEF Init, OrderInv, Owed, NothingBehindRestarted, DisconnectedIsEnded,
                NoForwardBehind
  <2>. QED
    BY <2>2, <2>3, <2>4 DEF EventsInv
<1>2. TypeOK /\ IInv /\ EventsInv /\ [Next]_engineVars => EventsInv'
  BY EventsInductive, EngineAssumption
<1>. QED
  BY <1>1, <1>2, EngineInvariant, PTL DEF Spec

(* What an old session said never reaches the room late: not behind the     *)
(* SignalRestarted of its successor, and not behind its own Disconnected    *)
(* (engine_task, try_restart_connection and close).                         *)
THEOREM ForwardsStayOrdered == Spec => []ForwardsAreOrdered
<1>1. EventsInv => ForwardsAreOrdered
  BY DEF EventsInv, OrderInv, NothingBehindRestarted, NoForwardBehind,
         ForwardsAreOrdered, NoStaleForward, NoForwardAfterDisconnected
<1>. QED
  BY <1>1, EngineEventsInvariant, PTL

(* Neither the session of the handle nor the one a restart has joined is    *)
(* one that was dropped unclosed.                                           *)
CurrentIsKept ==
  /\ session[handle.session] # "orphan"
  /\ rc.new # NoSession => session[rc.new] # "orphan"

(* The engine tasks leave the owners of the sessions alone: the call that a  *)
(* Leave spawns runs for the first time.                                    *)
LEMMA LeaksEngineTask ==
  ASSUME TypeOK, IInv, EventsInv, NothingLeaks, NEW s \in Session, EngineTask(s)
  PROVE  NothingLeaks'
<1>. USE DEF Alive
<1>1. UNCHANGED <<session, handle.task, handle.session, handle.closed>>
  <2>1. handle \in EngineHandle
    BY DEF TypeOK
  <2>. QED
    BY <2>1 DEF EngineTask, EngineTaskEvent, EngineTaskExit, OnSessionEvent,
                ReconnectionNeeded, EngineHandle
<1>2. \A r \in Session : (task'[r] \in {"running", "stopping"}) => task[r] \in {"running", "stopping"}
  BY DEF EngineTask, EngineTaskEvent, EngineTaskExit, TypeOK
<1>3. rc'.new = rc.new /\ (rc.step \in {"closeOld", "awaitOld"} => rc'.step = rc.step)
  <2>1. rc \in ReconnectTask /\ (handle.reconnecting <=> rc.step # "idle")
    BY DEF TypeOK, IInv, ReconnectingIsTask
  <2>. QED
    BY <2>1 DEF EngineTask, EngineTaskEvent, EngineTaskExit, OnSessionEvent,
                ReconnectionNeeded, ReconnectTask
<1>4. \A c \in Closer : closer[c].step \in {"session", "await"} => closer'[c] = closer[c]
  <2>1. closer \in [Closer -> CloseCall] /\ s \in Closer
    BY DEF TypeOK, Closer
  <2>2. CASE EngineTaskEvent(s) /\ Head(inbox[s]).kind = "disconnect"
    <3>1. inbox[s] \in Seq(SessionEvent) /\ inbox[s] # <<>>
      BY <2>2 DEF EngineTaskEvent, TypeOK
    <3>2. 1 \in DOMAIN inbox[s] /\ Head(inbox[s]) = inbox[s][1]
      BY <3>1
    <3>3. closer[s].step = "idle"
      BY <3>2, <2>2 DEF EventsInv, InboxInv, LeaveOnce, LeavesOnce
    <3>. QED
      BY <3>3, <2>1, <2>2 DEF EngineTaskEvent, OnSessionEvent
  <2>. QED
    BY <2>1, <2>2 DEF EngineTask, EngineTaskEvent, EngineTaskExit, OnSessionEvent
<1>5. OpenIsOwned'
  BY <1>1, <1>3, <1>4 DEF NothingLeaks, OpenIsOwned
<1>6. AliveIsOwned'
  BY <1>1, <1>2, <1>3, <1>4 DEF NothingLeaks, AliveIsOwned
<1>. QED
  BY <1>5, <1>6 DEF NothingLeaks

(* A call of close() takes the session over with the task, closes it, and   *)
(* lets go of it once its task has ended.                                   *)
LEMMA LeaksClose ==
  ASSUME TypeOK, IInv, EventsInv, NothingLeaks, NEW c \in Closer, Close(c)
  PROVE  NothingLeaks'
<1>. USE DEF Alive
<1>0. /\ handle \in EngineHandle /\ closer \in [Closer -> CloseCall]
      /\ session \in [Session -> SessionState] /\ task \in [Session -> TaskState]
      /\ rc' = rc
  BY DEF TypeOK, Close, CloseTake, CloseSession, CloseAwait
<1>1. CASE CloseTake(c)
  <2>1. /\ handle'.session = handle.session /\ handle'.task = NoSession
        /\ UNCHANGED <<session, task>>
    BY <1>0, <1>1 DEF CloseTake, EngineHandle
  <2>2. \A d \in Closer : closer[d].step \in {"session", "await"} => closer'[d] = closer[d]
    BY <1>0, <1>1 DEF CloseTake
  <2>3. handle.task # NoSession =>
          closer'[c].step = "session" /\ closer'[c].target = handle.task
    BY <1>0, <1>1 DEF CloseTake, IInv, TaskIsCurrent
  <2>4. NoSession \notin Session
    BY EngineAssumption
  <2>5. OpenIsOwned'
    BY <1>0, <2>1, <2>2, <2>3, <2>4 DEF NothingLeaks, OpenIsOwned
  <2>6. AliveIsOwned'
    BY <1>0, <2>1, <2>2, <2>3, <2>4 DEF NothingLeaks, AliveIsOwned
  <2>. QED
    BY <2>5, <2>6 DEF NothingLeaks
<1>2. CASE CloseSession(c)
  <2>1. /\ handle' = handle
        /\ session'[closer[c].target] = "closed"
        /\ \A r \in Session : r # closer[c].target =>
             session'[r] = session[r] /\ task'[r] = task[r]
    BY <1>0, <1>2 DEF CloseSession, CloseCall, IInv, CloserHasTarget
  <2>2. /\ \A d \in Closer : d # c => closer'[d] = closer[d]
        /\ closer'[c].step = "await" /\ closer'[c].target = closer[c].target
    BY <1>0, <1>2 DEF CloseSession
  <2>3. OpenIsOwned'
    BY <1>0, <2>1, <2>2 DEF NothingLeaks, OpenIsOwned
  <2>4. AliveIsOwned'
    BY <1>0, <2>1, <2>2 DEF NothingLeaks, AliveIsOwned
  <2>. QED
    BY <2>3, <2>4 DEF NothingLeaks
<1>3. CASE CloseAwait(c)
  <2>1. UNCHANGED <<handle, session, task>> /\ task[closer[c].target] = "ended"
    BY <1>3 DEF CloseAwait
  <2>2. \A d \in Closer : d # c => closer'[d] = closer[d]
    BY <1>0, <1>3 DEF CloseAwait
  <2>3. closer[c].step = "await"
    BY <1>3 DEF CloseAwait
  <2>4. OpenIsOwned'
    BY <1>0, <2>1, <2>2, <2>3 DEF NothingLeaks, OpenIsOwned
  <2>5. AliveIsOwned'
    BY <1>0, <2>1, <2>2, <2>3 DEF NothingLeaks, AliveIsOwned
  <2>. QED
    BY <2>4, <2>5 DEF NothingLeaks
<1>. QED
  BY <1>1, <1>2, <1>3 DEF Close

(* The reconnect task takes the session over in the same way, and answers    *)
(* for the one it has joined until it is installed or dropped.              *)
LEMMA LeaksReconnect ==
  ASSUME TypeOK, IInv, EventsInv, CurrentIsKept, NothingLeaks, Reconnect
  PROVE  NothingLeaks'
<1>. USE DEF Alive
<1>0. /\ handle \in EngineHandle /\ closer \in [Closer -> CloseCall] /\ rc \in ReconnectTask
      /\ session \in [Session -> SessionState] /\ task \in [Session -> TaskState]
      /\ NoSession \notin Session /\ "retry" \in Closer
  BY EngineAssumption DEF TypeOK, Closer
<1>1. CASE RcGiveUp \/ RcFinish
  <2>1. /\ UNCHANGED <<session, task, handle.session, handle.task, rc.new>>
        /\ rc.step \notin {"closeOld", "awaitOld"}
    BY <1>0, <1>1 DEF RcGiveUp, RcFinish, EngineHandle, ReconnectTask
  <2>2. closer["retry"].step \notin {"session", "await"}
    BY <1>1 DEF RcGiveUp, RcFinish, EventsInv, ControlInv, RetryIsClosing
  <2>3. \A c \in Closer : c # "retry" => closer'[c] = closer[c]
    BY <1>0, <1>1 DEF RcGiveUp, RcFinish
  <2>4. OpenIsOwned'
    BY <2>1, <2>2, <2>3 DEF NothingLeaks, OpenIsOwned
  <2>5. AliveIsOwned'
    BY <2>1, <2>2, <2>3 DEF NothingLeaks, AliveIsOwned
  <2>. QED
    BY <2>4, <2>5 DEF NothingLeaks
<1>2. CASE RcQueue \/ RcLock \/ RcAttempt \/ RcAcked \/ RcTick \/ RcRestarted \/ RcResumePc
           \/ RcResumed \/ \E signalError \in BOOLEAN : RcResumeFails(signalError)
  <2>1. /\ UNCHANGED <<session, task, handle.session, handle.task, rc.new, closer>>
        /\ rc.step \notin {"closeOld", "awaitOld"}
    BY <1>0, <1>2 DEF RcQueue, RcLock, RcAttempt, RcAcked, RcTick, RcRestarted, RcResumePc,
         RcResumed, RcResumeFails, RcUnchanged, EngineHandle, ReconnectTask, AckStep
  <2>2. OpenIsOwned'
    BY <2>1 DEF NothingLeaks, OpenIsOwned
  <2>3. AliveIsOwned'
    BY <2>1 DEF NothingLeaks, AliveIsOwned
  <2>. QED
    BY <2>2, <2>3 DEF NothingLeaks
<1>3. CASE RcTake
  <2>1. /\ UNCHANGED <<session, task, handle.session, rc.new, closer>>
        /\ rc.step \notin {"closeOld", "awaitOld"} /\ handle'.task = NoSession
        /\ handle.task # NoSession => rc'.step = "closeOld" /\ handle.task = handle.session
    BY <1>0, <1>3 DEF RcTake, RcUnchanged, EngineHandle, ReconnectTask, IInv, TaskIsCurrent
  <2>2. OpenIsOwned'
    BY <1>0, <2>1 DEF NothingLeaks, OpenIsOwned
  <2>3. AliveIsOwned'
    BY <1>0, <2>1 DEF NothingLeaks, AliveIsOwned
  <2>. QED
    BY <2>2, <2>3 DEF NothingLeaks
<1>4. CASE RcCloseOld
  <2>1. /\ UNCHANGED <<handle, rc.new, closer>> /\ rc'.step = "awaitOld"
        /\ session'[handle.session] = "closed"
        /\ \A r \in Session : r # handle.session =>
             session'[r] = session[r] /\ task'[r] = task[r]
    BY <1>0, <1>4 DEF RcCloseOld, RcUnchanged, EngineHandle, ReconnectTask
  <2>2. OpenIsOwned'
    BY <2>1 DEF NothingLeaks, OpenIsOwned
  <2>3. AliveIsOwned'
    BY <2>1 DEF NothingLeaks, AliveIsOwned
  <2>. QED
    BY <2>2, <2>3 DEF NothingLeaks
<1>5. CASE RcAwaitOld
  <2>1. /\ UNCHANGED <<handle, session, task, rc.new, closer>>
        /\ rc.step = "awaitOld" /\ task[handle.session] = "ended"
    BY <1>0, <1>5 DEF RcAwaitOld, RcUnchanged, ReconnectTask
  <2>2. OpenIsOwned'
    BY <2>1 DEF NothingLeaks, OpenIsOwned
  <2>3. AliveIsOwned'
    BY <2>1 DEF NothingLeaks, AliveIsOwned
  <2>. QED
    BY <2>2, <2>3 DEF NothingLeaks
<1>6. ASSUME NEW s \in Session, RcConnect(s)
      PROVE  NothingLeaks'
  <2>1. /\ UNCHANGED <<handle, task, closer>> /\ rc'.new = s /\ rc.new = NoSession
        /\ rc.step \notin {"closeOld", "awaitOld"}
        /\ \A r \in Session : r # s => session'[r] = session[r]
    BY <1>0, <1>6 DEF RcConnect, RcUnchanged, ReconnectTask, IInv, NewIsFresh
  <2>2. OpenIsOwned'
    BY <1>0, <2>1 DEF NothingLeaks, OpenIsOwned
  <2>3. AliveIsOwned'
    BY <2>1 DEF NothingLeaks, AliveIsOwned
  <2>. QED
    BY <2>2, <2>3 DEF NothingLeaks
<1>7. CASE RcInstall
  <2>1. /\ UNCHANGED <<session, closer>> /\ rc.step \notin {"closeOld", "awaitOld"}
        /\ handle.task = NoSession /\ handle'.task = rc.new
        /\ \A r \in Session : r # rc.new => task'[r] = task[r]
    BY <1>0, <1>7 DEF RcInstall, RcUnchanged, EngineHandle, ReconnectTask, IInv, TaskTaken
  <2>2. OpenIsOwned'
    BY <1>0, <2>1 DEF NothingLeaks, OpenIsOwned
  <2>3. AliveIsOwned'
    BY <1>0, <2>1 DEF NothingLeaks, AliveIsOwned
  <2>. QED
    BY <2>2, <2>3 DEF NothingLeaks
<1>8. CASE RcRestartFails
  <2>1. /\ UNCHANGED <<handle, task, closer>> /\ rc.step \notin {"closeOld", "awaitOld"}
        /\ session' = [s \in Session |-> IF s = rc.new THEN "orphan" ELSE session[s]]
    BY <1>0, <1>8 DEF RcRestartFails, RcUnchanged
  <2>2. OpenIsOwned'
    BY <2>1 DEF NothingLeaks, OpenIsOwned
  <2>3. AliveIsOwned'
    BY <2>1 DEF NothingLeaks, AliveIsOwned
  <2>. QED
    BY <2>2, <2>3 DEF NothingLeaks
<1>9. CASE RcSignalResumed
  <2>1. /\ UNCHANGED <<handle, task, closer, rc.new>> /\ rc.step \notin {"closeOld", "awaitOld"}
        /\ \A r \in Session : session'[r] \in {"up", "down"} => session[r] \in {"up", "down"}
    BY <1>0, <1>9 DEF RcSignalResumed, RcUnchanged, ReconnectTask, EngineHandle, SessionState,
                      CurrentIsKept, IInv, UnbornIsIdle
  <2>2. OpenIsOwned'
    BY <2>1 DEF NothingLeaks, OpenIsOwned
  <2>3. AliveIsOwned'
    BY <2>1 DEF NothingLeaks, AliveIsOwned
  <2>. QED
    BY <2>2, <2>3 DEF NothingLeaks
<1>. QED
  BY <1>1, <1>2, <1>3, <1>4, <1>5, <1>6, <1>7, <1>8, <1>9 DEF Reconnect

(* A failed restart drops the session it joined, which the handle never had. *)
LEMMA CurrentStaysKept ==
  ASSUME TypeOK, IInv, CurrentIsKept, [Next]_engineVars
  PROVE  CurrentIsKept'
<1>. DEFINE Kept == /\ UNCHANGED <<handle.session, rc.new>>
                    /\ \A s \in Session : session'[s] = "orphan" => session[s] = "orphan"
<1>0. /\ handle \in EngineHandle /\ rc \in ReconnectTask
      /\ session \in [Session -> SessionState] /\ closer \in [Closer -> CloseCall]
      /\ NoSession \notin Session
  BY EngineAssumption DEF TypeOK
<1>1. CASE RcRestartFails
  <2>1. handle.session # rc.new
    BY <1>0, <1>1 DEF EngineHandle, IInv, NewIsFresh, UnbornIsIdle, ReconnectTask
  <2>2. handle' = handle /\ rc'.new = NoSession
        /\ session' = [s \in Session |-> IF s = rc.new THEN "orphan" ELSE session[s]]
    BY <1>0, <1>1 DEF RcRestartFails, RcUnchanged, ReconnectTask
  <2>. QED
    BY <1>0, <2>1, <2>2 DEF CurrentIsKept, EngineHandle
<1>2. CASE RcInstall
  <2>1. rc.new # NoSession
    BY <1>2 DEF RcInstall, IInv, NewIsFresh
  <2>2. handle'.session = rc.new /\ session' = session /\ rc'.new = NoSession
    BY <1>0, <1>2 DEF RcInstall, RcUnchanged, EngineHandle, ReconnectTask
  <2>. QED
    BY <2>1, <2>2 DEF CurrentIsKept
<1>3. ASSUME NEW s \in Session, RcConnect(s)
      PROVE  CurrentIsKept'
  <2>1. handle' = handle /\ rc'.new = s /\ session'[s] = "up"
        /\ \A r \in Session : r # s => session'[r] = session[r]
    BY <1>0, <1>3 DEF RcConnect, RcUnchanged, ReconnectTask
  <2>. QED
    BY <1>0, <2>1 DEF CurrentIsKept, EngineHandle
<1>4. CASE Reconnect /\ ~RcRestartFails /\ ~RcInstall /\ ~\E s \in Session : RcConnect(s)
  <2>1. Kept
    BY <1>0, <1>4 DEF Reconnect, RcQueue, RcLock, RcGiveUp, RcAttempt, RcAcked, RcTick,
         RcFinish, RcTake, RcCloseOld, RcAwaitOld, RcRestarted, RcUnchanged, RcSignalResumed,
         RcResumePc, RcResumed, RcResumeFails, EngineHandle, ReconnectTask
  <2>. QED
    BY <1>0, <2>1 DEF CurrentIsKept, EngineHandle, ReconnectTask
<1>5. ASSUME NEW c \in Closer, Close(c)
      PROVE  CurrentIsKept'
  <2>1. Kept
    BY <1>0, <1>5 DEF Close, CloseTake, CloseSession, CloseAwait, EngineHandle
  <2>. QED
    BY <1>0, <2>1 DEF CurrentIsKept, EngineHandle, ReconnectTask
<1>6. ASSUME NEW s \in Session, EngineTask(s)
      PROVE  CurrentIsKept'
  <2>1. Kept
    BY <1>0, <1>6 DEF EngineTask, EngineTaskEvent, EngineTaskExit, OnSessionEvent,
         ReconnectionNeeded, EngineHandle, ReconnectTask
  <2>. QED
    BY <1>0, <2>1 DEF CurrentIsKept, EngineHandle, ReconnectTask
<1>7. CASE Environment \/ UserClose \/ RoomTakes \/ RoomStops \/ UNCHANGED engineVars
  <2>1. Kept
    BY <1>0, <1>7 DEF Environment, Fail, Emit, CallerAcquire, CallerRelease, UserClose,
         RoomTakes, RoomStops, engineVars
  <2>. QED
    BY <1>0, <2>1 DEF CurrentIsKept, EngineHandle, ReconnectTask
<1>. QED
  BY <1>1, <1>2, <1>3, <1>4, <1>5, <1>6, <1>7 DEF Next, Engine

(* However close(), a Leave and a restart overlap, no open session and no   *)
(* engine task is left without the call that will close or await it         *)
(* (close, try_restart_connection: both take the task out of the handle).   *)
THEOREM NothingEverLeaks == Spec => []NothingLeaks
<1>1. ASSUME Init
      PROVE  CurrentIsKept /\ NothingLeaks
  BY <1>1, EngineAssumption DEF Init, CurrentIsKept, NothingLeaks, OpenIsOwned, AliveIsOwned,
                                Alive
<1>2. ASSUME TypeOK, IInv, EventsInv, CurrentIsKept, NothingLeaks, [Next]_engineVars
      PROVE  NothingLeaks'
  <2>. USE <1>2
  <2>1. CASE Environment
    <3>1. /\ UNCHANGED <<handle, task, rc, closer>>
          /\ \A r \in Session : session'[r] \in {"up", "down"} => session[r] \in {"up", "down"}
      BY <2>1 DEF Environment, Fail, Emit, CallerAcquire, CallerRelease, TypeOK
    <3>2. OpenIsOwned'
      BY <3>1 DEF NothingLeaks, OpenIsOwned
    <3>3. AliveIsOwned'
      BY <3>1 DEF NothingLeaks, AliveIsOwned, Alive
    <3>. QED
      BY <3>2, <3>3 DEF NothingLeaks
  <2>2. CASE UserClose \/ RoomTakes \/ RoomStops \/ UNCHANGED engineVars
    <3>1. /\ UNCHANGED <<handle, task, rc, session>>
          /\ \A c \in Closer : closer[c].step \in {"session", "await"} => closer'[c] = closer[c]
      BY <2>2 DEF UserClose, RoomTakes, RoomStops, engineVars, TypeOK
    <3>2. OpenIsOwned'
      BY <3>1 DEF NothingLeaks, OpenIsOwned
    <3>3. AliveIsOwned'
      BY <3>1 DEF NothingLeaks, AliveIsOwned, Alive
    <3>. QED
      BY <3>2, <3>3 DEF NothingLeaks
  <2>. QED
    BY <2>1, <2>2, LeaksEngineTask, LeaksClose, LeaksReconnect DEF Next, Engine
<1>3. TypeOK /\ IInv /\ EventsInv /\ CurrentIsKept /\ NothingLeaks /\ [Next]_engineVars
        => CurrentIsKept' /\ NothingLeaks'
  BY <1>2, CurrentStaysKept
<1>. QED
  BY <1>1, <1>3, EngineInvariant, EngineEventsInvariant, PTL DEF Spec

-----------------------------------------------------------------------------
(* Refinement.                                                              *)

Shutting == {c \in Closer : closer[c].step \in {"session", "await"}}
EventsSame == UNCHANGED <<Rec, handle.session, Fresh, caller, handle.task # NoSession,
                          handle.closed, Shutting, events, reply, listening>>

(* A step that changes nothing of EngineEvents is a stutter.                *)
LEMMA EventsStutter ==
  ASSUME EventsSame
  PROVE  UNCHANGED Events!eventsVars
BY DEF EventsSame, Events!eventsVars, Fresh, Shutting

(* Steps of the sessions, their engine tasks, the API calls and the room.   *)
LEMMA EventsOther ==
  ASSUME TypeOK, IInv, EventsInv, EngineAssumption,
         \/ \E s \in Session : \/ EngineTask(s)
                               \/ \E a \in CloseAction : Fail(s, a)
                               \/ \E p \in Payload : Emit(s, p)
         \/ \E c \in Caller : CallerAcquire(c) \/ CallerRelease(c)
         \/ UserClose \/ RoomTakes \/ RoomStops
         \/ UNCHANGED engineVars
  PROVE  [Events!EventsNext]_(Events!eventsVars)
<1>. USE DEF TypeOK, EngineHandle, ReconnectTask
<1>1. ASSUME NEW s \in Session, EngineTaskEvent(s)
      PROVE  [Events!EventsNext]_(Events!eventsVars)
  <2>. DEFINE h == Head(inbox[s])
  <2>1. /\ OnSessionEvent(s, h) /\ inbox[s] # <<>>
        /\ UNCHANGED <<session, reply, listening, caller>>
    BY <1>1 DEF EngineTaskEvent
  <2>2. /\ h \in SessionEvent
        /\ 1 \in DOMAIN inbox[s] /\ inbox[s][1] = h
    <3>1. inbox[s] \in Seq(SessionEvent)
      OBVIOUS
    <3>. QED
      BY <2>1, <3>1, HeadTailProperties, TailAt
  <2>3. CASE ReconnectionNeeded(h.kind = "reconnect") /\ UNCHANGED <<closer, events>>
    <3>. DEFINE full == h.kind = "reconnect"
    <3>1. ReconnectionNeeded(full)
      BY <2>3
    <3>. HIDE DEF full
    <3>2. UNCHANGED <<handle.session, handle.task, handle.closed>>
      BY <3>1 DEF ReconnectionNeeded
    <3>3. /\ rc'.new = rc.new
          /\ rc' = rc \/ (rc.step = "idle" /\ rc'.step = "spawned")
      BY <3>1 DEF ReconnectionNeeded, IInv, ReconnectingIsTask
    <3>4. Rec' = Rec
      BY <3>3 DEF Rec
    <3>5. EventsSame
      BY <2>1, <2>3, <3>2, <3>3, <3>4 DEF EventsSame, Fresh, Shutting
    <3>. QED
      BY <3>5, EventsStutter
  <2>4. CASE /\ h.kind = "disconnect"
             /\ handle' = [handle EXCEPT !.can_reconnect = FALSE]
             /\ closer' = [closer EXCEPT ![s].step = "start"]
             /\ UNCHANGED <<rc, events>>
    <3>1. closer[s].step = "idle"
      BY <2>2, <2>4 DEF EventsInv, InboxInv, LeaveOnce, LeavesOnce
    <3>2. Shutting' = Shutting
      BY <2>4, <3>1 DEF Shutting, CloseCall
    <3>3. EventsSame
      BY <2>1, <2>4, <3>2 DEF EventsSame, Fresh, Rec
    <3>. QED
      BY <3>3, EventsStutter
  <2>5. CASE h.kind = "data" /\ Send("Forward", s, h.body) /\ UNCHANGED <<handle, rc, closer>>
    <3>1. h.body \in Payload
      BY <2>2, <2>5 DEF EventsInv, InboxInv, DataHasBody, HasBody
    <3>2. Events!Forward(s, h.body)
      BY <2>1, <2>5 DEF Events!Forward, Events!Post, Send, Rec
    <3>. QED
      BY <3>1, <3>2 DEF Events!EventsNext
  <2>. QED
    BY <2>1, <2>3, <2>4, <2>5 DEF OnSessionEvent
<1>2. ASSUME NEW s \in Session, EngineTaskExit(s)
      PROVE  EventsSame
  BY <1>2 DEF EngineTaskExit, EventsSame, Fresh, Shutting, Rec
<1>3. ASSUME NEW s \in Session,
             \/ \E a \in CloseAction : Fail(s, a)
             \/ \E p \in Payload : Emit(s, p)
      PROVE  EventsSame
  <2>1. /\ UNCHANGED <<handle, rc, reply, closer, events, listening, caller>>
        /\ session' = session \/ (/\ session[s] \in {"up", "down"}
                                  /\ session' = [session EXCEPT ![s] = "down"])
    BY <1>3 DEF Fail, Emit
  <2>2. Fresh' = Fresh
    BY <2>1 DEF Fresh
  <2>. QED
    BY <2>1, <2>2 DEF EventsSame, Shutting, Rec
<1>4. ASSUME NEW c \in Caller, CallerAcquire(c)
      PROVE  Events!Acquire(c)
  BY <1>4 DEF CallerAcquire, Events!Acquire, Rec
<1>5. ASSUME NEW c \in Caller, CallerRelease(c)
      PROVE  Events!Release(c)
  BY <1>5 DEF CallerRelease, Events!Release, Rec
<1>6. CASE UserClose
  <2>1. Shutting' = Shutting
    BY <1>6 DEF UserClose, Shutting, CloseCall, Closer
  <2>. QED
    BY <1>6, <2>1, EventsStutter DEF UserClose, EventsSame, Fresh, Rec
<1>7. CASE RoomTakes
  <2>1. Events!Take
    BY <1>7 DEF RoomTakes, Events!Take, Rec, WithReply, Events!Question, Events!FirstQuestion
  <2>. QED
    BY <2>1 DEF Events!EventsNext
<1>8. CASE RoomStops
  <2>1. handle.closed
    BY <1>8 DEF RoomStops, EventsInv, ControlInv, DoneIsClosed, Closer
  <2>2. Events!Stop
    BY <1>8, <2>1 DEF RoomStops, Events!Stop, Rec
  <2>. QED
    BY <2>2 DEF Events!EventsNext
<1>9. CASE UNCHANGED engineVars
  BY <1>9, EventsStutter DEF engineVars, EventsSame, Fresh, Shutting, Rec
<1>. QED
  BY <1>1, <1>2, <1>3, <1>4, <1>5, <1>6, <1>7, <1>8, <1>9, EventsStutter
     DEF EngineTask, Events!EventsNext

(* Steps of close().                                                        *)
LEMMA EventsClose ==
  ASSUME TypeOK, IInv, EventsInv, EngineAssumption, NEW c \in Closer, Close(c)
  PROVE  [Events!EventsNext]_(Events!eventsVars)
<1>. USE DEF TypeOK, EngineHandle, CloseCall
<1>1. CASE CloseTake(c)
  <2>1. Shutting' = IF handle.task # NoSession THEN Shutting \cup {c} ELSE Shutting
    BY <1>1 DEF CloseTake, Shutting
  <2>2. c \notin Shutting
    BY <1>1 DEF CloseTake, Shutting
  <2>3. Events!Shut(c)
    BY <1>1, <2>1, <2>2 DEF CloseTake, Events!Shut, Rec, Shutting
  <2>. QED
    BY <2>3 DEF Events!EventsNext
<1>2. CASE CloseSession(c)
  <2>1. Shutting' = Shutting
    BY <1>2 DEF CloseSession, Shutting
  <2>2. Fresh' = Fresh
    BY <1>2 DEF CloseSession, IInv, CloserHasTarget, Fresh
  <2>. QED
    BY <1>2, <2>1, <2>2, EventsStutter DEF CloseSession, EventsSame, Rec
<1>3. CASE CloseAwait(c)
  <2>1. closer[c].target \in Session /\ ReasonOf(c) \in Reason
    BY <1>3 DEF CloseAwait, IInv, CloserHasTarget, ReasonOf, Reason
  <2>2. Shutting' = Shutting \ {c}
    BY <1>3 DEF CloseAwait, Shutting
  <2>3. c \in Shutting
    BY <1>3 DEF CloseAwait, Shutting
  <2>4. Events!Disconnect(c, closer[c].target, ReasonOf(c))
    BY <1>3, <2>2, <2>3 DEF CloseAwait, Events!Disconnect, Events!Post, Send, Rec, Shutting
  <2>. QED
    BY <2>1, <2>4 DEF Events!EventsNext, Events!Reason, Reason
<1>. QED
  BY <1>1, <1>2, <1>3 DEF Close

(* Steps of the reconnect task.                                             *)
LEMMA EventsReconnect ==
  ASSUME TypeOK, IInv, EventsInv, EngineAssumption, Reconnect
  PROVE  [Events!EventsNext]_(Events!eventsVars)
<1>. USE DEF TypeOK, EngineHandle, ReconnectTask, RcUnchanged
<1>1. CASE RcQueue \/ RcLock \/ RcTick \/ RcAwaitOld \/ RcResumePc
  <2>1. UNCHANGED <<handle, session, closer, reply, events, listening, caller, rc.new>>
    BY <1>1 DEF RcQueue, RcLock, RcTick, RcAwaitOld, RcResumePc
  <2>2. Rec' = Rec
    <3>1. CASE RcTick
      BY <3>1 DEF RcTick, Rec
    <3>2. CASE RcQueue
      BY <3>2 DEF RcQueue, Rec
    <3>3. CASE RcLock
      BY <3>3 DEF RcLock, Rec
    <3>4. CASE RcAwaitOld
      BY <3>4 DEF RcAwaitOld, Rec
    <3>5. CASE RcResumePc
      BY <3>5 DEF RcResumePc, Rec
    <3>. QED
      BY <1>1, <3>1, <3>2, <3>3, <3>4, <3>5
  <2>. QED
    BY <2>1, <2>2, EventsStutter DEF EventsSame, Fresh, Shutting
<1>2. CASE RcGiveUp
  <2>1. Rec = "trying" \/ (Rec = "none" /\ handle.closed)
    BY <1>2, EngineAssumption DEF RcGiveUp, Rec
  <2>2. Shutting' = Shutting
    BY <1>2 DEF RcGiveUp, Shutting, CloseCall, Closer, EventsInv, ControlInv, RetryIsClosing
  <2>3. Events!GiveUp
    BY <1>2, <2>1, <2>2 DEF RcGiveUp, Events!GiveUp, Events!RecOnly, Rec, Shutting
  <2>. QED
    BY <2>3 DEF Events!EventsNext, Events!Reconnecting
<1>3. CASE RcAttempt
  <2>1. CASE rc.attempt = 0
    <3>. DEFINE q == IF handle.full_reconnect THEN "Restarting" ELSE "Resuming"
    <3>1. /\ rc.step = "attempt" /\ Rec = "none" /\ Rec' = q
          /\ q \in {"Resuming", "Restarting"}
      BY <1>3, <2>1 DEF RcAttempt, Rec
    <3>2. \A c \in Caller : caller[c] = NoSession
      BY <3>1 DEF IInv, WriteGuardExcludes
    <3>3. /\ SendAndWait(q, handle.session)
          /\ UNCHANGED <<handle, session, closer, listening, caller, rc.new>>
      BY <1>3, <2>1 DEF RcAttempt
    <3>. HIDE DEF q
    <3>4. Events!AskRoom(q, handle.session)
      BY <3>1, <3>2, <3>3 DEF Events!AskRoom, Events!FirstQuestion, Events!Post,
                              SendAndWait, Send
    <3>. QED
      BY <3>1, <3>4 DEF Events!EventsNext, Events!Reconnecting, Events!Question,
                        Events!FirstQuestion
  <2>2. CASE rc.attempt # 0
    <3>1. /\ Rec' = Rec
          /\ UNCHANGED <<handle, session, closer, reply, events, listening, caller, rc.new>>
      BY <1>3, <2>2 DEF RcAttempt, Rec
    <3>. QED
      BY <3>1, EventsStutter DEF EventsSame, Fresh, Shutting
  <2>. QED
    BY <2>1, <2>2
<1>4. CASE RcAcked
  <2>1. /\ reply
        /\ UNCHANGED <<handle, session, closer, reply, events, listening, caller, rc.new>>
    BY <1>4 DEF RcAcked
  <2>2. /\ Rec \in Events!Question
        /\ Rec' = CASE Rec \in Events!FirstQuestion -> "trying"
                     [] Rec = "SignalRestarted"     -> "joined"
                     [] Rec = "SignalResumed"       -> "rejoined"
                     [] OTHER                       -> "ending"
    BY <1>4 DEF RcAcked, AckStep, Rec, Events!Question, Events!FirstQuestion
  <2>3. Events!Proceed
    BY <2>1, <2>2 DEF Events!Proceed, Events!RecOnly
  <2>. QED
    BY <2>3 DEF Events!EventsNext, Events!Reconnecting
<1>5. CASE RcFinish
  <2>1. \/ Rec = "ending" /\ closer["retry"].step = "idle"
        \/ Rec = "givingUp" /\ closer["retry"].step = "done" /\ handle.closed
    BY <1>5 DEF RcFinish, Rec, EventsInv, ControlInv, RetryIsClosing, DoneIsClosed, Closer
  <2>2. Shutting' = Shutting /\ "retry" \notin Shutting
    BY <1>5, <2>1 DEF RcFinish, Shutting, CloseCall, Closer
  <2>3. Rec' = "none"
    BY <1>5 DEF RcFinish, Rec
  <2>4. Events!End
    BY <1>5, <2>1, <2>2, <2>3 DEF RcFinish, Events!End, Events!RecOnly, Shutting
  <2>. QED
    BY <2>4 DEF Events!EventsNext, Events!Reconnecting
<1>6. CASE RcTake
  <2>1. Rec = "trying" /\ Rec' = "trying"
    BY <1>6 DEF RcTake, Rec
  <2>2. Events!TakeTask
    BY <1>6, <2>1 DEF RcTake, Events!TakeTask
  <2>. QED
    BY <2>2 DEF Events!EventsNext, Events!Reconnecting
<1>7. CASE RcCloseOld
  <2>1. Rec' = Rec /\ Fresh' = Fresh
    BY <1>7 DEF RcCloseOld, Rec, IInv, UnbornIsIdle, Fresh
  <2>. QED
    BY <1>7, <2>1, EventsStutter DEF RcCloseOld, EventsSame, Shutting
<1>8. CASE RcInstall
  <2>1. PICK s \in Session : s = rc.new /\ session[s] # "unborn"
    BY <1>8 DEF RcInstall, IInv, NewIsFresh
  <2>2. Rec = "joined" /\ Rec' = "installed"
    BY <1>8 DEF RcInstall, Rec
  <2>3. Events!Install(s)
    BY <1>8, <2>1, <2>2, EngineAssumption DEF RcInstall, Events!Install
  <2>. QED
    BY <2>3 DEF Events!EventsNext, Events!Reconnecting
<1>9. CASE RcRestarted
  <2>1. Rec = "installed" /\ Rec' = "Restarted"
    BY <1>9 DEF RcRestarted, Rec
  <2>2. Events!AskRoom("Restarted", handle.session)
    BY <1>9, <2>1 DEF RcRestarted, Events!AskRoom, Events!FirstQuestion, Events!Post,
                      SendAndWait, Send
  <2>. QED
    BY <2>2 DEF Events!EventsNext, Events!Reconnecting, Events!Question
<1>10. CASE RcRestartFails
  <2>1. CASE rc.step = "connect"
    <3>1. rc.new = NoSession
      BY <2>1 DEF IInv, NewIsFresh
    <3>2. Rec' = Rec /\ Fresh' = Fresh
      BY <1>10, <2>1, <3>1, EngineAssumption DEF RcRestartFails, Rec, Fresh
    <3>. QED
      BY <1>10, <3>2, EventsStutter DEF RcRestartFails, EventsSame, Shutting
  <2>2. CASE rc.step = "waitPc"
    <3>1. PICK s \in Session : s = rc.new /\ session[s] # "unborn"
      BY <2>2 DEF IInv, NewIsFresh
    <3>2. Rec = "joined" /\ Rec' = "trying"
      BY <1>10, <2>2 DEF RcRestartFails, Rec
    <3>3. Events!Retry(s)
      BY <1>10, <3>1, <3>2, EngineAssumption DEF RcRestartFails, Events!Retry
    <3>. QED
      BY <3>3 DEF Events!EventsNext, Events!Reconnecting
  <2>. QED
    BY <1>10, <2>1, <2>2 DEF RcRestartFails
<1>11. ASSUME NEW s \in Session, RcConnect(s)
       PROVE  [Events!EventsNext]_(Events!eventsVars)
  <2>1. rc.new = NoSession /\ handle.task = NoSession
    BY <1>11 DEF RcConnect, IInv, NewIsFresh, TaskTaken
  <2>2. Rec = "trying" /\ Rec' = "SignalRestarted"
    BY <1>11 DEF RcConnect, Rec
  <2>3. Fresh' = Fresh /\ s \in Fresh
    BY <1>11, <2>1, EngineAssumption DEF RcConnect, Fresh
  <2>4. Events!AskRoom("SignalRestarted", s)
    BY <1>11, <2>1, <2>2, <2>3 DEF RcConnect, Events!AskRoom, Events!FirstQuestion,
                                   Events!Post, SendAndWait, Send, Fresh
  <2>. QED
    BY <2>4 DEF Events!EventsNext, Events!Reconnecting, Events!Question
<1>12. CASE RcSignalResumed
  <2>1. Rec = "trying" /\ Rec' = "SignalResumed"
    BY <1>12 DEF RcSignalResumed, Rec
  <2>2. Fresh' = Fresh
    BY <1>12 DEF RcSignalResumed, IInv, UnbornIsIdle, Fresh
  <2>3. Events!AskRoom("SignalResumed", handle.session)
    BY <1>12, <2>1, <2>2 DEF RcSignalResumed, Events!AskRoom, Events!FirstQuestion,
                             Events!Post, SendAndWait, Send, Fresh
  <2>. QED
    BY <2>3 DEF Events!EventsNext, Events!Reconnecting, Events!Question
<1>13. CASE RcResumed
  <2>1. /\ Rec = "rejoined" /\ Rec' = "Resumed"
        /\ handle.task # NoSession \/ handle.closed
    BY <1>13 DEF RcResumed, Rec, EventsInv, ControlInv, ResumedHasTask
  <2>2. Events!AskRoom("Resumed", handle.session)
    BY <1>13, <2>1 DEF RcResumed, Events!AskRoom, Events!FirstQuestion, Events!Post,
                       SendAndWait, Send
  <2>. QED
    BY <2>2 DEF Events!EventsNext, Events!Reconnecting, Events!Question
<1>14. ASSUME NEW signalError \in BOOLEAN, RcResumeFails(signalError)
       PROVE  [Events!EventsNext]_(Events!eventsVars)
  <2>1. UNCHANGED <<handle.session, handle.task, handle.closed, session, closer, reply,
                    events, listening, caller, rc.new>>
    BY <1>14 DEF RcResumeFails
  <2>2. CASE rc.step = "resume"
    <3>1. Rec' = Rec
      BY <1>14, <2>2 DEF RcResumeFails, Rec
    <3>. QED
      BY <2>1, <3>1, EventsStutter DEF EventsSame, Fresh, Shutting
  <2>3. CASE rc.step = "resumePc"
    <3>1. Rec = "rejoined" /\ Rec' = "trying"
      BY <1>14, <2>3 DEF RcResumeFails, Rec
    <3>2. Events!Retry(First)
      BY <2>1, <3>1 DEF Events!Retry
    <3>. QED
      BY <3>2, EngineAssumption DEF Events!EventsNext, Events!Reconnecting
  <2>. QED
    BY <1>14, <2>2, <2>3 DEF RcResumeFails
<1>. QED
  BY <1>1, <1>2, <1>3, <1>4, <1>5, <1>6, <1>7, <1>8, <1>9, <1>10, <1>11, <1>12,
     <1>13, <1>14 DEF Reconnect

(* The engine implements what a room is built on: each of its steps is a    *)
(* step of EngineEvents, or none.                                           *)
THEOREM EngineImplementsEvents == Spec => EventsSpec
<1>1. ASSUME Init
      PROVE  Events!EventsInit
  <2>1. {s \in Session : session[s] = "unborn" \/ rc.new = s} = Session \ {First}
    BY <1>1, EngineAssumption DEF Init
  <2>2. {c \in Closer : closer[c].step \in {"session", "await"}} = {}
    BY <1>1 DEF Init
  <2>3. Rec = "none"
    BY <1>1 DEF Init, Rec
  <2>4. (handle.task # NoSession) = TRUE
    BY <1>1, EngineAssumption DEF Init
  <2>. QED
    BY <1>1, <2>1, <2>2, <2>3, <2>4 DEF Init, Events!EventsInit
<1>2. TypeOK /\ IInv /\ EventsInv /\ [Next]_engineVars
        => [Events!EventsNext]_(Events!eventsVars)
  BY EventsOther, EventsClose, EventsReconnect, EngineAssumption
     DEF Next, Engine, Environment
<1>. QED
  BY <1>1, <1>2, EngineInvariant, EngineEventsInvariant, PTL
     DEF Spec, EventsSpec, Events!EventsSpec
=============================================================================
