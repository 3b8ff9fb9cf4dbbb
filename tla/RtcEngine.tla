------------------------------ MODULE RtcEngine ------------------------------
(***************************************************************************)
(* The engine of one room connection: livekit/src/rtc_engine/mod.rs.       *)
(*                                                                         *)
(* An engine owns the current RtcSession, an engine task that turns the    *)
(* events of that session into engine events, at most one reconnect task,  *)
(* and any number of running calls of close().  All of them are tokio      *)
(* tasks: an action below is what one task does between two points where   *)
(* another task can run (an await, or the release of running_handle).      *)
(*                                                                         *)
(* The room task that consumes the engine events is reduced to what the    *)
(* engine can see of it: it takes events in order, and answers the oneshot *)
(* that a reconnection event carries.                                      *)
(***************************************************************************)
EXTENDS Naturals, Sequences

CONSTANTS
  Session,      \* every RtcSession the engine may create
  First,        \* the session of EngineInner::connect
  NoSession,    \* the absence of a session (Option::None)
  Payload,      \* what a session event that is only forwarded carries
  Caller,       \* tasks calling an API that goes through wait_reconnection
  Attempts,     \* RECONNECT_ATTEMPTS
  MaxEmitted    \* bound: events all the sessions emit in a behaviour

ASSUME EngineAssumption ==
  /\ First \in Session
  /\ NoSession \notin Session
  /\ {"user", "retry"} \cap Session = {}
  /\ Attempts \in Nat \ {0}
  /\ MaxEmitted \in Nat

(* SessionEvent::Close by its action; every other variant is a "data".     *)
CloseAction == {"resume", "reconnect", "disconnect"}
SessionEvent == [kind : CloseAction \cup {"data"}, body : Payload \cup {"none"}]

Reason == {"client", "server", "unknown"}
EngineEvent ==
  [type : {"Resuming", "Resumed", "SignalResumed", "Restarting", "Restarted",
           "SignalRestarted", "Disconnected", "Forward"},
   session : Session,
   body : Payload \cup Reason \cup {"none"}]

(* A call of EngineInner::close: from RtcEngine::close ("user"), from the   *)
(* end of a failed reconnection ("retry"), or spawned by the Leave of a     *)
(* session.                                                                *)
Closer == {"user", "retry"} \cup Session

VARIABLES
  handle,     \* running_handle: EngineHandle
  session,    \* what each RtcSession is: see SessionState
  inbox,      \* the channel of session events of each session
  task,       \* the engine task of each session
  rc,         \* the reconnect task: its next step, attempt, new session
  reply,      \* the oneshot of the last reconnection event was answered
  closer,     \* the calls of close(): next step and session to close
  events,     \* the channel of engine events
  listening,  \* the room task still holds the receiver of that channel
  caller,     \* the session an API call uses while it holds a read guard
  emitted     \* how many events the sessions emitted (bound only)

engineVars == <<handle, session, inbox, task, rc, reply, closer, events,
                listening, caller, emitted>>

(* "orphan" is a session that was dropped without being closed.             *)
SessionState == {"unborn", "up", "down", "closed", "orphan"}
TaskState == {"none", "running", "stopping", "ended"}
AckStep == {"ackRestarting", "ackSignalRestarted", "ackRestarted",
            "ackResuming", "ackSignalResumed", "ackResumed"}
RcStep == AckStep \cup
          {"idle", "spawned", "lock", "attempt", "take", "closeOld", "awaitOld", "connect",
           "waitPc", "restarted", "resume", "resumePc", "resumed", "tick",
           "closing", "finish"}

EngineHandle ==
  [session : Session, task : Session \cup {NoSession}, closed : BOOLEAN,
   reconnecting : BOOLEAN, can_reconnect : BOOLEAN, full_reconnect : BOOLEAN]
ReconnectTask == [step : RcStep, attempt : Nat, new : Session \cup {NoSession}]
CloseCall == [step : {"idle", "start", "session", "await", "done"},
              target : Session \cup {NoSession}]

TypeOK ==
  /\ handle \in EngineHandle
  /\ session \in [Session -> SessionState]
  /\ inbox \in [Session -> Seq(SessionEvent)]
  /\ task \in [Session -> TaskState]
  /\ rc \in ReconnectTask
  /\ reply \in BOOLEAN
  /\ closer \in [Closer -> CloseCall]
  /\ events \in Seq(EngineEvent)
  /\ listening \in BOOLEAN
  /\ caller \in [Caller -> Session \cup {NoSession}]
  /\ emitted \in Nat

Init ==
  /\ handle = [session |-> First, task |-> First, closed |-> FALSE,
               reconnecting |-> FALSE, can_reconnect |-> TRUE,
               full_reconnect |-> FALSE]
  /\ session = [s \in Session |-> IF s = First THEN "up" ELSE "unborn"]
  /\ inbox = [s \in Session |-> <<>>]
  /\ task = [s \in Session |-> IF s = First THEN "running" ELSE "none"]
  /\ rc = [step |-> "idle", attempt |-> 0, new |-> NoSession]
  /\ reply = FALSE
  /\ closer = [c \in Closer |-> [step |-> "idle", target |-> NoSession]]
  /\ events = <<>>
  /\ listening = TRUE
  /\ caller = [c \in Caller |-> NoSession]
  /\ emitted = 0

-----------------------------------------------------------------------------
(* engine_tx.send: an unbounded channel; once the receiver is gone an event *)
(* is dropped, and a oneshot that it carries with it.                       *)
Send(type, s, body) ==
  events' = IF listening
            THEN Append(events, [type |-> type, session |-> s, body |-> body])
            ELSE events

(* The same for an event whose oneshot the sender then awaits.              *)
SendAndWait(type, s) ==
  /\ Send(type, s, "none")
  /\ reply' = ~listening

-----------------------------------------------------------------------------
(* RtcSession, seen from the engine.                                        *)

(* The signal connection is lost, a peer connection fails, or the server    *)
(* sends Leave: the session is unusable and says so.  Leave with Disconnect *)
(* is the last word of a server, but the loss of its socket follows it.     *)
Fail(s, action) ==
  /\ session[s] \in {"up", "down"}
  /\ action = "disconnect" =>
       /\ closer[s].step = "idle"
       /\ \A i \in DOMAIN inbox[s] : inbox[s][i].kind # "disconnect"
  /\ emitted < MaxEmitted
  /\ session' = [session EXCEPT ![s] = "down"]
  /\ inbox' = [inbox EXCEPT ![s] = Append(@, [kind |-> action, body |-> "none"])]
  /\ emitted' = emitted + 1
  /\ UNCHANGED <<handle, task, rc, reply, closer, events, listening, caller>>

(* Any other event of a session (media, data, participants, ...).  A         *)
(* session that said Close goes on emitting while something of it lives.    *)
Emit(s, body) ==
  /\ session[s] \in {"up", "down"}
  /\ emitted < MaxEmitted
  /\ inbox' = [inbox EXCEPT ![s] = Append(@, [kind |-> "data", body |-> body])]
  /\ emitted' = emitted + 1
  /\ UNCHANGED <<handle, session, task, rc, reply, closer, events, listening, caller>>

-----------------------------------------------------------------------------
(* engine_task and on_session_event.                                        *)

ReconnectionNeeded(full) ==
  IF handle.can_reconnect
  THEN /\ handle' = [handle EXCEPT !.reconnecting = TRUE, !.full_reconnect = full]
       /\ rc' = IF handle.reconnecting THEN rc ELSE [rc EXCEPT !.step = "spawned"]
  ELSE UNCHANGED <<handle, rc>>

(* Mutant: a Leave disallows reconnection and does not close.               *)
OnSessionEventLeaveIgnored(s, e) ==
  \/ /\ e.kind \in {"resume", "reconnect"}
     /\ ReconnectionNeeded(e.kind = "reconnect")
     /\ UNCHANGED <<closer, events>>
  \/ /\ e.kind = "disconnect"
     /\ handle' = [handle EXCEPT !.can_reconnect = FALSE]
     /\ UNCHANGED <<rc, events, closer>>
  \/ /\ e.kind = "data"
     /\ Send("Forward", s, e.body)
     /\ UNCHANGED <<handle, rc, closer>>

OnSessionEvent(s, e) ==
  \/ /\ e.kind \in {"resume", "reconnect"}
     /\ ReconnectionNeeded(e.kind = "reconnect")
     /\ UNCHANGED <<closer, events>>
  \/ /\ e.kind = "disconnect"
     /\ handle' = [handle EXCEPT !.can_reconnect = FALSE]
     /\ closer' = [closer EXCEPT ![s].step = "start"]
     /\ UNCHANGED <<rc, events>>
  \/ /\ e.kind = "data"
     /\ Send("Forward", s, e.body)
     /\ UNCHANGED <<handle, rc, closer>>

EngineTaskEvent(s) ==
  /\ task[s] \in {"running", "stopping"}
  /\ inbox[s] # <<>>
  /\ OnSessionEvent(s, Head(inbox[s]))
  /\ inbox' = [inbox EXCEPT ![s] = Tail(@)]
  /\ UNCHANGED <<session, task, reply, listening, caller, emitted>>

(* close_rx fires: the loop ends, what is left in the channel is dropped.   *)
EngineTaskExit(s) ==
  /\ task[s] = "stopping"
  /\ task' = [task EXCEPT ![s] = "ended"]
  /\ inbox' = [inbox EXCEPT ![s] = <<>>]
  /\ UNCHANGED <<handle, session, rc, reply, closer, events, listening, caller, emitted>>

-----------------------------------------------------------------------------
(* EngineInner::close(reason), by the call c.                               *)

ReasonOf(c) == CASE c = "user"  -> "client"
                 [] c = "retry" -> "unknown"
                 [] OTHER       -> "server"

(* Mutant: a close() that finds a reconnection returns, with the task taken. *)
CloseTakeLeavesToReconnect(c) ==
  /\ closer[c].step = "start"
  /\ handle' = [handle EXCEPT !.closed = TRUE, !.task = NoSession]
  /\ closer' = [closer EXCEPT ![c] =
                  IF handle.task = NoSession \/ handle.reconnecting
                  THEN [step |-> "done", target |-> NoSession]
                  ELSE [step |-> "session", target |-> handle.session]]
  /\ UNCHANGED <<session, inbox, task, rc, reply, events, listening, caller, emitted>>

CloseTake(c) ==
  /\ closer[c].step = "start"
  /\ handle' = [handle EXCEPT !.closed = TRUE, !.task = NoSession]
  /\ closer' = [closer EXCEPT ![c] =
                  IF handle.task = NoSession
                  THEN [step |-> "done", target |-> NoSession]
                  ELSE [step |-> "session", target |-> handle.session]]
  /\ UNCHANGED <<session, inbox, task, rc, reply, events, listening, caller, emitted>>

(* Mutant: close_tx is not sent.                                            *)
CloseSessionSilently(c) ==
  /\ closer[c].step = "session"
  /\ session' = [session EXCEPT ![closer[c].target] = "closed"]
  /\ closer' = [closer EXCEPT ![c].step = "await"]
  /\ UNCHANGED <<handle, inbox, task, rc, reply, events, listening, caller, emitted>>

(* session.close().await, then close_tx.send.                               *)
CloseSession(c) ==
  /\ closer[c].step = "session"
  /\ session' = [session EXCEPT ![closer[c].target] = "closed"]
  /\ task' = [task EXCEPT ![closer[c].target] = "stopping"]
  /\ closer' = [closer EXCEPT ![c].step = "await"]
  /\ UNCHANGED <<handle, inbox, rc, reply, events, listening, caller, emitted>>

(* Mutant: engine_task is not awaited.                                      *)
CloseAwaitNothing(c) ==
  /\ closer[c].step = "await"
  /\ Send("Disconnected", closer[c].target, ReasonOf(c))
  /\ closer' = [closer EXCEPT ![c].step = "done"]
  /\ UNCHANGED <<handle, session, inbox, task, rc, reply, listening, caller, emitted>>

(* engine_task.await, then Disconnected.                                    *)
CloseAwait(c) ==
  /\ closer[c].step = "await"
  /\ task[closer[c].target] = "ended"
  /\ Send("Disconnected", closer[c].target, ReasonOf(c))
  /\ closer' = [closer EXCEPT ![c].step = "done"]
  /\ UNCHANGED <<handle, session, inbox, task, rc, reply, listening, caller, emitted>>

(* RtcEngine::close, which Room::close calls once.                          *)
UserClose ==
  /\ closer["user"].step = "idle"
  /\ closer' = [closer EXCEPT !["user"].step = "start"]
  /\ UNCHANGED <<handle, session, inbox, task, rc, reply, events, listening, caller, emitted>>

-----------------------------------------------------------------------------
(* The task spawned by reconnection_needed and reconnect_task.              *)

RcUnchanged == UNCHANGED <<inbox, closer, listening, caller, emitted>>

(* The spawned task is polled and asks for the write guard.                 *)
RcQueue ==
  /\ rc.step = "spawned"
  /\ rc' = [rc EXCEPT !.step = "lock"]
  /\ UNCHANGED <<handle, session, task, reply, events>>
  /\ RcUnchanged

(* Mutant: the reconnection does not take the write guard.                  *)
RcLockNothing ==
  /\ rc.step = "lock"
  /\ rc' = [rc EXCEPT !.step = "attempt", !.attempt = 0]
  /\ UNCHANGED <<handle, session, task, reply, events>>
  /\ RcUnchanged

(* reconnecting_lock.write().await: no read guard is held.                  *)
RcLock ==
  /\ rc.step = "lock"
  /\ \A c \in Caller : caller[c] = NoSession
  /\ rc' = [rc EXCEPT !.step = "attempt", !.attempt = 0]
  /\ UNCHANGED <<handle, session, task, reply, events>>
  /\ RcUnchanged

(* The head of the loop reads closed and full_reconnect.  An attempt that   *)
(* may not start is the Err that makes the task close the engine.           *)
RcGiveUp ==
  /\ rc.step = "attempt"
  /\ rc.attempt = Attempts \/ handle.closed
  /\ rc' = [rc EXCEPT !.step = "closing"]
  /\ closer' = [closer EXCEPT !["retry"].step = "start"]
  /\ UNCHANGED <<handle, session, task, reply, events, inbox, listening, caller, emitted>>

RcAttempt ==
  /\ rc.step = "attempt"
  /\ rc.attempt < Attempts
  /\ ~handle.closed
  /\ IF rc.attempt = 0
     THEN /\ SendAndWait(IF handle.full_reconnect THEN "Restarting" ELSE "Resuming",
                         handle.session)
          /\ rc' = [rc EXCEPT !.step = IF handle.full_reconnect
                                       THEN "ackRestarting" ELSE "ackResuming"]
     ELSE /\ rc' = [rc EXCEPT !.step = IF handle.full_reconnect THEN "take" ELSE "resume"]
          /\ UNCHANGED <<reply, events>>
  /\ UNCHANGED <<handle, session, task>>
  /\ RcUnchanged

(* Mutant: the reply of the room is not awaited.                            *)
RcAckedUnasked ==
  /\ rc.step \in AckStep
  /\ rc' = [rc EXCEPT !.step = CASE rc.step = "ackRestarting"      -> "take"
                                 [] rc.step = "ackSignalRestarted" -> "waitPc"
                                 [] rc.step = "ackResuming"        -> "resume"
                                 [] rc.step = "ackSignalResumed"   -> "resumePc"
                                 [] OTHER                          -> "finish"]
  /\ UNCHANGED <<handle, session, task, reply, events>>
  /\ RcUnchanged

(* rx.await                                                                 *)
RcAcked ==
  /\ rc.step \in AckStep
  /\ reply
  /\ rc' = [rc EXCEPT !.step = CASE rc.step = "ackRestarting"      -> "take"
                                 [] rc.step = "ackSignalRestarted" -> "waitPc"
                                 [] rc.step = "ackResuming"        -> "resume"
                                 [] rc.step = "ackSignalResumed"   -> "resumePc"
                                 [] OTHER                          -> "finish"]
  /\ UNCHANGED <<handle, session, task, reply, events>>
  /\ RcUnchanged

(* Mutant: the attempts are not counted.                                    *)
RcTickForever ==
  /\ rc.step = "tick"
  /\ rc' = [rc EXCEPT !.step = "attempt"]
  /\ UNCHANGED <<handle, session, task, reply, events>>
  /\ RcUnchanged

(* interval.tick().await, then the next iteration.                          *)
RcTick ==
  /\ rc.step = "tick"
  /\ rc' = [rc EXCEPT !.step = "attempt", !.attempt = @ + 1]
  /\ UNCHANGED <<handle, session, task, reply, events>>
  /\ RcUnchanged

(* The task ends: close() has returned, or the engine recovered.            *)
RcFinish ==
  /\ rc.step = "finish" \/ (rc.step = "closing" /\ closer["retry"].step = "done")
  /\ handle' = [handle EXCEPT !.reconnecting = FALSE]
  /\ rc' = [rc EXCEPT !.step = "idle"]
  /\ closer' = [closer EXCEPT !["retry"] = [step |-> "idle", target |-> NoSession]]
  /\ UNCHANGED <<session, task, reply, events, inbox, listening, caller, emitted>>

-----------------------------------------------------------------------------
(* try_restart_connection.                                                  *)

RcTake ==
  /\ rc.step = "take"
  /\ handle' = [handle EXCEPT !.task = NoSession]
  /\ rc' = [rc EXCEPT !.step = IF handle.task = NoSession THEN "connect" ELSE "closeOld"]
  /\ UNCHANGED <<session, task, reply, events>>
  /\ RcUnchanged

RcCloseOld ==
  /\ rc.step = "closeOld"
  /\ session' = [session EXCEPT ![handle.session] = "closed"]
  /\ task' = [task EXCEPT ![handle.session] = "stopping"]
  /\ rc' = [rc EXCEPT !.step = "awaitOld"]
  /\ UNCHANGED <<handle, reply, events>>
  /\ RcUnchanged

(* Mutant: the old engine task is not awaited.                              *)
RcAwaitNothing ==
  /\ rc.step = "awaitOld"
  /\ rc' = [rc EXCEPT !.step = "connect"]
  /\ UNCHANGED <<handle, session, task, reply, events>>
  /\ RcUnchanged

(* Mutant: the new session is never made.                                   *)
RcAwaitOldSkipsConnect ==
  /\ rc.step = "awaitOld"
  /\ task[handle.session] = "ended"
  /\ rc' = [rc EXCEPT !.step = "waitPc"]
  /\ UNCHANGED <<handle, session, task, reply, events>>
  /\ RcUnchanged

RcAwaitOld ==
  /\ rc.step = "awaitOld"
  /\ task[handle.session] = "ended"
  /\ rc' = [rc EXCEPT !.step = "connect"]
  /\ UNCHANGED <<handle, session, task, reply, events>>
  /\ RcUnchanged

(* RtcSession::connect joins the room again.                                *)
RcConnect(s) ==
  /\ rc.step = "connect"
  /\ session[s] = "unborn"
  /\ session' = [session EXCEPT ![s] = "up"]
  /\ SendAndWait("SignalRestarted", s)
  /\ rc' = [rc EXCEPT !.step = "ackSignalRestarted", !.new = s]
  /\ UNCHANGED <<handle, task>>
  /\ RcUnchanged

(* wait_pc_connection succeeds: the new session and its engine task are     *)
(* installed under running_handle, whether or not the engine was closed.    *)
RcInstall ==
  /\ rc.step = "waitPc"
  /\ handle' = [handle EXCEPT !.session = rc.new, !.task = rc.new]
  /\ task' = [task EXCEPT ![rc.new] = "running"]
  /\ rc' = [rc EXCEPT !.step = "restarted", !.new = NoSession]
  /\ UNCHANGED <<session, reply, events>>
  /\ RcUnchanged

RcRestarted ==
  /\ rc.step = "restarted"
  /\ SendAndWait("Restarted", handle.session)
  /\ rc' = [rc EXCEPT !.step = "ackRestarted"]
  /\ UNCHANGED <<handle, session, task>>
  /\ RcUnchanged

(* RtcSession::connect fails, or the new session never connects its media:  *)
(* it is dropped, not closed, and nobody reads its events.                  *)
RcRestartFails ==
  /\ rc.step \in {"connect", "waitPc"}
  /\ rc' = [rc EXCEPT !.step = "tick", !.new = NoSession]
  /\ session' = [s \in Session |-> IF s = rc.new THEN "orphan" ELSE session[s]]
  /\ UNCHANGED <<handle, task, reply, events>>
  /\ RcUnchanged

-----------------------------------------------------------------------------
(* try_resume_connection.                                                   *)

(* session.restart() reopens the signal connection of the session.  A       *)
(* session that was closed meanwhile stays closed.                          *)
RcSignalResumed ==
  /\ rc.step = "resume"
  /\ session' = [session EXCEPT ![handle.session] = IF @ = "closed" THEN @ ELSE "up"]
  /\ SendAndWait("SignalResumed", handle.session)
  /\ rc' = [rc EXCEPT !.step = "ackSignalResumed"]
  /\ UNCHANGED <<handle, task>>
  /\ RcUnchanged

(* restart_publisher and wait_pc_connection, which a closed session fails.  *)
RcResumePc ==
  /\ rc.step = "resumePc"
  /\ session[handle.session] # "closed"
  /\ rc' = [rc EXCEPT !.step = "resumed"]
  /\ UNCHANGED <<handle, session, task, reply, events>>
  /\ RcUnchanged

RcResumed ==
  /\ rc.step = "resumed"
  /\ SendAndWait("Resumed", handle.session)
  /\ rc' = [rc EXCEPT !.step = "ackResumed"]
  /\ UNCHANGED <<handle, session, task>>
  /\ RcUnchanged

(* Only an error of the signal client lets the next attempt resume again.   *)
RcResumeFails(signalError) ==
  /\ rc.step \in {"resume", "resumePc"}
  /\ signalError => rc.step = "resume"
  /\ rc' = [rc EXCEPT !.step = "tick"]
  /\ handle' = [handle EXCEPT !.full_reconnect = @ \/ ~signalError]
  /\ UNCHANGED <<session, task, reply, events>>
  /\ RcUnchanged

-----------------------------------------------------------------------------
(* Mutant: the guard is not taken, only the handle is read.                 *)
CallerAcquireUnlocked(c) ==
  /\ caller[c] = NoSession
  /\ ~handle.closed
  /\ caller' = [caller EXCEPT ![c] = handle.session]
  /\ UNCHANGED <<handle, session, inbox, task, rc, reply, closer, events, listening, emitted>>

(* wait_reconnection: tokio's RwLock queues a reader behind a writer that   *)
(* waits, so a guard is taken only until the reconnect task asks for its.   *)
CallerAcquire(c) ==
  /\ caller[c] = NoSession
  /\ rc.step \in {"idle", "spawned"}
  /\ ~handle.closed
  /\ caller' = [caller EXCEPT ![c] = handle.session]
  /\ UNCHANGED <<handle, session, inbox, task, rc, reply, closer, events, listening, emitted>>

CallerRelease(c) ==
  /\ caller[c] # NoSession
  /\ caller' = [caller EXCEPT ![c] = NoSession]
  /\ UNCHANGED <<handle, session, inbox, task, rc, reply, closer, events, listening, emitted>>

-----------------------------------------------------------------------------
(* The room task.                                                           *)

WithReply == {"Resuming", "Resumed", "SignalResumed",
              "Restarting", "Restarted", "SignalRestarted"}

RoomTakes ==
  /\ events # <<>>
  /\ events' = Tail(events)
  /\ reply' = (reply \/ Head(events).type \in WithReply)
  /\ UNCHANGED <<handle, session, inbox, task, rc, closer, listening, caller, emitted>>

(* Room::close stops it after RtcEngine::close has returned; the oneshots   *)
(* of the events it never took are dropped.                                 *)
RoomStops ==
  /\ listening
  /\ closer["user"].step = "done"
  /\ listening' = FALSE
  /\ events' = <<>>
  /\ reply' = TRUE
  /\ UNCHANGED <<handle, session, inbox, task, rc, closer, caller, emitted>>

-----------------------------------------------------------------------------
EngineTask(s) == EngineTaskEvent(s) \/ EngineTaskExit(s)

Close(c) == CloseTake(c) \/ CloseSession(c) \/ CloseAwait(c)

Reconnect ==
  \/ RcQueue \/ RcLock \/ RcGiveUp \/ RcAttempt \/ RcAcked \/ RcTick \/ RcFinish
  \/ RcTake \/ RcCloseOld \/ RcAwaitOld \/ RcInstall \/ RcRestarted \/ RcRestartFails
  \/ \E s \in Session : RcConnect(s)
  \/ RcSignalResumed \/ RcResumePc \/ RcResumed
  \/ \E signalError \in BOOLEAN : RcResumeFails(signalError)

Engine ==
  \/ \E s \in Session : EngineTask(s)
  \/ \E c \in Closer : Close(c)
  \/ Reconnect

Environment ==
  \/ \E s \in Session : \/ \E a \in CloseAction : Fail(s, a)
                        \/ \E p \in Payload : Emit(s, p)
  \/ \E c \in Caller : CallerAcquire(c) \/ CallerRelease(c)

Next ==
  \/ Engine
  \/ Environment
  \/ UserClose
  \/ RoomTakes
  \/ RoomStops

Spec == Init /\ [][Next]_engineVars

(* Every spawned task is polled by the runtime; network operations end with *)
(* a result or with their timeout; API calls end and drop their guard.      *)
Fairness ==
  /\ \A s \in Session : WF_engineVars(EngineTask(s))
  /\ \A c \in Closer : WF_engineVars(Close(c))
  /\ WF_engineVars(Reconnect)
  /\ \A c \in Caller : WF_engineVars(CallerRelease(c))
  /\ WF_engineVars(RoomTakes)

FairSpec == Spec /\ Fairness
-----------------------------------------------------------------------------
(* Properties.                                                              *)

(* An API call that goes through wait_reconnection works on the current     *)
(* session for as long as it keeps its guard: no reconnection replaces the  *)
(* session under it (mod.rs, "it ensures we're always using the latest      *)
(* session").                                                               *)
LatestSession == \A c \in Caller : caller[c] # NoSession => caller[c] = handle.session

(* Until the engine is closed, one engine task at most is alive, that of    *)
(* the current session: a restart waits for the old task before it joins    *)
(* again, so events of two sessions are never handled concurrently.         *)
Alive(s) == task[s] \in {"running", "stopping"}
OneEngineTask == ~handle.closed => \A s \in Session : Alive(s) => s = handle.session

(* Until the engine is closed, the room gets nothing of the old session     *)
(* behind the SignalRestarted of the new one.                               *)
NoStaleForward ==
  ~handle.closed =>
    \A i, j \in DOMAIN events :
      (i < j /\ events[i].type = "SignalRestarted" /\ events[j].type = "Forward")
        => events[j].session = events[i].session

(* The room is told Disconnected behind everything the closed session said. *)
NoForwardAfterDisconnected ==
  \A i, j \in DOMAIN events :
    (i < j /\ events[i].type = "Disconnected" /\ events[j].type = "Forward")
      => events[j].session # events[i].session

(* What an old session said never comes late, however its engine task, the  *)
(* reconnection and close() overlap.                                        *)
ForwardsAreOrdered == NoStaleForward /\ NoForwardAfterDisconnected

(* However close(), the Leave of a session and the reconnect task overlap,  *)
(* they share the sessions out between them: one that is open belongs to    *)
(* the handle, or to the one call that took the engine task out of it and   *)
(* has yet to close it, or is the one a restart has just joined; and an     *)
(* engine task that runs is the handle's or is awaited by the call that     *)
(* took it.  Once no call is under way nothing but the handle's is open.    *)
(* Only the session of a restart that fails is dropped without a close.     *)
OpenIsOwned ==
  \A s \in Session : session[s] \in {"up", "down"} =>
    \/ s \in {handle.task, rc.new}
    \/ s = handle.session /\ rc.step = "closeOld"
    \/ \E c \in Closer : closer[c].step = "session" /\ closer[c].target = s
AliveIsOwned ==
  \A s \in Session : Alive(s) =>
    \/ s = handle.task
    \/ s = handle.session /\ rc.step \in {"closeOld", "awaitOld"}
    \/ \E c \in Closer : closer[c].step \in {"session", "await"} /\ closer[c].target = s
NothingLeaks == OpenIsOwned /\ AliveIsOwned

(* What makes the safety properties inductive.                              *)
TaskIsCurrent ==
  handle.task # NoSession => /\ handle.task = handle.session
                             /\ task[handle.session] = "running"
TaskTaken ==
  rc.step \in {"closeOld", "awaitOld", "connect", "ackSignalRestarted", "waitPc"}
    => handle.task = NoSession
NoTaskNoneAlive ==
  (~handle.closed /\ handle.task = NoSession /\ rc.step \notin {"closeOld", "awaitOld"})
    => \A s \in Session : ~Alive(s)
NewIsFresh ==
  /\ rc.new # NoSession <=> rc.step \in {"ackSignalRestarted", "waitPc"}
  /\ rc.new # NoSession => task[rc.new] = "none" /\ session[rc.new] # "unborn"
UnbornIsIdle ==
  /\ \A s \in Session : session[s] = "unborn" => task[s] = "none"
  /\ session[handle.session] # "unborn"
  /\ task[handle.session] # "none"
CloserHasTarget ==
  \A c \in Closer : closer[c].step \in {"session", "await"} =>
    /\ handle.closed
    /\ closer[c].target \in Session \ {handle.task}
    /\ session[closer[c].target] # "unborn"
    /\ task[closer[c].target] # "none"
ReconnectingIsTask == handle.reconnecting <=> rc.step # "idle"
WriteGuardExcludes ==
  rc.step \notin {"idle", "spawned", "lock"} => \A c \in Caller : caller[c] = NoSession

IInv ==
  /\ TaskIsCurrent /\ TaskTaken /\ NoTaskNoneAlive
  /\ NewIsFresh /\ UnbornIsIdle /\ CloserHasTarget
  /\ ReconnectingIsTask /\ WriteGuardExcludes
  /\ LatestSession /\ OneEngineTask

(* The engine implements the lease that wait_reconnection promises.         *)
Lease == INSTANCE SessionLease WITH
  current   <- handle.session,
  closed    <- handle.closed,
  users     <- caller,
  replacing <- rc.step \notin {"idle", "spawned", "lock"},
  fresh     <- {s \in Session : session[s] = "unborn" \/ rc.new = s}
LeaseSpec == Lease!Spec

(* The engine implements what a room is built on: EngineEvents.             *)
Rec ==
  CASE rc.step \in {"idle", "spawned", "lock"} -> "none"
    [] rc.step = "attempt" /\ rc.attempt = 0  -> "none"
    [] rc.step = "attempt" /\ rc.attempt # 0  -> "trying"
    [] rc.step \in {"take", "closeOld", "awaitOld", "connect", "resume", "tick"} -> "trying"
    [] rc.step = "ackResuming"        -> "Resuming"
    [] rc.step = "ackRestarting"      -> "Restarting"
    [] rc.step = "ackSignalResumed"   -> "SignalResumed"
    [] rc.step = "ackSignalRestarted" -> "SignalRestarted"
    [] rc.step = "ackResumed"         -> "Resumed"
    [] rc.step = "ackRestarted"       -> "Restarted"
    [] rc.step = "waitPc"             -> "joined"
    [] rc.step = "restarted"          -> "installed"
    [] rc.step \in {"resumePc", "resumed"} -> "rejoined"
    [] rc.step = "finish"             -> "ending"
    [] rc.step = "closing"            -> "givingUp"
Events == INSTANCE EngineEvents WITH
  Closing    <- Closer,
  rec        <- Rec,
  current    <- handle.session,
  fresh      <- {s \in Session : session[s] = "unborn" \/ rc.new = s},
  users      <- caller,
  engineTask <- handle.task # NoSession,
  closed     <- handle.closed,
  closing    <- {c \in Closer : closer[c].step \in {"session", "await"}},
  chan       <- events,
  answered   <- reply
EventsSpec == Events!EventsSpec

(* A reconnection always comes to an end, recovered or closed.              *)
ReconnectEnds == handle.reconnecting ~> ~handle.reconnecting

(* RtcEngine::close returns, whatever the engine is doing.                  *)
CloseEnds == closer["user"].step = "start" ~> closer["user"].step = "done"

(* After a Leave with Disconnect the engine gets closed.                    *)
LeaveCloses == ~handle.can_reconnect ~> handle.closed

(* What a comment of reconnection_needed says of close(): that it cancels   *)
(* the reconnection.  Then a closed engine keeps its session.               *)
CloseCancelsReconnection ==
  [][handle.closed => handle'.session = handle.session]_engineVars
=============================================================================
