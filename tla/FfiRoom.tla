------------------------------- MODULE FfiRoom --------------------------------
(***************************************************************************)
(* A room behind the FFI (livekit-ffi/src/server/room.rs): the client's    *)
(* requests answered by async callbacks, and the task that forwards the    *)
(* room events one at a time, which must come in a certain order:          *)
(* LocalTrackPublished after the callback of its PublishTrack request,     *)
(* LocalTrackUnpublished before that of its UnpublishTrack request.        *)
(*                                                                         *)
(* It composes Room: the client's calls are the user steps of the room,    *)
(* and the event task is who receives its events.                          *)
(***************************************************************************)
EXTENDS Room

VARIABLES
  eventTask,           \* room_task: its step, and the sid it waits for
  presentReconnecting, \* ActualState.reconnecting
  pendingPublished,    \* RoomInner.pending_published_tracks
  pendingUnpublished,  \* RoomInner.pending_unpublished_tracks
  publishTask,         \* the task of each PublishTrack request
  unpublishTask,       \* the task of each UnpublishTrack request
  closeFfi,            \* FfiRoom::close
  told                 \* what the client was sent: callbacks and events by sid

ffiVars == <<eventTask, presentReconnecting, pendingPublished, pendingUnpublished,
             publishTask, unpublishTask, closeFfi, told>>
ffiAll == <<roomAll, ffiVars>>

Notice == {"PublishTrack", "UnpublishTrack", "LocalTrackPublished",
            "LocalTrackUnpublished"} \X Publication

FfiTypeOK ==
  /\ RoomTypeOK
  /\ eventTask \in [step : {"running", "waiting", "stopped"},
                    sid : Publication \cup {NoSession}]
  /\ eventTask.step = "waiting" <=> eventTask.sid # NoSession
  /\ presentReconnecting \in BOOLEAN
  /\ pendingPublished \subseteq Publication
  /\ pendingUnpublished \subseteq Publication
  /\ publishTask \in [Track -> {"none", "publishing", "told", "ended"}]
  /\ unpublishTask \in [Publication -> {"none", "waiting", "ended"}]
  /\ closeFfi \in {"open", "room", "tasks", "closed"}
  /\ told \subseteq Notice

FfiInit ==
  /\ RoomInit
  /\ eventTask = [step |-> "running", sid |-> NoSession]
  /\ presentReconnecting = FALSE
  /\ pendingPublished = {} /\ pendingUnpublished = {}
  /\ publishTask = [t \in Track |-> "none"]
  /\ unpublishTask = [p \in Publication |-> "none"]
  /\ closeFfi = "open"
  /\ told = {}

-----------------------------------------------------------------------------
(* RoomInner::publish_track: the request spawns a task, which publishes ... *)
PublishRequest(t) ==
  /\ publishTask[t] = "none"
  /\ PublishTrack(t)
  /\ publishTask' = [publishTask EXCEPT ![t] = "publishing"]
  /\ UNCHANGED <<eventTask, presentReconnecting, pendingPublished, pendingUnpublished,
                 unpublishTask, closeFfi, told>>

(* ... sends the callback, with the error when it failed and none when it   *)
(* panicked (nobody watches this task) ...                                  *)
PublishCallback(t) ==
  /\ publishTask[t] = "publishing"
  /\ publish[<<t, First>>].step = "failed" \/ announce[<<t, First>>] \in {"said", "late"}
  /\ LET failed == publish[<<t, First>>].step = "failed" IN
       /\ publishTask' = [publishTask EXCEPT ![t] = IF failed THEN "ended" ELSE "told"]
       /\ told' = IF failed THEN told ELSE told \cup {<<"PublishTrack", <<t, First>>>>}
  /\ UNCHANGED <<roomAll, eventTask, presentReconnecting, pendingPublished,
                 pendingUnpublished, unpublishTask, closeFfi>>

(* Mutant: the event task is not let know.                                  *)
PublishPendingForgets(t) ==
  /\ publishTask[t] = "told"
  /\ publishTask' = [publishTask EXCEPT ![t] = "ended"]
  /\ UNCHANGED <<roomAll, eventTask, presentReconnecting, pendingPublished, pendingUnpublished,
                 unpublishTask, closeFfi, told>>

(* ... and then lets the event task know.                                   *)
PublishPending(t) ==
  /\ publishTask[t] = "told"
  /\ publishTask' = [publishTask EXCEPT ![t] = "ended"]
  /\ pendingPublished' = pendingPublished \cup {<<t, First>>}
  /\ UNCHANGED <<roomAll, eventTask, presentReconnecting, pendingUnpublished,
                 unpublishTask, closeFfi, told>>

(* RoomInner::unpublish_track for a sid the client was told of; when it     *)
(* fails the callback has the error, and nothing else comes of it when      *)
(* there is no such publication any more.                                   *)
UnpublishRequest(p) ==
  /\ unpublishTask[p] = "none"
  /\ {<<"PublishTrack", p>>, <<"LocalTrackPublished", p>>} \cap told # {}
  /\ UnpublishTrack(p)
  /\ unpublishTask' = [unpublishTask EXCEPT ![p] =
       IF publish'[p].step = "unpublished" THEN "waiting" ELSE "ended"]
  /\ UNCHANGED <<eventTask, presentReconnecting, pendingPublished, pendingUnpublished,
                 publishTask, closeFfi, told>>

(* Mutant: the callback does not wait for the event.                        *)
UnpublishCallbackEarly(p) ==
  /\ unpublishTask[p] = "waiting"
  /\ unpublishTask' = [unpublishTask EXCEPT ![p] = "ended"]
  /\ told' = told \cup {<<"UnpublishTrack", p>>}
  /\ UNCHANGED <<roomAll, eventTask, presentReconnecting, pendingPublished,
                 pendingUnpublished, publishTask, closeFfi>>

UnpublishCallback(p) ==
  /\ unpublishTask[p] = "waiting"
  /\ p \in pendingUnpublished
  /\ pendingUnpublished' = pendingUnpublished \ {p}
  /\ unpublishTask' = [unpublishTask EXCEPT ![p] = "ended"]
  /\ told' = told \cup {<<"UnpublishTrack", p>>}
  /\ UNCHANGED <<roomAll, eventTask, presentReconnecting, pendingPublished,
                 publishTask, closeFfi>>

-----------------------------------------------------------------------------
(* room_task and forward_event.                                             *)

(* A published track is announced at once while reconnecting ...            *)
ForwardPublished(e) ==
  /\ e.type = "LocalTrackPublished"
  /\ IF presentReconnecting
     THEN told' = told \cup {<<e.type, e.sid>>} /\ UNCHANGED eventTask
     ELSE eventTask' = [step |-> "waiting", sid |-> e.sid] /\ UNCHANGED told
  /\ UNCHANGED <<presentReconnecting, pendingUnpublished>>

ForwardUnpublished(e) ==
  /\ e.type = "LocalTrackUnpublished"
  /\ told' = told \cup {<<e.type, e.sid>>}
  /\ pendingUnpublished' = pendingUnpublished \cup {e.sid}
  /\ UNCHANGED <<eventTask, presentReconnecting>>

ForwardState(e) ==
  /\ e.type \in {"Reconnecting", "Reconnected", "Disconnected"}
  /\ presentReconnecting' = CASE e.type = "Reconnecting" -> TRUE
                              [] e.type = "Reconnected"  -> FALSE
                              [] OTHER                   -> presentReconnecting
  /\ UNCHANGED <<eventTask, told, pendingUnpublished>>

ForwardEvent ==
  /\ eventTask.step = "running"
  /\ Receive
  /\ LET e == Head(roomEvents) IN
       ForwardPublished(e) \/ ForwardUnpublished(e) \/ ForwardState(e)
  /\ UNCHANGED <<pendingPublished, publishTask, unpublishTask, closeFfi>>

(* ... and otherwise the loop over pending_published_tracks goes on until   *)
(* the callback of its request was sent.                                    *)
ForwardAfterCallback ==
  /\ eventTask.step = "waiting"
  /\ eventTask.sid \in pendingPublished
  /\ pendingPublished' = pendingPublished \ {eventTask.sid}
  /\ told' = told \cup {<<"LocalTrackPublished", eventTask.sid>>}
  /\ eventTask' = [step |-> "running", sid |-> NoSession]
  /\ UNCHANGED <<roomAll, presentReconnecting, pendingUnpublished, publishTask,
                 unpublishTask, closeFfi>>

-----------------------------------------------------------------------------
(* FfiRoom::close: Room::close, which may be under way already, then the    *)
(* tasks.                                                                   *)
CloseRequest ==
  /\ closeFfi = "open"
  /\ \/ CloseStarts /\ closeFfi' = "room"
     \/ closeRoom.step # "open" /\ UNCHANGED roomAll /\ closeFfi' = "tasks"
  /\ UNCHANGED <<eventTask, presentReconnecting, pendingPublished, pendingUnpublished,
                 publishTask, unpublishTask, told>>

CloseTasks ==
  /\ closeFfi = "room"
  /\ closeRoom.step = "closed"
  /\ closeFfi' = "tasks"
  /\ UNCHANGED <<roomAll, eventTask, presentReconnecting, pendingPublished,
                 pendingUnpublished, publishTask, unpublishTask, told>>

(* Mutant: close_rx ends a task that is at an event.                        *)
EventTaskStopsAnytime ==
  /\ closeFfi = "tasks"
  /\ eventTask.step # "stopped"
  /\ eventTask' = [eventTask EXCEPT !.step = "stopped"]
  /\ closeFfi' = "closed"
  /\ UNCHANGED <<roomAll, presentReconnecting, pendingPublished, pendingUnpublished,
                 publishTask, unpublishTask, told>>

(* close_rx, between two events.                                            *)
EventTaskStops ==
  /\ closeFfi = "tasks"
  /\ eventTask.step = "running"
  /\ eventTask' = [eventTask EXCEPT !.step = "stopped"]
  /\ closeFfi' = "closed"
  /\ UNCHANGED <<roomAll, presentReconnecting, pendingPublished, pendingUnpublished,
                 publishTask, unpublishTask, told>>

-----------------------------------------------------------------------------
Spawned == closeDue /\ CloseStarts   \* the close of handle_disconnected

FfiNext ==
  \/ (RoomSteps \/ Spawned \/ Reconnects \/ EngineCloses) /\ UNCHANGED ffiVars
  \/ \E t \in Track : PublishRequest(t) \/ PublishCallback(t) \/ PublishPending(t)
  \/ \E p \in Publication : UnpublishRequest(p) \/ UnpublishCallback(p)
  \/ ForwardEvent \/ ForwardAfterCallback
  \/ CloseRequest \/ CloseTasks \/ EventTaskStops

FfiSpec == FfiInit /\ [][FfiNext]_ffiAll

(* Every task is scheduled, the server answers or the request times out,    *)
(* and the attempts of a reconnection are counted, so that it gives up.     *)
(* Nothing makes the client, the server or a reconnection begin.            *)
PublishSteps(p) ==
  AddTrack(p) \/ TrackAdded(p) \/ CreateSender(p) \/ Announce(p) \/ PublishRefused(p)
    \/ RepublishUnpublishes(p) \/ RepublishWithdraws(p)

FfiFairness ==
  /\ \A p \in Publication :
       /\ WF_ffiAll(PublishSteps(p) /\ UNCHANGED ffiVars)
       /\ WF_ffiAll(UnpublishTrackEnds(p) /\ UNCHANGED ffiVars)
       /\ WF_ffiAll((CloseUnpublishes(p) \/ CloseWithdraws(p)) /\ UNCHANGED ffiVars)
       /\ WF_ffiAll(UnpublishCallback(p))
  /\ \A s \in Session :
       WF_ffiAll((RepublishStarts(s) \/ RepublishEnds(s)) /\ UNCHANGED ffiVars)
  /\ WF_ffiAll(OnEngineEvent /\ UNCHANGED ffiVars)
  /\ WF_ffiAll((CloseEngine \/ EngineClosed \/ CloseEnds) /\ UNCHANGED ffiVars)
  /\ WF_ffiAll(Spawned /\ UNCHANGED ffiVars)
  /\ WF_ffiAll(EngineDisconnects /\ UNCHANGED ffiVars)
  /\ WF_ffiAll(rec # "none" /\ Reconnects /\ UNCHANGED ffiVars)
  /\ SF_ffiAll(rec = "trying" /\ Reconnects /\ GiveUp /\ UNCHANGED ffiVars)
  /\ WF_ffiAll(rec = "givingUp" /\ EngineCloses /\ UNCHANGED ffiVars)
  /\ \A t \in Track : WF_ffiAll((PublishCallback(t) \/ PublishPending(t)))
  /\ WF_ffiAll((ForwardEvent \/ ForwardAfterCallback))
  /\ WF_ffiAll((CloseTasks \/ EventTaskStops))

FairFfiSpec == FfiSpec /\ FfiFairness
-----------------------------------------------------------------------------
(* The event task waits for a track that handle_restarted published again.  *)
Stuck == eventTask.step = "waiting" /\ eventTask.sid[2] # First

(* "waiting time is really short" (room.rs:1034): while the event task      *)
(* waits for the callback of a publication, the task of a PublishTrack      *)
(* request is about to send it.                                             *)
WaitIsShort ==
  eventTask.step = "waiting" =>
    /\ ~Stuck
    /\ publishTask[TrackOf(eventTask.sid)] # "none"

(* FfiRoom::close returns, whoever closed the room and in the middle of     *)
(* whatever reconnection or publication, unless the event task is stuck.    *)
CloseReturns == closeFfi # "open" ~> closeFfi = "closed" \/ Stuck

(* The client is owed the callback of a PublishTrack, unless its task       *)
(* panicked on a track unpublished before it was announced; ...             *)
PublishOwed ==
  \E t \in Track : publishTask[t] = "publishing" /\ announce[<<t, First>>] # "panicked"

(* ... the events after that of a track it published; ...                   *)
EventsOwed == eventTask.step = "waiting" /\ ~Stuck

(* ... or the callback of an UnpublishTrack, unless the event task ended or *)
(* is stuck before it forwarded the event, or a close that overtook the     *)
(* call left no receiver for the event.                                     *)
UnpublishOwed ==
  \E p \in Publication :
    unpublishTask[p] = "waiting" /\ withdraw[p] # "lost" /\ ~Stuck /\ eventTask.step # "stopped"

(* What a client asked of its tracks is answered, whatever the connection   *)
(* and other requests do meanwhile: it comes to be owed nothing.  As it     *)
(* makes each request once, no request waits for good beside others.        *)
Owed == PublishOwed \/ EventsOwed \/ UnpublishOwed
RequestsAnswered == Owed ~> ~Owed

(* A close or a republishing task found a publication on the list before    *)
(* publish_track had announced it, and said first that it is gone.          *)
Overtaken(p) ==
  withdraw[p] \in {"said", "lost"} /\ announce[p] \in {"due", "late", "panicked"}

(* What the client is told of a track comes in order: the event that it is  *)
(* published before the one that it is not, unless this overtook it; and    *)
(* both, always, before the callback of the client's own UnpublishTrack.    *)
ToldInOrder ==
  \A p \in Publication :
    /\ <<"LocalTrackUnpublished", p>> \in told =>
         <<"LocalTrackPublished", p>> \in told \/ Overtaken(p)
    /\ <<"UnpublishTrack", p>> \in told =>
         {<<"LocalTrackPublished", p>>, <<"LocalTrackUnpublished", p>>} \subseteq told

(* A room does not stay Reconnecting, unless its engine is closed or the    *)
(* task that publishes its tracks again panicked on one unpublished         *)
(* meanwhile (mod.rs:1322).                                                 *)
ReconnectingEnds ==
  state = "Reconnecting" ~> \/ state # "Reconnecting"
                            \/ closed
                            \/ \E s \in Session : republish[s].step = "panicked"
=============================================================================
