--------------------------------- MODULE Room ---------------------------------
(***************************************************************************)
(* RoomSession: connection state, the tracks of the local participant, and *)
(* closing (livekit/src/room/mod.rs, participant/local_participant.rs).    *)
(*                                                                         *)
(* The room task handles the engine events one at a time.  Beside it run:  *)
(* a call of publish_track by the user for each track, the task that       *)
(* handle_restarted spawns, which publishes every track again, and close.  *)
(* They hold the session by leases of the engine (EngineEvents).           *)
(*                                                                         *)
(* A publication is named by the call of publish_track that made it: the   *)
(* pair of its track and First for the user's own, or the session after    *)
(* whose Restarted it was published again.                                 *)
(***************************************************************************)
EXTENDS EngineEvents, Naturals

CONSTANTS
  Track,      \* the local tracks; the user publishes each once
  MaxRounds   \* bound: how many reconnections begin

Publication == Track \X Session

ASSUME RoomAssumption ==
  /\ Caller = Publication /\ NoSession \notin Publication
  /\ {"user", "server", "retry"} \subseteq Closing
  /\ MaxRounds \in Nat

VARIABLES
  state,      \* RoomInfo.state
  publish,    \* each call of publish_track, and what became of its publication
  announce,   \* the dispatch of LocalTrackPublished, for each publication
  withdraw,   \* who has to dispatch its LocalTrackUnpublished, or did
  republish,  \* the task of handle_restarted, for each new session
  closeRoom,  \* RoomSession::close: its step and the publications it listed
  closeDue,   \* handle_disconnected spawned a close
  roomEvents, \* the room events the application has not received
  cleared,    \* the dispatcher has no receivers any more
  rounds      \* how many reconnections began (bound only)

roomVars == <<state, publish, announce, withdraw, republish, closeRoom,
              closeDue, roomEvents, cleared, rounds>>
roomAll == <<eventsVars, roomVars>>

(* What became of it, and the session create_sender worked on.              *)
PublishCall ==
  [step : {"idle", "unpublish", "withdraw", "add", "answer", "sender", "published",
           "unpublished", "removed", "failed"},
   sender : Session \cup {NoSession}]
RoomEvent == [type : {"Reconnecting", "Reconnected", "Disconnected"}, sid : {NoSession}]
        \cup [type : {"LocalTrackPublished", "LocalTrackUnpublished"}, sid : Publication]

Published == {p \in Publication : publish[p].step = "published"}

RoomTypeOK ==
  /\ state \in {"Connected", "Reconnecting", "Disconnected"}
  /\ publish \in [Publication -> PublishCall]
  /\ announce \in [Publication -> {"none", "due", "said", "late", "panicked"}]
  /\ withdraw \in [Publication -> {"none", "call", "task", "close", "said", "lost"}]
  /\ republish \in [Session -> [step : {"none", "spawned", "running", "panicked", "done"},
                                listed : SUBSET Publication]]
  /\ closeRoom \in [step : {"open", "unpublish", "engine", "await", "tasks", "closed"},
                    listed : SUBSET Publication]
  /\ closeDue \in BOOLEAN /\ cleared \in BOOLEAN
  /\ roomEvents \in Seq(RoomEvent)
  /\ rounds \in Nat

RoomInit ==
  /\ EventsInit
  /\ state = "Connected"
  /\ publish = [p \in Publication |-> [step |-> "idle", sender |-> NoSession]]
  /\ announce = [p \in Publication |-> "none"]
  /\ withdraw = [p \in Publication |-> "none"]
  /\ republish = [s \in Session |-> [step |-> "none", listed |-> {}]]
  /\ closeRoom = [step |-> "open", listed |-> {}]
  /\ closeDue = FALSE
  /\ roomEvents = <<>> /\ cleared = FALSE
  /\ rounds = 0

(* dispatcher.dispatch                                                      *)
Dispatched(types, sid) ==
  roomEvents \o [i \in DOMAIN types |-> [type |-> types[i], sid |-> sid]]
Dispatch(types, sid) == roomEvents' = IF cleared THEN roomEvents ELSE Dispatched(types, sid)

(* update_connection_state(new), and the events when it changed something.  *)
Become(new, types) ==
  /\ state' = new
  /\ Dispatch(IF state = new THEN <<>> ELSE types, NoSession)

-----------------------------------------------------------------------------
(* LocalParticipant::publish_track.                                         *)
Step(p, step) == publish' = [publish EXCEPT ![p].step = step]

PublishTrack(t) ==
  /\ publish[<<t, First>>].step = "idle"
  /\ Step(<<t, First>>, "add")
  /\ UNCHANGED <<state, announce, withdraw, republish, closeRoom, closeDue, roomEvents,
                 cleared, rounds, eventsVars>>

(* rtc_engine.add_track: the request is sent under the lease ...            *)
AddTrack(p) ==
  /\ publish[p].step = "add"
  /\ Acquire(p)
  /\ Step(p, "answer")
  /\ UNCHANGED <<state, announce, withdraw, republish, closeRoom, closeDue, roomEvents,
                 cleared, rounds>>

(* ... and answered with the sid, or refused, cancelled or timed out.       *)
TrackAdded(p) ==
  /\ publish[p].step = "answer"
  /\ Release(p)
  /\ Step(p, "sender") \/ Step(p, "failed")
  /\ UNCHANGED <<state, announce, withdraw, republish, closeRoom, closeDue, roomEvents,
                 cleared, rounds>>

(* rtc_engine.create_sender takes a lease of its own; there is no await     *)
(* after it.  add_publication puts the publication on the list ...          *)
CreateSender(p) ==
  /\ publish[p].step = "sender"
  /\ rec = "none" /\ ~closed
  /\ publish' = [publish EXCEPT ![p].step = "published", ![p].sender = current]
  /\ announce' = [announce EXCEPT ![p] = "due"]
  /\ UNCHANGED <<state, withdraw, republish, closeRoom, closeDue, roomEvents, cleared,
                 rounds,
                 eventsVars>>

(* ... and with the lock of the list released the handler of                *)
(* on_local_track_published takes the publication's track and dispatches.   *)
(* Who unpublished it meanwhile may have dispatched first, and the handler  *)
(* panics when it has taken the track away as well.                         *)
Announce(p) ==
  /\ announce[p] = "due"
  /\ LET withdrawn == withdraw[p] \in {"said", "lost"} IN
       \/ /\ announce' = [announce EXCEPT ![p] = IF withdrawn THEN "late" ELSE "said"]
          /\ Dispatch(<<"LocalTrackPublished">>, p)
       \/ /\ withdrawn
          /\ announce' = [announce EXCEPT ![p] = "panicked"]
          /\ UNCHANGED roomEvents
  /\ UNCHANGED <<state, publish, withdraw, republish, closeRoom, closeDue, cleared,
                 rounds, eventsVars>>

(* wait_reconnection refuses: the engine is closed.                         *)
PublishRefused(p) ==
  /\ publish[p].step \in {"add", "sender"}
  /\ rec = "none" /\ closed
  /\ Step(p, "failed")
  /\ UNCHANGED <<state, announce, withdraw, republish, closeRoom, closeDue, roomEvents,
                 cleared, rounds, eventsVars>>

(* LocalParticipant::unpublish_track takes the publication off the list.  On*)
(* a session that is being closed remove_track may fail, and it ends there: *)
(* nothing is said, the publication keeps its track.                        *)
TakenOff == {"unpublished"} \cup (IF engineTask THEN {} ELSE {"removed"})

Unpublish(p, who) ==
  \E gone \in TakenOff :
    /\ publish' = [publish EXCEPT ![p].step = gone]
    /\ withdraw' = IF gone = "unpublished" THEN [withdraw EXCEPT ![p] = who] ELSE withdraw

(* Else who took it off dispatches, and takes its track away.               *)
Withdraw(p) ==
  /\ withdraw' = [withdraw EXCEPT ![p] = IF cleared THEN "lost" ELSE "said"]
  /\ Dispatch(<<"LocalTrackUnpublished">>, p)

UnpublishTrack(p) ==
  /\ p \in Published
  /\ Unpublish(p, "call")
  /\ UNCHANGED <<state, announce, republish, closeRoom, closeDue, roomEvents, cleared,
                 rounds,
                 eventsVars>>

UnpublishTrackEnds(p) ==
  /\ withdraw[p] = "call"
  /\ Withdraw(p)
  /\ UNCHANGED <<state, publish, announce, republish, closeRoom, closeDue, cleared, rounds,
                 eventsVars>>

-----------------------------------------------------------------------------
(* room_task and on_engine_event.                                           *)

(* handle_resuming, handle_restarting.                                      *)
HandleReconnecting(e) ==
  /\ e.type \in FirstQuestion
  /\ Become("Reconnecting", <<"Reconnecting">>)
  /\ UNCHANGED <<republish, closeDue>>

(* handle_signal_resumed, handle_signal_restarted: an answer, as far as the *)
(* local participant goes.                                                  *)
HandleSignal(e) ==
  /\ e.type \in {"SignalResumed", "SignalRestarted"}
  /\ UNCHANGED <<state, roomEvents, republish, closeDue>>

HandleResumed(e) ==
  /\ e.type = "Resumed"
  /\ state' = "Connected"
  /\ Dispatch(<<"Reconnected">>, NoSession)
  /\ UNCHANGED <<republish, closeDue>>

(* Mutant: what was published is left to the old session.                   *)
HandleRestartedLeavesTracks(e) ==
  /\ e.type = "Restarted"
  /\ republish' = [republish EXCEPT ![e.session] = [step |-> "spawned", listed |-> {}]]
  /\ UNCHANGED <<state, roomEvents, closeDue>>

(* handle_restarted answers first and leaves the rest to a task.            *)
HandleRestarted(e) ==
  /\ e.type = "Restarted"
  /\ republish' = [republish EXCEPT ![e.session] = [step |-> "spawned",
                                                    listed |-> Published]]
  /\ UNCHANGED <<state, roomEvents, closeDue>>

HandleDisconnected(e) ==
  /\ e.type = "Disconnected"
  /\ Become("Disconnected", <<"Disconnected">>)
  /\ closeDue' = (closeDue \/ e.body # "client")
  /\ UNCHANGED republish

OnEngineEvent ==
  /\ Take
  /\ LET e == Head(chan) IN
       \/ HandleReconnecting(e) \/ HandleSignal(e) \/ HandleResumed(e)
       \/ HandleRestarted(e) \/ HandleDisconnected(e)
  /\ UNCHANGED <<publish, announce, withdraw, closeRoom, cleared, rounds>>

-----------------------------------------------------------------------------
(* The task of handle_restarted.                                            *)
TrackOf(p) == p[1]
Listed(s) == {TrackOf(p) : p \in republish[s].listed}

(* publication.track().unwrap() for everything it listed.  The panic drops  *)
(* the JoinSet and so aborts what it had spawned, but not in the middle of  *)
(* unpublish_track.                                                         *)
RepublishPanics(s) ==
  /\ republish' = [republish EXCEPT ![s].step = "panicked"]
  /\ \E begun \in SUBSET (republish[s].listed \cap Published) : \E gone \in [begun -> TakenOff] :
       /\ publish' = [p \in Publication |->
            IF p \in begun THEN [publish[p] EXCEPT !.step = gone[p]] ELSE publish[p]]
       /\ withdraw' = [p \in Publication |->
            IF p \in begun /\ gone[p] = "unpublished" THEN "call" ELSE withdraw[p]]

RepublishSpawns(s) ==
  /\ republish' = [republish EXCEPT ![s].step = "running"]
  /\ publish' = [p \in Publication |->
        IF p[2] = s /\ TrackOf(p) \in Listed(s)
        THEN [publish[p] EXCEPT !.step = "unpublish"] ELSE publish[p]]
  /\ UNCHANGED withdraw

RepublishStarts(s) ==
  /\ republish[s].step = "spawned"
  /\ IF \E p \in republish[s].listed : withdraw[p] \in {"said", "lost"}
     THEN RepublishPanics(s) ELSE RepublishSpawns(s)
  /\ UNCHANGED <<state, announce, closeRoom, closeDue, roomEvents, cleared, rounds,
                 eventsVars>>

(* One of its tracks: unpublish_track of the publication it listed, which   *)
(* may be gone ...                                                          *)
RepublishUnpublishes(p) ==
  /\ publish[p].step = "unpublish"
  /\ \E old \in republish[p[2]].listed : \E gone \in TakenOff :
       /\ TrackOf(old) = TrackOf(p)
       /\ LET withdraws == old \in Published /\ gone = "unpublished" IN
            /\ publish' = [publish EXCEPT
                 ![p].step = IF withdraws THEN "withdraw" ELSE "add",
                 ![old].step = IF old \in Published THEN gone ELSE @]
            /\ withdraw' = IF withdraws THEN [withdraw EXCEPT ![old] = "task"] ELSE withdraw
  /\ UNCHANGED <<state, announce, republish, closeRoom, closeDue, roomEvents, cleared,
                 rounds,
                 eventsVars>>

(* ... and then publish_track.                                              *)
RepublishWithdraws(p) ==
  /\ publish[p].step = "withdraw"
  /\ \E old \in republish[p[2]].listed :
       TrackOf(old) = TrackOf(p) /\ withdraw[old] = "task" /\ Withdraw(old)
  /\ Step(p, "add")
  /\ UNCHANGED <<state, announce, republish, closeRoom, closeDue, cleared, rounds,
                 eventsVars>>

(* Mutant: the first track that fails ends it.                              *)
RepublishEndsWhenAll(s) ==
  /\ republish[s].step = "running"
  /\ \A t \in Listed(s) : publish[<<t, s>>].step \in {"published", "unpublished", "removed"}
                            /\ announce[<<t, s>>] # "due"
  /\ republish' = [republish EXCEPT ![s].step = "done"]
  /\ state' = "Connected"
  /\ Dispatch(<<"Reconnected">>, NoSession)
  /\ UNCHANGED <<publish, announce, withdraw, closeRoom, closeDue, cleared, rounds,
                 eventsVars>>

(* set.join_next(): all were published and announced, failed, or panicked.  *)
RepublishEnds(s) ==
  /\ republish[s].step = "running"
  /\ \A t \in Listed(s) :
       /\ publish[<<t, s>>].step \in {"published", "unpublished", "removed", "failed"}
       /\ announce[<<t, s>>] # "due"
  /\ republish' = [republish EXCEPT ![s].step = "done"]
  /\ state' = "Connected"
  /\ Dispatch(<<"Reconnected">>, NoSession)
  /\ UNCHANGED <<publish, announce, withdraw, closeRoom, closeDue, cleared, rounds,
                 eventsVars>>

-----------------------------------------------------------------------------
(* RoomSession::close, called by the user or spawned.  Whoever takes the    *)
(* handle closes; the other is told AlreadyClosed.                          *)
CloseStarts ==
  /\ closeRoom.step = "open"
  /\ closeRoom' = [step |-> "unpublish", listed |-> Published]
  /\ UNCHANGED <<state, publish, announce, withdraw, republish, closeDue, roomEvents,
                 cleared, rounds, eventsVars>>

(* Mutant: close insists on unpublishing what is gone already.              *)
CloseUnpublishesAll(p) ==
  /\ closeRoom.step = "unpublish"
  /\ p \in closeRoom.listed /\ p \in Published
  /\ closeRoom' = [closeRoom EXCEPT !.listed = @ \ {p}]
  /\ Unpublish(p, "close")
  /\ UNCHANGED <<state, announce, republish, closeDue, roomEvents, cleared, rounds,
                 eventsVars>>

(* It unpublishes one publication after another ...                         *)
CloseUnpublishes(p) ==
  /\ closeRoom.step = "unpublish"
  /\ \A q \in Publication : withdraw[q] # "close"
  /\ p \in closeRoom.listed
  /\ closeRoom' = [closeRoom EXCEPT !.listed = @ \ {p}]
  /\ IF p \in Published THEN Unpublish(p, "close") ELSE UNCHANGED <<publish, withdraw>>
  /\ UNCHANGED <<state, announce, republish, closeDue, roomEvents, cleared, rounds,
                 eventsVars>>

CloseWithdraws(p) ==
  /\ withdraw[p] = "close"
  /\ Withdraw(p)
  /\ UNCHANGED <<state, publish, announce, republish, closeRoom, closeDue, cleared, rounds,
                 eventsVars>>

(* ... rtc_engine.close(reason).await ...                                   *)
CloseEngine ==
  /\ closeRoom.step = "unpublish" /\ closeRoom.listed = {}
  /\ \A p \in Publication : withdraw[p] # "close"
  /\ Shut("user")
  /\ closeRoom' = [closeRoom EXCEPT !.step = "await"]
  /\ UNCHANGED <<state, publish, announce, withdraw, republish, closeDue, roomEvents,
                 cleared, rounds>>

EngineClosed ==
  /\ closeRoom.step = "await"
  /\ "user" \notin closing
  /\ closeRoom' = [closeRoom EXCEPT !.step = "tasks"]
  /\ UNCHANGED <<state, publish, announce, withdraw, republish, closeDue, roomEvents,
                 cleared, rounds, eventsVars>>

(* ... close_tx.send, the tasks end, dispatcher.clear().                    *)
CloseEnds ==
  /\ closeRoom.step = "tasks"
  /\ Stop
  /\ closeRoom' = [closeRoom EXCEPT !.step = "closed"]
  /\ cleared' = TRUE
  /\ UNCHANGED <<state, publish, announce, withdraw, republish, closeDue, roomEvents,
                 rounds>>

-----------------------------------------------------------------------------
(* The application receives an event.                                       *)
Receive ==
  /\ roomEvents # <<>>
  /\ roomEvents' = Tail(roomEvents)
  /\ UNCHANGED <<state, publish, announce, withdraw, republish, closeRoom, closeDue,
                 cleared, rounds,
                 eventsVars>>

(* The engine: a reconnection begins, proceeds and ends; the server says    *)
(* Leave; a close() under way sends its Disconnected.                       *)
Reconnects ==
  /\ Reconnecting
  /\ rounds' = IF rec = "none" THEN rounds + 1 ELSE rounds
  /\ rounds' \leq MaxRounds
  /\ UNCHANGED <<state, publish, announce, withdraw, republish, closeRoom, closeDue,
                 roomEvents, cleared>>

EngineCloses ==
  /\ \/ ~closed /\ Shut("server") /\ rounds' = rounds + 1
     \/ rec = "givingUp" /\ Shut("retry") /\ UNCHANGED rounds
  /\ rounds' \leq MaxRounds
  /\ UNCHANGED <<state, publish, announce, withdraw, republish, closeRoom, closeDue,
                 roomEvents, cleared>>

EngineDisconnects ==
  /\ \/ Disconnect("server", current, "server")
     \/ Disconnect("retry", current, "unknown")
     \/ Disconnect("user", current, IF closeDue THEN "server" ELSE "client")
  /\ UNCHANGED roomVars

-----------------------------------------------------------------------------
RoomSteps ==
  \/ \E p \in Publication : \/ AddTrack(p) \/ TrackAdded(p) \/ CreateSender(p) \/ Announce(p)
                            \/ PublishRefused(p) \/ UnpublishTrackEnds(p)
                            \/ RepublishUnpublishes(p) \/ RepublishWithdraws(p)
                            \/ CloseUnpublishes(p) \/ CloseWithdraws(p)
  \/ OnEngineEvent
  \/ \E s \in Session : RepublishStarts(s) \/ RepublishEnds(s)
  \/ CloseEngine \/ EngineClosed \/ CloseEnds
  \/ EngineDisconnects

UserSteps ==
  \/ \E t \in Track : PublishTrack(t)
  \/ \E p \in Publication : UnpublishTrack(p)
  \/ CloseStarts

RoomNext == RoomSteps \/ UserSteps \/ Reconnects \/ EngineCloses \/ Receive

RoomSpec == RoomInit /\ [][RoomNext]_roomAll
-----------------------------------------------------------------------------
(* Nothing is under way that would change which session a track is in.      *)
Quiet ==
  /\ rec = "none" /\ ~closed /\ closeRoom.step = "open" /\ chan = <<>>
  /\ \A p \in Publication :
       publish[p].step \notin {"unpublish", "withdraw", "add", "answer", "sender"}
  /\ \A s \in Session : republish[s].step \notin {"spawned", "running", "panicked"}

(* Once everything has settled, what is published is sent on the session    *)
(* that is current (handle_restarted republishes, create_sender waits).     *)
SendersAreCurrent == Quiet => \A p \in Published : publish[p].sender = current

(* A restart began before the task of the one before had unpublished all    *)
(* that it listed, and its own task listed the same publication again: each *)
(* publishes the track, as neither minds that unpublish_track does not find *)
(* it (mod.rs:1331).  A third restart would find two publications of it,    *)
(* which this module gives one name.                                        *)
ListedTwice ==
  \E s, r \in Session : s # r /\ republish[s].listed \cap republish[r].listed # {}

(* No track is published twice, whoever publishes and unpublishes it.       *)
OnePublication ==
  \A p, q \in Published : TrackOf(p) = TrackOf(q) => p = q

(* The local tracks after any reconnections, publications and unpublications*)
(* that overlapped: each is on the current session, and published once,     *)
(* unless two restarts listed the same publication.                         *)
LocalTracksAreCurrent == ListedTwice \/ (SendersAreCurrent /\ OnePublication)
=============================================================================
