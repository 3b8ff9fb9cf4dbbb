--------------------------- MODULE ParticipantStream ---------------------------
(***************************************************************************)
(* The audio or video stream of a participant and a source, behind the FFI *)
(* (livekit-ffi/src/server/utils.rs, audio_stream.rs, video_stream.rs).    *)
(*                                                                         *)
(* track_changed_trigger follows the room events and hands the tracks of   *)
(* the source to the task of the stream over a channel that holds one; it  *)
(* says over a broadcast channel that a track is finished.  The task has a *)
(* native stream for one track at a time, and a watcher that ends it when  *)
(* a track finishes.  A track stands for one subscription.                 *)
(***************************************************************************)
EXTENDS Naturals, Sequences

CONSTANTS
  MediaTrack,  \* the subscribed tracks, ever, of the participant and source
  NoTrack      \* the absence of one

ASSUME ParticipantStreamAssumption == NoTrack \notin MediaTrack

VARIABLES
  kind,       \* "audio" or "video"
  subscribed, \* each track: to be subscribed, subscribed, or unsubscribed
  left,       \* the participant left the room, or the room disconnected
  trigger,    \* track_changed_trigger: its step, and the publications it listed
  roomRx,     \* its receiver of room events
  trackChan,  \* the channel of tracks
  streamTask, \* the task of the stream: its step, and the track it works on
  finished,   \* the watcher got a finished track, of any name
  missed,     \* tracks that were finished before they had a watcher or the
              \* trigger its receiver; NoTrack if the participant left so (history)
  dropped,    \* the client dropped the handle of the stream
  eos         \* the client was told of the end

trackVars == <<subscribed, left>>
triggerVars == <<trigger, roomRx>>
taskVars == <<streamTask, finished, dropped, eos>>
participantStreamVars == <<kind, trackVars, triggerVars, trackChan, taskVars, missed>>

TrackEvent == {"subscribed", "unsubscribed"} \X MediaTrack \cup {<<"left", NoTrack>>}

ParticipantStreamTypeOK ==
  /\ kind \in {"audio", "video"}
  /\ subscribed \in [MediaTrack -> {"before", "now", "after"}]
  /\ trigger \in [step : {"start", "listing", "events", "ended"},
                  tracks : SUBSET MediaTrack]
  /\ roomRx \in Seq(TrackEvent)
  /\ trackChan \in Seq(MediaTrack) /\ Len(trackChan) \leq 1
  /\ streamTask \in [step : {"waiting", "streaming", "ended"}, track : MediaTrack \cup {NoTrack}]
  /\ missed \subseteq MediaTrack \cup {NoTrack}
  /\ {left, finished, dropped, eos} \subseteq BOOLEAN

ParticipantStreamInit ==
  /\ kind \in {"audio", "video"}
  /\ subscribed = [t \in MediaTrack |-> "before"] /\ left = FALSE
  /\ trigger = [step |-> "start", tracks |-> {}] /\ roomRx = <<>>
  /\ trackChan = <<>>
  /\ streamTask = [step |-> "waiting", track |-> NoTrack] /\ finished = FALSE
  /\ missed = {}
  /\ dropped = FALSE /\ eos = FALSE

-----------------------------------------------------------------------------
(* The room: a track is subscribed, unsubscribed.  A trigger without a      *)
(* receiver does not hear of it.                                            *)
Hears == trigger.step \notin {"start", "listing"}
Heard(event) == roomRx' = IF Hears THEN Append(roomRx, event) ELSE roomRx
Unheard(t) == missed' = IF Hears THEN missed ELSE missed \cup {t}

RoomSubscribes(t) ==
  /\ subscribed[t] = "before" /\ ~left
  /\ subscribed' = [subscribed EXCEPT ![t] = "now"]
  /\ Heard(<<"subscribed", t>>)
  /\ UNCHANGED <<kind, left, trigger, trackChan, taskVars, missed>>

RoomUnsubscribes(t) ==
  /\ subscribed[t] = "now" /\ ~left
  /\ subscribed' = [subscribed EXCEPT ![t] = "after"]
  /\ Heard(<<"unsubscribed", t>>) /\ Unheard(t)
  /\ UNCHANGED <<kind, left, trigger, trackChan, taskVars>>

(* RoomEvent::Disconnected, or the last of the room events: the tracks stay *)
(* subscribed as they are.                                                  *)
RoomDisconnects ==
  /\ ~left
  /\ left' = TRUE
  /\ Heard(<<"left", NoTrack>>) /\ Unheard(NoTrack)
  /\ UNCHANGED <<kind, subscribed, trigger, trackChan, taskVars>>

(* ParticipantDisconnected comes after the tracks of the participant.       *)
ParticipantLeaves ==
  /\ \A t \in MediaTrack : subscribed[t] # "now"
  /\ RoomDisconnects

-----------------------------------------------------------------------------
(* track_changed_trigger lists the publications, sends their tracks one by  *)
(* one, and only then subscribes to the room events.                        *)
TriggerLists ==
  /\ trigger.step = "start"
  /\ trigger' = [step |-> "listing", tracks |-> {t \in MediaTrack : subscribed[t] # "after"}]
  /\ UNCHANGED <<kind, trackVars, roomRx, trackChan, taskVars, missed>>

(* track_tx.send waits for room, and fails when the task has ended.         *)
SendTrack(t) ==
  IF streamTask.step = "ended" THEN UNCHANGED trackChan
  ELSE trackChan = <<>> /\ trackChan' = <<t>>

TriggerSendsListed(t) ==
  /\ trigger.step = "listing" /\ t \in trigger.tracks
  /\ IF subscribed[t] = "now" THEN SendTrack(t) ELSE UNCHANGED trackChan
  /\ trigger' = [trigger EXCEPT !.tracks = @ \ {t}]
  /\ UNCHANGED <<kind, trackVars, roomRx, taskVars, missed>>

TriggerSubscribes ==
  /\ trigger.step = "listing" /\ trigger.tracks = {}
  /\ trigger' = [trigger EXCEPT !.step = "events"]
  /\ UNCHANGED <<kind, trackVars, roomRx, trackChan, taskVars, missed>>

HearsSubscribed(t) ==
  /\ SendTrack(t)
  /\ UNCHANGED <<trigger, finished, missed>>

(* Mutant: nobody is told.                                                  *)
HearsUnsubscribedSilently(t) ==
  /\ missed' = IF streamTask.track # t THEN missed \cup {t} ELSE missed
  /\ UNCHANGED <<trigger, trackChan, finished>>

(* track_finished_tx.send: who has no watcher yet will not hear of it.      *)
HearsUnsubscribed(t) ==
  /\ IF streamTask.step = "streaming" THEN finished' = TRUE ELSE UNCHANGED finished
  /\ missed' = IF streamTask.track # t THEN missed \cup {t} ELSE missed
  /\ UNCHANGED <<trigger, trackChan>>

HearsLeft ==
  /\ trigger' = [trigger EXCEPT !.step = "ended"]
  /\ UNCHANGED <<trackChan, finished, missed>>

TriggerHears ==
  /\ trigger.step = "events" /\ roomRx # <<>>
  /\ roomRx' = Tail(roomRx)
  /\ LET event == Head(roomRx)[1]  t == Head(roomRx)[2] IN
       CASE event = "subscribed"   -> HearsSubscribed(t)
         [] event = "unsubscribed" -> HearsUnsubscribed(t)
         [] event = "left"         -> HearsLeft
  /\ UNCHANGED <<kind, trackVars, streamTask, dropped, eos>>

-----------------------------------------------------------------------------
(* participant_audio_stream_task, participant_video_stream_task.            *)
EndsWith(told) ==
  /\ streamTask' = [step |-> "ended", track |-> NoTrack]
  /\ eos' = told
  /\ finished' = FALSE

(* It takes a track, and starts a native stream and its watcher.            *)
TaskTakes ==
  /\ streamTask.step = "waiting" /\ trackChan # <<>>
  /\ trackChan' = <<>>
  /\ streamTask' = [step |-> "streaming", track |-> Head(trackChan)]
  /\ UNCHANGED <<kind, trackVars, triggerVars, finished, dropped, eos, missed>>

(* The watcher returns, and the native stream ends.                         *)
NativeEnds ==
  /\ streamTask.step = "streaming" /\ finished
  /\ streamTask' = [step |-> "waiting", track |-> NoTrack]
  /\ finished' = FALSE
  /\ UNCHANGED <<kind, trackVars, triggerVars, trackChan, dropped, eos, missed>>

(* No sender of tracks is left.                                             *)
TracksDone ==
  /\ streamTask.step = "waiting" /\ trackChan = <<>> /\ trigger.step = "ended"
  /\ EndsWith(TRUE)
  /\ UNCHANGED <<kind, trackVars, triggerVars, trackChan, dropped, missed>>

(* The handle is gone: seen while a native stream runs, and by audio also   *)
(* while it waits for a track; video then says nothing to the client.       *)
CloseSeen ==
  /\ dropped
  /\ streamTask.step = "streaming" \/ (streamTask.step = "waiting" /\ kind = "audio")
  /\ trackChan' = <<>>
  /\ EndsWith(kind = "audio")
  /\ UNCHANGED <<kind, trackVars, triggerVars, dropped, missed>>

DropStreamHandle ==
  /\ ~dropped
  /\ dropped' = TRUE
  /\ UNCHANGED <<kind, trackVars, triggerVars, trackChan, streamTask, finished, eos, missed>>

-----------------------------------------------------------------------------
Trigger == \/ TriggerLists \/ TriggerSubscribes \/ TriggerHears
           \/ \E t \in MediaTrack : TriggerSendsListed(t)
StreamTask == TaskTakes \/ NativeEnds \/ TracksDone

ParticipantStreamNext ==
  \/ \E t \in MediaTrack : RoomSubscribes(t) \/ RoomUnsubscribes(t)
  \/ ParticipantLeaves \/ RoomDisconnects
  \/ Trigger \/ StreamTask \/ CloseSeen \/ DropStreamHandle

ParticipantStreamSpec == ParticipantStreamInit /\ [][ParticipantStreamNext]_participantStreamVars

(* The tasks are scheduled.                                                 *)
ParticipantStreamFairness ==
  /\ WF_participantStreamVars(Trigger)
  /\ WF_participantStreamVars(StreamTask)
  /\ WF_participantStreamVars(CloseSeen)
-----------------------------------------------------------------------------
(* The native stream runs on for a track that is finished, and nothing but  *)
(* the end of another track would tell: the message came too early, or the  *)
(* trigger waits for room in the channel before it.                         *)
Deaf ==
  /\ streamTask.step = "streaming"
  /\ \/ streamTask.track \in missed
     \/ trackChan # <<>> /\ roomRx # <<>> /\ Head(roomRx)[1] = "subscribed"

(* A native stream ends after its track, whatever tracks come and go        *)
(* meanwhile, unless it is deaf to it.                                      *)
TrackEnds ==
  \A t \in MediaTrack :
    streamTask.track = t /\ subscribed[t] = "after" ~> streamTask.track # t \/ Deaf

(* The room disconnected with its track subscribed: nobody says that the    *)
(* track is finished, and the native stream runs on.                        *)
Abandoned == left /\ \E t \in MediaTrack : streamTask.track = t /\ subscribed[t] = "now"

(* The stream ends after its participant left, or the room disconnected,    *)
(* unless it is deaf or abandoned or the trigger missed that; and after its *)
(* handle was dropped, unless it is a video stream that waits for a track.  *)
ParticipantStreamEnds ==
  /\ left ~> streamTask.step = "ended" \/ Deaf \/ Abandoned \/ NoTrack \in missed
  /\ dropped ~> \/ streamTask.step = "ended"
                \/ kind = "video" /\ streamTask.step = "waiting"

(* The native streams and the stream itself end with what they follow.      *)
TracksEnd == TrackEnds /\ ParticipantStreamEnds
=============================================================================
