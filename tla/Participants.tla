----------------------------- MODULE Participants -----------------------------
(***************************************************************************)
(* The remote participants of a room and their publications                *)
(* (livekit/src/room/mod.rs, participant/remote_participant.rs).           *)
(*                                                                         *)
(* The server tells of a change by an update.  Updates stop while the      *)
(* connection resumes, and come afterwards; after a full reconnection the  *)
(* JoinResponse lists everybody instead, and nobody says who left.  Beside *)
(* the room task, a task for every media track looks for its publication   *)
(* and sets its track.                                                     *)
(***************************************************************************)
EXTENDS Naturals, Sequences

CONSTANTS
  Identity,     \* the remote participants
  RemoteTrack,  \* the tracks a participant may publish
  MaxSid,       \* bound: how often a participant joins
  MaxChanges,   \* bound: how often one publishes or stops to
  MaxTries,     \* bound: how often the connection is replaced
  MaxMedia      \* bound: how many media tracks arrive

ASSUME ParticipantsAssumption ==
  MaxSid \in Nat /\ MaxChanges \in Nat /\ MaxTries \in Nat /\ MaxMedia \in Nat

VARIABLES
  there,    \* the server's view: the sid (0: absent) and the tracks of each
  lastSid,  \* how often each joined
  changes, tries, \* bounds only
  link,     \* the connection
  held,     \* updates that are not handed to the room yet
  inbox,    \* the engine events about participants, for the room task
  list,     \* for each identity, is it in remote_participants, and its objects,
            \* of which the last one is
  media,    \* the tasks of handle_media_track
  mixed,    \* the next JoinResponse finds participants in the room (history)
  raced     \* publications that were removed while a task had them (history)

serverVars == <<there, lastSid, changes>>
linkVars == <<link, tries, held>>
participantVars == <<serverVars, linkVars, inbox, list, media, mixed, raced>>

Info == [identity : Identity, sid : 1..MaxSid, tracks : SUBSET RemoteTrack, gone : BOOLEAN]
InboxEvent == [type : {"update", "join", "restarting"}, infos : SUBSET Info]
Object == [sid : 1..MaxSid, published : SUBSET RemoteTrack, subscribed : SUBSET RemoteTrack]
IndexOf(p) == DOMAIN list[p].objects

ParticipantsTypeOK ==
  /\ there \in [Identity -> [sid : 0..MaxSid, tracks : SUBSET RemoteTrack]]
  /\ lastSid \in [Identity -> 0..MaxSid]
  /\ changes \in Nat /\ tries \in Nat
  /\ link \in {"up", "resuming", "leaving", "joining", "joined"}
  /\ held \in Seq(InboxEvent) /\ inbox \in Seq(InboxEvent)
  /\ list \in [Identity -> [known : BOOLEAN, objects : Seq(Object)]]
  /\ \A p \in Identity : list[p].known => list[p].objects # <<>>
  /\ media \in Seq([identity : Identity, index : Nat, track : RemoteTrack,
                    step : {"waiting", "found", "ended"}])
  /\ \A m \in DOMAIN media : media[m].index \in IndexOf(media[m].identity)
  /\ mixed \in BOOLEAN
  /\ raced \subseteq Identity \X Nat \X RemoteTrack

ParticipantsInit ==
  /\ there = [p \in Identity |-> [sid |-> 0, tracks |-> {}]]
  /\ lastSid = [p \in Identity |-> 0]
  /\ changes = 0 /\ tries = 0
  /\ link = "up" /\ held = <<>> /\ inbox = <<>>
  /\ list = [p \in Identity |-> [known |-> FALSE, objects |-> <<>>]]
  /\ media = <<>>
  /\ mixed = FALSE /\ raced = {}

-----------------------------------------------------------------------------
(* The server: a participant joins, perhaps again under another sid before  *)
(* it was seen to leave, publishes, stops publishing, or leaves.            *)
InfoOf(p, view) == [identity |-> p, sid |-> view.sid, tracks |-> view.tracks, gone |-> FALSE]

(* An update is forwarded; waits for the resume, or for the new session to  *)
(* be installed; or is nothing to a session that is given up.               *)
Told(info) ==
  LET update == [type |-> "update", infos |-> {info}] IN
  CASE link \in {"up", "leaving"} ->
         /\ inbox' = Append(inbox, update)
         /\ mixed' = (mixed \/ link = "leaving")
         /\ UNCHANGED held
    [] link \in {"resuming", "joined"} ->
         held' = Append(held, update) /\ UNCHANGED <<inbox, mixed>>
    [] OTHER -> UNCHANGED <<inbox, held, mixed>>

Joins(p) ==
  /\ lastSid[p] < MaxSid
  /\ lastSid' = [lastSid EXCEPT ![p] = @ + 1]
  /\ there' = [there EXCEPT ![p] = [sid |-> lastSid[p] + 1, tracks |-> {}]]
  /\ Told(InfoOf(p, there'[p]))
  /\ UNCHANGED <<changes, link, tries, list, media, raced>>

Changes(p, t) ==
  /\ there[p].sid # 0
  /\ changes < MaxChanges
  /\ changes' = changes + 1
  /\ there' = [there EXCEPT ![p].tracks = IF t \in @ THEN @ \ {t} ELSE @ \cup {t}]
  /\ Told(InfoOf(p, there'[p]))
  /\ UNCHANGED <<lastSid, link, tries, list, media, raced>>

Leaves(p) ==
  /\ there[p].sid # 0
  /\ there' = [there EXCEPT ![p] = [sid |-> 0, tracks |-> {}]]
  /\ Told([InfoOf(p, there[p]) EXCEPT !.gone = TRUE, !.tracks = {}])
  /\ UNCHANGED <<lastSid, changes, link, tries, list, media, raced>>

-----------------------------------------------------------------------------
(* The connection, as the engine replaces it.                               *)
RestartingEvent == [type |-> "restarting", infos |-> {}]
Try == tries < MaxTries /\ tries' = tries + 1

Resuming ==
  /\ link = "up" /\ Try
  /\ link' = "resuming"
  /\ UNCHANGED <<serverVars, held, inbox, list, media, mixed, raced>>

(* Resumed, or a new session installed: what was held is handed over.       *)
Up ==
  /\ link \in {"resuming", "joined"}
  /\ link = "joined" => inbox = <<>>
  /\ link' = "up"
  /\ inbox' = inbox \o held
  /\ held' = <<>>
  /\ UNCHANGED <<serverVars, tries, list, media, mixed, raced>>

(* A full reconnection asks the room first, while the old session goes on.  *)
RestartingAsked ==
  /\ link = "up" /\ Try
  /\ link' = "leaving"
  /\ inbox' = Append(inbox, RestartingEvent)
  /\ mixed' = FALSE
  /\ UNCHANGED <<serverVars, held, list, media, raced>>

(* The old session is closed once the room has answered.  A resume that     *)
(* turns into a restart does not ask.                                       *)
OldCloses ==
  /\ \/ link = "leaving" /\ RestartingEvent \notin {inbox[i] : i \in DOMAIN inbox}
        /\ UNCHANGED mixed
     \/ link = "resuming" /\ mixed' = TRUE
  /\ link' = "joining"
  /\ held' = <<>>
  /\ UNCHANGED <<serverVars, tries, inbox, list, media, raced>>

NewJoins ==
  /\ link = "joining"
  /\ link' = "joined"
  /\ inbox' = Append(inbox, [type |-> "join", infos |->
                {InfoOf(p, there[p]) : p \in {q \in Identity : there[q].sid # 0}}])
  /\ UNCHANGED <<serverVars, tries, held, list, media, mixed, raced>>

(* The attempt fails after SignalRestarted was answered; the next one does  *)
(* not ask the room to remove anybody.                                      *)
NewFails ==
  /\ link = "joined" /\ inbox = <<>> /\ Try
  /\ link' = "joining"
  /\ held' = <<>>
  /\ mixed' = TRUE
  /\ UNCHANGED <<serverVars, inbox, list, media, raced>>

-----------------------------------------------------------------------------
(* The room task.                                                           *)
LastOf(objects) == objects[Len(objects)]

(* handle_participant_disconnect: its publications go, too.                 *)
Disconnected(l) ==
  [known |-> FALSE,
   objects |-> [l.objects EXCEPT ![Len(l.objects)] =
                  [@ EXCEPT !.published = {}, !.subscribed = {}]]]

(* create_participant                                                       *)
Created(l, sid) ==
  [known |-> TRUE,
   objects |-> Append(l.objects, [sid |-> sid, published |-> {}, subscribed |-> {}])]

(* RemoteParticipant::update_info, with unpublish_track                     *)
WithTracks(l, tracks) ==
  LET last == LastOf(l.objects) IN
  [l EXCEPT !.objects[Len(l.objects)] =
     [last EXCEPT !.published = tracks, !.subscribed = @ \cap tracks]]

(* Mutant: one that came back under another sid is taken for the old one.   *)
UpdatedSameIdentity(l, info) ==
  CASE info.gone /\ l.known   -> Disconnected(l)
    [] info.gone /\ ~l.known  -> l
    [] ~info.gone /\ l.known  -> WithTracks(l, info.tracks)
    [] ~info.gone /\ ~l.known -> WithTracks(Created(l, info.sid), info.tracks)

(* handle_participant_update, for one ParticipantInfo: another sid, even of *)
(* one that left, removes the participant first.                            *)
Updated(l, info) ==
  LET other == l.known /\ LastOf(l.objects).sid # info.sid
      rest  == IF other THEN Disconnected(l) ELSE l
  IN CASE info.gone /\ rest.known   -> Disconnected(rest)
       [] info.gone /\ ~rest.known  -> rest
       [] ~info.gone /\ rest.known  -> WithTracks(rest, info.tracks)
       [] ~info.gone /\ ~rest.known -> WithTracks(Created(rest, info.sid), info.tracks)

(* ParticipantUpdate, handle_signal_restarted.                              *)
HandleUpdate(e) ==
  /\ e.type \in {"update", "join"}
  /\ list' = [p \in Identity |->
       LET infos == {i \in e.infos : i.identity = p} IN
       IF infos = {} THEN list[p] ELSE Updated(list[p], CHOOSE i \in infos : TRUE)]

(* handle_restarting                                                        *)
HandleRestarting(e) ==
  /\ e.type = "restarting"
  /\ list' = [p \in Identity |-> IF list[p].known THEN Disconnected(list[p]) ELSE list[p]]

HandleInbox ==
  /\ inbox # <<>>
  /\ inbox' = Tail(inbox)
  /\ HandleUpdate(Head(inbox)) \/ HandleRestarting(Head(inbox))
  /\ UNCHANGED <<serverVars, linkVars, media, mixed, raced>>

(* handle_media_track, for a track that the server sends.                   *)
HandleMediaTrack(p, t) ==
  /\ list[p].known
  /\ LastOf(list[p].objects).sid = there[p].sid /\ t \in there[p].tracks
  /\ Len(media) < MaxMedia
  /\ media' = Append(media, [identity |-> p, index |-> Len(list[p].objects),
                             track |-> t, step |-> "waiting"])
  /\ UNCHANGED <<serverVars, linkVars, inbox, list, mixed, raced>>

-----------------------------------------------------------------------------
(* RemoteParticipant::add_subscribed_media_track.                           *)
ObjectOf(m) == list[media[m].identity].objects[media[m].index]
MediaStep(m, step) == media' = [media EXCEPT ![m].step = step]

PublicationFound(m) ==
  /\ media[m].step = "waiting"
  /\ media[m].track \in ObjectOf(m).published
  /\ MediaStep(m, "found")
  /\ UNCHANGED <<serverVars, linkVars, inbox, list, mixed, raced>>

PublicationTimeout(m) ==
  /\ media[m].step = "waiting"
  /\ MediaStep(m, "ended")
  /\ UNCHANGED <<serverVars, linkVars, inbox, list, mixed, raced>>

(* add_publication puts it back, if the room task removed it meanwhile.     *)
TrackSubscribed(m) ==
  /\ media[m].step = "found"
  /\ MediaStep(m, "ended")
  /\ LET p == media[m].identity  i == media[m].index  t == media[m].track IN
       /\ list' = [list EXCEPT ![p].objects[i] =
            [ObjectOf(m) EXCEPT !.published = @ \cup {t}, !.subscribed = @ \cup {t}]]
       /\ raced' = IF t \in ObjectOf(m).published THEN raced ELSE raced \cup {<<p, i, t>>}
  /\ UNCHANGED <<serverVars, linkVars, inbox, mixed>>

-----------------------------------------------------------------------------
ParticipantsNext ==
  \/ \E p \in Identity : \/ Joins(p) \/ Leaves(p)
                         \/ \E t \in RemoteTrack : Changes(p, t) \/ HandleMediaTrack(p, t)
  \/ Resuming \/ Up \/ RestartingAsked \/ OldCloses \/ NewJoins \/ NewFails
  \/ HandleInbox
  \/ \E m \in DOMAIN media : PublicationFound(m) \/ PublicationTimeout(m) \/ TrackSubscribed(m)

ParticipantsSpec == ParticipantsInit /\ [][ParticipantsNext]_participantVars
-----------------------------------------------------------------------------
Raced(p, i) == {t \in RemoteTrack : <<p, i, t>> \in raced}

(* Once the connection is up and every event handled, whatever was missed   *)
(* meanwhile, the room lists those the server has, under their sid and with *)
(* their publications (but for those a task put back) ...                   *)
ListsWhoIsThere ==
  link = "up" /\ inbox = <<>> =>
    \A p \in Identity :
      there[p].sid # 0 =>
        /\ list[p].known
        /\ LastOf(list[p].objects).sid = there[p].sid
        /\ LET put == Raced(p, Len(list[p].objects)) IN
             LastOf(list[p].objects).published \ put = there[p].tracks \ put

(* ... and nobody else, unless the JoinResponse came with participants in   *)
(* the room: after a resume that turned into a restart, a failed restart,   *)
(* or an update between Restarting and the end of the old session.          *)
ListsNobodyElse ==
  link = "up" /\ inbox = <<>> /\ ~mixed =>
    \A p \in Identity : there[p].sid = 0 => ~list[p].known

(* A participant that was removed, or replaced under a new sid, is left     *)
(* without publications, also by the tasks that subscribe.                  *)
GoneHaveNothing ==
  \A p \in Identity : \A i \in IndexOf(p) :
    i < Len(list[p].objects) \/ ~list[p].known =>
      list[p].objects[i].published \subseteq Raced(p, i)

(* The list of remote participants follows the server through reconnections *)
(* (handle_participant_update, handle_signal_restarted).                    *)
ParticipantsAreCurrent == ListsWhoIsThere /\ ListsNobodyElse /\ GoneHaveNothing
=============================================================================
