-------------------------------- MODULE Handles --------------------------------
(***************************************************************************)
(* The handles the FFI server keeps for its client, and who is told when   *)
(* the handle of a track is dropped (livekit-ffi/src/server/mod.rs, with   *)
(* FfiRoom::close and the from_track of audio and video streams).          *)
(*                                                                         *)
(* Both tables are concurrent maps: each call of theirs is atomic, but     *)
(* requests of the client come on threads of its own, and the tasks of the *)
(* server run beside them.                                                 *)
(***************************************************************************)
EXTENDS Naturals

CONSTANTS
  Handle,   \* the handles of tracks
  Watcher,  \* requests for a stream of a track
  Dropper   \* calls that drop a handle: livekit_ffi_drop_handle, FfiRoom::close

ASSUME HandlesAssumption == {} \notin Watcher   \* NoEntry is no set of watchers

VARIABLES
  ffi_handles,        \* what is stored under each handle, or nothing
  handle_dropped_txs, \* the senders kept for each handle, or no entry
  watcher,            \* each request: its step and its handle
  dropper,            \* each drop: its step, its handle, and whether a room closes
  notified,           \* the streams whose receiver resolved
  emptied,            \* senders that another first request dropped (history)
  late                \* requests that looked up the track before it was dropped,
                      \* and left their sender after it (history)

handlesVars == <<ffi_handles, handle_dropped_txs, watcher, dropper, notified, emptied, late>>

NoEntry == {{}}

HandlesTypeOK ==
  /\ ffi_handles \in [Handle -> {"track", "empty", "nothing"}]
  /\ handle_dropped_txs \in [Handle -> (SUBSET Watcher) \cup {NoEntry}]
  /\ watcher \in [Watcher -> [step : {"idle", "look", "insert", "push", "stream", "panicked",
                                      "refused"}, handle : Handle]]
  /\ dropper \in [Dropper -> [step : {"idle", "notify", "store", "done"}, handle : Handle,
                              room : BOOLEAN]]
  /\ notified \subseteq Watcher /\ emptied \subseteq Watcher /\ late \subseteq Watcher

HandlesInit ==
  /\ ffi_handles = [h \in Handle |-> "track"]
  /\ handle_dropped_txs = [h \in Handle |-> NoEntry]
  /\ watcher \in [Watcher -> [step : {"idle"}, handle : Handle]]
  /\ dropper \in [Dropper -> [step : {"idle"}, handle : Handle, room : BOOLEAN]]
  /\ notified = {} /\ emptied = {} /\ late = {}

Watches(w, step) == watcher' = [watcher EXCEPT ![w].step = step]
Drops(d, step) == dropper' = [dropper EXCEPT ![d].step = step]
Senders(h) == IF handle_dropped_txs[h] = NoEntry THEN {} ELSE handle_dropped_txs[h]

-----------------------------------------------------------------------------
(* from_track: retrieve_handle::<FfiTrack>, cloned, ...                     *)
Retrieve(w) ==
  /\ watcher[w].step = "idle"
  /\ Watches(w, IF ffi_handles[watcher[w].handle] = "track" THEN "look" ELSE "refused")
  /\ UNCHANGED <<ffi_handles, handle_dropped_txs, dropper, notified, emptied, late>>

(* ... then watch_handle_dropped: is there an entry ...                     *)
Look(w) ==
  /\ watcher[w].step = "look"
  /\ Watches(w, IF handle_dropped_txs[watcher[w].handle] = NoEntry THEN "insert" ELSE "push")
  /\ UNCHANGED <<ffi_handles, handle_dropped_txs, dropper, notified, emptied, late>>

(* ... an empty one goes in, over one that may have come meanwhile ...      *)
Insert(w) ==
  /\ watcher[w].step = "insert"
  /\ Watches(w, "push")
  /\ LET h == watcher[w].handle IN
       /\ handle_dropped_txs' = [handle_dropped_txs EXCEPT ![h] = {}]
       /\ notified' = notified \cup Senders(h)
       /\ emptied' = emptied \cup Senders(h)
  /\ UNCHANGED <<ffi_handles, dropper, late>>

(* ... and get_mut().unwrap() for the sender: it panics when the handle was *)
(* dropped in between.                                                      *)
Push(w) ==
  /\ watcher[w].step = "push"
  /\ LET h == watcher[w].handle IN
       IF handle_dropped_txs[h] = NoEntry
       THEN Watches(w, "panicked") /\ UNCHANGED <<handle_dropped_txs, late>>
       ELSE /\ Watches(w, "stream")
            /\ handle_dropped_txs' = [handle_dropped_txs EXCEPT ![h] = @ \cup {w}]
            /\ late' = IF /\ ffi_handles[h] # "track"
                          /\ \A d \in Dropper : dropper[d].handle = h => dropper[d].step # "notify"
                       THEN late \cup {w} ELSE late
  /\ UNCHANGED <<ffi_handles, dropper, notified, emptied>>

-----------------------------------------------------------------------------
(* drop_handle: the object goes, then the senders.                          *)
RemoveHandle(d) ==
  /\ dropper[d].step = "idle"
  /\ dropper' = [dropper EXCEPT ![d].step = "notify",
                               ![d].room = @ /\ ffi_handles[dropper[d].handle] # "nothing"]
  /\ ffi_handles' = [ffi_handles EXCEPT ![dropper[d].handle] = "nothing"]
  /\ UNCHANGED <<handle_dropped_txs, watcher, notified, emptied, late>>

(* Mutant: closing a room tells nobody.                                     *)
NotifyUnlessRoom(d) ==
  /\ dropper[d].step = "notify"
  /\ LET h == dropper[d].handle IN
       IF dropper[d].room
       THEN UNCHANGED <<handle_dropped_txs, notified>>
       ELSE /\ handle_dropped_txs' = [handle_dropped_txs EXCEPT ![h] = NoEntry]
            /\ notified' = notified \cup Senders(h)
  /\ Drops(d, IF dropper[d].room THEN "store" ELSE "done")
  /\ UNCHANGED <<ffi_handles, watcher, emptied, late>>

(* FfiRoom::close goes on to store an empty object when there was one.      *)
Notify(d) ==
  /\ dropper[d].step = "notify"
  /\ LET h == dropper[d].handle IN
       /\ handle_dropped_txs' = [handle_dropped_txs EXCEPT ![h] = NoEntry]
       /\ notified' = notified \cup Senders(h)
  /\ Drops(d, IF dropper[d].room THEN "store" ELSE "done")
  /\ UNCHANGED <<ffi_handles, watcher, emptied, late>>

StoreEmpty(d) ==
  /\ dropper[d].step = "store"
  /\ Drops(d, "done")
  /\ ffi_handles' = [ffi_handles EXCEPT ![dropper[d].handle] = "empty"]
  /\ UNCHANGED <<handle_dropped_txs, watcher, notified, emptied, late>>

HandlesNext ==
  \/ \E w \in Watcher : Retrieve(w) \/ Look(w) \/ Insert(w) \/ Push(w)
  \/ \E d \in Dropper : RemoveHandle(d) \/ Notify(d) \/ StoreEmpty(d)

HandlesSpec == HandlesInit /\ [][HandlesNext]_handlesVars
-----------------------------------------------------------------------------
(* A stream is told when the handle of its track was dropped, and only      *)
(* then: however requests and drops overlap, it is left alone only if its   *)
(* sender came after the drop, and told too early only if it shared the     *)
(* first look at the table with another request.                            *)
StreamsAreTold ==
  \A w \in Watcher :
    LET h == watcher[w].handle IN
    watcher[w].step = "stream" =>
      /\ w \in notified => ffi_handles[h] # "track" \/ w \in emptied
      /\ /\ ffi_handles[h] # "track"
         /\ \A d \in Dropper : dropper[d].handle = h => dropper[d].step # "notify"
         => w \in notified \cup late
=============================================================================
