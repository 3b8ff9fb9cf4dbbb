# Verification of dn_livekit_ffi

TLA+ models of the LiveKit client in this repository, the TLC runs that check
them on small instances, and TLAPS proofs of what matters most for every value
of the constants. Paths are relative to the repository (`src/` is its root);
`PROJECT.json` maps each definition to the lines it translates.

## The system

A client that joins a LiveKit room over a signalling websocket and two WebRTC
peer connections (`docs/architecture.md`). From the bottom up:

| component | code | state | operations | module |
|---|---|---|---|---|
| libwebrtc bindings | `libwebrtc`, `webrtc-sys` | C++ peer connections, data channels, tracks | external here | |
| SignalClient | `livekit-api/src/signal_client` | stream (RwLock), queue (Mutex), `reconnecting`, signal task | `send`, `flush_queue`, `restart`, `close` | `SignalQueue` |
| PeerTransport | `livekit/src/rtc_engine/peer_transport.rs` | pending candidates, `renegotiate`, `restarting_ice` under an async mutex | `create_and_send_offer`, `set_remote_description`, `add_ice_candidate` | `Negotiation` |
| RtcSession | `rtc_engine/rtc_session.rs` | two PeerTransports, a SignalClient, negotiation queue and debouncer, three tasks (rtc, signal, data channel), pending tracks and requests | `publish_data`, negotiation, `add_track`, `restart`, `restart_publisher`, `close` | `Negotiation`, `ReliableChannel` |
| RtcEngine | `rtc_engine/mod.rs` | `EngineHandle` (session, flags, engine task), `reconnecting_lock`, engine events | `close`, `wait_reconnection`, `reconnection_needed`, resume and full restart | `RtcEngine`, abstract: `SessionLease`, `EngineEvents` |
| Room | `room/mod.rs` | connection state, participants, publications, room task, republishing task | handles engine events and answers them, republishes, closes | `Room`, `Participants` |
| Participants, tracks | `room/participant`, `room/publication`, `room/track` | publications, subscriptions | publish, unpublish, (un)subscribe | `Room`, `Participants` |
| RPC | `room/participant/rpc.rs`, `local_participant.rs` | pending acks and responses, registered methods | `perform_rpc`, incoming request, ack, response | `Rpc` |
| Data streams | `room/data_stream` | open streams, progress, writers | header, chunk, trailer; write, close, drop | `DataStream` |
| FFI server | `livekit-ffi/src/server` | handle table, drop notifications, rooms with their tasks and pending sets, streams | requests, callbacks, events, handle drops | `FfiRoom`, `Handles`, `ParticipantStream`, `Rpc` |
| Utilities | `room/utils`, `livekit-protocol/src/debouncer.rs` | TxQueue, TtlMap, debouncer, utf8 chunks | pure or small | TxQueue in `ReliableChannel`, debouncer in `Negotiation` |
| E2EE manager | `room/e2ee` | frame cryptors by track | driven by room events | |
| Conversions, imaging, resampling, tokens, services | `livekit-ffi/src/conversion`, `imgproc`, `yuv-sys`, `soxr-sys`, `livekit-api` | none to speak of | arithmetic, encoding, HTTP | |

How they interact: a session emits `SessionEvent`s into a channel; the engine
task handles them one at a time and emits `EngineEvent`s; the room task handles
those one at a time and dispatches `RoomEvent`s, which a task of the FFI server
forwards to its client one at a time, among the callbacks that other tasks send.
Reconnection events carry a oneshot that the reconnect task awaits before it
goes on. API calls of the room go through `wait_reconnection`, whose read guard
keeps a reconnection out while the call uses the session. Everything runs as
tokio tasks on several threads, so every await, and every release of a lock, is
a place where another task runs.

What is hard: tasks that meet in two locks, or in a lock and a channel;
reconnections that race close, a Leave of the server, API calls, events of the
old session, and each other's aftermath (the task that publishes tracks again);
offers that cross answers, retries and timeouts; packets lost with a transport
and sent again; calls that must be answered on every path; two tasks that tell a
client about one track in an order it relies on; a table looked at, changed by
someone else, and used. `PROJECT.json` lists these hazards at their lines, with
the properties that catch them or the reason why none does.

What makes each component correct, in a sentence: the engine never lets an old
session act or speak once a new one is in place, and every reconnection and
close ends; the channel and the signal queue lose, repeat or reorder nothing
beyond what a lost connection excuses; a negotiation happens for every request
and never twice at once; a room's tracks and participants follow the current
session; a client's every request is answered, in order; a stream, a call, a
watcher ends truthfully when what it depends on has ended.

## How the modules fit together

    RtcEngine  --LeaseSpec-->  SessionLease          (refinement, checked and proved)
    RtcEngine  --EventsSpec--> EngineEvents          (refinement, checked and proved)
    EngineEvents <--EXTENDS-- Room <--EXTENDS-- FfiRoom

`EngineEvents` is what a room may rely on: the order of the engine's events, the
answers they wait for, when a call may hold the current session, what a closed
engine still says. `RtcEngine` implements it, so that `Room` and `FfiRoom`,
which are built on the abstract one, hold on the real one as far as safety goes,
without multiplying the two state spaces. `Negotiation`, `ReliableChannel`,
`SignalQueue`, `Participants`, `DataStream`, `Rpc`, `ParticipantStream` and
`Handles` are components of their own: what they need of their surroundings (a
lost connection, a resume, a lossy channel, a closed room) is an action of
theirs. `MCComponents` runs several of them in one run, one at a time, chosen by
`part` in the initial state; it states the fairness of each for its part.

### RtcEngine (`RtcEngine`, abstract `SessionLease` and `EngineEvents`)

State: `handle` is `running_handle` (with `task` for `engine_task`), `session`
and `task` say what became of every RtcSession and its engine task, `inbox` and
`events` are the two channels, `rc` is the reconnect task with its attempt and
the session it has not installed yet, `closer` the running calls of `close()`,
`caller` the read guards. One action per piece of code between two awaits:
`EngineTaskEvent` is one event handled entirely by `on_session_event`;
`CloseTake`, `CloseSession`, `CloseAwait` are the three parts of `close()`;
`RcQueue` ... `RcFinish` follow `reconnection_needed`, `reconnect_task`,
`try_restart_connection` and `try_resume_connection` in their order.
`reconnecting_lock` is a tokio RwLock: from `RcQueue` on, when the writer asks,
no new caller gets a guard.

`SessionLease` is what `wait_reconnection` promises: whoever holds a lease uses
the current session, and it is replaced only while nobody does. `EngineEvents`
hides sessions' and tasks' lives: `rec` is the step of the reconnect task as the
room sees it (the question it asked, or between two), `closing` the calls of
`close()` that will still send `Disconnected`.

Left out: a `retry_now` that finds a reconnection under way (it moves a timer;
ticks happen at any time here), what API calls do with the session.

### Room and FfiRoom

`Room` is `RoomSession` with the local participant: `state`, the calls of
`publish_track` (the user's, and those of the task that `handle_restarted`
spawns, one per session), `unpublish_track`, `close()`. A publication is named
by the call that made it. `AddTrack` takes a lease and gives it back when the
server answers; `CreateSender` takes another one for a moment, because the code
does, and ends with `add_publication`. The list of publications is unlocked
there, before anybody is told: `Announce` is the handler that dispatches
LocalTrackPublished, a step of its own, and so is `Withdraw` (the handler of
LocalTrackUnpublished, and `set_track(None)`) after `Unpublish` took a
publication off the list. `announce` and `withdraw` say how far each publication
is and, for the second, which call owes it (the user's, the republishing task's
or that of `close()`). A publication taken off before it was announced is
announced late, or not at all: the handler unwraps its track (`mod.rs:501`). The
republishing task unwraps the tracks of what it listed one by one
(`RepublishPanics`: the calls of `unpublish_track` it had spawned before the
panic finish what they began). `OnEngineEvent` is one event handled by
`on_engine_event`. What the handlers of updates do to remote participants is in
`Participants`; speakers, qualities, metadata, chat and transcriptions only
forward an event.

`FfiRoom` adds `livekit-ffi/src/server/room.rs`: the task of each PublishTrack
request (publish, send the callback, enter the sid in
`pending_published_tracks`), of each UnpublishTrack request (which waits for
`pending_unpublished_tracks`), the event task with `ActualState.reconnecting`,
and `FfiRoom::close`. `told` is what the client was sent. The client asks to
unpublish only what it was told of. A task that panicked sends no callback.

### Participants

The room's list of remote participants against the server's own view. An update
is forwarded while the connection is up, held while it resumes, replaced by the
JoinResponse after a restart, after which nobody says who left. Every object
ever created stays in `list`, because the task of a media track
(`add_subscribed_media_track`) keeps the object it began with. `mixed` and
`raced` are history: they mark the two situations in which the code is known to
keep what is gone (see below). External: the server orders its updates.

### Reliable data channel (`ReliableChannel`)

`publish_data`, the events of `data_channel_task` (one action per branch, with
`_send_until_threshold` as `SendUntilThreshold` and `TxQueue::trim` as `Trim`),
`restart()` with `RetryFrom`, and closing. A packet is its number and its call;
sizes are a constant function. libwebrtc's channel is external: it buffers,
drains any number of whole packets, reports what drained through the rtc task,
and closes when the transport is dead. The engine's lock is in `link` and in the
calls that are `"waiting"`. The lossy channel runs the same code without numbers
and retries. The receiving side only logs a duplicate, and passes it on;
`DataStream` is checked with packets that come again.

### Publisher negotiation (`Negotiation`)

`publisher_negotiation_needed` in both modes: the `NegotiationQueue` with its
task (state, `task_running`, `waiting_for_answer` and the waker's permit are
separate variables because the code changes them in separate steps), and the
debouncer. `PeerTransport` with its async mutex, whoever calls
`create_and_send_offer` (the negotiation task, the debounced task, the ICE
restart of a resume, or the signal task from inside
`set_remote_description`). The server answers offers in order and trickles
candidates; a signal loss drops what was under way and is followed by a resume.
The session may close at any moment between two messages (`SessionCloses`):
`create_and_send_offer` then ends without an offer (`OfferSkipped`). libwebrtc
may refuse an offer, taking one back (`OfferNotTakenBack`), an answer, or a
candidate that is flushed (`AnswerFlushFails`: the drain is dropped with the
candidates behind it, `restarting_ice` and `renegotiate` stay as they were).
`offered` is a history variable: which calls had returned before the last offer
was made. A timeout may come at any time.

### Signal client (`SignalQueue`)

Every call of `send()`, the `restart()` and `signal_task` are processes with a
program counter. The queue's mutex is `queueOwner`. The stream's RwLock is
`writer`, `readers` and `turn`: tokio serves requests in order, so that a reader
behind a waiting writer waits, which is what makes `LockCycle` possible. Requests
are distinct; `Queuable` is `is_queuable`. A sender's step `"queue"` with a read
guard in hand is the failed send of `send()`. Left out: how connecting works
(region urls, handshake), the ping timer (`SignalTaskEnds` may happen at any
time), the token. The tasks of a websocket are assumed to end once it is closed:
a half-open socket that does not would block `close()` for good.

### Data streams (`DataStream`)

Clones of a writer share a RawStream behind a mutex; each write is a number of
chunks, sent one at a time; a write may fail at any chunk, after its packet left
or before. The network loses packets, and may repeat the last of them in order
after a resume (`Resend`). The receiver is `IncomingStreamManager` with
`handle_header`, `handle_chunk`, `handle_trailer`; a reader may be dropped.
A piece is a history number that tells chunks apart, also those that got the
same index.

### RPC (`Rpc`)

A call publishes its request and registers afterwards, awaits ack and response
with a timeout each, or is dropped; the room task takes answers; on the other
side each request starts a task that sends the ack, asks the FFI client and
sends the response. Packets are lost or come twice; a publication may fail.

### Streams and handles of the FFI server (`ParticipantStream`, `Handles`)

`ParticipantStream` is `track_changed_trigger` with the task of a participant's
audio or video stream, the channel for one track between them, the broadcast
that says a track is finished, and the watcher that hears it. `Handles` is the
table with `retrieve_handle`, `drop_handle` and `watch_handle_dropped`, one
action per call of a concurrent map, because requests come on any thread.

## The runs

All states of each instance are explored. `CHECK_DEADLOCK FALSE` everywhere,
because rooms are left and calls end: every one of these systems may stop. Names
of bounds are those of the constants.

| run | instance | shows |
|---|---|---|
| `engine` | 3 sessions, 1 caller, `Attempts` 2, `MaxEmitted` 3 | `LatestSession`, `OneEngineTask`, `ForwardsAreOrdered`, `NothingLeaks`; the refinements `LeaseSpec` and `EventsSpec`; `ReconnectEnds`, `CloseEnds`, `LeaveCloses` |
| `engine_close` | 2 sessions, `MaxEmitted` 1 | violation: `CloseCancelsReconnection` |
| `reliable` | 3 packets of sizes 1 and 2, thresholds 0 and 1, `MaxDrops` 1 | `PacketsAccounted`, `AmountIsExact`, `BufferIsBounded`, `InOrderUntilLoss`; `PublishCompletes`, `SignalLossResumes` |
| `reliable_retry` | 3 packets, threshold 1 | violation: `NothingForgotten` |
| `reliable_reconnect` | 2 packets, threshold 0 | violation: `LossReconnects` |
| `negotiation` | 3 calls, 1 candidate, `MaxLosses` 1, `MaxFailures` 1, closed at any moment | `NegotiationInv`, `OneOfferUnanswered`, `PendingFlushed`, `RequestAccounted`, `NegotiationsDoNotOverlap`, `NegotiationEnds` |
| `negotiation_starts` | 2 calls | violation: `NegotiationStarts` |
| `negotiation_deadlock` | 2 calls | violation: `LockIsReleased` |
| `room` | 1 track, 2 sessions, `MaxRounds` 1, every way to close | `ToldInOrder`, `RequestsAnswered`, `CloseReturns`, `ReconnectingEnds` |
| `room_wait` | the same, `MaxRounds` 2 | violation: `WaitIsShort` |
| `components` | see below | one system at a time, seven of them |
| `signal_deadlock` | 3 requests, no restart | violation: `AlwaysCloses` |

The parts of `components`:

| part | instance | shows |
|---|---|---|
| `signal` | 3 requests (1 not queuable), `MaxRestarts` 2 | `AtMostOnce`, `DrainIsExclusive`, `QueueingEnds`, `CallsReturn` |
| `room` | an open room, 2 tracks, 3 sessions, `MaxRounds` 2, `MaxRoom` 3 (rounds and tracks together) | `LocalTracksAreCurrent` |
| `dataStream` | 2 writers, writes of 1 or 2 chunks, 2 in all, announced or not, 1 repetition, 2 readers | `StreamIntegrity`, `StreamEnds` |
| `rpc` | 1 call, 2 handler tasks, 1 packet that comes twice | `RpcAnswers` |
| `participants` | 1 participant with 1 track, joins twice, changes twice, 2 replacements of the connection, 1 media track | `ParticipantsAreCurrent` |
| `participantStream` | 3 subscriptions, audio and video | `TracksEnd` |
| `handles` | 1 handle, 2 watchers, 2 drops, each by the client or by a closing room | `StreamsAreTold` |

Why the bounds are enough. Engine: the third session makes the case where a
restart fails after it connected and the next attempt succeeds, or where a
second reconnection follows the first; three emitted events are enough for a
loss, a Leave behind it, and something to forward. Two attempts cover the first
(which asks the room) and a later one (which does not). Channel: three packets
are one sent, one queued and one behind it; one threshold lets a single packet
through, the other two. Negotiation: three calls are one that starts the task,
one that marks a retry and one that comes when the task is leaving. Signal:
three requests are exactly what `LockCycle` takes, two restarts let one follow
a failed one. Room: tracks do not interact but in the republishing task, where
one panics and another was begun; a reconnection, a close and a publication that all overlap need
one round, and liveness is checked with it; overlapping reconnections need two
rounds and a third session, which the `room` part of `components` has for a room
that stays open: one track through two rounds, or two through one. Its
application receives each event at once, since nothing in a `Room` reads the
queue; whichever track is published first is called the same. Data
stream: two chunks are the least for a gap, an exchange or a repetition, two
clones the least to overlap. RPC: calls meet only in tables keyed by call. Two
tasks are a request and its repetition. Participants do not interact; two sids
are the least for a rejoin. Three subscriptions are one that streams, one in the
channel and one behind it. Handles do not interact, two watchers and two drops
are the least that race.

Every passing property also has a mutant in `PROJECT.json`: a plausible mistake
in one action (a dropped wait, a kept lock, a missing reset) that TLC finds.

### Fairness

Every liveness property assumes that tasks are polled, which the tokio runtime
does, and that calls of the network end with a result or a timeout, as the code
arranges. Beyond that:

- `RtcEngine`: `WF(CallerRelease)`, API calls end. `reliable_reconnect` shows
  that one of them, `publish_data`, does not when its transport is dead; then
  `ReconnectEnds` does not hold either. `WF(RoomTakes)`: the room task takes its
  events until it stops, and dropping them answers their oneshots. Sessions are
  not forced to emit anything.
- `ReliableChannel`: weak fairness of all system steps together is enough
  because only finitely many are ever possible. It assumes that a live transport
  drains and delivers, and nothing of a dead one.
- `Negotiation`: the server answers the offers it gets; a loss is never forced.
- `SignalQueue`: `signal_task` notices a stream that is gone, connecting ends,
  the queue's mutex is handed to whoever asks. A websocket is never forced to
  break.
- `FfiRoom`: each task of the room and of the FFI server is weakly fair, each
  publication of its own. A reconnection proceeds, and is strongly fair to give
  up, because its attempts are counted; nothing makes one begin, nor the client
  or the server act. A publication's answer may be a timeout.
- `DataStream`: the task of a dropped stream runs, and a packet is received or
  lost. Writers are not forced to write, close or drop.
- `ParticipantStream`: the trigger and the stream's task are polled. Nobody is
  forced to subscribe, leave or drop a handle.

## What the code gets wrong

Seven runs must find a violation, each of a line quoted in `PROJECT.json`:

1. `engine_close`: closing does not cancel a reconnection. `close_notifier` is
   never notified; a new session is installed in a closed engine and stays.
2. `reliable_retry`: the retry queue is trimmed *to* the number of bytes that
   were drained instead of by it; packets lost with the transport are gone.
3. `reliable_reconnect`: `publish_data` keeps the reconnection out for as long as
   a dead transport does not take its packet.
4. `negotiation_starts`: a request that reaches the debouncer while its future
   runs, or the negotiation queue while its task leaves, starts nothing.
5. `negotiation_deadlock`: `set_remote_description` calls
   `create_and_send_offer` with the lock it takes in hand.
6. `room_wait`: a track published again by `handle_restarted` has no
   PublishTrack request; if the next reconnection resumes meanwhile, the FFI's
   event task waits for its callback for ever, and with it `FfiRoom::close` and
   `dispose`.
7. `signal_deadlock`: a failed sender waits for the queue with the stream's read
   guard, a flush for the stream with the queue, behind `close()`, which waits
   for the first. `CallsReturn` says there is no other cycle.

Other situations showed up as exceptions that a property has to name, or as
steps of a model that its property allows. A reader who relies on a property
should know them:

- Two restarts that overlap publish a track twice (`ListedTwice` in `Room`): the
  second `handle_restarted` lists the publication that the task of the first has
  not unpublished yet, and `unpublish_track`'s error is ignored
  (`room/mod.rs:1331`).
- The republishing task panics on `publication.track().unwrap()`
  (`room/mod.rs:1322`) if the track was unpublished before it started; the room
  then never says Reconnected (`ReconnectingEnds`).
- `publish_track` releases the list of publications before it announces the new
  one (`local_participant.rs:289-293`). A close, or a republishing task that
  listed it there, can unpublish it and say so first: the client hears
  LocalTrackUnpublished before LocalTrackPublished (`Overtaken`, which
  `ToldInOrder` excepts). If the track was taken away as well, the handler of the
  announcement panics (`room/mod.rs:501`), and the PublishTrack request gets no
  callback (`PublishOwed`).
- `add_track` and `create_sender` take the session separately: after a full
  reconnection between them, a track is sent on a session whose server never
  heard of it, and the republishing task did not list it.
- While a full reconnection is joining, `engine_task` is taken, so that a
  `close()` sends no Disconnected (`rtc_engine/mod.rs:771`): the room stays
  Reconnecting until it is closed itself (`ReconnectingEnds` excepts a closed
  engine).
- A callback of UnpublishTrack is never sent if the event task ended before it
  forwarded the event, or if a close that overtook the call had cleared the
  dispatcher (`UnpublishOwed`); a sid in `pending_published_tracks` of a track whose
  event came while reconnecting stays there, and so do the sids that
  republishing adds to `pending_unpublished_tracks`; LocalTrackPublished comes
  before the callback of its request when a publication ends while the client is
  told Reconnecting.
- Remote participants that left stay in the room after a resume that turned into
  a restart, after a restart whose first session failed, or when an update came
  between Restarting and the end of the old session (`mixed` in
  `Participants`). `add_subscribed_media_track` puts a publication back that was
  removed while it waited (`raced`).
- RPC: an ack that comes before the call is registered is dropped, and the call
  fails with ConnectionTimeout although the method ran; a repeated request runs
  it twice; a dropped future leaves its entries behind (`NothingPending` excepts
  it); the FFI waits for its client without a timeout.
- Data streams: without `total_length` a stream whose end was lost looks whole;
  a stream dropped after a failed write is closed normally; a repeated header
  opens a second reader of a stream that was closed; readers of a stream whose
  sender is gone without a trailer wait for ever (`StreamEnds`).
- Streams of a participant: a track finished before its watcher subscribed, or
  before the trigger did, is missed (`missed`); any other track of the source
  that finishes ends the watcher, and the native stream; when the room disconnects
  with the track subscribed nobody says that it is finished, and the native
  stream runs on (`Abandoned`, `utils.rs:45`); the trigger waits for
  room in the channel and hears nothing meanwhile (`Deaf`); a video stream that
  waits for a track does not see that its handle was dropped, and says no EOS
  when it does later.
- `watch_handle_dropped`: two first watchers of a handle empty each other's
  entry, and one is told falsely (`emptied`); a watcher that comes after the
  drop is never told (`late`); one that comes in the middle panics
  (`mod.rs:242-246`).
- `SignalClient::send` drops a message when there is no stream or the flush
  failed, although its doc (196-197) says it is queued.

## The proofs

Every safety invariant and action property of the passing runs is a theorem, for
any sets of sessions, callers, tracks, payloads, requests, candidates, packets
with their sizes, thresholds, participants, writers, calls, tasks and handles,
and any bounds that satisfy the named assumption of each module. The assumptions
say that bounds are numbers and sizes at least one byte, that values which stand
for something of their own (`NoSession`, `NoTotal`, `NoTrack`, `Restart`,
`SignalTask`, the empty set of watchers) are not among those they are told apart
from, and for `Room` that its calls on the engine are its publications and that
it knows the three ways to close. TLC evaluates them on every run. The inductive
invariants hold on the instances of the runs as well (with the proof module in
place of the one it extends).

- `RtcEngineProofs`. `EngineInvariant` proves `IInv`. `OneEngineTask` alone is
  not inductive: it needs that `engine_task` belongs to the current session
  (`TaskIsCurrent`), that a full reconnection has taken it (`TaskTaken`) and
  waited for it (`NoTaskNoneAlive`), that the session being connected has no
  task yet (`NewIsFresh`, `UnbornIsIdle`), and where a `close()` may be
  (`CloserHasTarget`). `LatestSession` needs that the write guard excludes
  callers (`WriteGuardExcludes`). From it follow `EngineTypeOK` (with a type
  lemma per group of actions), `CallersUseLatestSession`, `OneEngineTaskAlive`,
  `NothingEverLeaks` and `EngineImplementsLease`: initial states map to initial
  states and every step to a step of the lease or to a stutter. `NothingLeaks`
  is an account of ownership: a session that is open or gone down is the
  handle's, whose task runs, or the one a restart has yet to close or to
  install, or some `close()` has it; and a running engine task is the handle's
  or awaited by who took it. Each of its clauses is handed from one task to
  another at a lock, which is what the proof follows.
- `RtcEngineProofs`, second part. `EventsInv` adds to `IInv` what the channels
  hold: nothing is behind the end of a session in its inbox (`InboxInv`), who
  may be closing which session (`ControlInv`: one `close()` at most has taken
  each session's task), and that at most one event in the channel is a question,
  the reconnect task waits for that one, and no forwarded event is behind it or
  behind Disconnected (`OrderInv`). `ForwardsStayOrdered` is a part of it, and
  `EngineImplementsEvents` maps each step of the engine to a step of
  `EngineEvents` under it, so that what is checked of `Room` and `FfiRoom` rests
  on a proved interface.
- `NegotiationProofs`. `NegotiationInv` says when the task exists, who holds the
  transport's lock and why (`LockHeld`, which has the self-deadlock as a case),
  and who can be making an offer. `NegotiationsNeverOverlap` and
  `CandidatesAreFlushed` follow; `RequestsAreAccountedFor` and
  `OneOfferIsUnanswered` are inductive relative to it.
- `SignalQueueProofs`. `SignalInv` says who holds which lock (`QueueGuard`,
  `StreamGuards`) and that a request is in the queue or written only when its
  own call has returned (`HandledByCall`); with it `AtMostOnce` is inductive, by
  three lemmas on sequences without duplicates.
- `ReliableChannelProofs`. `PacketsAccounted` is not inductive: a packet that is
  numbered must be new everywhere, and a call that is answered must not be asked
  again. `ChannelInv` says that a call without a number has no packet and one
  event (`UnnumberedAreNew`), that the three places where the task holds packets
  are without repetitions and disjoint (`Apart`; `HeldOnce` follows), and that
  the calls that wait are those with a request pending (`WaitersAsk`; that there
  is *one* request each follows from `Apart` and `OneNumberPerPacket`, since two
  requests of a call would be one packet). `AmountAlwaysExact` is bookkeeping
  over what is buffered, drained and reported: it needs what `Total` makes of a
  concatenation, an end and a front of a sequence. `BufferAlwaysBounded` follows
  from the exact amount, because the loop of `_send_until_threshold` adds a
  packet only while that is at most the threshold. `AlwaysInOrderUntilLoss`
  needs that received, on the wire, buffered and queued packets together are
  numbered from 1 on, and the events behind them continue them without a gap
  (`InLine`, `AllInLine`). A sum is the number of bytes, and a filtered queue
  the packets at a set of places in their order, so that facts about
  cardinalities take the place of an induction over sequences (`TotalOfBoth`,
  `FrontIsCounted`, `SelectedIsPart`).
- `ParticipantsProofs`. `ParticipantsInv` says of each participant where the
  server's word on it is: the last event held back or under way that mentions it
  says what the server has, or none mentions it and the room lists exactly that
  (`Follows`). It holds through a resume because what is held goes behind what
  is under way (`HeldForLater`), and through a restart because Restarting
  empties the list before the JoinResponse (`LeavingRemoves`, `JoiningIsEmpty`);
  only then a participant that is gone may stay (`mixed`). `GoneHaveNothing`
  needs that a media track's task keeps the object it began with, so that what
  it puts on an object that is listed no more is on record (`raced`).
  `ParticipantsStayCurrent` is what remains of it once every event is handled.
- `DataStreamProofs`. A reader's i-th piece is one that was sent with the index
  i - 1 (`GotWasSent`), and a chunk with a higher index was sent later
  (`SentInOrder`, over everything that is or ever was under way): together they
  give `ReadInOrder`, whatever is lost or comes again. `OpenIsCounted` relates
  the descriptor to what its reader got, and gives `CleanEndIsWhole`.
- `ComponentsProofs`, calls. A payload is true wherever it is: with the task
  that got it, in a packet, in the channel of the call (`TaskIsTrue`,
  `AnswersAreTrue`, `ResponseIsTrue`); and what was answered is no longer in its
  table.
- `RoomProofs`. `RoomInv` follows each publication: a track has one call that
  publishes it at most (`OneActive`); while a task has yet to unpublish what it
  listed of a track, only that is in its way (`PendingHasOld`); and what an old
  session still sends is on the list of such a task, unless its Restarted is
  still on its way to the room (`OldIsListed`). For the last one it needs the
  question and answer of the engine: a session is restarted to once, and
  Restarted is about the current one (`EngineInv`, `RestartedOnce`). From it
  follows `TracksAreCurrent`; all of it holds until two restarts have listed the
  same publication. `FfiImplementsRoom` makes it hold behind the FFI. `CallsInv`
  puts the steps of a publication in order: it is announced only when it was on
  the list, its withdrawal is owed by one call, and only once it was taken off.
  `ToldInv` relates, for each publication, what the client was told, the event
  the event task waits with, and the place of its two events in the queue
  (`InOrder`): unless it was overtaken, a withdrawal that is queued or told has
  its announcement before it; and a client that asked to unpublish had heard of
  it, so that its own callback comes last. It gives `ToldInOrderAlways`;
  `FfiTypesOK` and `RoomTypesOK` are the types.
- `ComponentsProofs`, handles and streams. Each stream of a track was told or
  has its sender in the table (`StreamsHaveSenders`), and a sender that nobody
  will tell any more is late (`LeftBehindIsLate`). `ParticipantStreamTyped` are
  the types of a participant's stream, with the one place of its channel of
  tracks.
- `ComponentsProofs`, side by side. `ComponentsAreIndependent`: a behaviour of
  `MCComponents` is one of each component's specification, so that the theorems
  above are about the very behaviours that the run `components` explores.
  `ComponentsTyped` follows from them.

Only model-checked: the liveness properties (`ReconnectEnds`, `CloseEnds`,
`LeaveCloses`, `PublishCompletes`, `SignalLossResumes`, `NegotiationEnds`,
`RequestsAnswered`, `CloseReturns`, `ReconnectingEnds`, `CallsReturn`,
`StreamEnds`, `TracksEnd`), because fairness and ENABLED are out of the prover's
reach. That `Total` is the sum which `TxQueue` keeps is proved by its value on
the empty sequence, on one element and on a concatenation (`TotalOfNone`,
`TotalOfOne`, `TotalOfBoth`), which determine it.

## Not modelled

- In the modelled components: API bodies that hold a read guard and change
  nothing else; the subscriber's side of the negotiation (one answer per offer);
  statistics; speakers, qualities, metadata, transcriptions and chat, which
  forward one event; mute and subscription permissions, which set one field;
  text and file conversions of data streams; FFI requests that are one call and
  one callback; streams of a single track, sources and readers of data streams,
  which forward frames or chunks.
- `TtlMap`, `utf8_chunk` and `TakeCell`: short sequential algorithms with unit
  tests. The wrap of `next_packet_sequence` at 2^32 is out of the bounds.
- The E2EE manager, a table that follows room events; the runtime shims; the
  promise and observer helpers; the logger; the audio plugin.
- Without state of their own, or not of this program: the C++ of libwebrtc, image
  and audio arithmetic, protobuf conversions, token encoding and the HTTP
  services, the examples.

By lines the map covers about 4% of the repository. Some 55,000 of its 95,000
lines are generated from protobuf definitions (`livekit.serde.rs`,
`livekit.rs`, `livekit.proto.rs`), and most of the rest are bindings,
conversions and arithmetic. Of `rtc_engine/mod.rs` it covers about four fifths,
of `room/mod.rs`, `rtc_session.rs`, `signal_client/mod.rs`, `peer_transport.rs`
and the data streams between a quarter and three fifths.

## What could follow

1. Abstract specifications of the data channel (a sequence of packets of which
   a reconnection may lose a part) and of the list of participants, with proofs
   that the modules implement them.
2. The receiving side of the reliable channel with its TTL map and the wrap of
   the sequence numbers, on a small modulus.
3. The E2EE manager against `Room`; the streams of one track with `Handles`.
