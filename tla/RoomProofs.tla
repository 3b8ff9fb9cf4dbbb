------------------------------ MODULE RoomProofs ------------------------------
(***************************************************************************)
(* Proofs about the local tracks of a room and what a client is told of    *)
(* them, for any number of tracks, sessions and reconnections.             *)
(***************************************************************************)
EXTENDS FfiRoom, SequenceTheorems, TLAPS

(* The engine, as far as the local tracks depend on it: it waits for one    *)
(* answer at most, and that is to the question about the current session.   *)
ChanEvent == [type : Question \cup {"Disconnected"}, session : Session,
              body : {"none"} \cup Reason]
Asks(q, i) == q[i].type \in Question
OneQuestion(q, step, done) ==
  \A i \in DOMAIN q : Asks(q, i) =>
    /\ step = q[i].type /\ ~done
    /\ \A j \in DOMAIN q : Asks(q, j) => i = j
AboutCurrent(q, s) == \A i \in DOMAIN q : q[i].type = "Restarted" => q[i].session = s
HasRestarted(q) == \E i \in DOMAIN q : q[i].type = "Restarted"
Restarted == rec = "installed" \/ HasRestarted(chan)

EngineInv ==
  /\ rec \in RecStep /\ current \in Session /\ fresh \subseteq Session
  /\ closed \in BOOLEAN /\ chan \in Seq(ChanEvent)
  /\ current \notin fresh /\ First \notin fresh
  /\ OneQuestion(chan, rec, answered) /\ AboutCurrent(chan, current)
  /\ Restarted => current # First
  /\ ~listening => closed

(* A session is restarted to once, and its task comes after.                *)
RestartedOnce ==
  /\ republish[First].step = "none"
  /\ \A s \in fresh : republish[s].step = "none"
  /\ Restarted => republish[current].step = "none"
  /\ \A s \in Session : republish[s].step = "none" => republish[s].listed = {}

TracksTyped ==
  /\ publish \in [Publication -> PublishCall]
  /\ republish \in [Session -> [step : {"none", "spawned", "running", "panicked", "done"},
                                listed : SUBSET Publication]]

(* What a task has not begun.                                               *)
NotBegun ==
  \A p \in Publication :
    /\ p[2] # First /\ republish[p[2]].step \in {"none", "spawned"}
         => publish[p].step = "idle"
    /\ publish[p].step = "unpublish"
         => republish[p[2]].step = "running" /\ TrackOf(p) \in Listed(p[2])

BaseInv == EngineInv /\ RestartedOnce /\ TracksTyped /\ NotBegun

-----------------------------------------------------------------------------
(* The task of s has yet to unpublish what it listed of t.                  *)
Pending(t, s) ==
  /\ t \in Listed(s)
  /\ \/ republish[s].step = "spawned"
     \/ republish[s].step = "running" /\ publish[<<t, s>>].step = "unpublish"

(* A call that has published its track, or may without the task.            *)
Active(p) ==
  \/ publish[p].step \in {"withdraw", "add", "answer", "sender", "published"}
  \/ publish[p].step = "idle" /\ p[2] = First

OneActive ==
  \A p, q \in Publication : Active(p) /\ Active(q) /\ TrackOf(p) = TrackOf(q) => p = q

(* Only what the task listed is in the way of what it will publish.         *)
PendingHasOld ==
  \A t \in Track, s \in Session : Pending(t, s) =>
    \A p \in Publication : Active(p) /\ TrackOf(p) = t =>
      p \in republish[s].listed /\ p \in Published

OnePending ==
  \A t \in Track : \A r, s \in Session : Pending(t, r) /\ Pending(t, s) => r = s

ListedOnce ==
  \A s \in Session : \A p, q \in republish[s].listed : TrackOf(p) = TrackOf(q) => p = q

(* A publication that an old session sends will be published again.         *)
OldIsListed ==
  \A p \in Published :
    \/ publish[p].sender = current
    \/ Restarted \/ closed
    \/ \E s \in Session : /\ p \in republish[s].listed
                          /\ Pending(TrackOf(p), s) \/ republish[s].step = "panicked"

TracksInv ==
  /\ OneActive /\ PendingHasOld /\ OnePending /\ ListedOnce /\ OldIsListed

RoomInv == BaseInv /\ (ListedTwice \/ TracksInv)

-----------------------------------------------------------------------------
(* What a channel of engine events holds.                                   *)

(* An element comes last.                                                   *)
LEMMA AppendHolds ==
  ASSUME NEW T, NEW q \in Seq(T), NEW e \in T
  PROVE  /\ Append(q, e) \in Seq(T)
         /\ DOMAIN Append(q, e) = DOMAIN q \cup {Len(q) + 1}
         /\ Len(q) + 1 \notin DOMAIN q
         /\ \A i \in DOMAIN q : Append(q, e)[i] = q[i]
         /\ Append(q, e)[Len(q) + 1] = e
<1>1. /\ Append(q, e) \in Seq(T) /\ Len(Append(q, e)) = Len(q) + 1
      /\ \A i \in 1 .. Len(q) : Append(q, e)[i] = q[i]
      /\ Append(q, e)[Len(q) + 1] = e
  BY AppendProperties
<1>2. /\ Len(q) \in Nat /\ DOMAIN q = 1 .. Len(q)
      /\ DOMAIN Append(q, e) = 1 .. Len(q) + 1
  BY <1>1, LenProperties
<1>. QED
  BY <1>1, <1>2

(* The first element goes, the others move up.                              *)
LEMMA TailHolds ==
  ASSUME NEW T, NEW q \in Seq(T), q # <<>>
  PROVE  /\ Head(q) \in T /\ 1 \in DOMAIN q /\ q[1] = Head(q)
         /\ Tail(q) \in Seq(T)
         /\ \A i \in DOMAIN Tail(q) : i \in Nat \ {0} /\ i + 1 \in DOMAIN q /\ Tail(q)[i] = q[i + 1]
         /\ \A j \in DOMAIN q : j # 1 => j \in Nat /\ j - 1 \in DOMAIN Tail(q) /\ Tail(q)[j - 1] = q[j]
<1>1. Len(q) \in Nat /\ Len(q) # 0 /\ DOMAIN q = 1 .. Len(q)
  BY EmptySeq, LenProperties
<1>2. /\ Head(q) \in T /\ Tail(q) \in Seq(T)
      /\ Len(Tail(q)) = Len(q) - 1
      /\ \A i \in 1 .. Len(Tail(q)) : Tail(q)[i] = q[i + 1]
  BY HeadTailProperties
<1>3. DOMAIN Tail(q) = 1 .. Len(q) - 1
  BY <1>2, LenProperties
<1>4. q[1] = Head(q)
  OBVIOUS
<1>5. \A i \in DOMAIN Tail(q) : i \in Nat \ {0} /\ i + 1 \in DOMAIN q /\ Tail(q)[i] = q[i + 1]
  BY <1>1, <1>2, <1>3
<1>6. \A j \in DOMAIN q : j # 1 => j \in Nat /\ j - 1 \in DOMAIN Tail(q) /\ Tail(q)[j - 1] = q[j]
  BY <1>1, <1>2, <1>3
<1>. QED
  BY <1>1, <1>2, <1>4, <1>5, <1>6

(* An event that asks nothing changes nothing about the questions.          *)
LEMMA NoQuestionAppended ==
  ASSUME NEW q \in Seq(ChanEvent), NEW e \in ChanEvent, e.type \notin Question,
         NEW step, NEW done, NEW s, OneQuestion(q, step, done), AboutCurrent(q, s)
  PROVE  /\ Append(q, e) \in Seq(ChanEvent)
         /\ OneQuestion(Append(q, e), step, done) /\ AboutCurrent(Append(q, e), s)
         /\ HasRestarted(Append(q, e)) <=> HasRestarted(q)
<1>1. e.type # "Restarted"
  BY DEF Question
<1>. QED
  BY <1>1, AppendHolds DEF OneQuestion, AboutCurrent, HasRestarted, Asks

(* A question comes when none is asked.                                     *)
LEMMA QuestionAppended ==
  ASSUME NEW q \in Seq(ChanEvent), NEW e \in ChanEvent, NEW s,
         \A i \in DOMAIN q : ~Asks(q, i), e.type = "Restarted" => e.session = s
  PROVE  /\ Append(q, e) \in Seq(ChanEvent)
         /\ OneQuestion(Append(q, e), e.type, FALSE) /\ AboutCurrent(Append(q, e), s)
         /\ HasRestarted(Append(q, e)) <=> e.type = "Restarted"
<1>1. \A i \in DOMAIN q : q[i].type # "Restarted"
  BY DEF Asks, Question
<1>. QED
  BY <1>1, AppendHolds DEF OneQuestion, AboutCurrent, HasRestarted, Asks

(* The room task takes one.                                                 *)
LEMMA QuestionTaken ==
  ASSUME NEW q \in Seq(ChanEvent), q # <<>>, NEW step, NEW done, NEW s,
         OneQuestion(q, step, done), AboutCurrent(q, s)
  PROVE  /\ Tail(q) \in Seq(ChanEvent) /\ Head(q) \in ChanEvent
         /\ OneQuestion(Tail(q), step, done \/ Head(q).type \in Question)
         /\ AboutCurrent(Tail(q), s)
         /\ HasRestarted(Tail(q)) => HasRestarted(q) /\ Head(q).type # "Restarted"
         /\ HasRestarted(q) => HasRestarted(Tail(q)) \/ Head(q).type = "Restarted"
         /\ Head(q).type = "Restarted" => Head(q).session = s
<1>1. /\ Tail(q) \in Seq(ChanEvent) /\ Head(q) \in ChanEvent
      /\ 1 \in DOMAIN q /\ q[1] = Head(q)
      /\ \A i \in DOMAIN Tail(q) : i \in Nat \ {0} /\ i + 1 \in DOMAIN q /\ Tail(q)[i] = q[i + 1]
      /\ \A j \in DOMAIN q : j # 1 => j \in Nat /\ j - 1 \in DOMAIN Tail(q) /\ Tail(q)[j - 1] = q[j]
  BY TailHolds
<1>2. AboutCurrent(Tail(q), s) /\ (Head(q).type = "Restarted" => Head(q).session = s)
  BY <1>1 DEF AboutCurrent
<1>3. OneQuestion(Tail(q), step, done \/ Head(q).type \in Question)
  <2> SUFFICES ASSUME NEW i \in DOMAIN Tail(q), Asks(Tail(q), i)
               PROVE  /\ step = Tail(q)[i].type /\ ~(done \/ Head(q).type \in Question)
                      /\ \A j \in DOMAIN Tail(q) : Asks(Tail(q), j) => i = j
    BY DEF OneQuestion
  <2>1. i + 1 \in DOMAIN q /\ Asks(q, i + 1) /\ Tail(q)[i] = q[i + 1] /\ i \in Nat /\ i # 0
    BY <1>1 DEF Asks
  <2>2. step = q[i + 1].type /\ ~done /\ \A j \in DOMAIN q : Asks(q, j) => i + 1 = j
    BY <2>1 DEF OneQuestion
  <2>3. Head(q).type \notin Question
    BY <1>1, <2>1, <2>2 DEF Asks
  <2>4. ASSUME NEW j \in DOMAIN Tail(q), Asks(Tail(q), j)
        PROVE  i = j
    <3>1. j + 1 \in DOMAIN q /\ Asks(q, j + 1) /\ j \in Nat
      BY <1>1, <2>4 DEF Asks
    <3>. QED
      BY <2>1, <2>2, <3>1
  <2>. QED
    BY <2>1, <2>2, <2>3, <2>4
<1>4. ASSUME HasRestarted(Tail(q))
      PROVE  HasRestarted(q) /\ Head(q).type # "Restarted"
  <2>1. PICK i \in DOMAIN Tail(q) : Tail(q)[i].type = "Restarted"
    BY <1>4 DEF HasRestarted
  <2>2. i + 1 \in DOMAIN q /\ q[i + 1].type = "Restarted" /\ i \in Nat /\ i # 0
    BY <1>1, <2>1
  <2>3. Asks(q, i + 1)
    BY <2>2 DEF Asks, Question
  <2>4. ~Asks(q, 1)
    BY <1>1, <2>2, <2>3 DEF OneQuestion
  <2>. QED
    BY <1>1, <2>2, <2>4 DEF HasRestarted, Asks, Question
<1>5. HasRestarted(q) => HasRestarted(Tail(q)) \/ Head(q).type = "Restarted"
  BY <1>1 DEF HasRestarted
<1>. QED
  BY <1>1, <1>2, <1>3, <1>4, <1>5

-----------------------------------------------------------------------------
(* The engine, and what its steps mean for a room; that it gets Restarted   *)
(* is a step of its own (RestartedTaken).                                   *)
EngineStep ==
  \/ \E c \in Caller : Acquire(c) \/ Release(c)
  \/ Reconnecting
  \/ \E c \in Closing : Shut(c)
  \/ \E c \in Closing, reason \in Reason : Disconnect(c, current, reason)
  \/ Take /\ Head(chan).type # "Restarted"
  \/ Stop
  \/ UNCHANGED eventsVars

(* Only a new session becomes current; the room gets Restarted for it,      *)
(* unless the engine is closed.                                             *)
EngineKeeps ==
  /\ fresh' \subseteq fresh
  /\ closed => closed'
  /\ current' # current => rec' = "installed" /\ current' \in fresh
  /\ Restarted' => Restarted \/ current' \in fresh
  /\ Restarted => Restarted' \/ closed

(* Steps that leave the channel and the questions alone.                    *)
LEMMA EngineQuiet ==
  ASSUME EngineInv,
         UNCHANGED <<current, fresh, chan, answered, listening>>,
         closed => closed', closed' \in BOOLEAN, rec' \in RecStep,
         rec' = rec \/ (rec' # "installed" /\ rec # "installed"
                        /\ (rec \in Question => answered))
  PROVE  EngineInv' /\ EngineKeeps
<1>1. OneQuestion(chan, rec', answered)
  BY DEF EngineInv, OneQuestion, Asks
<1>2. Restarted' <=> Restarted
  BY DEF Restarted
<1>. QED
  BY <1>1, <1>2 DEF EngineInv, EngineKeeps

(* The reconnect task asks the room.                                        *)
LEMMA EngineAsks ==
  ASSUME EngineInv, EventsAssumption, NEW s \in Session, NEW question \in Question,
         AskRoom(question, s)
  PROVE  EngineInv' /\ EngineKeeps
<1>. DEFINE e == [type |-> question, session |-> s, body |-> "none"]
<1>1. /\ rec \in {"none", "trying", "installed", "rejoined"}
      /\ rec = "installed" <=> question = "Restarted"
      /\ question = "Restarted" => s = current
      /\ rec' = question /\ rec' \in RecStep /\ rec' # "installed"
      /\ UNCHANGED <<current, fresh, closed, listening>>
  BY DEF AskRoom, Question, FirstQuestion, RecStep
<1>2. \A i \in DOMAIN chan : ~Asks(chan, i)
  BY <1>1 DEF EngineInv, OneQuestion, Asks, Question, FirstQuestion
<1>3. ~HasRestarted(chan)
  BY <1>2 DEF HasRestarted, Asks, Question
<1>4. e \in ChanEvent /\ e.type = question /\ e.session = s
  BY DEF ChanEvent
<1>5. answered' = ~listening /\ chan' = IF listening THEN Append(chan, e) ELSE chan
  BY DEF AskRoom, Post
<1>. HIDE DEF e
<1>6. CASE listening
  <2>1. /\ Append(chan, e) \in Seq(ChanEvent)
        /\ OneQuestion(Append(chan, e), e.type, FALSE) /\ AboutCurrent(Append(chan, e), current)
        /\ HasRestarted(Append(chan, e)) <=> e.type = "Restarted"
    BY <1>1, <1>2, <1>4, QuestionAppended DEF EngineInv
  <2>2. chan' = Append(chan, e) /\ answered' = FALSE
    BY <1>5, <1>6
  <2>3. Restarted' <=> Restarted
    BY <1>1, <1>3, <1>4, <2>1, <2>2 DEF Restarted
  <2>. QED
    BY <1>1, <1>4, <1>6, <2>1, <2>2, <2>3 DEF EngineInv, EngineKeeps
<1>7. CASE ~listening
  <2>1. chan' = chan /\ ~Restarted' /\ closed
    BY <1>1, <1>3, <1>5, <1>7 DEF Restarted, EngineInv
  <2>2. OneQuestion(chan, rec', answered')
    BY <1>2 DEF OneQuestion
  <2>. QED
    BY <1>1, <1>7, <2>1, <2>2 DEF EngineInv, EngineKeeps
<1>. QED
  BY <1>6, <1>7

(* A new session is installed, or abandoned.                                *)
LEMMA EngineReplaces ==
  ASSUME EngineInv, NEW s \in Session, Install(s) \/ Retry(s)
  PROVE  EngineInv' /\ EngineKeeps
<1>1. rec \in {"joined", "rejoined"} /\ rec' \in RecStep /\ fresh' \subseteq fresh
  BY DEF Install, Retry, RecStep
<1>2. \A i \in DOMAIN chan : ~Asks(chan, i)
  BY <1>1 DEF EngineInv, OneQuestion, Asks, Question, FirstQuestion
<1>3. ~HasRestarted(chan) /\ chan' = chan /\ UNCHANGED <<closed, listening>>
  BY <1>2 DEF HasRestarted, Asks, Question, Install, Retry
<1>4. OneQuestion(chan, rec', answered') /\ AboutCurrent(chan, current')
  BY <1>2 DEF OneQuestion, AboutCurrent, Asks, Question
<1>5. ~Restarted
  BY <1>1, <1>3 DEF Restarted
<1>6. CASE Install(s)
  <2>1. rec' = "installed" /\ current' = s /\ s \in fresh /\ fresh' = fresh \ {s}
    BY <1>6 DEF Install
  <2>. QED
    BY <1>1, <1>3, <1>4, <1>5, <2>1 DEF EngineInv, EngineKeeps
<1>7. CASE Retry(s)
  <2>1. rec' = "trying" /\ current' = current
    BY <1>7 DEF Retry
  <2>2. ~Restarted'
    BY <1>3, <2>1 DEF Restarted
  <2>. QED
    BY <1>1, <1>3, <1>4, <1>5, <2>1, <2>2 DEF EngineInv, EngineKeeps
<1>. QED
  BY <1>6, <1>7

(* A call of close() says Disconnected.                                     *)
LEMMA EngineEnds ==
  ASSUME EngineInv, NEW c, NEW reason \in Reason, Disconnect(c, current, reason)
  PROVE  EngineInv' /\ EngineKeeps
<1>. DEFINE e == [type |-> "Disconnected", session |-> current, body |-> reason]
<1>1. /\ UNCHANGED <<rec, current, fresh, closed, answered, listening>>
      /\ chan' = IF listening THEN Append(chan, e) ELSE chan
  BY DEF Disconnect, Post
<1>2. e \in ChanEvent /\ e.type \notin Question
  BY DEF EngineInv, ChanEvent, Question, FirstQuestion
<1>. HIDE DEF e
<1>3. CASE listening
  <2>1. /\ Append(chan, e) \in Seq(ChanEvent)
        /\ OneQuestion(Append(chan, e), rec, answered) /\ AboutCurrent(Append(chan, e), current)
        /\ HasRestarted(Append(chan, e)) <=> HasRestarted(chan)
    BY <1>2, NoQuestionAppended DEF EngineInv
  <2>2. Restarted' <=> Restarted
    BY <1>1, <1>3, <2>1 DEF Restarted
  <2>. QED
    BY <1>1, <1>3, <2>1, <2>2 DEF EngineInv, EngineKeeps
<1>4. CASE ~listening
  <2>1. chan' = chan
    BY <1>1, <1>4
  <2>2. Restarted' <=> Restarted
    BY <1>1, <2>1 DEF Restarted
  <2>. QED
    BY <1>1, <2>1, <2>2 DEF EngineInv, EngineKeeps
<1>. QED
  BY <1>3, <1>4

(* The room task takes an event.                                            *)
LEMMA EngineTakes ==
  ASSUME EngineInv, Take
  PROVE  /\ EngineInv' /\ Head(chan) \in ChanEvent
         /\ UNCHANGED <<rec, current, fresh, closed>>
         /\ Restarted' => Restarted /\ (Head(chan).type = "Restarted" => rec = "installed")
         /\ Restarted => Restarted' \/ Head(chan).type = "Restarted"
         /\ Head(chan).type = "Restarted" => Head(chan).session = current
<1>1. /\ chan # <<>> /\ chan' = Tail(chan)
      /\ answered' = (answered \/ Head(chan).type \in Question)
      /\ UNCHANGED <<rec, current, fresh, closed, listening>>
  BY DEF Take
<1>2. /\ Tail(chan) \in Seq(ChanEvent) /\ Head(chan) \in ChanEvent
      /\ OneQuestion(Tail(chan), rec, answered \/ Head(chan).type \in Question)
      /\ AboutCurrent(Tail(chan), current)
      /\ HasRestarted(Tail(chan)) => HasRestarted(chan) /\ Head(chan).type # "Restarted"
      /\ HasRestarted(chan) => HasRestarted(Tail(chan)) \/ Head(chan).type = "Restarted"
      /\ Head(chan).type = "Restarted" => Head(chan).session = current
  BY <1>1, QuestionTaken DEF EngineInv
<1>3. /\ Restarted' => Restarted /\ (Head(chan).type = "Restarted" => rec = "installed")
      /\ Restarted => Restarted' \/ Head(chan).type = "Restarted"
  BY <1>1, <1>2 DEF Restarted
<1>. QED
  BY <1>1, <1>2, <1>3 DEF EngineInv

(* It gets Restarted of the current session, once.                          *)
LEMMA RestartedTaken ==
  ASSUME EngineInv, Take, Head(chan).type = "Restarted"
  PROVE  /\ EngineInv' /\ Restarted /\ ~Restarted'
         /\ Head(chan).session = current
         /\ UNCHANGED <<current, fresh, closed>>
<1>1. 1 \in DOMAIN chan /\ chan[1] = Head(chan)
  BY TailHolds DEF Take, EngineInv
<1>2. Restarted
  BY <1>1 DEF Restarted, HasRestarted
<1>3. rec = "Restarted"
  BY <1>1 DEF EngineInv, OneQuestion, Asks, Question
<1>. QED
  BY <1>2, <1>3, EngineTakes

(* It stops.                                                                *)
LEMMA EngineStops ==
  ASSUME EngineInv, Stop
  PROVE  EngineInv' /\ EngineKeeps
<1>1. /\ closed /\ chan' = <<>>
      /\ UNCHANGED <<rec, current, fresh, closed>>
  BY DEF Stop
<1>2. DOMAIN <<>> = {} /\ <<>> \in Seq(ChanEvent)
  BY EmptySeq
<1>3. /\ OneQuestion(chan', rec', answered') /\ AboutCurrent(chan', current')
      /\ ~HasRestarted(chan')
  BY <1>1, <1>2 DEF OneQuestion, AboutCurrent, HasRestarted
<1>4. Restarted' => Restarted
  BY <1>1, <1>3 DEF Restarted
<1>. QED
  BY <1>1, <1>2, <1>3, <1>4 DEF EngineInv, EngineKeeps

(* Every step of the engine and of the room task.                           *)
LEMMA EngineSteps ==
  ASSUME EngineInv, EventsAssumption, EngineStep
  PROVE  EngineInv' /\ EngineKeeps
<1>. closed \in BOOLEAN
  BY DEF EngineInv
<1>1. ASSUME NEW c \in Caller, Acquire(c) \/ Release(c)
      PROVE  EngineInv' /\ EngineKeeps
  BY <1>1, EngineQuiet DEF Acquire, Release, EngineInv
<1>2. ASSUME Proceed \/ TakeTask \/ GiveUp \/ End
      PROVE  EngineInv' /\ EngineKeeps
  <2>1. CASE Proceed
    <3>1. /\ rec \in Question /\ answered /\ rec' \in {"trying", "joined", "rejoined", "ending"}
          /\ UNCHANGED <<current, fresh, closed, chan, answered, listening>>
      BY <2>1 DEF Proceed, RecOnly
    <3>. QED
      BY <3>1, EngineQuiet DEF Question, FirstQuestion, RecStep
  <2>2. CASE TakeTask
    BY <2>2, EngineQuiet DEF TakeTask, EngineInv
  <2>3. CASE GiveUp \/ End
    BY <2>3, EngineQuiet DEF GiveUp, End, RecOnly, RecStep, Question, FirstQuestion
  <2>. QED
    BY <1>2, <2>1, <2>2, <2>3
<1>3. ASSUME NEW c \in Closing, Shut(c)
      PROVE  EngineInv' /\ EngineKeeps
  BY <1>3, EngineQuiet DEF Shut, EngineInv
<1>4. ASSUME UNCHANGED eventsVars
      PROVE  EngineInv' /\ EngineKeeps
  BY <1>4, EngineQuiet DEF eventsVars, EngineInv
<1>5. ASSUME Take, Head(chan).type # "Restarted"
      PROVE  EngineInv' /\ EngineKeeps
  BY <1>5, EngineTakes DEF EngineInv, EngineKeeps
<1>. QED
  BY <1>1, <1>2, <1>3, <1>4, <1>5, EngineAsks, EngineReplaces, EngineEnds, EngineStops
     DEF EngineStep, Reconnecting
-----------------------------------------------------------------------------
(* The steps of a room, by what they do to the tracks.                      *)
Republishing == \E s \in Session : RepublishStarts(s) \/ RepublishEnds(s)

(* One call of publish_track goes on; what it has published may be taken    *)
(* away, and what it publishes is on the current session.                   *)
Moves(p) ==
  /\ UNCHANGED <<rec, current, fresh, chan, closed, answered, listening, republish>>
  /\ publish' \in [Publication -> PublishCall]
  /\ \A q \in Publication : q # p => publish'[q] = publish[q]
  /\ publish[p].step \in {"withdraw", "add", "answer", "sender", "published"}
       \/ (publish[p].step = "idle" /\ p[2] = First)
  /\ publish'[p].step \notin {"unpublish", "idle"}
  /\ publish'[p].step = "published" => publish'[p].sender = current
  /\ publish[p].step = "published" => publish'[p].step \in {"unpublished", "removed"}

(* The room task gets Restarted.                                            *)
GetsRestarted ==
  /\ Take /\ HandleRestarted(Head(chan))
  /\ Head(chan).type = "Restarted"
  /\ UNCHANGED publish

EngineOnly == EngineStep /\ UNCHANGED <<publish, republish>>

(* A field of a call that is not changed keeps its value.                   *)
LEMMA StepMoves ==
  ASSUME TracksTyped, NEW p \in Publication, NEW step,
         step \in {"idle", "unpublish", "withdraw", "add", "answer", "sender", "published",
                   "unpublished", "removed", "failed"},
         publish' = [publish EXCEPT ![p].step = step]
  PROVE  /\ publish' \in [Publication -> PublishCall]
         /\ \A q \in Publication : q # p => publish'[q] = publish[q]
         /\ publish'[p].step = step /\ publish'[p].sender = publish[p].sender
BY DEF TracksTyped, PublishCall

(* The user's and the close's unpublish_track.                              *)
LEMMA UnpublishMoves ==
  ASSUME TracksTyped, NEW p \in Published, NEW who, Unpublish(p, who),
         UNCHANGED <<republish, eventsVars>>
  PROVE  Moves(p)
<1>1. p \in Publication /\ publish[p].step = "published"
  BY DEF Published
<1>2. TakenOff \subseteq {"unpublished", "removed"}
  BY DEF TakenOff
<1>3. PICK step \in {"unpublished", "removed"} : publish' = [publish EXCEPT ![p].step = step]
  BY <1>2 DEF Unpublish
<1>4. /\ publish' \in [Publication -> PublishCall]
      /\ \A q \in Publication : q # p => publish'[q] = publish[q]
      /\ publish'[p].step = step
  BY <1>1, <1>3, StepMoves
<1>. QED
  BY <1>1, <1>4 DEF Moves, eventsVars

(* The calls of publish_track.                                              *)
LEMMA PublishMoves ==
  ASSUME TracksTyped, EngineInv, NEW p \in Publication,
         \/ \E t \in Track : PublishTrack(t) /\ p = <<t, First>>
         \/ AddTrack(p) \/ TrackAdded(p) \/ CreateSender(p) \/ PublishRefused(p)
         \/ RepublishWithdraws(p)
  PROVE  Moves(p)
<1>1. CASE CreateSender(p)
  <2>1. /\ publish[p].step = "sender" /\ UNCHANGED <<republish, eventsVars>>
        /\ publish' = [publish EXCEPT ![p].step = "published", ![p].sender = current]
    BY <1>1 DEF CreateSender
  <2>2. /\ publish' \in [Publication -> PublishCall]
        /\ \A q \in Publication : q # p => publish'[q] = publish[q]
        /\ publish'[p].step = "published" /\ publish'[p].sender = current
    BY <2>1 DEF TracksTyped, PublishCall, EngineInv
  <2>. QED
    BY <2>1, <2>2 DEF Moves, eventsVars
<1>2. CASE ~CreateSender(p)
  <2>1. PICK step \in {"add", "answer", "sender", "failed"} :
           publish' = [publish EXCEPT ![p].step = step]
    BY <1>2 DEF PublishTrack, AddTrack, TrackAdded, PublishRefused, RepublishWithdraws, Step
  <2>2. /\ publish' \in [Publication -> PublishCall]
        /\ \A q \in Publication : q # p => publish'[q] = publish[q]
        /\ publish'[p].step = step
    BY <2>1, StepMoves
  <2>3. /\ publish[p].step \in {"withdraw", "add", "answer", "sender"}
             \/ (publish[p].step = "idle" /\ p[2] = First)
        /\ UNCHANGED <<rec, current, fresh, chan, closed, answered, listening, republish>>
    <3>1. ASSUME NEW t \in Track, PublishTrack(t), p = <<t, First>>
          PROVE  /\ publish[p].step = "idle" /\ p[2] = First
                 /\ UNCHANGED <<republish, eventsVars>>
      BY <3>1 DEF PublishTrack
    <3>2. ASSUME AddTrack(p) \/ TrackAdded(p)
          PROVE  /\ publish[p].step \in {"add", "answer"}
                 /\ UNCHANGED <<rec, current, fresh, chan, closed, answered, listening, republish>>
      BY <3>2 DEF AddTrack, TrackAdded, Acquire, Release
    <3>3. ASSUME PublishRefused(p)
          PROVE  publish[p].step \in {"add", "sender"} /\ UNCHANGED <<republish, eventsVars>>
      BY <3>3 DEF PublishRefused
    <3>4. ASSUME RepublishWithdraws(p)
          PROVE  publish[p].step = "withdraw" /\ UNCHANGED <<republish, eventsVars>>
      BY <3>4 DEF RepublishWithdraws
    <3>. QED
      BY <1>2, <3>1, <3>2, <3>3, <3>4 DEF eventsVars
  <2>. QED
    BY <2>2, <2>3 DEF Moves
<1>. QED
  BY <1>1, <1>2

(* Every step is one of these.                                              *)
LEMMA RoomStepKinds ==
  ASSUME TracksTyped, EngineInv, EventsAssumption, RoomAssumption, [RoomNext]_roomAll
  PROVE  \/ EngineOnly
         \/ \E p \in Publication : Moves(p) \/ RepublishUnpublishes(p)
         \/ Republishing
         \/ GetsRestarted
<1>1. ASSUME UNCHANGED <<publish, republish, eventsVars>>
      PROVE  EngineOnly
  BY <1>1 DEF EngineOnly, EngineStep
<1>2. ASSUME NEW p \in Publication,
             \/ AddTrack(p) \/ TrackAdded(p) \/ CreateSender(p) \/ PublishRefused(p)
             \/ RepublishWithdraws(p)
      PROVE  Moves(p)
  BY <1>2, PublishMoves
<1>3. ASSUME NEW t \in Track, PublishTrack(t)
      PROVE  \E p \in Publication : Moves(p)
  <2>1. <<t, First>> \in Publication
    BY DEF Publication, EventsAssumption
  <2>. QED
    BY <1>3, <2>1, PublishMoves
<1>4. ASSUME NEW p \in Publication, CloseUnpublishes(p) \/ UnpublishTrack(p)
      PROVE  EngineOnly \/ Moves(p)
  <2>1. CASE p \in Published
    BY <1>4, <2>1, UnpublishMoves DEF CloseUnpublishes, UnpublishTrack
  <2>2. CASE p \notin Published
    BY <1>1, <1>4, <2>2 DEF CloseUnpublishes, UnpublishTrack
  <2>. QED
    BY <2>1, <2>2
<1>5. ASSUME OnEngineEvent
      PROVE  EngineOnly \/ GetsRestarted
  <2>1. Take /\ UNCHANGED publish
    BY <1>5 DEF OnEngineEvent
  <2>2. CASE HandleRestarted(Head(chan))
    BY <2>1, <2>2 DEF GetsRestarted, HandleRestarted
  <2>3. CASE ~HandleRestarted(Head(chan))
    <3>1. Head(chan).type # "Restarted" /\ UNCHANGED republish
      BY <1>5, <2>3 DEF OnEngineEvent, HandleReconnecting, HandleSignal, HandleResumed,
                        HandleDisconnected, FirstQuestion
    <3>. QED
      BY <2>1, <3>1 DEF EngineOnly, EngineStep
  <2>. QED
    BY <2>2, <2>3
<1>6. ASSUME CloseEngine \/ CloseEnds \/ Reconnects \/ EngineCloses \/ EngineDisconnects
      PROVE  EngineOnly
  <2>1. ASSUME CloseEngine \/ EngineCloses
        PROVE  EngineOnly
    <3>1. Shut("user") \/ Shut("server") \/ Shut("retry")
      BY <2>1 DEF CloseEngine, EngineCloses
    <3>2. UNCHANGED <<publish, republish>>
      BY <2>1 DEF CloseEngine, EngineCloses
    <3>. QED
      BY <3>1, <3>2 DEF RoomAssumption, EngineOnly, EngineStep
  <2>2. ASSUME CloseEnds \/ Reconnects
        PROVE  EngineOnly
    BY <2>2 DEF CloseEnds, Reconnects, EngineOnly, EngineStep
  <2>3. ASSUME EngineDisconnects
        PROVE  EngineOnly
    <3>1. \E c \in Closing, reason \in Reason : Disconnect(c, current, reason)
      BY <2>3 DEF EngineDisconnects, RoomAssumption, Reason
    <3>2. UNCHANGED <<publish, republish>>
      BY <2>3 DEF EngineDisconnects, roomVars
    <3>. QED
      BY <3>1, <3>2 DEF EngineOnly, EngineStep
  <2>. QED
    BY <1>6, <2>1, <2>2, <2>3
<1>7. ASSUME EngineClosed \/ CloseStarts \/ Receive \/ UNCHANGED roomAll
      PROVE  EngineOnly
  BY <1>1, <1>7 DEF EngineClosed, CloseStarts, Receive, roomAll, roomVars
<1>8. ASSUME NEW p \in Publication, Announce(p) \/ UnpublishTrackEnds(p) \/ CloseWithdraws(p)
      PROVE  EngineOnly
  BY <1>1, <1>8 DEF Announce, UnpublishTrackEnds, CloseWithdraws
<1>. QED
  BY <1>2, <1>3, <1>4, <1>5, <1>6, <1>7, <1>8 DEF RoomNext, RoomSteps, UserSteps, Republishing

-----------------------------------------------------------------------------
(* Each kind keeps the invariant.                                           *)

(* The engine only: what an old session sends is pending, or will be when   *)
(* Restarted comes.                                                         *)
LEMMA EngineOnlyKeeps ==
  ASSUME BaseInv, EventsAssumption, EngineOnly
  PROVE  BaseInv' /\ (ListedTwice => ListedTwice') /\ (TracksInv => TracksInv')
<1>1. EngineInv' /\ EngineKeeps /\ publish' = publish /\ republish' = republish
  BY EngineSteps DEF BaseInv, EngineOnly
<1>2. RestartedOnce'
  <2>1. Restarted' => republish[current'].step = "none"
    BY <1>1 DEF BaseInv, RestartedOnce, EngineKeeps
  <2>. QED
    BY <1>1, <2>1 DEF BaseInv, RestartedOnce, EngineKeeps
<1>3. TracksTyped' /\ NotBegun'
  BY <1>1 DEF BaseInv, TracksTyped, NotBegun, Listed
<1>4. ListedTwice => ListedTwice'
  BY <1>1 DEF ListedTwice
<1>5. ASSUME TracksInv
      PROVE  TracksInv'
  <2>1. /\ Published' = Published
        /\ \A t \in Track, s \in Session : Pending(t, s)' <=> Pending(t, s)
        /\ \A p \in Publication : Active(p)' <=> Active(p)
    BY <1>1 DEF Published, Pending, Listed, Active
  <2>2. OneActive' /\ PendingHasOld' /\ OnePending' /\ ListedOnce'
    BY <1>1, <1>5, <2>1 DEF TracksInv, OneActive, PendingHasOld, OnePending, ListedOnce
  <2>3. current' # current => Restarted'
    BY <1>1 DEF EngineKeeps, Restarted
  <2>4. OldIsListed'
    <3> SUFFICES ASSUME NEW p \in Published, ~Restarted', ~closed', publish[p].sender # current'
                 PROVE  \E s \in Session : /\ p \in republish[s].listed
                                           /\ Pending(TrackOf(p), s)' \/ republish[s].step = "panicked"
      BY <1>1, <2>1 DEF OldIsListed
    <3>1. current' = current /\ ~Restarted /\ ~closed
      BY <1>1, <2>3 DEF EngineKeeps
    <3>2. PICK s \in Session : /\ p \in republish[s].listed
                               /\ Pending(TrackOf(p), s) \/ republish[s].step = "panicked"
      BY <1>5, <3>1 DEF TracksInv, OldIsListed
    <3>3. TrackOf(p) \in Track
      BY DEF Published, Publication, TrackOf
    <3>. QED
      BY <2>1, <3>2, <3>3
  <2>. QED
    BY <2>2, <2>4 DEF TracksInv
<1>. QED
  BY <1>1, <1>2, <1>3, <1>4, <1>5 DEF BaseInv

(* What the room keeps of the engine when the tracks alone change.          *)
LEMMA TracksOnly ==
  ASSUME BaseInv, UNCHANGED <<rec, current, fresh, chan, closed, answered, listening>>
  PROVE  EngineInv' /\ (Restarted' <=> Restarted)
BY DEF BaseInv, EngineInv, Restarted

(* A call goes on: what is pending has what it lists in its way, and so not *)
(* this call.                                                               *)
LEMMA MovesKeeps ==
  ASSUME BaseInv, NEW p \in Publication, Moves(p)
  PROVE  BaseInv' /\ (ListedTwice => ListedTwice') /\ (TracksInv => TracksInv')
<1>1. /\ UNCHANGED <<current, closed, republish>> /\ EngineInv' /\ (Restarted' <=> Restarted)
      /\ RestartedOnce' /\ TracksTyped' /\ (ListedTwice => ListedTwice')
  BY TracksOnly DEF Moves, BaseInv, RestartedOnce, TracksTyped, ListedTwice
<1>2. /\ \A q \in Publication : q # p => publish'[q] = publish[q]
      /\ Active(p) /\ publish'[p].step \notin {"unpublish", "idle"}
      /\ publish[p].step = "published" => ~Active(p)'
      /\ publish[p].step # "unpublish"
      /\ publish[p].step = "idle" => p[2] = First
      /\ publish'[p].step = "published" => publish'[p].sender = current
  BY DEF Moves, Active
<1>3. NotBegun'
  BY <1>1, <1>2 DEF BaseInv, NotBegun, Listed
<1>4. ASSUME TracksInv
      PROVE  TracksInv'
  <2>1. /\ \A q \in Publication : Active(q)' => Active(q)
        /\ \A t \in Track, s \in Session : Pending(t, s)' <=> Pending(t, s)
    <3>1. \A q \in Publication : Active(q)' => Active(q)
      BY <1>2 DEF Active
    <3>2. ASSUME NEW t \in Track, NEW s \in Session
          PROVE  Pending(t, s)' <=> Pending(t, s)
      <4>1. <<t, s>> \in Publication
        BY DEF Publication
      <4>2. publish'[<<t, s>>].step = "unpublish" <=> publish[<<t, s>>].step = "unpublish"
        BY <1>2, <4>1
      <4>. QED
        BY <1>1, <4>2 DEF Pending, Listed
    <3>. QED
      BY <3>1, <3>2
  <2>2. OneActive' /\ OnePending' /\ ListedOnce'
    BY <1>1, <1>4, <2>1 DEF TracksInv, OneActive, OnePending, ListedOnce
  <2>3. PendingHasOld'
    <3> SUFFICES ASSUME NEW t \in Track, NEW s \in Session, Pending(t, s)',
                        NEW q \in Publication, Active(q)', TrackOf(q) = t
                 PROVE  q \in republish[s].listed /\ q \in Published'
      BY <1>1 DEF PendingHasOld
    <3>1. q \in republish[s].listed /\ q \in Published
      BY <1>4, <2>1 DEF TracksInv, PendingHasOld
    <3>2. q # p
      BY <1>2, <3>1 DEF Published
    <3>. QED
      BY <1>2, <3>1, <3>2 DEF Published
  <2>4. OldIsListed'
    <3> SUFFICES ASSUME NEW q \in Published', publish'[q].sender # current,
                        ~Restarted, ~closed
                 PROVE  \E s \in Session : /\ q \in republish[s].listed
                                           /\ Pending(TrackOf(q), s)' \/ republish[s].step = "panicked"
      BY <1>1 DEF OldIsListed
    <3>1. q \in Publication /\ q # p /\ publish'[q] = publish[q] /\ q \in Published
      BY <1>2 DEF Published
    <3>2. TrackOf(q) \in Track
      BY <3>1 DEF Publication, TrackOf
    <3>. QED
      BY <1>4, <2>1, <3>1, <3>2 DEF TracksInv, OldIsListed
  <2>. QED
    BY <2>2, <2>3, <2>4 DEF TracksInv
<1>. QED
  BY <1>1, <1>3, <1>4 DEF BaseInv

(* The room gets Restarted: its task lists what is published, which no      *)
(* other task is about to publish again, or the publication is listed twice.*)
LEMMA GetsRestartedKeeps ==
  ASSUME BaseInv, EventsAssumption, GetsRestarted
  PROVE  /\ BaseInv' /\ (ListedTwice => ListedTwice')
         /\ TracksInv => ListedTwice' \/ TracksInv'
<1>1. /\ EngineInv' /\ Restarted /\ ~Restarted' /\ UNCHANGED <<current, fresh, closed, publish>>
      /\ republish' = [republish EXCEPT ![current] = [step |-> "spawned", listed |-> Published]]
  BY RestartedTaken DEF GetsRestarted, HandleRestarted, BaseInv
<1>2. /\ current \in Session /\ current # First /\ current \notin fresh
      /\ republish[current].step = "none" /\ republish[current].listed = {}
      /\ republish[First].step = "none"
  BY <1>1 DEF BaseInv, EngineInv, RestartedOnce
<1>3. /\ TracksTyped'
      /\ republish'[current].step = "spawned" /\ republish'[current].listed = Published
      /\ \A s \in Session : s # current => republish'[s] = republish[s]
  BY <1>1, <1>2 DEF BaseInv, TracksTyped, Published
<1>4. RestartedOnce'
  BY <1>1, <1>2, <1>3, EventsAssumption DEF BaseInv, RestartedOnce, EventsAssumption, EngineInv
<1>5. ListedTwice => ListedTwice'
  BY <1>2, <1>3 DEF ListedTwice
<1>6. NotBegun'
  <2> SUFFICES ASSUME NEW p \in Publication
               PROVE  /\ p[2] # First /\ republish'[p[2]].step \in {"none", "spawned"}
                           => publish[p].step = "idle"
                      /\ publish[p].step = "unpublish"
                           => republish'[p[2]].step = "running" /\ TrackOf(p) \in Listed(p[2])'
    BY <1>1 DEF NotBegun
  <2>1. p[2] \in Session
    BY DEF Publication
  <2>2. /\ p[2] # First /\ republish[p[2]].step \in {"none", "spawned"}
             => publish[p].step = "idle"
        /\ publish[p].step = "unpublish"
             => republish[p[2]].step = "running" /\ TrackOf(p) \in Listed(p[2])
    BY DEF BaseInv, NotBegun
  <2>3. CASE p[2] = current
    BY <1>2, <1>3, <2>2, <2>3
  <2>4. CASE p[2] # current
    BY <1>3, <2>1, <2>2, <2>4 DEF Listed
  <2>. QED
    BY <2>3, <2>4
<1>7. ASSUME TracksInv, ~ListedTwice'
      PROVE  TracksInv'
  <2>1. /\ Published' = Published /\ Published \subseteq Publication
        /\ \A p \in Publication : Active(p)' <=> Active(p)
        /\ \A p \in Published : Active(p)
    BY <1>1 DEF Published, Active
  <2>2. \A t \in Track, s \in Session : s # current => (Pending(t, s)' <=> Pending(t, s))
    BY <1>1, <1>3 DEF Pending, Listed
  <2>3. \A p \in Published : TrackOf(p) \in Track /\ Pending(TrackOf(p), current)'
    BY <1>1, <1>3, <2>1 DEF Pending, Listed, Publication, TrackOf
  <2>4. \A t \in Track : Pending(t, current)' => \E p \in Published : TrackOf(p) = t
    BY <1>1, <1>3 DEF Pending, Listed
  <2>5. OneActive'
    BY <1>7, <2>1 DEF TracksInv, OneActive
  <2>6. ListedOnce'
    <3>1. \A p, q \in Published : TrackOf(p) = TrackOf(q) => p = q
      BY <1>7, <2>1 DEF TracksInv, OneActive
    <3>. QED
      BY <1>3, <1>7, <3>1 DEF TracksInv, ListedOnce
  <2>7. PendingHasOld'
    <3> SUFFICES ASSUME NEW t \in Track, NEW s \in Session, Pending(t, s)',
                        NEW p \in Publication, Active(p), TrackOf(p) = t
                 PROVE  p \in republish'[s].listed /\ p \in Published
      BY <2>1 DEF PendingHasOld
    <3>1. CASE s = current
      BY <1>1, <1>3, <1>7, <2>1, <2>4, <3>1 DEF TracksInv, OneActive
    <3>2. CASE s # current
      BY <1>3, <1>7, <2>2, <3>2 DEF TracksInv, PendingHasOld
    <3>. QED
      BY <3>1, <3>2
  <2>8. ASSUME NEW t \in Track, NEW s \in Session, s # current,
               Pending(t, s)', Pending(t, current)'
        PROVE  FALSE
    <3>1. PICK p \in Published : TrackOf(p) = t
      BY <2>4, <2>8
    <3>2. p \in republish[s].listed
      BY <1>7, <2>1, <2>2, <2>8, <3>1 DEF TracksInv, PendingHasOld
    <3>3. p \in republish'[s].listed \cap republish'[current].listed
      BY <1>3, <2>8, <3>1, <3>2
    <3>. QED
      BY <1>2, <1>7, <2>8, <3>3 DEF ListedTwice
  <2>9. OnePending'
    BY <1>1, <1>7, <2>2, <2>8 DEF TracksInv, OnePending
  <2>10. OldIsListed'
    BY <1>1, <1>2, <1>3, <2>1, <2>3 DEF OldIsListed
  <2>. QED
    BY <2>5, <2>6, <2>7, <2>9, <2>10 DEF TracksInv
<1>. QED
  BY <1>1, <1>3, <1>4, <1>5, <1>6, <1>7 DEF BaseInv

(* The task of a session changes its step, not what it listed.              *)
TaskSteps(s, from, to) ==
  /\ republish[s].step = from
  /\ UNCHANGED <<rec, current, fresh, chan, closed, answered, listening>>
  /\ republish' = [republish EXCEPT ![s].step = to]
  /\ publish' \in [Publication -> PublishCall]

(* It keeps what does not depend on the tracks.                             *)
LEMMA TaskStepsKeeps ==
  ASSUME BaseInv, EventsAssumption, NEW s \in Session,
         NEW from \in {"spawned", "running"}, NEW to \in {"running", "panicked", "done"},
         TaskSteps(s, from, to)
  PROVE  /\ EngineInv' /\ RestartedOnce' /\ TracksTyped' /\ (ListedTwice => ListedTwice')
         /\ UNCHANGED <<current, closed>> /\ (Restarted' <=> Restarted)
         /\ \A r \in Session : republish'[r].listed = republish[r].listed
         /\ \A r \in Session : r # s => republish'[r] = republish[r]
         /\ republish'[s].step = to
         /\ s # First
<1>1. /\ republish' \in [Session -> [step : {"none", "spawned", "running", "panicked", "done"},
                                     listed : SUBSET Publication]]
      /\ \A r \in Session : republish'[r].listed = republish[r].listed
      /\ \A r \in Session : r # s => republish'[r] = republish[r]
      /\ republish'[s].step = to
  BY DEF BaseInv, TracksTyped, TaskSteps
<1>2. EngineInv' /\ (Restarted' <=> Restarted) /\ UNCHANGED <<current, closed, fresh>>
  BY TracksOnly DEF TaskSteps
<1>3. republish[s].step # "none" /\ s # First
  BY DEF BaseInv, RestartedOnce, TaskSteps
<1>4. RestartedOnce'
  BY <1>1, <1>2, <1>3 DEF BaseInv, RestartedOnce, EventsAssumption, EngineInv
<1>5. ListedTwice => ListedTwice'
  BY <1>1 DEF ListedTwice
<1>. QED
  BY <1>1, <1>2, <1>3, <1>4, <1>5 DEF BaseInv, TracksTyped, TaskSteps

(* A task is over: it panicked, when some of what it listed may be taken    *)
(* off the list, or has published all it listed or failed to.               *)
LEMMA TaskLeaves ==
  ASSUME BaseInv, EventsAssumption, NEW s \in Session,
         NEW from \in {"spawned", "running"}, NEW to \in {"panicked", "done"},
         TaskSteps(s, from, to),
         \A p \in Publication : \/ publish'[p] = publish[p]
                               \/ /\ publish[p].step = "published"
                                  /\ publish'[p].step \in {"unpublished", "removed"},
         from = "spawned" <=> to = "panicked",
         from = "running" => \A t \in Listed(s) : publish[<<t, s>>].step # "unpublish"
  PROVE  BaseInv' /\ (TracksInv => TracksInv')
<1>1. /\ UNCHANGED <<current, closed>> /\ (Restarted' <=> Restarted)
      /\ \A r \in Session : republish'[r].listed = republish[r].listed
      /\ \A r \in Session : r # s => republish'[r] = republish[r]
      /\ republish[s].step = from /\ republish'[s].step = to /\ s # First
      /\ EngineInv' /\ RestartedOnce' /\ TracksTyped'
  BY TaskStepsKeeps DEF TaskSteps
<1>2. \A r \in Session : Listed(r)' = Listed(r)
  BY <1>1 DEF Listed
<1>3. /\ \A p \in Publication : publish'[p].step = "unpublish" <=> publish[p].step = "unpublish"
      /\ \A p \in Publication : publish[p].step = "idle" => publish'[p].step = "idle"
  OBVIOUS
<1>4. NotBegun'
  <2> SUFFICES ASSUME NEW p \in Publication
               PROVE  /\ p[2] # First /\ republish'[p[2]].step \in {"none", "spawned"}
                           => publish'[p].step = "idle"
                      /\ publish'[p].step = "unpublish"
                           => republish'[p[2]].step = "running" /\ TrackOf(p) \in Listed(p[2])'
    BY DEF NotBegun
  <2>1. p[2] \in Session /\ p = <<TrackOf(p), p[2]>>
    BY DEF Publication, TrackOf
  <2>2. /\ p[2] # First /\ republish[p[2]].step \in {"none", "spawned"}
             => publish[p].step = "idle"
        /\ publish[p].step = "unpublish"
             => republish[p[2]].step = "running" /\ TrackOf(p) \in Listed(p[2])
    BY DEF BaseInv, NotBegun
  <2>3. CASE p[2] = s
    BY <1>1, <1>3, <2>1, <2>2, <2>3
  <2>4. CASE p[2] # s
    BY <1>1, <1>2, <1>3, <2>1, <2>2, <2>4
  <2>. QED
    BY <2>3, <2>4
<1>5. ASSUME TracksInv
      PROVE  TracksInv'
  <2>1. /\ \A t \in Track, r \in Session : Pending(t, r)' <=> Pending(t, r) /\ r # s
        /\ \A t \in Track : Pending(t, s) => republish'[s].step = "panicked"
    <3>1. \A t \in Track, r \in Session : <<t, r>> \in Publication
      BY DEF Publication
    <3>. QED
      BY <1>1, <1>2, <1>3, <3>1 DEF Pending
  <2>2. /\ Published' \subseteq Published
        /\ \A p \in Published' : publish'[p] = publish[p] /\ TrackOf(p) \in Track
        /\ \A p \in Publication : Active(p)' => Active(p) /\ publish'[p] = publish[p]
    BY DEF Published, Active, Publication, TrackOf
  <2>3. OneActive' /\ ListedOnce'
    BY <1>1, <1>5, <2>2 DEF TracksInv, OneActive, ListedOnce
  <2>4. OnePending'
    BY <1>5, <2>1 DEF TracksInv, OnePending
  <2>5. PendingHasOld'
    <3> SUFFICES ASSUME NEW t \in Track, NEW r \in Session, Pending(t, r)',
                        NEW p \in Publication, Active(p)', TrackOf(p) = t
                 PROVE  p \in republish'[r].listed /\ p \in Published'
      BY DEF PendingHasOld
    <3>1. p \in republish[r].listed /\ p \in Published
      BY <1>5, <2>1, <2>2 DEF TracksInv, PendingHasOld
    <3>. QED
      BY <1>1, <2>2, <3>1 DEF Published
  <2>6. OldIsListed'
    <3> SUFFICES ASSUME NEW p \in Published', publish[p].sender # current, ~Restarted, ~closed
                 PROVE  \E r \in Session : /\ p \in republish[r].listed
                                           /\ Pending(TrackOf(p), r)' \/ republish'[r].step = "panicked"
      BY <1>1, <2>2 DEF OldIsListed
    <3>1. PICK r \in Session : /\ p \in republish[r].listed
                               /\ Pending(TrackOf(p), r) \/ republish[r].step = "panicked"
      BY <1>5, <2>2 DEF TracksInv, OldIsListed
    <3>. QED
      BY <1>1, <2>1, <2>2, <3>1
  <2>. QED
    BY <2>3, <2>4, <2>5, <2>6 DEF TracksInv
<1>. QED
  BY <1>1, <1>4, <1>5 DEF BaseInv

(* A task begins: what it listed is to be unpublished, one track at a time. *)
LEMMA TaskBegins ==
  ASSUME BaseInv, EventsAssumption, NEW s \in Session,
         TaskSteps(s, "spawned", "running"),
         publish' = [p \in Publication |->
                       IF p[2] = s /\ TrackOf(p) \in Listed(s)
                       THEN [publish[p] EXCEPT !.step = "unpublish"] ELSE publish[p]]
  PROVE  BaseInv' /\ (TracksInv => TracksInv')
<1>1. /\ UNCHANGED <<current, closed>> /\ (Restarted' <=> Restarted)
      /\ \A r \in Session : republish'[r].listed = republish[r].listed
      /\ \A r \in Session : r # s => republish'[r] = republish[r]
      /\ republish[s].step = "spawned" /\ republish'[s].step = "running" /\ s # First
      /\ EngineInv' /\ RestartedOnce' /\ TracksTyped'
  BY TaskStepsKeeps DEF TaskSteps
<1>2. \A p \in Publication : p[2] = s => publish[p].step = "idle"
  BY <1>1 DEF BaseInv, NotBegun
<1>3. \A r \in Session : Listed(r)' = Listed(r)
  BY <1>1 DEF Listed
<1>4. /\ \A p \in Publication : p[2] = s /\ TrackOf(p) \in Listed(s) => publish'[p].step = "unpublish"
      /\ \A p \in Publication : p[2] # s \/ TrackOf(p) \notin Listed(s) => publish'[p] = publish[p]
  BY DEF BaseInv, TracksTyped, PublishCall
<1>5. /\ Published' = Published
      /\ \A p \in Published : publish'[p] = publish[p] /\ TrackOf(p) \in Track
      /\ \A p \in Publication : Active(p)' <=> Active(p)
  <2>1. ASSUME NEW p \in Publication
        PROVE  \/ publish'[p] = publish[p]
               \/ /\ p[2] # First
                  /\ publish'[p].step = "unpublish" /\ publish[p].step = "idle"
    BY <1>1, <1>2, <1>4
  <2>2. Published' = Published /\ \A p \in Published : publish'[p] = publish[p]
    BY <2>1 DEF Published
  <2>3. \A p \in Publication : Active(p)' <=> Active(p)
    BY <2>1 DEF Active
  <2>. QED
    BY <2>2, <2>3 DEF Published, Publication, TrackOf
<1>6. \A t \in Track, r \in Session : Pending(t, r)' <=> Pending(t, r)
  <2> TAKE t \in Track, r \in Session
  <2>1. <<t, r>> \in Publication /\ <<t, r>>[2] = r /\ TrackOf(<<t, r>>) = t
    BY DEF Publication, TrackOf
  <2>2. CASE r = s
    BY <1>1, <1>3, <1>4, <2>1, <2>2 DEF Pending
  <2>3. CASE r # s
    BY <1>1, <1>3, <1>4, <2>1, <2>3 DEF Pending
  <2>. QED
    BY <2>2, <2>3
<1>7. NotBegun'
  <2> SUFFICES ASSUME NEW p \in Publication
               PROVE  /\ p[2] # First /\ republish'[p[2]].step \in {"none", "spawned"}
                           => publish'[p].step = "idle"
                      /\ publish'[p].step = "unpublish"
                           => republish'[p[2]].step = "running" /\ TrackOf(p) \in Listed(p[2])'
    BY DEF NotBegun
  <2>1. p[2] \in Session
    BY DEF Publication
  <2>2. /\ p[2] # First /\ republish[p[2]].step \in {"none", "spawned"}
             => publish[p].step = "idle"
        /\ publish[p].step = "unpublish"
             => republish[p[2]].step = "running" /\ TrackOf(p) \in Listed(p[2])
    BY DEF BaseInv, NotBegun
  <2>3. CASE p[2] = s
    BY <1>1, <1>2, <1>3, <1>4, <2>3
  <2>4. CASE p[2] # s
    BY <1>1, <1>3, <1>4, <2>1, <2>2, <2>4
  <2>. QED
    BY <2>3, <2>4
<1>8. ASSUME TracksInv
      PROVE  TracksInv'
  <2>1. OneActive' /\ ListedOnce'
    BY <1>1, <1>5, <1>8 DEF TracksInv, OneActive, ListedOnce
  <2>2. PendingHasOld' /\ OnePending'
    BY <1>1, <1>5, <1>6, <1>8 DEF TracksInv, PendingHasOld, OnePending
  <2>3. OldIsListed'
    <3> SUFFICES ASSUME NEW p \in Published, publish[p].sender # current, ~Restarted, ~closed
                 PROVE  \E r \in Session : /\ p \in republish[r].listed
                                           /\ Pending(TrackOf(p), r)' \/ republish'[r].step = "panicked"
      BY <1>1, <1>5 DEF OldIsListed
    <3>1. PICK r \in Session : /\ p \in republish[r].listed
                               /\ Pending(TrackOf(p), r) \/ republish[r].step = "panicked"
      BY <1>8 DEF TracksInv, OldIsListed
    <3>. QED
      BY <1>1, <1>5, <1>6, <3>1
  <2>. QED
    BY <2>1, <2>2, <2>3 DEF TracksInv
<1>. QED
  BY <1>1, <1>7, <1>8 DEF BaseInv

(* What had begun when it panicked takes publications off the list.         *)
LEMMA PanicTakesOff ==
  ASSUME TracksTyped, NEW s \in Session, RepublishPanics(s)
  PROVE  /\ republish' = [republish EXCEPT ![s].step = "panicked"]
         /\ publish' \in [Publication -> PublishCall]
         /\ \A p \in Publication : \/ publish'[p] = publish[p]
                                  \/ /\ publish[p].step = "published"
                                     /\ publish'[p].step \in {"unpublished", "removed"}
<1>0. PICK begun \in SUBSET (republish[s].listed \cap Published) : \E gone \in [begun -> TakenOff] :
        publish' = [p \in Publication |->
                      IF p \in begun THEN [publish[p] EXCEPT !.step = gone[p]] ELSE publish[p]]
  BY DEF RepublishPanics
<1>1. PICK gone \in [begun -> TakenOff] :
        publish' = [p \in Publication |->
                      IF p \in begun THEN [publish[p] EXCEPT !.step = gone[p]] ELSE publish[p]]
  BY <1>0
<1>2. ASSUME NEW p \in Publication
      PROVE  /\ publish'[p] \in PublishCall
             /\ \/ publish'[p] = publish[p]
                \/ /\ publish[p].step = "published"
                   /\ publish'[p].step \in {"unpublished", "removed"}
  <2>1. publish[p] \in PublishCall
    BY DEF TracksTyped
  <2>2. CASE p \notin begun
    BY <1>1, <2>1, <2>2
  <2>3. CASE p \in begun
    <3>1. publish[p].step = "published" /\ gone[p] \in {"unpublished", "removed"}
      BY <1>1, <2>3 DEF Published, TakenOff
    <3>2. publish'[p] = [publish[p] EXCEPT !.step = gone[p]]
      BY <1>1, <2>3
    <3>. QED
      BY <2>1, <3>1, <3>2 DEF PublishCall
  <2>. QED
    BY <2>2, <2>3
<1>. QED
  BY <1>1, <1>2 DEF RepublishPanics

(* Whatever step of its task.                                               *)
LEMMA RepublishingKeeps ==
  ASSUME BaseInv, EventsAssumption, Republishing
  PROVE  BaseInv' /\ (ListedTwice => ListedTwice') /\ (TracksInv => TracksInv')
<1>1. PICK s \in Session : RepublishStarts(s) \/ RepublishEnds(s)
  BY DEF Republishing
<1>2. CASE RepublishStarts(s)
  <2>0. /\ republish[s].step = "spawned"
        /\ UNCHANGED <<rec, current, fresh, chan, closed, answered, listening>>
    BY <1>2 DEF RepublishStarts, eventsVars
  <2>1. CASE RepublishPanics(s)
    <3>1. /\ republish' = [republish EXCEPT ![s].step = "panicked"]
          /\ publish' \in [Publication -> PublishCall]
          /\ \A p \in Publication : \/ publish'[p] = publish[p]
                                   \/ /\ publish[p].step = "published"
                                      /\ publish'[p].step \in {"unpublished", "removed"}
      BY <2>1, PanicTakesOff DEF BaseInv
    <3>2. TaskSteps(s, "spawned", "panicked")
      BY <2>0, <3>1 DEF TaskSteps
    <3>. QED
      BY <3>1, <3>2, TaskStepsKeeps, TaskLeaves
  <2>2. CASE RepublishSpawns(s)
    <3>1. /\ republish[s].step = "spawned" /\ republish' = [republish EXCEPT ![s].step = "running"]
          /\ publish' = [p \in Publication |->
                           IF p[2] = s /\ TrackOf(p) \in Listed(s)
                           THEN [publish[p] EXCEPT !.step = "unpublish"] ELSE publish[p]]
      BY <2>0, <2>2 DEF RepublishSpawns
    <3>2. publish' \in [Publication -> PublishCall]
      BY <3>1 DEF BaseInv, TracksTyped, PublishCall
    <3>3. TaskSteps(s, "spawned", "running")
      BY <2>0, <3>1, <3>2 DEF TaskSteps
    <3>. QED
      BY <3>1, <3>3, TaskStepsKeeps, TaskBegins
  <2>. QED
    BY <1>2, <2>1, <2>2 DEF RepublishStarts
<1>3. CASE RepublishEnds(s)
  <2>1. TaskSteps(s, "running", "done") /\ publish' = publish
    BY <1>3 DEF RepublishEnds, TaskSteps, BaseInv, TracksTyped, eventsVars
  <2>2. \A t \in Listed(s) : publish[<<t, s>>].step # "unpublish"
    BY <1>3 DEF RepublishEnds
  <2>. QED
    BY <2>1, <2>2, TaskStepsKeeps, TaskLeaves
<1>. QED
  BY <1>1, <1>2, <1>3

(* The task unpublishes what it listed of a track, which was all that was in*)
(* the way, and goes on to publish the track again.                         *)
LEMMA UnpublishesKeeps ==
  ASSUME BaseInv, EventsAssumption, NEW p \in Publication, RepublishUnpublishes(p)
  PROVE  BaseInv' /\ (ListedTwice => ListedTwice') /\ (TracksInv => TracksInv')
<1>1. PICK old \in republish[p[2]].listed, gone \in {"unpublished", "removed"},
             next \in {"withdraw", "add"} :
        /\ TrackOf(old) = TrackOf(p)
        /\ publish' = [publish EXCEPT ![p].step = next,
                                      ![old].step = IF old \in Published THEN gone ELSE @]
  BY DEF RepublishUnpublishes, TakenOff
<1>2. /\ publish[p].step = "unpublish"
      /\ UNCHANGED <<rec, current, fresh, chan, closed, answered, listening, republish>>
  BY DEF RepublishUnpublishes, eventsVars
<1>3. old \in Publication /\ p[2] \in Session /\ TrackOf(p) \in Track /\ p = <<TrackOf(p), p[2]>>
  BY DEF BaseInv, TracksTyped, Publication, TrackOf
<1>4. old \in Published => old # p
  BY <1>2 DEF Published
<1>5. /\ publish' \in [Publication -> PublishCall]
      /\ publish'[p].step = next
      /\ old \in Published => publish'[old].step = gone
      /\ \A q \in Publication : q # p /\ (q # old \/ old \notin Published)
                                  => publish'[q] = publish[q]
  BY <1>1, <1>2, <1>3, <1>4 DEF BaseInv, TracksTyped, PublishCall
<1>6. EngineInv' /\ (Restarted' <=> Restarted)
  BY <1>2, TracksOnly
<1>7. RestartedOnce' /\ TracksTyped' /\ (ListedTwice => ListedTwice')
  BY <1>2, <1>5, <1>6 DEF BaseInv, RestartedOnce, TracksTyped, ListedTwice
<1>8. NotBegun'
  <2> SUFFICES ASSUME NEW q \in Publication
               PROVE  /\ q[2] # First /\ republish[q[2]].step \in {"none", "spawned"}
                           => publish'[q].step = "idle"
                      /\ publish'[q].step = "unpublish"
                           => republish[q[2]].step = "running" /\ TrackOf(q) \in Listed(q[2])
    BY <1>2 DEF NotBegun, Listed
  <2>1. /\ q[2] # First /\ republish[q[2]].step \in {"none", "spawned"}
             => publish[q].step = "idle"
        /\ publish[q].step = "unpublish"
             => republish[q[2]].step = "running" /\ TrackOf(q) \in Listed(q[2])
    BY DEF BaseInv, NotBegun
  <2>2. CASE q = p
    BY <1>2, <1>5, <2>1, <2>2
  <2>3. CASE q = old /\ old \in Published
    BY <1>5, <2>1, <2>3 DEF Published
  <2>4. CASE q # p /\ (q # old \/ old \notin Published)
    BY <1>5, <2>1, <2>4
  <2>. QED
    BY <2>2, <2>3, <2>4
<1>9. ASSUME TracksInv
      PROVE  TracksInv'
  <2>1. republish[p[2]].step = "running" /\ TrackOf(p) \in Listed(p[2])
    BY <1>2 DEF BaseInv, NotBegun
  <2>2. Pending(TrackOf(p), p[2])
    BY <1>2, <1>3, <2>1 DEF Pending
  <2>3. \A q \in Publication : Active(q) /\ TrackOf(q) = TrackOf(p) => q = old /\ old \in Published
    <3>1. \A q \in Publication : Active(q) /\ TrackOf(q) = TrackOf(p)
                                   => q \in republish[p[2]].listed /\ q \in Published
      BY <1>3, <1>9, <2>2 DEF TracksInv, PendingHasOld
    <3>. QED
      BY <1>1, <1>3, <1>9, <3>1 DEF TracksInv, ListedOnce
  <2>4. ~Active(p) /\ (old \in Published => ~Active(old)')
    BY <1>2, <1>5 DEF Active
  <2>5. \A q \in Publication : Active(q)' =>
          q = p \/ (Active(q) /\ TrackOf(q) # TrackOf(p) /\ publish'[q] = publish[q])
    <3> SUFFICES ASSUME NEW q \in Publication, Active(q)', q # p
                 PROVE  Active(q) /\ TrackOf(q) # TrackOf(p) /\ publish'[q] = publish[q]
      OBVIOUS
    <3>1. publish'[q] = publish[q]
      BY <1>5, <2>4
    <3>2. Active(q)
      BY <3>1 DEF Active
    <3>. QED
      BY <2>3, <2>4, <3>1, <3>2
  <2>6. ASSUME NEW t \in Track, NEW r \in Session
        PROVE  Pending(t, r)' <=> Pending(t, r) /\ t # TrackOf(p)
    <3>1. <<t, r>> \in Publication /\ TrackOf(<<t, r>>) = t /\ Listed(r)' = Listed(r)
      BY <1>2 DEF Publication, TrackOf, Listed
    <3>2. CASE t = TrackOf(p)
      <4>1. Pending(t, r)' => Pending(t, r)
        BY <1>2, <1>5, <3>1 DEF Pending
      <4>2. Pending(t, r) => r = p[2]
        BY <1>3, <1>9, <2>2, <3>2 DEF TracksInv, OnePending
      <4>3. ~Pending(t, p[2])'
        BY <1>2, <1>3, <1>5, <2>1, <3>2 DEF Pending
      <4>. QED
        BY <3>2, <4>1, <4>2, <4>3
    <3>3. CASE t # TrackOf(p)
      <4>1. publish'[<<t, r>>] = publish[<<t, r>>]
        BY <1>1, <1>5, <3>1, <3>3
      <4>. QED
        BY <1>2, <3>1, <3>3, <4>1 DEF Pending
    <3>. QED
      BY <3>2, <3>3
  <2>7. OneActive'
    BY <1>9, <2>5 DEF TracksInv, OneActive
  <2>8. OnePending' /\ ListedOnce'
    BY <1>2, <1>9, <2>6 DEF TracksInv, OnePending, ListedOnce
  <2>9. PendingHasOld'
    <3> SUFFICES ASSUME NEW t \in Track, NEW s \in Session, Pending(t, s)',
                        NEW q \in Publication, Active(q)', TrackOf(q) = t
                 PROVE  q \in republish[s].listed /\ q \in Published'
      BY <1>2 DEF PendingHasOld
    <3>1. Pending(t, s) /\ t # TrackOf(p)
      BY <2>6
    <3>2. Active(q) /\ publish'[q] = publish[q]
      BY <2>5, <3>1
    <3>. QED
      BY <1>9, <3>1, <3>2 DEF TracksInv, PendingHasOld, Published
  <2>10. OldIsListed'
    <3> SUFFICES ASSUME NEW q \in Published', publish'[q].sender # current, ~Restarted, ~closed
                 PROVE  \E s \in Session : /\ q \in republish[s].listed
                                           /\ Pending(TrackOf(q), s)' \/ republish[s].step = "panicked"
      BY <1>2, <1>6 DEF OldIsListed
    <3>1. q \in Publication /\ Active(q)' /\ q # p
      BY <1>5 DEF Published, Active
    <3>2. TrackOf(q) # TrackOf(p) /\ publish'[q] = publish[q] /\ q \in Published /\ TrackOf(q) \in Track
      BY <2>5, <3>1 DEF Published, Publication, TrackOf
    <3>3. PICK s \in Session : /\ q \in republish[s].listed
                               /\ Pending(TrackOf(q), s) \/ republish[s].step = "panicked"
      BY <1>9, <3>2 DEF TracksInv, OldIsListed
    <3>. QED
      BY <2>6, <3>2, <3>3
  <2>. QED
    BY <2>7, <2>8, <2>9, <2>10 DEF TracksInv
<1>. QED
  BY <1>6, <1>7, <1>8, <1>9 DEF BaseInv

-----------------------------------------------------------------------------
(* The theorems.                                                            *)

(* At first the user's own calls alone may publish.                         *)
LEMMA RoomInitially ==
  ASSUME RoomInit, EventsAssumption
  PROVE  RoomInv
<1>1. EngineInv
  <2>1. DOMAIN <<>> = {} /\ <<>> \in Seq(ChanEvent)
    BY EmptySeq
  <2>2. OneQuestion(chan, rec, answered) /\ AboutCurrent(chan, current) /\ ~Restarted
    BY <2>1 DEF RoomInit, EventsInit, OneQuestion, AboutCurrent, Restarted, HasRestarted
  <2>. QED
    BY <2>1, <2>2 DEF RoomInit, EventsInit, EngineInv, RecStep, EventsAssumption
<1>2. /\ \A p \in Publication : publish[p].step = "idle"
      /\ \A s \in Session : republish[s].step = "none" /\ republish[s].listed = {}
      /\ TracksTyped
  BY DEF RoomInit, TracksTyped, PublishCall
<1>3. RestartedOnce
  BY <1>1, <1>2 DEF RestartedOnce, EngineInv, EventsAssumption
<1>4. \A t \in Track, s \in Session : ~Pending(t, s)
  BY <1>2 DEF Pending, Listed
<1>5. OneActive
  <2> SUFFICES ASSUME NEW p \in Publication, NEW q \in Publication,
                      Active(p), Active(q), TrackOf(p) = TrackOf(q)
               PROVE  p = q
    BY DEF OneActive
  <2>1. p[2] = First /\ q[2] = First
    BY <1>2 DEF Active
  <2>. QED
    BY <2>1 DEF TrackOf, Publication
<1>6. TracksInv /\ NotBegun
  BY <1>2, <1>4, <1>5 DEF TracksInv, PendingHasOld, OnePending, ListedOnce, NotBegun,
                          OldIsListed, Published
<1>. QED
  BY <1>1, <1>2, <1>3, <1>6 DEF RoomInv, BaseInv

(* Each step keeps the invariant.                                           *)
LEMMA RoomStepKeeps ==
  ASSUME RoomInv, EventsAssumption, RoomAssumption, [RoomNext]_roomAll
  PROVE  RoomInv'
<1>1. /\ BaseInv' /\ (ListedTwice => ListedTwice')
      /\ TracksInv => ListedTwice' \/ TracksInv'
  <2>1. \/ EngineOnly
        \/ \E p \in Publication : Moves(p) \/ RepublishUnpublishes(p)
        \/ Republishing
        \/ GetsRestarted
    BY RoomStepKinds DEF RoomInv, BaseInv
  <2>2. BaseInv
    BY DEF RoomInv
  <2>. QED
    BY <2>1, <2>2, EngineOnlyKeeps, MovesKeeps, UnpublishesKeeps, RepublishingKeeps,
       GetsRestartedKeeps
<1>. QED
  BY <1>1 DEF RoomInv

(* Through any reconnections, publications, unpublications and closes: the  *)
(* tracks that a task has yet to publish again are the only ones an old     *)
(* session sends, and no track has two calls that publish it.               *)
THEOREM RoomInvariant == RoomSpec => []RoomInv
<1>1. RoomInit => RoomInv
  BY RoomInitially, EventsAssumption
<1>2. RoomInv /\ [RoomNext]_roomAll => RoomInv'
  BY RoomStepKeeps, EventsAssumption, RoomAssumption
<1>. QED
  BY <1>1, <1>2, PTL DEF RoomSpec

(* Once everything has settled each local track is sent on the current      *)
(* session and is published once, unless two restarts listed the same       *)
(* publication: for any tracks, sessions and number of reconnections.       *)
THEOREM TracksAreCurrent == RoomSpec => []LocalTracksAreCurrent
<1>1. RoomInv => LocalTracksAreCurrent
  <2> SUFFICES ASSUME RoomInv, ~ListedTwice
               PROVE  SendersAreCurrent /\ OnePublication
    BY DEF LocalTracksAreCurrent
  <2>1. TracksInv
    BY DEF RoomInv
  <2>2. OnePublication
    BY <2>1 DEF TracksInv, OneActive, OnePublication, Active, Published
  <2>3. SendersAreCurrent
    <3> SUFFICES ASSUME Quiet, NEW p \in Published
                 PROVE  publish[p].sender = current
      BY DEF SendersAreCurrent
    <3>1. ~Restarted /\ ~closed
      BY EmptySeq DEF Quiet, Restarted, HasRestarted
    <3>2. \A s \in Session : ~(Pending(TrackOf(p), s) \/ republish[s].step = "panicked")
      BY DEF Quiet, Pending
    <3>. QED
      BY <2>1, <3>1, <3>2 DEF TracksInv, OldIsListed
  <2>. QED
    BY <2>2, <2>3
<1>. QED
  BY <1>1, RoomInvariant, PTL

(* A step of the FFI is one of the room, or leaves it alone.                *)
LEMMA FfiSteps ==
  ASSUME [FfiNext]_ffiAll
  PROVE  [RoomNext]_roomAll
<1>1. CASE (RoomSteps \/ Spawned \/ Reconnects \/ EngineCloses) /\ UNCHANGED ffiVars
  BY <1>1 DEF Spawned, RoomNext, UserSteps
<1>2. ASSUME NEW t \in Track, PublishRequest(t) \/ PublishCallback(t) \/ PublishPending(t)
      PROVE  RoomNext \/ UNCHANGED roomAll
  BY <1>2 DEF PublishRequest, PublishCallback, PublishPending, RoomNext, UserSteps
<1>3. ASSUME NEW p \in Publication, UnpublishRequest(p) \/ UnpublishCallback(p)
      PROVE  RoomNext \/ UNCHANGED roomAll
  BY <1>3 DEF UnpublishRequest, UnpublishCallback, RoomNext, UserSteps
<1>4. CASE ForwardEvent \/ ForwardAfterCallback
  BY <1>4 DEF ForwardEvent, ForwardAfterCallback, RoomNext
<1>5. CASE CloseRequest \/ CloseTasks \/ EventTaskStops
  BY <1>5 DEF CloseRequest, CloseTasks, EventTaskStops, RoomNext, UserSteps
<1>6. CASE UNCHANGED ffiAll
  BY <1>6 DEF ffiAll
<1>. QED
  BY <1>1, <1>2, <1>3, <1>4, <1>5, <1>6 DEF FfiNext

(* Behind the FFI the room takes no other steps: its requests, its event    *)
(* task and its own close are steps of the user and of the application.     *)
THEOREM FfiImplementsRoom == FfiSpec => RoomSpec
<1>1. FfiInit => RoomInit
  BY DEF FfiInit
<1>2. [FfiNext]_ffiAll => [RoomNext]_roomAll
  BY FfiSteps
<1>. QED
  BY <1>1, <1>2, PTL DEF FfiSpec, RoomSpec

-----------------------------------------------------------------------------
(* What is said of a publication, and what became of it.                    *)

WasListed == {"published", "unpublished", "removed"}
StateEvent == {"Reconnecting", "Reconnected", "Disconnected"}

(* It is announced or about to be once it was listed, and withdrawn by who  *)
(* took it off; its announcement comes too late only if that was said.      *)
CallsInv ==
  /\ announce \in [Publication -> {"none", "due", "said", "late", "panicked"}]
  /\ withdraw \in [Publication -> {"none", "call", "task", "close", "said", "lost"}]
  /\ roomEvents \in Seq(RoomEvent) /\ cleared \in BOOLEAN
  /\ \A p \in Publication :
       /\ announce[p] # "none" <=> publish[p].step \in WasListed
       /\ withdraw[p] # "none" => publish[p].step = "unpublished"
       /\ announce[p] \in {"late", "panicked"} => withdraw[p] \in {"said", "lost"}

(* A step that announces or withdraws nothing: the call goes on, lists its  *)
(* publication, or has it taken off.                                        *)
GoesOn(p) ==
  \/ /\ announce'[p] = announce[p] /\ withdraw'[p] = withdraw[p]
     /\ \/ publish'[p].step = publish[p].step
        \/ publish[p].step \notin WasListed /\ publish'[p].step \notin WasListed
        \/ publish[p].step = "published" /\ publish'[p].step = "removed"
  \/ /\ publish[p].step \notin WasListed /\ publish'[p].step = "published"
     /\ announce'[p] = "due" /\ withdraw'[p] = withdraw[p]
  \/ /\ publish[p].step = "published" /\ publish'[p].step = "unpublished"
     /\ announce'[p] = announce[p] /\ withdraw'[p] \in {"call", "task", "close"}

Calm ==
  /\ announce' \in [Publication -> {"none", "due", "said", "late", "panicked"}]
  /\ withdraw' \in [Publication -> {"none", "call", "task", "close", "said", "lost"}]
  /\ cleared' \in {cleared, TRUE}
  /\ \/ UNCHANGED roomEvents
     \/ \E e \in RoomEvent : e.type \in StateEvent /\ roomEvents' = Append(roomEvents, e)
  /\ \A p \in Publication : GoesOn(p)

(* A step that says something of a publication.                             *)
Dispatches(type, p) ==
  /\ UNCHANGED cleared
  /\ roomEvents' = IF cleared THEN roomEvents ELSE Append(roomEvents, [type |-> type, sid |-> p])

Publishes(p) ==
  /\ announce[p] = "due"
  /\ UNCHANGED <<publish, withdraw, cleared>>
  /\ IF withdraw[p] \in {"said", "lost"}
     THEN \/ announce' = [announce EXCEPT ![p] = "late"] /\ Dispatches("LocalTrackPublished", p)
          \/ announce' = [announce EXCEPT ![p] = "panicked"] /\ UNCHANGED roomEvents
     ELSE announce' = [announce EXCEPT ![p] = "said"] /\ Dispatches("LocalTrackPublished", p)

Unpublishes(p) ==
  /\ withdraw[p] \in {"call", "task", "close"}
  /\ withdraw' = [withdraw EXCEPT ![p] = IF cleared THEN "lost" ELSE "said"]
  /\ UNCHANGED announce
  /\ Dispatches("LocalTrackUnpublished", p)
  /\ \A q \in Publication : \/ publish'[q].step = publish[q].step
                            \/ publish[q].step \notin WasListed /\ publish'[q].step \notin WasListed

(* dispatch appends an event.                                               *)
LEMMA DispatchAppends ==
  ASSUME roomEvents \in Seq(RoomEvent), NEW type, NEW sid, Dispatch(<<type>>, sid),
         [type |-> type, sid |-> sid] \in RoomEvent
  PROVE  roomEvents' = IF cleared THEN roomEvents
                       ELSE Append(roomEvents, [type |-> type, sid |-> sid])
<1>1. [i \in DOMAIN <<type>> |-> [type |-> <<type>>[i], sid |-> sid]]
        = <<[type |-> type, sid |-> sid]>>
  OBVIOUS
<1>2. Append(roomEvents, [type |-> type, sid |-> sid])
        = roomEvents \o <<[type |-> type, sid |-> sid]>>
  BY AppendIsConcat
<1>. QED
  BY <1>1, <1>2 DEF Dispatch, Dispatched

(* dispatch of nothing appends none.                                        *)
LEMMA DispatchNothing ==
  ASSUME roomEvents \in Seq(RoomEvent), NEW sid, Dispatch(<<>>, sid)
  PROVE  roomEvents' = roomEvents
<1>1. [i \in DOMAIN <<>> |-> [type |-> <<>>[i], sid |-> sid]] = <<>>
  OBVIOUS
<1>. QED
  BY <1>1, ConcatEmptySeq DEF Dispatch, Dispatched

(* A step that is about no publication.                                     *)
LEMMA CalmState ==
  ASSUME CallsInv, UNCHANGED <<publish, announce, withdraw>>, cleared' \in {cleared, TRUE},
         \/ UNCHANGED roomEvents
         \/ \E type \in StateEvent : Dispatch(<<type>>, NoSession) \/ Dispatch(<<>>, NoSession)
  PROVE  Calm
<1>1. \A p \in Publication : GoesOn(p)
  BY DEF GoesOn
<1>2. ASSUME NEW type \in StateEvent, Dispatch(<<type>>, NoSession) \/ Dispatch(<<>>, NoSession)
      PROVE  \/ UNCHANGED roomEvents
             \/ \E e \in RoomEvent : e.type \in StateEvent /\ roomEvents' = Append(roomEvents, e)
  <2>1. [type |-> type, sid |-> NoSession] \in RoomEvent
    BY DEF RoomEvent, StateEvent
  <2>2. CASE Dispatch(<<>>, NoSession)
    BY <2>2, DispatchNothing DEF CallsInv
  <2>3. CASE Dispatch(<<type>>, NoSession)
    <3>1. roomEvents' = IF cleared THEN roomEvents
                        ELSE Append(roomEvents, [type |-> type, sid |-> NoSession])
      BY <2>1, <2>3, DispatchAppends DEF CallsInv
    <3>. QED
      BY <2>1, <3>1
  <2>. QED
    BY <1>2, <2>2, <2>3
<1>3. \/ UNCHANGED roomEvents
      \/ \E e \in RoomEvent : e.type \in StateEvent /\ roomEvents' = Append(roomEvents, e)
  BY <1>2
<1>. QED
  BY <1>1, <1>3 DEF Calm, CallsInv

(* A call goes on, outside of the list.                                     *)
LEMMA CalmStep ==
  ASSUME CallsInv, TracksTyped, NEW p \in Publication, NEW step,
         step \notin WasListed, publish[p].step \notin WasListed,
         publish' = [publish EXCEPT ![p].step = step],
         UNCHANGED <<announce, withdraw, roomEvents, cleared>>
  PROVE  Calm
<1>1. /\ publish'[p].step = step
      /\ \A q \in Publication : q # p => publish'[q] = publish[q]
  BY DEF TracksTyped, PublishCall
<1>2. \A q \in Publication : GoesOn(q)
  BY <1>1 DEF GoesOn
<1>. QED
  BY <1>2 DEF Calm, CallsInv

(* A publication is taken off the list.                                     *)
LEMMA CalmUnpublish ==
  ASSUME CallsInv, TracksTyped, NEW p \in Published, NEW who \in {"call", "task", "close"},
         Unpublish(p, who), UNCHANGED <<announce, roomEvents, cleared>>
  PROVE  Calm
<1>1. PICK gone \in TakenOff :
        /\ publish' = [publish EXCEPT ![p].step = gone]
        /\ withdraw' = IF gone = "unpublished" THEN [withdraw EXCEPT ![p] = who] ELSE withdraw
  BY DEF Unpublish
<1>2. p \in Publication /\ publish[p].step = "published" /\ gone \in {"unpublished", "removed"}
  BY DEF Published, TakenOff
<1>3. /\ publish'[p].step = gone
      /\ \A q \in Publication : q # p => publish'[q] = publish[q]
  BY <1>1, <1>2 DEF TracksTyped, PublishCall
<1>4. /\ withdraw' \in [Publication -> {"none", "call", "task", "close", "said", "lost"}]
      /\ gone = "unpublished" => withdraw'[p] = who
      /\ gone # "unpublished" => withdraw'[p] = withdraw[p]
      /\ \A q \in Publication : q # p => withdraw'[q] = withdraw[q]
  BY <1>1, <1>2 DEF CallsInv
<1>5. \A q \in Publication : GoesOn(q)
  BY <1>2, <1>3, <1>4 DEF GoesOn
<1>. QED
  BY <1>4, <1>5 DEF Calm, CallsInv

(* The task unpublishes a publication, or finds it gone.                    *)
LEMMA CalmTask ==
  ASSUME CallsInv, TracksTyped, NEW p \in Publication, RepublishUnpublishes(p)
  PROVE  Calm
<1>1. PICK old \in republish[p[2]].listed, gone \in {"unpublished", "removed"},
             next \in {"withdraw", "add"} :
        /\ publish' = [publish EXCEPT ![p].step = next,
                                      ![old].step = IF old \in Published THEN gone ELSE @]
        /\ withdraw' = IF old \in Published /\ gone = "unpublished"
                       THEN [withdraw EXCEPT ![old] = "task"] ELSE withdraw
  BY DEF RepublishUnpublishes, TakenOff
<1>2. publish[p].step = "unpublish" /\ UNCHANGED <<announce, roomEvents, cleared>>
  BY DEF RepublishUnpublishes
<1>3. old \in Publication /\ (old \in Published => old # p /\ publish[old].step = "published")
  BY <1>2 DEF TracksTyped, Publication, Published
<1>4. /\ publish'[p].step = next
      /\ old \in Published => publish'[old].step = gone
      /\ \A q \in Publication : q # p /\ (q # old \/ old \notin Published)
                                  => publish'[q] = publish[q]
  BY <1>1, <1>2, <1>3 DEF TracksTyped, PublishCall
<1>5. /\ withdraw' \in [Publication -> {"none", "call", "task", "close", "said", "lost"}]
      /\ old \in Published /\ gone = "unpublished" => withdraw'[old] = "task"
      /\ old \in Published /\ gone # "unpublished" => withdraw'[old] = withdraw[old]
      /\ \A q \in Publication : q # old \/ old \notin Published => withdraw'[q] = withdraw[q]
  BY <1>1, <1>3 DEF CallsInv
<1>6. ASSUME NEW q \in Publication
      PROVE  GoesOn(q)
  <2>1. CASE q = p
    BY <1>2, <1>3, <1>4, <1>5, <2>1 DEF GoesOn, WasListed
  <2>2. CASE q = old /\ old \in Published
    BY <1>2, <1>3, <1>4, <1>5, <2>2 DEF GoesOn
  <2>3. CASE q # p /\ (q # old \/ old \notin Published)
    BY <1>2, <1>4, <1>5, <2>3 DEF GoesOn
  <2>. QED
    BY <2>1, <2>2, <2>3
<1>. QED
  BY <1>2, <1>5, <1>6 DEF Calm, CallsInv

(* The task begins, or panics.                                              *)
LEMMA CalmStart ==
  ASSUME CallsInv, BaseInv, NEW s \in Session, RepublishStarts(s)
  PROVE  Calm
<1>1. republish[s].step = "spawned" /\ UNCHANGED <<announce, roomEvents, cleared>>
  BY DEF RepublishStarts
<1>2. CASE RepublishSpawns(s)
  <2>1. publish' = [p \in Publication |->
                      IF p[2] = s /\ TrackOf(p) \in Listed(s)
                      THEN [publish[p] EXCEPT !.step = "unpublish"] ELSE publish[p]]
    BY <1>2 DEF RepublishSpawns
  <2>2. withdraw' = withdraw
    BY <1>2 DEF RepublishSpawns
  <2>3. s # First
    BY <1>1 DEF BaseInv, RestartedOnce
  <2>4. ASSUME NEW p \in Publication
        PROVE  GoesOn(p)
    <3>1. publish[p] \in PublishCall
      BY DEF BaseInv, TracksTyped
    <3>2. CASE p[2] = s /\ TrackOf(p) \in Listed(s)
      <4>1. publish[p].step = "idle"
        BY <1>1, <2>3, <3>2 DEF BaseInv, NotBegun
      <4>2. publish'[p].step = "unpublish"
        BY <2>1, <3>1, <3>2 DEF PublishCall
      <4>. QED
        BY <1>1, <2>2, <4>1, <4>2 DEF GoesOn, WasListed
    <3>3. CASE ~(p[2] = s /\ TrackOf(p) \in Listed(s))
      <4>1. publish'[p] = publish[p]
        BY <2>1, <3>3
      <4>. QED
        BY <1>1, <2>2, <4>1 DEF GoesOn
    <3>. QED
      BY <3>2, <3>3
  <2>. QED
    BY <1>1, <2>2, <2>4 DEF Calm, CallsInv
<1>3. CASE RepublishPanics(s)
  <2>0. PICK begun \in SUBSET (republish[s].listed \cap Published) : \E gone \in [begun -> TakenOff] :
          /\ publish' = [p \in Publication |->
               IF p \in begun THEN [publish[p] EXCEPT !.step = gone[p]] ELSE publish[p]]
          /\ withdraw' = [p \in Publication |->
               IF p \in begun /\ gone[p] = "unpublished" THEN "call" ELSE withdraw[p]]
    BY <1>3 DEF RepublishPanics
  <2>1. PICK gone \in [begun -> TakenOff] :
          /\ publish' = [p \in Publication |->
               IF p \in begun THEN [publish[p] EXCEPT !.step = gone[p]] ELSE publish[p]]
          /\ withdraw' = [p \in Publication |->
               IF p \in begun /\ gone[p] = "unpublished" THEN "call" ELSE withdraw[p]]
    BY <2>0
  <2>2. withdraw' \in [Publication -> {"none", "call", "task", "close", "said", "lost"}]
    BY <2>1 DEF CallsInv
  <2>3. ASSUME NEW p \in Publication
        PROVE  GoesOn(p)
    <3>1. publish[p] \in PublishCall
      BY DEF BaseInv, TracksTyped
    <3>2. CASE p \in begun
      <4>1. publish[p].step = "published" /\ gone[p] \in {"unpublished", "removed"}
        BY <2>1, <3>2 DEF Published, TakenOff
      <4>2. publish'[p].step = gone[p]
        BY <2>1, <3>1, <3>2 DEF PublishCall
      <4>3. withdraw'[p] = IF gone[p] = "unpublished" THEN "call" ELSE withdraw[p]
        BY <2>1, <3>2
      <4>. QED
        BY <1>1, <4>1, <4>2, <4>3 DEF GoesOn
    <3>3. CASE p \notin begun
      <4>1. publish'[p] = publish[p] /\ withdraw'[p] = withdraw[p]
        BY <2>1, <3>3
      <4>. QED
        BY <1>1, <4>1 DEF GoesOn
    <3>. QED
      BY <3>2, <3>3
  <2>. QED
    BY <1>1, <2>2, <2>3 DEF Calm, CallsInv
<1>. QED
  BY <1>2, <1>3 DEF RepublishStarts

(* A call of publish_track goes on.                                         *)
LEMMA CalmCall ==
  ASSUME CallsInv, TracksTyped, NEW p \in Publication,
         \/ \E t \in Track : PublishTrack(t) /\ p = <<t, First>>
         \/ AddTrack(p) \/ TrackAdded(p) \/ PublishRefused(p) \/ CreateSender(p)
  PROVE  Calm
<1>1. CASE CreateSender(p)
  <2>1. /\ publish[p].step = "sender" /\ announce' = [announce EXCEPT ![p] = "due"]
        /\ publish' = [publish EXCEPT ![p].step = "published", ![p].sender = current]
        /\ UNCHANGED <<withdraw, roomEvents, cleared>>
    BY <1>1 DEF CreateSender
  <2>2. /\ publish'[p].step = "published"
        /\ \A q \in Publication : q # p => publish'[q] = publish[q]
    BY <2>1 DEF TracksTyped, PublishCall
  <2>3. /\ announce' \in [Publication -> {"none", "due", "said", "late", "panicked"}]
        /\ announce'[p] = "due"
        /\ \A q \in Publication : q # p => announce'[q] = announce[q]
    BY <2>1 DEF CallsInv
  <2>4. \A q \in Publication : GoesOn(q)
    BY <2>1, <2>2, <2>3 DEF GoesOn, WasListed
  <2>. QED
    BY <2>1, <2>3, <2>4 DEF Calm, CallsInv
<1>2. CASE ~CreateSender(p)
  <2>1. PICK step \in {"add", "answer", "sender", "failed"} :
           publish' = [publish EXCEPT ![p].step = step]
    BY <1>2 DEF PublishTrack, AddTrack, TrackAdded, PublishRefused, Step
  <2>2. /\ publish[p].step \in {"idle", "add", "answer", "sender"}
        /\ UNCHANGED <<announce, withdraw, roomEvents, cleared>>
    BY <1>2 DEF PublishTrack, AddTrack, TrackAdded, PublishRefused
  <2>. QED
    BY <2>1, <2>2, CalmStep DEF WasListed
<1>. QED
  BY <1>1, <1>2

(* What is said of a publication by who withdraws it.                       *)
LEMMA WithdrawSays ==
  ASSUME CallsInv, TracksTyped, NEW p \in Publication, Withdraw(p), UNCHANGED <<announce, cleared>>,
         withdraw[p] \in {"call", "task", "close"},
         \A q \in Publication : \/ publish'[q].step = publish[q].step
                                \/ publish[q].step \notin WasListed /\ publish'[q].step \notin WasListed
  PROVE  Unpublishes(p)
<1>1. [type |-> "LocalTrackUnpublished", sid |-> p] \in RoomEvent
  BY DEF RoomEvent
<1>2. Dispatches("LocalTrackUnpublished", p)
  BY <1>1, DispatchAppends DEF Withdraw, Dispatches, CallsInv
<1>. QED
  BY <1>2 DEF Withdraw, Unpublishes

(* What is said of it by who publishes it.                                  *)
LEMMA AnnounceSays ==
  ASSUME CallsInv, NEW p \in Publication, Announce(p)
  PROVE  Publishes(p)
<1>1. [type |-> "LocalTrackPublished", sid |-> p] \in RoomEvent
  BY DEF RoomEvent
<1>2. Dispatch(<<"LocalTrackPublished">>, p) => Dispatches("LocalTrackPublished", p)
  BY <1>1, DispatchAppends DEF Announce, Dispatches, CallsInv
<1>. QED
  BY <1>2 DEF Announce, Publishes

(* Every step of the room but the application's.                            *)
LEMMA RoomSays ==
  ASSUME CallsInv, BaseInv, RoomSteps \/ UserSteps \/ Reconnects \/ EngineCloses
  PROVE  Calm \/ \E p \in Publication : Publishes(p) \/ Unpublishes(p)
<1>0. TracksTyped
  BY DEF BaseInv
<1>1. ASSUME UNCHANGED <<publish, announce, withdraw, roomEvents>>, cleared' \in {cleared, TRUE}
      PROVE  Calm
  BY <1>1, CalmState
<1>2. ASSUME NEW p \in Publication, AddTrack(p) \/ TrackAdded(p) \/ CreateSender(p) \/ PublishRefused(p)
      PROVE  Calm
  BY <1>0, <1>2, CalmCall
<1>3. ASSUME NEW t \in Track, PublishTrack(t)
      PROVE  Calm
  <2>1. <<t, First>> \in Publication
    BY EventsAssumption DEF Publication, EventsAssumption
  <2>. QED
    BY <1>0, <1>3, <2>1, CalmCall
<1>4. ASSUME NEW p \in Publication, CloseUnpublishes(p) \/ UnpublishTrack(p)
      PROVE  Calm
  <2>1. CASE p \in Published
    <3>1. \E who \in {"call", "task", "close"} : Unpublish(p, who)
      BY <1>4, <2>1 DEF CloseUnpublishes, UnpublishTrack
    <3>2. UNCHANGED <<announce, roomEvents, cleared>>
      BY <1>4 DEF CloseUnpublishes, UnpublishTrack
    <3>. QED
      BY <1>0, <2>1, <3>1, <3>2, CalmUnpublish
  <2>2. CASE p \notin Published
    BY <1>1, <1>4, <2>2 DEF CloseUnpublishes, UnpublishTrack
  <2>. QED
    BY <2>1, <2>2
<1>5. ASSUME NEW p \in Publication, Announce(p)
      PROVE  Publishes(p)
  BY <1>5, AnnounceSays
<1>6. ASSUME NEW p \in Publication, UnpublishTrackEnds(p) \/ CloseWithdraws(p)
      PROVE  Unpublishes(p)
  <2>1. /\ Withdraw(p) /\ UNCHANGED <<publish, announce, cleared>>
        /\ withdraw[p] \in {"call", "task", "close"}
    BY <1>6 DEF UnpublishTrackEnds, CloseWithdraws
  <2>. QED
    BY <1>0, <2>1, WithdrawSays
<1>7. ASSUME NEW p \in Publication, RepublishWithdraws(p)
      PROVE  \E q \in Publication : Unpublishes(q)
  <2>1. PICK old \in republish[p[2]].listed : withdraw[old] = "task" /\ Withdraw(old)
    BY <1>7 DEF RepublishWithdraws
  <2>2. /\ publish[p].step = "withdraw" /\ publish' = [publish EXCEPT ![p].step = "add"]
        /\ UNCHANGED <<announce, cleared>> /\ old \in Publication
    BY <1>0, <1>7, <2>1 DEF RepublishWithdraws, Step, TracksTyped, Publication
  <2>3. /\ publish'[p].step = "add"
        /\ \A q \in Publication : q # p => publish'[q] = publish[q]
    BY <1>0, <2>2 DEF TracksTyped, PublishCall
  <2>4. \A q \in Publication : \/ publish'[q].step = publish[q].step
                               \/ publish[q].step \notin WasListed /\ publish'[q].step \notin WasListed
    BY <2>2, <2>3 DEF WasListed
  <2>. QED
    BY <1>0, <2>1, <2>2, <2>4, WithdrawSays
<1>8. ASSUME NEW p \in Publication, RepublishUnpublishes(p)
      PROVE  Calm
  BY <1>0, <1>8, CalmTask
<1>9. ASSUME NEW s \in Session, RepublishStarts(s)
      PROVE  Calm
  BY <1>9, CalmStart
<1>10. ASSUME NEW s \in Session, RepublishEnds(s)
       PROVE  Calm
  <2>1. Dispatch(<<"Reconnected">>, NoSession) /\ UNCHANGED <<publish, announce, withdraw, cleared>>
    BY <1>10 DEF RepublishEnds
  <2>. QED
    BY <2>1, CalmState DEF StateEvent
<1>11. ASSUME OnEngineEvent
       PROVE  Calm
  <2>1. UNCHANGED <<publish, announce, withdraw, cleared>>
    BY <1>11 DEF OnEngineEvent
  <2>2. \/ UNCHANGED roomEvents
        \/ \E type \in StateEvent : Dispatch(<<type>>, NoSession) \/ Dispatch(<<>>, NoSession)
    BY <1>11 DEF OnEngineEvent, HandleReconnecting, HandleSignal, HandleResumed,
                 HandleRestarted, HandleDisconnected, Become, StateEvent
  <2>. QED
    BY <2>1, <2>2, CalmState
<1>12. ASSUME EngineDisconnects
       PROVE  Calm
  BY <1>1, <1>12 DEF EngineDisconnects, roomVars
<1>13. ASSUME CloseEngine \/ EngineClosed \/ CloseEnds \/ CloseStarts \/ Reconnects \/ EngineCloses
       PROVE  Calm
  BY <1>1, <1>13 DEF CloseEngine, EngineClosed, CloseEnds, CloseStarts, Reconnects, EngineCloses
<1>. QED
  BY <1>2, <1>3, <1>4, <1>5, <1>6, <1>7, <1>8, <1>9, <1>10, <1>11, <1>12, <1>13
     DEF RoomSteps, UserSteps

(* What is said goes on the channel.                                        *)
LEMMA SaidTyped ==
  ASSUME CallsInv, NEW p \in Publication, NEW type \in {"LocalTrackPublished", "LocalTrackUnpublished"},
         Dispatches(type, p)
  PROVE  roomEvents' \in Seq(RoomEvent) /\ cleared' \in BOOLEAN
<1>1. [type |-> type, sid |-> p] \in RoomEvent
  BY DEF RoomEvent
<1>. QED
  BY <1>1, AppendHolds DEF Dispatches, CallsInv

(* Each of them keeps what is said and what became of it together.          *)
LEMMA SaysKeeps ==
  ASSUME CallsInv, Calm \/ \E p \in Publication : Publishes(p) \/ Unpublishes(p)
  PROVE  CallsInv'
<1>1. CASE Calm
  <2>1. roomEvents' \in Seq(RoomEvent)
    BY <1>1, AppendHolds DEF Calm, CallsInv
  <2>2. cleared' \in BOOLEAN
    BY <1>1 DEF Calm, CallsInv
  <2>3. ASSUME NEW p \in Publication
        PROVE  /\ announce'[p] # "none" <=> publish'[p].step \in WasListed
               /\ withdraw'[p] # "none" => publish'[p].step = "unpublished"
               /\ announce'[p] \in {"late", "panicked"} => withdraw'[p] \in {"said", "lost"}
    <3>1. /\ announce[p] # "none" <=> publish[p].step \in WasListed
          /\ withdraw[p] # "none" => publish[p].step = "unpublished"
          /\ announce[p] \in {"late", "panicked"} => withdraw[p] \in {"said", "lost"}
          /\ GoesOn(p)
      BY <1>1 DEF Calm, CallsInv
    <3>. QED
      BY <3>1 DEF GoesOn, WasListed
  <2>. QED
    BY <1>1, <2>1, <2>2, <2>3 DEF Calm, CallsInv
<1>2. ASSUME NEW p \in Publication, Publishes(p)
      PROVE  CallsInv'
  <2>1. PICK a \in {"said", "late", "panicked"} :
          /\ announce' = [announce EXCEPT ![p] = a]
          /\ a # "said" => withdraw[p] \in {"said", "lost"}
    BY <1>2 DEF Publishes
  <2>2. roomEvents' \in Seq(RoomEvent) /\ cleared' \in BOOLEAN
    BY <1>2, SaidTyped DEF Publishes, CallsInv
  <2>3. announce[p] = "due" /\ publish' = publish /\ withdraw' = withdraw
    BY <1>2 DEF Publishes
  <2>4. /\ announce' \in [Publication -> {"none", "due", "said", "late", "panicked"}]
        /\ announce'[p] = a /\ \A q \in Publication : q # p => announce'[q] = announce[q]
    BY <2>1 DEF CallsInv
  <2>. QED
    BY <2>1, <2>2, <2>3, <2>4 DEF CallsInv
<1>3. ASSUME NEW p \in Publication, Unpublishes(p)
      PROVE  CallsInv'
  <2>1. roomEvents' \in Seq(RoomEvent) /\ cleared' \in BOOLEAN
    BY <1>3, SaidTyped DEF Unpublishes
  <2>2. /\ withdraw' \in [Publication -> {"none", "call", "task", "close", "said", "lost"}]
        /\ withdraw[p] \in {"call", "task", "close"} /\ withdraw'[p] \in {"said", "lost"}
        /\ \A q \in Publication : q # p => withdraw'[q] = withdraw[q]
        /\ announce' = announce
    BY <1>3 DEF Unpublishes, CallsInv
  <2>3. ASSUME NEW q \in Publication
        PROVE  /\ announce[q] # "none" <=> publish'[q].step \in WasListed
               /\ withdraw[q] # "none" => publish'[q].step = "unpublished"
    <3>1. \/ publish'[q].step = publish[q].step
          \/ publish[q].step \notin WasListed /\ publish'[q].step \notin WasListed
      BY <1>3 DEF Unpublishes
    <3>2. /\ announce[q] # "none" <=> publish[q].step \in WasListed
          /\ withdraw[q] # "none" => publish[q].step = "unpublished"
      BY DEF CallsInv
    <3>. QED
      BY <3>1, <3>2 DEF WasListed
  <2>. QED
    BY <2>1, <2>2, <2>3 DEF CallsInv
<1>. QED
  BY <1>1, <1>2, <1>3

(* Every step of the room.                                                  *)
LEMMA CallsKeep ==
  ASSUME CallsInv, BaseInv, [RoomNext]_roomAll
  PROVE  CallsInv'
<1>1. CASE RoomSteps \/ UserSteps \/ Reconnects \/ EngineCloses
  BY <1>1, RoomSays, SaysKeeps
<1>2. CASE Receive
  <2>1. roomEvents # <<>> /\ roomEvents' = Tail(roomEvents)
        /\ UNCHANGED <<publish, announce, withdraw, cleared>>
    BY <1>2 DEF Receive
  <2>2. roomEvents' \in Seq(RoomEvent)
    BY <2>1, TailHolds DEF CallsInv
  <2>. QED
    BY <2>1, <2>2 DEF CallsInv
<1>3. CASE UNCHANGED roomAll
  BY <1>3 DEF roomAll, roomVars, CallsInv
<1>. QED
  BY <1>1, <1>2, <1>3 DEF RoomNext

(* What was said of each publication, and by whom it is still to be said,   *)
(* agree with what became of it, whoever publishes and unpublishes it.      *)
THEOREM CallsInvariant == RoomSpec => []CallsInv
<1>1. RoomInit => CallsInv
  <2> SUFFICES ASSUME RoomInit PROVE CallsInv
    OBVIOUS
  <2>1. /\ roomEvents = <<>> /\ cleared = FALSE
        /\ announce = [p \in Publication |-> "none"] /\ withdraw = [p \in Publication |-> "none"]
        /\ publish = [p \in Publication |-> [step |-> "idle", sender |-> NoSession]]
    BY DEF RoomInit
  <2>2. roomEvents \in Seq(RoomEvent)
    BY <2>1, EmptySeq
  <2>. QED
    BY <2>1, <2>2 DEF CallsInv, WasListed
<1>2. RoomInv => BaseInv
  BY DEF RoomInv
<1>3. CallsInv /\ BaseInv /\ [RoomNext]_roomAll => CallsInv'
  BY CallsKeep
<1>4. RoomSpec => []BaseInv
  BY <1>2, RoomInvariant, PTL
<1>. QED
  BY <1>1, <1>3, <1>4, PTL DEF RoomSpec

-----------------------------------------------------------------------------
(* What the client is told of a track, and what is on its way.              *)

Known(p) ==
  \/ <<"LocalTrackPublished", p>> \in told
  \/ eventTask.step = "waiting" /\ eventTask.sid = p
Announces(q, i, p) == q[i].type = "LocalTrackPublished" /\ q[i].sid = p
Withdraws(q, i, p) == q[i].type = "LocalTrackUnpublished" /\ q[i].sid = p
Announced(q, p) == \E i \in DOMAIN q : Announces(q, i, p)
InOrder(q, p) ==
  \A i \in DOMAIN q : Withdraws(q, i, p) =>
    \E j \in DOMAIN q : j < i /\ Announces(q, j, p)

(* Unless it was overtaken, a publication is known or its events are in     *)
(* order; it is known only once it was announced, and who waits to be       *)
(* called back for unpublishing it asked after that.                        *)
ToldOf(p) ==
  /\ Overtaken(p) \/ Known(p) \/ InOrder(roomEvents, p)
  /\ announce[p] = "said" /\ ~cleared => Known(p) \/ Announced(roomEvents, p)
  /\ Known(p) \/ Announced(roomEvents, p) \/ <<"PublishTrack", p>> \in told
       => announce[p] \in {"said", "late"}
  /\ p \in pendingUnpublished => <<"LocalTrackUnpublished", p>> \in told
  /\ unpublishTask[p] = "waiting" => announce[p] = "said"

ToldInv ==
  /\ unpublishTask \in [Publication -> {"none", "waiting", "ended"}]
  /\ \A p \in Publication : ToldOf(p)
  /\ ToldInOrder

(* An event comes last: it withdraws what was announced.                    *)
LEMMA InOrderAppended ==
  ASSUME NEW q \in Seq(RoomEvent), NEW e \in RoomEvent, NEW p
  PROVE  /\ /\ InOrder(q, p)
            /\ e.type = "LocalTrackUnpublished" /\ e.sid = p => Announced(q, p)
            => InOrder(Append(q, e), p)
         /\ Announced(q, p) \/ (e.type = "LocalTrackPublished" /\ e.sid = p)
              <=> Announced(Append(q, e), p)
<1>1. /\ DOMAIN Append(q, e) = DOMAIN q \cup {Len(q) + 1}
      /\ \A i \in DOMAIN q : Append(q, e)[i] = q[i]
      /\ Append(q, e)[Len(q) + 1] = e
  BY AppendHolds
<1>2. DOMAIN q = 1 .. Len(q) /\ Len(q) \in Nat
  BY LenProperties
<1>3. ASSUME InOrder(q, p),
             e.type = "LocalTrackUnpublished" /\ e.sid = p => Announced(q, p),
             NEW i \in DOMAIN Append(q, e), Withdraws(Append(q, e), i, p)
      PROVE  \E j \in DOMAIN Append(q, e) : j < i /\ Announces(Append(q, e), j, p)
  <2>1. CASE i \in DOMAIN q
    <3>1. PICK j \in DOMAIN q : j < i /\ Announces(q, j, p)
      BY <1>1, <1>3, <2>1 DEF InOrder, Withdraws
    <3>. QED
      BY <1>1, <3>1 DEF Announces
  <2>2. CASE i = Len(q) + 1
    <3>1. PICK j \in DOMAIN q : Announces(q, j, p)
      BY <1>1, <1>3, <2>2 DEF Withdraws, Announced
    <3>2. j < i
      BY <1>2, <2>2, <3>1
    <3>. QED
      BY <1>1, <3>1, <3>2 DEF Announces
  <2>. QED
    BY <1>1, <2>1, <2>2
<1>4. ASSUME Announced(q, p)
      PROVE  Announced(Append(q, e), p)
  BY <1>1, <1>4 DEF Announced, Announces
<1>5. ASSUME e.type = "LocalTrackPublished" /\ e.sid = p
      PROVE  Announced(Append(q, e), p)
  BY <1>1, <1>5 DEF Announced, Announces
<1>6. ASSUME Announced(Append(q, e), p)
      PROVE  Announced(q, p) \/ (e.type = "LocalTrackPublished" /\ e.sid = p)
  BY <1>1, <1>6 DEF Announced, Announces
<1>. QED
  BY <1>3, <1>4, <1>5, <1>6 DEF InOrder

(* The first event is taken.                                                *)
LEMMA InOrderTaken ==
  ASSUME NEW q \in Seq(RoomEvent), q # <<>>, NEW p
  PROVE  /\ InOrder(q, p) => InOrder(Tail(q), p) \/ Announces(q, 1, p)
         /\ Announced(q, p) <=> Announced(Tail(q), p) \/ Announces(q, 1, p)
         /\ InOrder(q, p) => ~Withdraws(q, 1, p)
         /\ q[1] = Head(q)
<1>1. /\ 1 \in DOMAIN q /\ q[1] = Head(q)
      /\ \A i \in DOMAIN Tail(q) : i \in Nat \ {0} /\ i + 1 \in DOMAIN q /\ Tail(q)[i] = q[i + 1]
      /\ \A j \in DOMAIN q : j # 1 => j \in Nat /\ j - 1 \in DOMAIN Tail(q) /\ Tail(q)[j - 1] = q[j]
  BY TailHolds
<1>2. \A j \in DOMAIN q : j \in Nat /\ j \geq 1
  BY LenProperties
<1>3. ASSUME InOrder(q, p), ~Announces(q, 1, p),
             NEW i \in DOMAIN Tail(q), Withdraws(Tail(q), i, p)
      PROVE  \E j \in DOMAIN Tail(q) : j < i /\ Announces(Tail(q), j, p)
  <2>1. i + 1 \in DOMAIN q /\ Withdraws(q, i + 1, p) /\ i \in Nat
    BY <1>1, <1>3 DEF Withdraws
  <2>2. PICK j \in DOMAIN q : j < i + 1 /\ Announces(q, j, p)
    BY <1>3, <2>1 DEF InOrder
  <2>3. j - 1 \in DOMAIN Tail(q) /\ Announces(Tail(q), j - 1, p)
    BY <1>1, <1>3, <2>2 DEF Announces
  <2>4. j - 1 < i
    BY <1>2, <2>1, <2>2
  <2>. QED
    BY <2>3, <2>4
<1>4. ASSUME Announced(q, p), ~Announces(q, 1, p)
      PROVE  Announced(Tail(q), p)
  BY <1>1, <1>4 DEF Announced, Announces
<1>5. ASSUME InOrder(q, p), Withdraws(q, 1, p)
      PROVE  FALSE
  BY <1>1, <1>2, <1>5 DEF InOrder
<1>6. ASSUME Announced(Tail(q), p) \/ Announces(q, 1, p)
      PROVE  Announced(q, p)
  BY <1>1, <1>6 DEF Announced, Announces
<1>. QED
  BY <1>1, <1>3, <1>4, <1>5, <1>6 DEF InOrder

(* What is said of no publication, or of another.                           *)
LEMMA OthersKept ==
  ASSUME roomEvents \in Seq(RoomEvent), NEW p,
         \/ UNCHANGED roomEvents
         \/ \E e \in RoomEvent : /\ roomEvents' = Append(roomEvents, e)
                                 /\ e.type \in StateEvent \/ e.sid # p
  PROVE  /\ InOrder(roomEvents, p) => InOrder(roomEvents', p)
         /\ Announced(roomEvents', p) <=> Announced(roomEvents, p)
<1>1. ASSUME NEW e \in RoomEvent, roomEvents' = Append(roomEvents, e),
             e.type \in StateEvent \/ e.sid # p
      PROVE  /\ InOrder(roomEvents, p) => InOrder(roomEvents', p)
             /\ Announced(roomEvents', p) <=> Announced(roomEvents, p)
  <2>1. /\ ~(e.type = "LocalTrackUnpublished" /\ e.sid = p)
        /\ ~(e.type = "LocalTrackPublished" /\ e.sid = p)
    BY <1>1 DEF StateEvent
  <2>2. /\ /\ InOrder(roomEvents, p)
           /\ e.type = "LocalTrackUnpublished" /\ e.sid = p => Announced(roomEvents, p)
           => InOrder(Append(roomEvents, e), p)
        /\ Announced(roomEvents, p) \/ (e.type = "LocalTrackPublished" /\ e.sid = p)
             <=> Announced(Append(roomEvents, e), p)
    BY InOrderAppended
  <2>. QED
    BY <1>1, <2>1, <2>2
<1>. QED
  BY <1>1

(* What is said of the publication itself.                                  *)
LEMMA SaidOf ==
  ASSUME CallsInv, NEW p \in Publication, NEW r \in Publication,
         NEW type \in {"LocalTrackPublished", "LocalTrackUnpublished"}, Dispatches(type, r)
  PROVE  /\ cleared' = cleared
         /\ r # p => /\ InOrder(roomEvents, p) => InOrder(roomEvents', p)
                     /\ Announced(roomEvents', p) <=> Announced(roomEvents, p)
         /\ type = "LocalTrackPublished" /\ r = p =>
              /\ InOrder(roomEvents, p) => InOrder(roomEvents', p)
              /\ ~cleared => Announced(roomEvents', p)
         /\ type = "LocalTrackUnpublished" /\ r = p =>
              /\ InOrder(roomEvents, p) /\ (Announced(roomEvents, p) \/ cleared)
                   => InOrder(roomEvents', p)
              /\ Announced(roomEvents', p) <=> Announced(roomEvents, p)
<1>. DEFINE e == [type |-> type, sid |-> r]
<1>1. e \in RoomEvent /\ e.type = type /\ e.sid = r
  BY DEF RoomEvent
<1>2. cleared' = cleared /\ roomEvents' = IF cleared THEN roomEvents ELSE Append(roomEvents, e)
  BY DEF Dispatches
<1>. HIDE DEF e
<1>3. roomEvents \in Seq(RoomEvent) /\ cleared \in BOOLEAN
  BY DEF CallsInv
<1>4. /\ /\ InOrder(roomEvents, p)
         /\ e.type = "LocalTrackUnpublished" /\ e.sid = p => Announced(roomEvents, p)
         => InOrder(Append(roomEvents, e), p)
      /\ Announced(roomEvents, p) \/ (e.type = "LocalTrackPublished" /\ e.sid = p)
           <=> Announced(Append(roomEvents, e), p)
  BY <1>1, <1>3, InOrderAppended
<1>5. CASE cleared
  BY <1>2, <1>5
<1>6. CASE ~cleared
  BY <1>1, <1>2, <1>4, <1>6
<1>. QED
  BY <1>5, <1>6

(* The room goes on, and nobody is told.                                    *)
LEMMA SaysTold ==
  ASSUME ToldInv, CallsInv, Calm \/ \E p \in Publication : Publishes(p) \/ Unpublishes(p),
         UNCHANGED <<told, eventTask, pendingUnpublished>>,
         unpublishTask' \in [Publication -> {"none", "waiting", "ended"}],
         \A p \in Publication :
           unpublishTask'[p] = "waiting" => unpublishTask[p] = "waiting" \/ announce[p] = "said"
  PROVE  ToldInv'
<1>1. ASSUME NEW p \in Publication
      PROVE  /\ ToldOf(p) /\ Known(p)' = Known(p)
             /\ unpublishTask'[p] = "waiting" => announce[p] = "said"
             /\ announce[p] # "none" <=> publish[p].step \in WasListed
             /\ withdraw[p] # "none" => publish[p].step = "unpublished"
             /\ announce[p] \in {"late", "panicked"} => withdraw[p] \in {"said", "lost"}
             /\ announce[p] \in {"none", "due", "said", "late", "panicked"}
             /\ roomEvents \in Seq(RoomEvent) /\ cleared \in BOOLEAN
  BY DEF ToldInv, ToldOf, Known, CallsInv
<1>2. ASSUME Calm, NEW p \in Publication
      PROVE  ToldOf(p)' /\ (Overtaken(p) => Overtaken(p)')
  <2>1. /\ InOrder(roomEvents, p) => InOrder(roomEvents', p)
        /\ Announced(roomEvents', p) <=> Announced(roomEvents, p)
    BY <1>1, <1>2, OthersKept DEF Calm
  <2>2. /\ announce'[p] = announce[p] \/ (announce[p] = "none" /\ announce'[p] = "due")
        /\ Overtaken(p) => Overtaken(p)'
    <3>1. GoesOn(p)
      BY <1>2 DEF Calm
    <3>. QED
      BY <1>1, <3>1 DEF GoesOn, WasListed, Overtaken
  <2>3. cleared => cleared'
    BY <1>1, <1>2 DEF Calm
  <2>. QED
    BY <1>1, <2>1, <2>2, <2>3 DEF ToldOf
<1>3. ASSUME NEW r \in Publication, Publishes(r), NEW p \in Publication
      PROVE  ToldOf(p)' /\ (Overtaken(p) => Overtaken(p)')
  <2>1. /\ announce[r] = "due" /\ withdraw' = withdraw /\ cleared' = cleared
        /\ \A q \in Publication : q # r => announce'[q] = announce[q]
    BY <1>3 DEF Publishes, CallsInv
  <2>2. CASE p # r
    <3>1. UNCHANGED roomEvents \/ Dispatches("LocalTrackPublished", r)
      BY <1>3 DEF Publishes
    <3>2. /\ InOrder(roomEvents, p) => InOrder(roomEvents', p)
          /\ Announced(roomEvents', p) <=> Announced(roomEvents, p)
      BY <2>2, <3>1, SaidOf
    <3>. QED
      BY <1>1, <2>1, <2>2, <3>2 DEF ToldOf, Overtaken
  <2>3. CASE p = r /\ withdraw[p] \in {"said", "lost"}
    <3>1. PICK a \in {"late", "panicked"} :
            /\ announce' = [announce EXCEPT ![p] = a]
            /\ a = "panicked" => UNCHANGED roomEvents
      BY <1>3, <2>3 DEF Publishes
    <3>2. announce'[p] = a
      BY <3>1 DEF CallsInv
    <3>3. Overtaken(p)'
      BY <2>1, <2>3, <3>2 DEF Overtaken
    <3>4. /\ ~Known(p)' /\ ~Announced(roomEvents, p) /\ <<"PublishTrack", p>> \notin told'
          /\ p \in pendingUnpublished' => <<"LocalTrackUnpublished", p>> \in told'
          /\ unpublishTask'[p] # "waiting"
      BY <1>1, <2>1, <2>3 DEF ToldOf
    <3>5. a = "panicked" => ~Announced(roomEvents', p)
      BY <3>1, <3>4
    <3>. QED
      BY <3>2, <3>3, <3>4, <3>5 DEF ToldOf
  <2>4. CASE p = r /\ withdraw[p] \notin {"said", "lost"}
    <3>1. announce' = [announce EXCEPT ![p] = "said"] /\ Dispatches("LocalTrackPublished", p)
      BY <1>3, <2>4 DEF Publishes
    <3>2. announce'[p] = "said" /\ ~Overtaken(p)
      BY <2>4, <3>1 DEF CallsInv, Overtaken
    <3>3. /\ InOrder(roomEvents, p) => InOrder(roomEvents', p)
          /\ ~cleared => Announced(roomEvents', p)
      BY <3>1, SaidOf
    <3>. QED
      BY <1>1, <2>1, <3>2, <3>3 DEF ToldOf
  <2>. QED
    BY <2>2, <2>3, <2>4
<1>4. ASSUME NEW r \in Publication, Unpublishes(r), NEW p \in Publication
      PROVE  ToldOf(p)' /\ (Overtaken(p) => Overtaken(p)')
  <2>1. /\ withdraw[r] \in {"call", "task", "close"} /\ announce' = announce /\ cleared' = cleared
        /\ withdraw'[r] \in {"said", "lost"}
        /\ \A q \in Publication : q # r => withdraw'[q] = withdraw[q]
        /\ Dispatches("LocalTrackUnpublished", r)
    BY <1>4 DEF Unpublishes, Dispatches, CallsInv
  <2>2. CASE p # r
    <3>1. /\ InOrder(roomEvents, p) => InOrder(roomEvents', p)
          /\ Announced(roomEvents', p) <=> Announced(roomEvents, p)
      BY <2>1, <2>2, SaidOf
    <3>. QED
      BY <1>1, <2>1, <2>2, <3>1 DEF ToldOf, Overtaken
  <2>3. CASE p = r
    <3>1. announce[p] \in {"due", "said"}
      BY <1>1, <2>1, <2>3 DEF WasListed
    <3>2. /\ InOrder(roomEvents, p) /\ (Announced(roomEvents, p) \/ cleared)
               => InOrder(roomEvents', p)
          /\ Announced(roomEvents', p) <=> Announced(roomEvents, p)
      BY <2>1, <2>3, SaidOf
    <3>3. /\ announce[p] = "due" => Overtaken(p)'
          /\ ~Overtaken(p)
      BY <2>1, <2>3 DEF Overtaken
    <3>. QED
      BY <1>1, <2>1, <3>1, <3>2, <3>3 DEF ToldOf
  <2>. QED
    BY <2>2, <2>3
<1>5. \A p \in Publication : ToldOf(p)' /\ (Overtaken(p) => Overtaken(p)')
  BY <1>2, <1>3, <1>4
<1>6. ToldInOrder'
  BY <1>5 DEF ToldInv, ToldInOrder
<1>. QED
  BY <1>5, <1>6 DEF ToldInv

(* The event task takes an event.                                           *)
LEMMA ForwardKeeps ==
  ASSUME ToldInv, CallsInv, ForwardEvent
  PROVE  ToldInv'
<1>1. /\ eventTask.step = "running"
      /\ roomEvents \in Seq(RoomEvent) /\ roomEvents # <<>> /\ roomEvents' = Tail(roomEvents)
      /\ UNCHANGED <<announce, withdraw, cleared, unpublishTask>>
      /\ \/ ForwardPublished(Head(roomEvents)) \/ ForwardUnpublished(Head(roomEvents))
         \/ ForwardState(Head(roomEvents))
  BY DEF ForwardEvent, Receive, CallsInv
<1>2. told \subseteq told' /\ roomEvents[1] = Head(roomEvents)
  BY <1>1, InOrderTaken DEF ForwardPublished, ForwardUnpublished, ForwardState
<1>3. ASSUME NEW p \in Publication
      PROVE  /\ Known(p) <=> <<"LocalTrackPublished", p>> \in told
             /\ Known(p)' <=> Known(p) \/ Announces(roomEvents, 1, p)
  <2>1. Known(p) <=> <<"LocalTrackPublished", p>> \in told
    BY <1>1 DEF Known
  <2>2. CASE ForwardPublished(Head(roomEvents))
    <3>1. Head(roomEvents).type = "LocalTrackPublished"
      BY <2>2 DEF ForwardPublished
    <3>2. \/ told' = told \cup {<<"LocalTrackPublished", Head(roomEvents).sid>>} /\ eventTask' = eventTask
          \/ eventTask' = [step |-> "waiting", sid |-> Head(roomEvents).sid] /\ told' = told
      BY <2>2, <3>1 DEF ForwardPublished
    <3>. QED
      BY <1>1, <1>2, <3>1, <3>2 DEF Known, Announces
  <2>3. CASE ForwardUnpublished(Head(roomEvents))
    BY <1>1, <1>2, <2>3 DEF ForwardUnpublished, Known, Announces
  <2>4. CASE ForwardState(Head(roomEvents))
    BY <1>1, <1>2, <2>4 DEF ForwardState, Known, Announces
  <2>. QED
    BY <1>1, <2>1, <2>2, <2>3, <2>4
<1>4. ASSUME NEW p \in Publication
      PROVE  /\ InOrder(roomEvents, p) => InOrder(roomEvents', p) \/ Announces(roomEvents, 1, p)
             /\ Announced(roomEvents, p) <=> Announced(roomEvents', p) \/ Announces(roomEvents, 1, p)
             /\ InOrder(roomEvents, p) => ~Withdraws(roomEvents, 1, p)
  BY <1>1, InOrderTaken
<1>5. ASSUME NEW p \in Publication
      PROVE  /\ p \in pendingUnpublished' => <<"LocalTrackUnpublished", p>> \in told'
             /\ <<"LocalTrackUnpublished", p>> \in told'
                  => <<"LocalTrackUnpublished", p>> \in told \/ Withdraws(roomEvents, 1, p)
             /\ <<"UnpublishTrack", p>> \in told' => <<"UnpublishTrack", p>> \in told
             /\ <<"PublishTrack", p>> \in told' => <<"PublishTrack", p>> \in told
  <2>1. p \in pendingUnpublished => <<"LocalTrackUnpublished", p>> \in told
    BY DEF ToldInv, ToldOf
  <2>2. CASE ForwardPublished(Head(roomEvents))
    BY <2>1, <2>2 DEF ForwardPublished
  <2>3. CASE ForwardUnpublished(Head(roomEvents))
    BY <1>2, <2>1, <2>3 DEF ForwardUnpublished, Withdraws
  <2>4. CASE ForwardState(Head(roomEvents))
    BY <2>1, <2>4 DEF ForwardState
  <2>. QED
    BY <1>1, <2>2, <2>3, <2>4
<1>6. ASSUME NEW p \in Publication
      PROVE  ToldOf(p)' /\ Overtaken(p)' = Overtaken(p)
  <2>1. ToldOf(p) /\ Overtaken(p)' = Overtaken(p)
    BY <1>1 DEF ToldInv, Overtaken
  <2>. QED
    BY <1>1, <1>3, <1>4, <1>5, <2>1 DEF ToldOf
<1>7. ToldInOrder'
  <2> SUFFICES ASSUME NEW p \in Publication
               PROVE  /\ <<"LocalTrackUnpublished", p>> \in told' =>
                           <<"LocalTrackPublished", p>> \in told' \/ Overtaken(p)'
                      /\ <<"UnpublishTrack", p>> \in told' =>
                           {<<"LocalTrackPublished", p>>, <<"LocalTrackUnpublished", p>>} \subseteq told'
    BY DEF ToldInOrder
  <2>1. /\ <<"LocalTrackUnpublished", p>> \in told => <<"LocalTrackPublished", p>> \in told \/ Overtaken(p)
        /\ <<"UnpublishTrack", p>> \in told =>
             {<<"LocalTrackPublished", p>>, <<"LocalTrackUnpublished", p>>} \subseteq told
        /\ Overtaken(p) \/ Known(p) \/ InOrder(roomEvents, p)
    BY DEF ToldInv, ToldInOrder, ToldOf
  <2>. QED
    BY <1>2, <1>3, <1>4, <1>5, <1>6, <2>1
<1>. QED
  BY <1>1, <1>6, <1>7 DEF ToldInv

(* The client is told, and no event is taken.                               *)
Callback ==
  /\ UNCHANGED <<announce, withdraw, roomEvents, cleared>>
  /\ told \subseteq told'
  /\ unpublishTask' \in [Publication -> {"none", "waiting", "ended"}]
  /\ \A p \in Publication :
       /\ Known(p)' <=> Known(p)
       /\ p \in pendingUnpublished' => p \in pendingUnpublished
       /\ unpublishTask'[p] = "waiting" => unpublishTask[p] = "waiting"
       /\ <<"LocalTrackUnpublished", p>> \in told' => <<"LocalTrackUnpublished", p>> \in told
       /\ <<"PublishTrack", p>> \in told'
            => <<"PublishTrack", p>> \in told \/ announce[p] \in {"said", "late"}
       /\ <<"UnpublishTrack", p>> \in told'
            => \/ <<"UnpublishTrack", p>> \in told
               \/ p \in pendingUnpublished /\ unpublishTask[p] = "waiting"

(* The callbacks, and the event that waited for one.                        *)
LEMMA Callbacks ==
  ASSUME unpublishTask \in [Publication -> {"none", "waiting", "ended"}],
         \/ \E t \in Track : PublishCallback(t) \/ PublishPending(t)
         \/ \E p \in Publication : UnpublishCallback(p)
         \/ ForwardAfterCallback \/ CloseTasks \/ EventTaskStops
  PROVE  Callback
<1>0. ASSUME UNCHANGED roomAll
      PROVE  UNCHANGED <<announce, withdraw, roomEvents, cleared>>
  BY <1>0 DEF roomAll, roomVars
<1>1. ASSUME NEW t \in Track, PublishCallback(t)
      PROVE  Callback
  <2>1. /\ \/ told' = told
           \/ /\ told' = told \cup {<<"PublishTrack", <<t, First>>>>}
              /\ announce[<<t, First>>] \in {"said", "late"}
        /\ UNCHANGED <<eventTask, pendingUnpublished, unpublishTask>>
    BY <1>1 DEF PublishCallback
  <2>2. UNCHANGED <<announce, withdraw, roomEvents, cleared>>
    BY <1>0, <1>1 DEF PublishCallback
  <2>3. CASE told' = told
    BY <2>1, <2>2, <2>3 DEF Callback, Known
  <2>4. CASE told' = told \cup {<<"PublishTrack", <<t, First>>>>} /\ announce[<<t, First>>] \in {"said", "late"}
    BY <2>1, <2>2, <2>4 DEF Callback, Known
  <2>. QED
    BY <2>1, <2>3, <2>4
<1>2. ASSUME NEW t \in Track, PublishPending(t)
      PROVE  Callback
  BY <1>0, <1>2 DEF PublishPending, Callback, Known
<1>3. ASSUME NEW q \in Publication, UnpublishCallback(q)
      PROVE  Callback
  <2>1. /\ q \in pendingUnpublished /\ pendingUnpublished' = pendingUnpublished \ {q}
        /\ unpublishTask[q] = "waiting" /\ unpublishTask' = [unpublishTask EXCEPT ![q] = "ended"]
        /\ told' = told \cup {<<"UnpublishTrack", q>>} /\ UNCHANGED eventTask
    BY <1>3 DEF UnpublishCallback
  <2>2. UNCHANGED <<announce, withdraw, roomEvents, cleared>>
    BY <1>0, <1>3 DEF UnpublishCallback
  <2>. QED
    BY <2>1, <2>2 DEF Callback, Known
<1>4. ASSUME ForwardAfterCallback
      PROVE  Callback
  <2>1. /\ told' = told \cup {<<"LocalTrackPublished", eventTask.sid>>}
        /\ eventTask.step = "waiting" /\ eventTask' = [step |-> "running", sid |-> NoSession]
        /\ UNCHANGED <<pendingUnpublished, unpublishTask>>
    BY <1>4 DEF ForwardAfterCallback
  <2>2. UNCHANGED <<announce, withdraw, roomEvents, cleared>>
    BY <1>0, <1>4 DEF ForwardAfterCallback
  <2>3. \A p : Known(p)' <=> Known(p)
    BY <2>1 DEF Known
  <2>. QED
    BY <2>1, <2>2, <2>3 DEF Callback
<1>5. ASSUME CloseTasks
      PROVE  Callback
  BY <1>0, <1>5 DEF CloseTasks, Callback, Known
<1>6. ASSUME EventTaskStops
      PROVE  Callback
  <2>1. /\ eventTask.step = "running" /\ eventTask' = [eventTask EXCEPT !.step = "stopped"]
        /\ UNCHANGED <<told, pendingUnpublished, unpublishTask>>
    BY <1>6 DEF EventTaskStops
  <2>2. \A p : Known(p)' <=> Known(p)
    BY <2>1 DEF Known
  <2>. QED
    BY <1>0, <1>6, <2>1, <2>2 DEF Callback, EventTaskStops
<1>. QED
  BY <1>1, <1>2, <1>3, <1>4, <1>5, <1>6

(* What was to be told stays so.                                            *)
LEMMA CallbackKeeps ==
  ASSUME ToldInv, Callback
  PROVE  ToldInv'
<1>1. ASSUME NEW p \in Publication
      PROVE  /\ ToldOf(p)'
             /\ <<"LocalTrackUnpublished", p>> \in told' =>
                  <<"LocalTrackPublished", p>> \in told' \/ Overtaken(p)'
             /\ <<"UnpublishTrack", p>> \in told' =>
                  {<<"LocalTrackPublished", p>>, <<"LocalTrackUnpublished", p>>} \subseteq told'
  <2>1. /\ ToldOf(p)
        /\ <<"LocalTrackUnpublished", p>> \in told => <<"LocalTrackPublished", p>> \in told \/ Overtaken(p)
        /\ <<"UnpublishTrack", p>> \in told =>
             {<<"LocalTrackPublished", p>>, <<"LocalTrackUnpublished", p>>} \subseteq told
    BY DEF ToldInv, ToldInOrder
  <2>2. Overtaken(p)' = Overtaken(p) /\ (announce[p] = "said" => ~Overtaken(p))
    BY DEF Callback, Overtaken
  <2>3. /\ UNCHANGED <<announce, roomEvents, cleared>> /\ told \subseteq told'
        /\ Known(p)' <=> Known(p)
        /\ p \in pendingUnpublished' => p \in pendingUnpublished
        /\ unpublishTask'[p] = "waiting" => unpublishTask[p] = "waiting"
        /\ <<"LocalTrackUnpublished", p>> \in told' => <<"LocalTrackUnpublished", p>> \in told
        /\ <<"PublishTrack", p>> \in told'
             => <<"PublishTrack", p>> \in told \/ announce[p] \in {"said", "late"}
        /\ <<"UnpublishTrack", p>> \in told'
             => \/ <<"UnpublishTrack", p>> \in told
                \/ p \in pendingUnpublished /\ unpublishTask[p] = "waiting"
    BY DEF Callback
  <2>4. ToldOf(p)'
    BY <2>1, <2>2, <2>3 DEF ToldOf
  <2>5. p \in pendingUnpublished /\ unpublishTask[p] = "waiting" =>
          {<<"LocalTrackPublished", p>>, <<"LocalTrackUnpublished", p>>} \subseteq told
    BY <2>1, <2>2 DEF ToldOf
  <2>. QED
    BY <2>1, <2>2, <2>3, <2>4, <2>5
<1>. QED
  BY <1>1 DEF ToldInv, ToldInOrder, Callback

(* Every step of the FFI.                                                   *)
LEMMA FfiKeeps ==
  ASSUME ToldInv, CallsInv, BaseInv, [FfiNext]_ffiAll
  PROVE  ToldInv'
<1>0. unpublishTask \in [Publication -> {"none", "waiting", "ended"}]
  BY DEF ToldInv
<1>1. ASSUME UNCHANGED roomAll, UNCHANGED <<told, eventTask, pendingUnpublished, unpublishTask>>
      PROVE  ToldInv'
  <2>1. Calm
    BY <1>1, CalmState DEF roomAll, roomVars
  <2>. QED
    BY <1>0, <1>1, <2>1, SaysTold
<1>2. ASSUME RoomSteps \/ UserSteps \/ Reconnects \/ EngineCloses,
             UNCHANGED <<told, eventTask, pendingUnpublished>>,
             unpublishTask' \in [Publication -> {"none", "waiting", "ended"}],
             \A p \in Publication :
               unpublishTask'[p] = "waiting" => unpublishTask[p] = "waiting" \/ announce[p] = "said"
      PROVE  ToldInv'
  <2>1. Calm \/ \E p \in Publication : Publishes(p) \/ Unpublishes(p)
    BY <1>2, RoomSays
  <2>. QED
    BY <1>2, <2>1, SaysTold
<1>3. CASE (RoomSteps \/ Spawned \/ Reconnects \/ EngineCloses) /\ UNCHANGED ffiVars
  BY <1>0, <1>2, <1>3 DEF Spawned, UserSteps, ffiVars
<1>4. ASSUME NEW t \in Track, PublishRequest(t)
      PROVE  ToldInv'
  BY <1>0, <1>2, <1>4 DEF PublishRequest, UserSteps
<1>5. ASSUME NEW p \in Publication, UnpublishRequest(p)
      PROVE  ToldInv'
  <2>1. /\ p \in Published /\ UnpublishTrack(p)
        /\ <<"PublishTrack", p>> \in told \/ <<"LocalTrackPublished", p>> \in told
        /\ \E step \in {"waiting", "ended"} : unpublishTask' = [unpublishTask EXCEPT ![p] = step]
        /\ UNCHANGED <<told, eventTask, pendingUnpublished>>
    BY <1>5 DEF UnpublishRequest, UnpublishTrack
  <2>2. announce[p] \in {"said", "late"}
    BY <2>1 DEF ToldInv, ToldOf, Known
  <2>3. announce[p] = "said"
    BY <2>1, <2>2 DEF CallsInv, Published
  <2>4. /\ unpublishTask' \in [Publication -> {"none", "waiting", "ended"}]
        /\ \A q \in Publication : q # p => unpublishTask'[q] = unpublishTask[q]
    BY <1>0, <2>1
  <2>5. UserSteps
    BY <2>1 DEF UserSteps
  <2>. QED
    BY <1>2, <2>1, <2>3, <2>4, <2>5
<1>6. CASE CloseRequest
  BY <1>0, <1>1, <1>2, <1>6 DEF CloseRequest, UserSteps
<1>7. CASE UNCHANGED ffiAll
  BY <1>1, <1>7 DEF ffiAll, ffiVars
<1>8. CASE ForwardEvent
  BY <1>8, ForwardKeeps
<1>. QED
  BY <1>0, <1>3, <1>4, <1>5, <1>6, <1>7, <1>8, Callbacks, CallbackKeeps DEF FfiNext

(* What the client was told of a publication, and what is on its way, agree *)
(* with what was said of it and by whom: through any reconnections and      *)
(* closes, and where an unpublication overtook its announcement.            *)
THEOREM ToldInvariant == FfiSpec => []ToldInv
<1>1. FfiInit => ToldInv
  <2> SUFFICES ASSUME FfiInit PROVE ToldInv
    OBVIOUS
  <2>1. /\ roomEvents = <<>> /\ told = {} /\ pendingUnpublished = {}
        /\ eventTask = [step |-> "running", sid |-> NoSession]
        /\ unpublishTask = [p \in Publication |-> "none"]
        /\ announce = [p \in Publication |-> "none"]
    BY DEF FfiInit, RoomInit
  <2>2. DOMAIN roomEvents = {}
    BY <2>1, EmptySeq
  <2>3. \A p \in Publication : InOrder(roomEvents, p) /\ ~Announced(roomEvents, p) /\ ~Known(p)
    BY <2>1, <2>2 DEF InOrder, Announced, Known
  <2>. QED
    BY <2>1, <2>3 DEF ToldInv, ToldOf, ToldInOrder
<1>2. RoomInv => BaseInv
  BY DEF RoomInv
<1>3. ToldInv /\ CallsInv /\ BaseInv /\ [FfiNext]_ffiAll => ToldInv'
  BY FfiKeeps
<1>4. FfiSpec => []BaseInv /\ []CallsInv
  BY <1>2, FfiImplementsRoom, RoomInvariant, CallsInvariant, PTL
<1>. QED
  BY <1>1, <1>3, <1>4, PTL DEF FfiSpec

(* A client that publishes, unpublishes and closes through any              *)
(* reconnections is told of each publication in order: that it is published *)
(* before that it is not, unless the list shows that this overtook it; and  *)
(* both before its own UnpublishTrack is answered.                          *)
THEOREM ToldInOrderAlways == FfiSpec => []ToldInOrder
<1>1. ToldInv => ToldInOrder
  BY DEF ToldInv
<1>. QED
  BY <1>1, ToldInvariant, PTL

-----------------------------------------------------------------------------
(* Types: those of the tracks and the events are part of the above.         *)

RoomTyped ==
  /\ state \in {"Connected", "Reconnecting", "Disconnected"}
  /\ closeRoom \in [step : {"open", "unpublish", "engine", "await", "tasks", "closed"},
                    listed : SUBSET Publication]
  /\ closeDue \in BOOLEAN /\ rounds \in Nat

FfiTyped ==
  /\ eventTask \in [step : {"running", "waiting", "stopped"},
                    sid : Publication \cup {NoSession}]
  /\ eventTask.step = "waiting" <=> eventTask.sid # NoSession
  /\ presentReconnecting \in BOOLEAN
  /\ pendingPublished \subseteq Publication /\ pendingUnpublished \subseteq Publication
  /\ publishTask \in [Track -> {"none", "publishing", "told", "ended"}]
  /\ unpublishTask \in [Publication -> {"none", "waiting", "ended"}]
  /\ closeFfi \in {"open", "room", "tasks", "closed"}
  /\ told \subseteq Notice

(* The steps of the room.                                                   *)
LEMMA RoomTypes ==
  ASSUME RoomTyped, TracksTyped, [RoomNext]_roomAll
  PROVE  RoomTyped'
<1>1. ASSUME UNCHANGED <<state, closeRoom, closeDue, rounds>>
      PROVE  RoomTyped'
  BY <1>1 DEF RoomTyped
<1>2. ASSUME NEW p \in Publication,
             \/ AddTrack(p) \/ TrackAdded(p) \/ CreateSender(p) \/ Announce(p)
             \/ PublishRefused(p) \/ UnpublishTrack(p) \/ UnpublishTrackEnds(p)
             \/ RepublishUnpublishes(p) \/ RepublishWithdraws(p) \/ CloseWithdraws(p)
      PROVE  RoomTyped'
  BY <1>1, <1>2 DEF AddTrack, TrackAdded, CreateSender, Announce, PublishRefused, UnpublishTrack,
                    UnpublishTrackEnds, RepublishUnpublishes, RepublishWithdraws, CloseWithdraws
<1>3. ASSUME NEW p \in Publication, CloseUnpublishes(p)
      PROVE  RoomTyped'
  BY <1>3 DEF CloseUnpublishes, RoomTyped
<1>4. ASSUME OnEngineEvent
      PROVE  RoomTyped'
  <2>1. UNCHANGED <<closeRoom, rounds>>
    BY <1>4 DEF OnEngineEvent
  <2>2. /\ state' \in {state, "Connected", "Reconnecting", "Disconnected"}
        /\ closeDue' = closeDue \/ closeDue' \in BOOLEAN
    BY <1>4 DEF OnEngineEvent, HandleReconnecting, HandleSignal, HandleResumed, HandleRestarted,
                HandleDisconnected, Become
  <2>. QED
    BY <2>1, <2>2 DEF RoomTyped
<1>5. ASSUME NEW s \in Session, RepublishStarts(s)
      PROVE  RoomTyped'
  BY <1>1, <1>5 DEF RepublishStarts
<1>6. ASSUME NEW s \in Session, RepublishEnds(s)
      PROVE  RoomTyped'
  BY <1>6 DEF RepublishEnds, RoomTyped
<1>7. ASSUME CloseEngine \/ EngineClosed \/ CloseEnds \/ CloseStarts
      PROVE  RoomTyped'
  <2>1. Published \subseteq Publication
    BY DEF Published
  <2>. QED
    BY <1>7, <2>1 DEF CloseEngine, EngineClosed, CloseEnds, CloseStarts, RoomTyped
<1>8. ASSUME Reconnects \/ EngineCloses
      PROVE  RoomTyped'
  <2>1. rounds' \in {rounds, rounds + 1} /\ UNCHANGED <<state, closeRoom, closeDue>>
    BY <1>8 DEF Reconnects, EngineCloses
  <2>. QED
    BY <2>1 DEF RoomTyped
<1>9. ASSUME EngineDisconnects \/ Receive \/ (\E t \in Track : PublishTrack(t)) \/ UNCHANGED roomAll
      PROVE  RoomTyped'
  BY <1>1, <1>9 DEF EngineDisconnects, Receive, PublishTrack, roomAll, roomVars
<1>. QED
  BY <1>2, <1>3, <1>4, <1>5, <1>6, <1>7, <1>8, <1>9 DEF RoomNext, RoomSteps, UserSteps

(* The steps of the FFI.                                                    *)
LEMMA FfiTypes ==
  ASSUME FfiTyped, roomEvents \in Seq(RoomEvent), RoomAssumption, EventsAssumption, [FfiNext]_ffiAll
  PROVE  FfiTyped'
<1>1. ASSUME UNCHANGED ffiVars
      PROVE  FfiTyped'
  BY <1>1 DEF ffiVars, FfiTyped
<1>2. ASSUME NEW t \in Track, PublishRequest(t) \/ PublishCallback(t) \/ PublishPending(t)
      PROVE  FfiTyped'
  <2>1. <<t, First>> \in Publication
    BY DEF Publication, EventsAssumption
  <2>2. <<"PublishTrack", <<t, First>>>> \in Notice
    BY <2>1 DEF Notice
  <2>3. /\ \E step \in {"publishing", "told", "ended"} :
              publishTask' = [publishTask EXCEPT ![t] = step]
        /\ UNCHANGED <<eventTask, presentReconnecting, pendingUnpublished, unpublishTask, closeFfi>>
        /\ pendingPublished' \in {pendingPublished, pendingPublished \cup {<<t, First>>}}
        /\ told' \in {told, told \cup {<<"PublishTrack", <<t, First>>>>}}
    BY <1>2 DEF PublishRequest, PublishCallback, PublishPending
  <2>. QED
    BY <2>1, <2>2, <2>3 DEF FfiTyped
<1>3. ASSUME NEW p \in Publication, UnpublishRequest(p) \/ UnpublishCallback(p)
      PROVE  FfiTyped'
  <2>1. <<"UnpublishTrack", p>> \in Notice
    BY DEF Notice
  <2>2. /\ \E step \in {"waiting", "ended"} :
              unpublishTask' = [unpublishTask EXCEPT ![p] = step]
        /\ UNCHANGED <<eventTask, presentReconnecting, pendingPublished, publishTask, closeFfi>>
        /\ pendingUnpublished' \in {pendingUnpublished, pendingUnpublished \ {p}}
        /\ told' \in {told, told \cup {<<"UnpublishTrack", p>>}}
    BY <1>3 DEF UnpublishRequest, UnpublishCallback
  <2>. QED
    BY <2>1, <2>2 DEF FfiTyped
<1>4. ASSUME ForwardEvent
      PROVE  FfiTyped'
  <2>1. /\ eventTask.step = "running" /\ Head(roomEvents) \in RoomEvent
        /\ \/ ForwardPublished(Head(roomEvents)) \/ ForwardUnpublished(Head(roomEvents))
           \/ ForwardState(Head(roomEvents))
        /\ UNCHANGED <<pendingPublished, publishTask, unpublishTask, closeFfi>>
    BY <1>4, TailHolds DEF ForwardEvent, Receive
  <2>2. ASSUME NEW e \in RoomEvent, ForwardPublished(e)
        PROVE  FfiTyped'
    <3>1. e.sid \in Publication /\ <<e.type, e.sid>> \in Notice /\ e.sid # NoSession
      BY <2>2 DEF ForwardPublished, RoomEvent, Notice, RoomAssumption
    <3>. QED
      BY <2>1, <2>2, <3>1 DEF ForwardPublished, FfiTyped
  <2>3. ASSUME NEW e \in RoomEvent, ForwardUnpublished(e)
        PROVE  FfiTyped'
    <3>1. e.sid \in Publication /\ <<e.type, e.sid>> \in Notice
      BY <2>3 DEF ForwardUnpublished, RoomEvent, Notice
    <3>. QED
      BY <2>1, <2>3, <3>1 DEF ForwardUnpublished, FfiTyped
  <2>4. ASSUME NEW e \in RoomEvent, ForwardState(e)
        PROVE  FfiTyped'
    BY <2>1, <2>4 DEF ForwardState, FfiTyped
  <2>. QED
    BY <2>1, <2>2, <2>3, <2>4
<1>5. ASSUME ForwardAfterCallback
      PROVE  FfiTyped'
  <2>1. eventTask.sid \in Publication
    BY <1>5 DEF ForwardAfterCallback, FfiTyped
  <2>2. <<"LocalTrackPublished", eventTask.sid>> \in Notice
    BY <2>1 DEF Notice
  <2>. QED
    BY <1>5, <2>2 DEF ForwardAfterCallback, FfiTyped
<1>6. ASSUME CloseRequest \/ CloseTasks
      PROVE  FfiTyped'
  BY <1>6 DEF CloseRequest, CloseTasks, FfiTyped
<1>7. ASSUME EventTaskStops
      PROVE  FfiTyped'
  BY <1>7 DEF EventTaskStops, FfiTyped
<1>8. ASSUME UNCHANGED ffiAll
      PROVE  FfiTyped'
  BY <1>1, <1>8 DEF ffiAll
<1>. QED
  BY <1>1, <1>2, <1>3, <1>4, <1>5, <1>6, <1>7, <1>8 DEF FfiNext

(* Every variable of the room and of the FFI keeps its type; the event task *)
(* waits for a sid exactly when it is waiting.                              *)
THEOREM FfiTypesOK == FfiSpec => []FfiTypeOK
<1>1. FfiInit => RoomTyped /\ FfiTyped
  <2> SUFFICES ASSUME FfiInit PROVE RoomTyped /\ FfiTyped
    OBVIOUS
  <2>1. /\ state = "Connected" /\ closeDue = FALSE /\ rounds = 0
        /\ closeRoom = [step |-> "open", listed |-> {}]
    BY DEF FfiInit, RoomInit
  <2>2. /\ eventTask = [step |-> "running", sid |-> NoSession] /\ presentReconnecting = FALSE
        /\ pendingPublished = {} /\ pendingUnpublished = {} /\ told = {} /\ closeFfi = "open"
        /\ publishTask = [t \in Track |-> "none"]
        /\ unpublishTask = [p \in Publication |-> "none"]
    BY DEF FfiInit
  <2>3. RoomTyped
    BY <2>1 DEF RoomTyped
  <2>4. FfiTyped
    BY <2>2 DEF FfiTyped
  <2>. QED
    BY <2>3, <2>4
<1>2. RoomTyped /\ TracksTyped /\ [FfiNext]_ffiAll => RoomTyped'
  BY RoomTypes, FfiSteps
<1>3. FfiTyped /\ CallsInv /\ [FfiNext]_ffiAll => FfiTyped'
  BY FfiTypes, RoomAssumption, EventsAssumption DEF CallsInv
<1>4. RoomInv => TracksTyped
  BY DEF RoomInv, BaseInv
<1>5. FfiSpec => []TracksTyped
  BY <1>4, FfiImplementsRoom, RoomInvariant, PTL
<1>6. RoomTyped /\ FfiTyped /\ TracksTyped /\ CallsInv => FfiTypeOK
  BY DEF RoomTyped, FfiTyped, TracksTyped, CallsInv, FfiTypeOK, RoomTypeOK
<1>7. FfiSpec => []CallsInv
  BY FfiImplementsRoom, CallsInvariant, PTL
<1>. QED
  BY <1>1, <1>2, <1>3, <1>5, <1>6, <1>7, PTL DEF FfiSpec

(* Every variable of the room keeps its type, for any user of it.           *)
THEOREM RoomTypesOK == RoomSpec => []RoomTypeOK
<1>1. RoomInit => RoomTyped
  <2> SUFFICES ASSUME RoomInit PROVE RoomTyped
    OBVIOUS
  <2>1. /\ state = "Connected" /\ closeDue = FALSE /\ rounds = 0
        /\ closeRoom = [step |-> "open", listed |-> {}]
    BY DEF RoomInit
  <2>. QED
    BY <2>1 DEF RoomTyped
<1>2. RoomTyped /\ TracksTyped /\ [RoomNext]_roomAll => RoomTyped'
  BY RoomTypes
<1>3. RoomInv => TracksTyped
  BY DEF RoomInv, BaseInv
<1>4. RoomTyped /\ CallsInv /\ TracksTyped => RoomTypeOK
  BY DEF RoomTyped, CallsInv, TracksTyped, RoomTypeOK
<1>. QED
  BY <1>1, <1>2, <1>3, <1>4, RoomInvariant, CallsInvariant, PTL DEF RoomSpec

================================================================================
