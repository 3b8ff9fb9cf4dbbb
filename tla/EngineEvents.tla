----------------------------- MODULE EngineEvents -----------------------------
(***************************************************************************)
(* What a room sees of its engine: the order of the engine events, the     *)
(* answers they wait for, and when an API call may hold the current        *)
(* session.  Room and FfiRoom are built on it, and RtcEngine implements it *)
(* (RtcEngine!EventsSpec).                                                 *)
(***************************************************************************)
EXTENDS Sequences

CONSTANTS
  Session,    \* every RtcSession the engine may create
  First,      \* the session of EngineInner::connect
  NoSession,  \* the absence of a session
  Payload,    \* what a forwarded session event carries
  Caller,     \* tasks calling an API that goes through wait_reconnection
  Closing     \* the calls of EngineInner::close that can be under way

ASSUME EventsAssumption ==
  /\ First \in Session
  /\ NoSession \notin Session

VARIABLES
  rec,       \* where the reconnect task is
  current,   \* the session API calls work on
  fresh,     \* sessions that were never current
  users,     \* the session of each caller that holds a read guard
  engineTask,\* an engine task belongs to the current session
  closed,    \* EngineHandle.closed
  closing,   \* calls of close() that will send Disconnected
  chan,      \* the channel of engine events
  answered,  \* the oneshot of the last reconnection event was answered
  listening  \* the room task holds the receiver

eventsVars == <<rec, current, fresh, users, engineTask, closed, closing,
                chan, answered, listening>>

FirstQuestion == {"Resuming", "Restarting"}
Question == FirstQuestion \cup {"Resumed", "SignalResumed", "Restarted", "SignalRestarted"}
Reason == {"client", "server", "unknown"}

(* Between two questions: "trying" is at an attempt, "joined" and           *)
(* "installed" after a new session connected and was installed, "rejoined"  *)
(* after the old one was restarted, "ending" after the last answer, and     *)
(* "givingUp" when the engine is to be closed instead.                      *)
RecStep == Question \cup {"none", "trying", "joined", "installed", "rejoined",
                          "ending", "givingUp"}

EventsInit ==
  /\ rec = "none"
  /\ current = First
  /\ fresh = Session \ {First}
  /\ users = [c \in Caller |-> NoSession]
  /\ engineTask = TRUE
  /\ closed = FALSE /\ closing = {}
  /\ chan = <<>>
  /\ answered = FALSE
  /\ listening = TRUE

Post(type, s, body) ==
  chan' = IF listening
          THEN Append(chan, [type |-> type, session |-> s, body |-> body])
          ELSE chan

-----------------------------------------------------------------------------
(* wait_reconnection, and the end of the call that took its guard.          *)
Acquire(c) ==
  /\ rec = "none" /\ ~closed
  /\ users[c] = NoSession
  /\ users' = [users EXCEPT ![c] = current]
  /\ UNCHANGED <<rec, current, fresh, engineTask, closed, closing, chan,
                 answered, listening>>

Release(c) ==
  /\ users[c] # NoSession
  /\ users' = [users EXCEPT ![c] = NoSession]
  /\ UNCHANGED <<rec, current, fresh, engineTask, closed, closing, chan,
                 answered, listening>>

-----------------------------------------------------------------------------
(* The reconnect task.                                                      *)
RecOnly(step) ==
  /\ rec' = step
  /\ UNCHANGED <<current, fresh, users, engineTask, closed, closing, chan,
                 answered, listening>>

(* It asks the room and waits.  The first question comes once it has the    *)
(* write guard.  A new session joins only when the engine task of the old   *)
(* one was taken, and an old session that was given up does not resume.     *)
(* Each question is about the current session, but that of a new one.       *)
AskRoom(question, s) ==
  /\ CASE question \in FirstQuestion   -> /\ rec = "none"
                                          /\ \A c \in Caller : users[c] = NoSession
       [] question = "SignalRestarted" -> rec = "trying" /\ ~engineTask
       [] question = "Restarted"       -> rec = "installed"
       [] question = "SignalResumed"   -> rec = "trying"
       [] question = "Resumed"         -> rec = "rejoined" /\ (engineTask \/ closed)
  /\ IF question = "SignalRestarted" THEN s \in fresh ELSE s = current
  /\ rec' = question
  /\ Post(question, s, "none")
  /\ answered' = ~listening
  /\ UNCHANGED <<current, fresh, users, engineTask, closed, closing, listening>>

Proceed ==
  /\ rec \in Question
  /\ answered
  /\ RecOnly(CASE rec \in FirstQuestion    -> "trying"
               [] rec = "SignalRestarted"  -> "joined"
               [] rec = "SignalResumed"    -> "rejoined"
               [] OTHER                    -> "ending")

(* A full reconnection takes the engine task of the session it will close.  *)
TakeTask ==
  /\ rec = "trying"
  /\ engineTask' = FALSE
  /\ UNCHANGED <<rec, current, fresh, users, closed, closing, chan, answered,
                 listening>>

Install(s) ==
  /\ rec = "joined"
  /\ s \in fresh
  /\ rec' = "installed"
  /\ current' = s
  /\ fresh' = fresh \ {s}
  /\ engineTask' = TRUE
  /\ UNCHANGED <<users, closed, closing, chan, answered, listening>>

(* An attempt fails; a new session that came with it is abandoned.          *)
Retry(s) ==
  /\ rec \in {"joined", "rejoined"}
  /\ rec' = "trying"
  /\ fresh' = IF rec = "joined" THEN fresh \ {s} ELSE fresh
  /\ UNCHANGED <<current, users, engineTask, closed, closing, chan, answered,
                 listening>>

(* The attempts are used up, or the engine is closed.                       *)
GiveUp ==
  /\ rec = "trying" \/ (rec = "none" /\ closed)
  /\ RecOnly("givingUp")

End ==
  /\ rec = "ending" \/ (rec = "givingUp" /\ closed /\ "retry" \notin closing)
  /\ RecOnly("none")

-----------------------------------------------------------------------------
(* EngineInner::close by the call c.                                        *)
Shut(c) ==
  /\ c \notin closing
  /\ closed' = TRUE
  /\ engineTask' = FALSE
  /\ closing' = IF engineTask THEN closing \cup {c} ELSE closing
  /\ UNCHANGED <<rec, current, fresh, users, chan, answered, listening>>

Disconnect(c, s, reason) ==
  /\ c \in closing
  /\ closing' = closing \ {c}
  /\ Post("Disconnected", s, reason)
  /\ UNCHANGED <<rec, current, fresh, users, engineTask, closed, answered,
                 listening>>

(* The engine task forwards an event of a session.                          *)
Forward(s, body) ==
  /\ Post("Forward", s, body)
  /\ UNCHANGED <<rec, current, fresh, users, engineTask, closed, closing,
                 answered, listening>>

-----------------------------------------------------------------------------
(* The room task takes an event and answers it; it stops once close() has   *)
(* returned, and the oneshots of what it did not take are dropped.          *)
Take ==
  /\ chan # <<>>
  /\ chan' = Tail(chan)
  /\ answered' = (answered \/ Head(chan).type \in Question)
  /\ UNCHANGED <<rec, current, fresh, users, engineTask, closed, closing, listening>>

Stop ==
  /\ listening /\ closed
  /\ listening' = FALSE
  /\ chan' = <<>>
  /\ answered' = TRUE
  /\ UNCHANGED <<rec, current, fresh, users, engineTask, closed, closing>>

-----------------------------------------------------------------------------
Reconnecting ==
  \/ Proceed \/ TakeTask \/ GiveUp \/ End
  \/ \E s \in Session : Install(s) \/ Retry(s) \/ \E q \in Question : AskRoom(q, s)

EventsNext ==
  \/ \E c \in Caller : Acquire(c) \/ Release(c)
  \/ Reconnecting
  \/ \E c \in Closing : Shut(c)
  \/ \E s \in Session : \/ \E c \in Closing, reason \in Reason : Disconnect(c, s, reason)
                        \/ \E body \in Payload : Forward(s, body)
  \/ Take \/ Stop

EventsSpec == EventsInit /\ [][EventsNext]_eventsVars
=============================================================================
