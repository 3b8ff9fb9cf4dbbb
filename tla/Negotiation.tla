----------------------------- MODULE Negotiation ------------------------------
(***************************************************************************)
(* Negotiating the publisher peer connection: who asks for an offer        *)
(* (NegotiationQueue and execute_negotiation_with_retry, or the debouncer; *)
(* the ICE restart of a resume), and the PeerTransport that makes it       *)
(* (livekit/src/rtc_engine/rtc_session.rs and peer_transport.rs).          *)
(*                                                                         *)
(* Callers, negotiation task, debounced task, resume and signal task run   *)
(* concurrently.  PeerTransport's state only changes under its async lock, *)
(* so that an action takes the lock and does all that the holder does      *)
(* until it has to be seen: making an offer is split where the offer is    *)
(* made and where it is sent.                                              *)
(***************************************************************************)
EXTENDS Naturals, Sequences

CONSTANTS
  Caller,       \* the calls of publisher_negotiation_needed
  Candidate,    \* the ICE candidates of the server
  MaxLosses,    \* bound: how often the signal connection is lost
  MaxFailures   \* bound: how often libwebrtc fails at an offer or a candidate

ASSUME NegotiationAssumption ==
  /\ "answer" \notin Candidate
  /\ {MaxLosses, MaxFailures} \subseteq Nat

VARIABLES
  fast,        \* fast_publish, from the join response
  req,         \* the step of each call of publisher_negotiation_needed
  nstate,      \* negotiation_queue.state
  taskRunning, \* negotiation_queue.task_running
  waiting,     \* negotiation_queue.waiting_for_answer
  permit,      \* negotiation_queue.waker was notified
  task,        \* the step of execute_negotiation_with_retry
  debouncer,   \* negotiation_debouncer
  offerer,     \* where each call of create_and_send_offer is
  lock,        \* who holds PeerTransport.inner
  sig,         \* signaling_state of the peer connection
  hasRemote,   \* it has a current remote description
  renegotiate, restartingIce, pendingCandidates,  \* TransportInner
  applied,     \* candidates given to the peer connection
  toServer,    \* offers on their way to the server
  toClient,    \* its answers and candidates on their way to the signal task
  answering,   \* the signal task has applied an answer and has to notify
  offered,     \* the calls made before the last offer was made (history)
  losses, failures  \* bounds

queueVars == <<nstate, taskRunning, waiting, permit, task>>
transport == <<lock, sig, hasRemote, renegotiate, restartingIce, pendingCandidates, applied>>
network == <<toServer, toClient, answering, losses>>
negVars == <<fast, req, queueVars, debouncer, offerer, transport, network, offered, failures>>

Offerer == {"task", "debouncer", "resume", "signal"}
(* "made": the offer exists, it is not yet set and sent.                    *)
OfferStep == {"out", "acquire", "made", "ok", "err"}

TypeOK ==
  /\ {fast, taskRunning, waiting, permit, hasRemote, renegotiate, restartingIce, answering}
       \subseteq BOOLEAN
  /\ req \in [Caller -> {"idle", "mark", "queue", "done"}]
  /\ nstate \in {"Idle", "InProgress", "PendingRetry"}
  /\ task \in {"none", "start", "offer", "wait", "timeout", "check", "exit"}
  /\ debouncer \in {"none", "timer", "running", "finished"}
  /\ offerer \in [Offerer -> OfferStep]
  /\ lock \in Offerer \cup {"free"}
  /\ sig \in {"Stable", "HaveLocalOffer", "Closed"}
  /\ {pendingCandidates, applied} \subseteq SUBSET Candidate
  /\ toServer \in Seq({"offer"})
  /\ toClient \in Seq({"answer"} \cup Candidate)
  /\ offered \in SUBSET Caller
  /\ {losses, failures} \subseteq Nat

Init ==
  /\ fast \in BOOLEAN
  /\ req = [c \in Caller |-> "idle"]
  /\ nstate = "Idle" /\ taskRunning = FALSE /\ waiting = FALSE /\ permit = FALSE
  /\ task = "none"
  /\ debouncer = "none"
  /\ offerer = [o \in Offerer |-> "out"]
  /\ lock = "free" /\ sig = "Stable" /\ hasRemote = FALSE
  /\ renegotiate = FALSE /\ restartingIce = FALSE
  /\ pendingCandidates = {} /\ applied = {}
  /\ toServer = <<>> /\ toClient = <<>> /\ answering = FALSE
  /\ offered = {}
  /\ losses = 0 /\ failures = 0

-----------------------------------------------------------------------------
(* publisher_negotiation_needed.  In the fast mode the flag is read first,  *)
(* and the state is locked later.                                           *)
NegotiationNeeded(c) ==
  /\ req[c] = "idle"
  /\ fast
  /\ req' = [req EXCEPT ![c] = IF waiting THEN "mark" ELSE "queue"]
  /\ UNCHANGED <<fast, queueVars, debouncer, offerer, transport, network, offered, failures>>

MarkForRetry(c) ==
  /\ req[c] = "mark"
  /\ nstate' = "PendingRetry"
  /\ req' = [req EXCEPT ![c] = "done"]
  /\ UNCHANGED <<fast, taskRunning, waiting, permit, task, debouncer, offerer, transport,
                 network, offered, failures>>

(* Mutant: task_running is not consulted.                                   *)
QueueNegotiationAgain(c) ==
  /\ req[c] = "queue"
  /\ req' = [req EXCEPT ![c] = "done"]
  /\ nstate' = IF nstate = "Idle" THEN "InProgress" ELSE "PendingRetry"
  /\ taskRunning' = (nstate = "Idle" \/ taskRunning)
  /\ task' = IF nstate = "Idle" THEN "start" ELSE task
  /\ UNCHANGED <<fast, waiting, permit, debouncer, offerer, transport, network, offered, failures>>

(* queue_negotiation, under the lock of the state.                          *)
QueueNegotiation(c) ==
  LET starts == nstate = "Idle" /\ ~taskRunning
  IN  /\ req[c] = "queue"
      /\ req' = [req EXCEPT ![c] = "done"]
      /\ nstate' = IF starts THEN "InProgress" ELSE "PendingRetry"
      /\ taskRunning' = (starts \/ taskRunning)
      /\ task' = IF starts THEN "start" ELSE task
      /\ UNCHANGED <<fast, waiting, permit, debouncer, offerer, transport, network, offered,
                     failures>>

(* debounce_negotiation: a debouncer that has not finished takes the call.  *)
DebounceNegotiation(c) ==
  /\ req[c] = "idle"
  /\ ~fast
  /\ req' = [req EXCEPT ![c] = "done"]
  /\ debouncer' = IF debouncer \in {"none", "finished"} THEN "timer" ELSE debouncer
  /\ UNCHANGED <<fast, queueVars, offerer, transport, network, offered, failures>>

(* debounce_task: the time is over, the future runs ...                     *)
DebouncerFires ==
  /\ debouncer = "timer"
  /\ debouncer' = "running"
  /\ offerer' = [offerer EXCEPT !["debouncer"] = "acquire"]
  /\ UNCHANGED <<fast, req, queueVars, transport, network, offered, failures>>

(* ... and ends, with a result that is only logged.                         *)
DebouncerEnds ==
  /\ offerer["debouncer"] \in {"ok", "err"}
  /\ debouncer' = "finished"
  /\ offerer' = [offerer EXCEPT !["debouncer"] = "out"]
  /\ UNCHANGED <<fast, req, queueVars, transport, network, offered, failures>>

-----------------------------------------------------------------------------
(* execute_negotiation_with_retry and the task that runs it.                *)
taskUnchanged == UNCHANGED <<fast, req, debouncer, transport, network, offered, failures>>

TaskStart ==
  /\ task = "start"
  /\ waiting' = TRUE
  /\ task' = "offer"
  /\ offerer' = [offerer EXCEPT !["task"] = "acquire"]
  /\ UNCHANGED <<nstate, taskRunning, permit>>
  /\ taskUnchanged

TaskOffered ==
  /\ task = "offer"
  /\ offerer["task"] \in {"ok", "err"}
  /\ offerer' = [offerer EXCEPT !["task"] = "out"]
  /\ IF offerer["task"] = "ok"
     THEN task' = "wait" /\ UNCHANGED waiting
     ELSE task' = "check" /\ waiting' = FALSE
  /\ UNCHANGED <<nstate, taskRunning, permit>>
  /\ taskUnchanged

TaskWoken ==
  /\ task = "wait" /\ permit
  /\ permit' = FALSE
  /\ task' = "check"
  /\ UNCHANGED <<nstate, taskRunning, waiting, offerer>>
  /\ taskUnchanged

(* Mutant: only the answer ends the wait.                                   *)
TaskTimesOutNever ==
  /\ FALSE
  /\ UNCHANGED negVars

(* The ten seconds pass; an answer may still come before the flag is reset. *)
TaskTimesOut ==
  /\ task = "wait"
  /\ task' = "timeout"
  /\ UNCHANGED <<nstate, taskRunning, waiting, permit, offerer>>
  /\ taskUnchanged

TaskTimedOut ==
  /\ task = "timeout"
  /\ waiting' = FALSE
  /\ task' = "check"
  /\ UNCHANGED <<nstate, taskRunning, permit, offerer>>
  /\ taskUnchanged

(* Mutant: a request marked for retry is forgotten.                         *)
TaskCheckForgets ==
  /\ task = "check"
  /\ nstate' = "Idle" /\ task' = "exit"
  /\ UNCHANGED <<taskRunning, waiting, permit, offerer>>
  /\ taskUnchanged

TaskCheck ==
  /\ task = "check"
  /\ IF nstate = "PendingRetry"
     THEN nstate' = "InProgress" /\ task' = "start"
     ELSE nstate' = "Idle" /\ task' = "exit"
  /\ UNCHANGED <<taskRunning, waiting, permit, offerer>>
  /\ taskUnchanged

(* Mutant: task_running is not reset.                                       *)
TaskExitStale ==
  /\ task = "exit"
  /\ task' = "none"
  /\ UNCHANGED <<nstate, taskRunning, waiting, permit, offerer>>
  /\ taskUnchanged

TaskExit ==
  /\ task = "exit"
  /\ taskRunning' = FALSE
  /\ task' = "none"
  /\ UNCHANGED <<nstate, waiting, permit, offerer>>
  /\ taskUnchanged

-----------------------------------------------------------------------------
(* PeerTransport::create_and_send_offer, of the offerer o.  Only a resume   *)
(* restarts ICE.                                                            *)
IceRestart(o) == o = "resume"
offerUnchanged == UNCHANGED <<fast, req, queueVars, debouncer, hasRemote, pendingCandidates,
                              applied, network>>

(* An offer is still unanswered and cannot be taken back: the answer will   *)
(* renegotiate.                                                             *)
OfferPostponed(o) ==
  /\ offerer[o] = "acquire" /\ lock = "free"
  /\ sig = "HaveLocalOffer"
  /\ ~(IceRestart(o) /\ hasRemote)
  /\ renegotiate' = TRUE
  /\ restartingIce' = (restartingIce \/ IceRestart(o))
  /\ offerer' = [offerer EXCEPT ![o] = "ok"]
  /\ UNCHANGED <<lock, sig, offered, failures>>
  /\ offerUnchanged

(* The peer connection is closed: no offer, and no error.                   *)
OfferSkipped(o) ==
  /\ offerer[o] = "acquire" /\ lock = "free"
  /\ sig = "Closed"
  /\ restartingIce' = (restartingIce \/ IceRestart(o))
  /\ offerer' = [offerer EXCEPT ![o] = "ok"]
  /\ UNCHANGED <<lock, sig, renegotiate, offered, failures>>
  /\ offerUnchanged

(* libwebrtc refuses to take the unanswered offer back.                     *)
OfferNotTakenBack(o) ==
  /\ offerer[o] = "acquire" /\ lock = "free"
  /\ sig = "HaveLocalOffer" /\ IceRestart(o) /\ hasRemote
  /\ failures < MaxFailures
  /\ failures' = failures + 1
  /\ restartingIce' = TRUE
  /\ offerer' = [offerer EXCEPT ![o] = "err"]
  /\ UNCHANGED <<lock, sig, renegotiate, offered>>
  /\ offerUnchanged

(* Mutant: an unanswered offer does not hold the next one back.             *)
OfferMadeAlways(o) ==
  /\ offerer[o] = "acquire" /\ lock = "free"
  /\ sig # "Closed"
  /\ lock' = o
  /\ sig' = "Stable"
  /\ restartingIce' = (restartingIce \/ IceRestart(o))
  /\ offerer' = [offerer EXCEPT ![o] = "made"]
  /\ offered' = {c \in Caller : req[c] # "idle"}
  /\ UNCHANGED <<renegotiate, failures>>
  /\ offerUnchanged

(* The offer is made; an ICE restart takes an unanswered offer back first.  *)
OfferMade(o) ==
  /\ offerer[o] = "acquire" /\ lock = "free"
  /\ sig # "Closed"
  /\ sig = "HaveLocalOffer" => (IceRestart(o) /\ hasRemote)
  /\ lock' = o
  /\ sig' = "Stable"
  /\ restartingIce' = (restartingIce \/ IceRestart(o))
  /\ offerer' = [offerer EXCEPT ![o] = "made"]
  /\ offered' = {c \in Caller : req[c] # "idle"}
  /\ UNCHANGED <<renegotiate, failures>>
  /\ offerUnchanged

(* set_local_description, and on_offer_handler sends it to the server.      *)
OfferSent(o) ==
  /\ offerer[o] = "made" /\ sig # "Closed"
  /\ lock' = "free"
  /\ sig' = "HaveLocalOffer"
  /\ toServer' = Append(toServer, "offer")
  /\ offerer' = [offerer EXCEPT ![o] = "ok"]
  /\ UNCHANGED <<fast, req, queueVars, debouncer, hasRemote, renegotiate, restartingIce,
                 pendingCandidates, applied, toClient, answering, losses, offered, failures>>

(* create_offer or set_local_description fails, as it does on a peer        *)
(* connection that was closed meanwhile.                                    *)
OfferFails(o) ==
  /\ offerer[o] = "made"
  /\ \/ sig = "Closed" /\ UNCHANGED failures
     \/ failures < MaxFailures /\ failures' = failures + 1
  /\ lock' = "free"
  /\ offerer' = [offerer EXCEPT ![o] = "err"]
  /\ UNCHANGED <<sig, restartingIce, renegotiate, offered>>
  /\ offerUnchanged

-----------------------------------------------------------------------------
(* The signal task.                                                         *)
signalUnchanged == UNCHANGED <<fast, req, nstate, taskRunning, task, debouncer, toServer,
                               losses, offered>>

SignalIdle == ~answering /\ offerer["signal"] = "out"
SignalReads(message) ==
  /\ SignalIdle /\ sig # "Closed"
  /\ lock = "free"
  /\ toClient # <<>> /\ Head(toClient) = message
  /\ toClient' = Tail(toClient)

(* Mutant: the pending candidates are not added.                            *)
AnswerAppliedOnly ==
  /\ SignalReads("answer")
  /\ sig = "HaveLocalOffer"
  /\ sig' = "Stable" /\ hasRemote' = TRUE
  /\ restartingIce' = FALSE /\ renegotiate' = FALSE
  /\ IF renegotiate
     THEN /\ lock' = "signal"
          /\ offerer' = [offerer EXCEPT !["signal"] = "acquire"]
          /\ UNCHANGED answering
     ELSE answering' = TRUE /\ UNCHANGED <<lock, offerer>>
  /\ UNCHANGED <<applied, pendingCandidates, waiting, permit, failures>>
  /\ signalUnchanged

(* An answer: set_remote_description, the candidates that waited for it,    *)
(* and the renegotiation that did.  create_and_send_offer then asks for the *)
(* lock that set_remote_description still holds.                            *)
AnswerApplied ==
  /\ SignalReads("answer")
  /\ sig = "HaveLocalOffer"
  /\ sig' = "Stable" /\ hasRemote' = TRUE
  /\ applied' = applied \cup pendingCandidates /\ pendingCandidates' = {}
  /\ restartingIce' = FALSE /\ renegotiate' = FALSE
  /\ IF renegotiate
     THEN /\ lock' = "signal"
          /\ offerer' = [offerer EXCEPT !["signal"] = "acquire"]
          /\ UNCHANGED answering
     ELSE answering' = TRUE /\ UNCHANGED <<lock, offerer>>
  /\ UNCHANGED <<waiting, permit, failures>>
  /\ signalUnchanged

(* A candidate that waited is refused: those behind it are dropped, nothing *)
(* is reset or renegotiated, and nobody is notified.                        *)
AnswerFlushFails ==
  /\ SignalReads("answer")
  /\ sig = "HaveLocalOffer"
  /\ failures < MaxFailures
  /\ failures' = failures + 1
  /\ sig' = "Stable" /\ hasRemote' = TRUE
  /\ \E flushed \in SUBSET pendingCandidates \ {pendingCandidates} :
       applied' = applied \cup flushed
  /\ pendingCandidates' = {}
  /\ UNCHANGED <<restartingIce, renegotiate, lock, offerer, answering, waiting, permit>>
  /\ signalUnchanged

(* No offer is open any more: libwebrtc refuses the answer.                 *)
AnswerRefused ==
  /\ SignalReads("answer")
  /\ sig = "Stable"
  /\ UNCHANGED <<transport, offerer, answering, waiting, permit, failures>>
  /\ signalUnchanged

AnswerNotified ==
  /\ answering
  /\ answering' = FALSE
  /\ IF fast /\ waiting
     THEN waiting' = FALSE /\ permit' = TRUE
     ELSE UNCHANGED <<waiting, permit>>
  /\ UNCHANGED <<transport, offerer, toClient, failures>>
  /\ signalUnchanged

(* add_ice_candidate.                                                       *)
CandidateReceived(i) ==
  /\ SignalReads(i)
  /\ IF hasRemote /\ ~restartingIce
     THEN applied' = applied \cup {i} /\ UNCHANGED pendingCandidates
     ELSE pendingCandidates' = pendingCandidates \cup {i} /\ UNCHANGED applied
  /\ UNCHANGED <<lock, sig, hasRemote, renegotiate, restartingIce, offerer, answering,
                 waiting, permit, failures>>
  /\ signalUnchanged

-----------------------------------------------------------------------------
(* The server answers an offer, and trickles candidates.                    *)
ServerAnswers ==
  /\ toServer # <<>>
  /\ toServer' = Tail(toServer)
  /\ toClient' = Append(toClient, "answer")
  /\ UNCHANGED <<fast, req, queueVars, debouncer, offerer, transport, answering, losses,
                 offered, failures>>

ServerTrickles(i) ==
  /\ i \notin applied \cup pendingCandidates
  /\ \A k \in DOMAIN toClient : toClient[k] # i
  /\ toClient' = Append(toClient, i)
  /\ UNCHANGED <<fast, req, queueVars, debouncer, offerer, transport, toServer, answering,
                 losses, offered, failures>>

(* The signal connection is lost with what it carried (an offer is not      *)
(* queued), and resumed: restart_publisher, once something was published.   *)
SignalLostAndResumed ==
  /\ losses < MaxLosses
  /\ losses' = losses + 1
  /\ offerer["resume"] = "out"
  /\ \E c \in Caller : req[c] # "idle"
  /\ toServer' = <<>> /\ toClient' = <<>>
  /\ offerer' = [offerer EXCEPT !["resume"] = "acquire"]
  /\ UNCHANGED <<fast, req, queueVars, debouncer, transport, answering, offered, failures>>

ResumeEnds ==
  /\ offerer["resume"] \in {"ok", "err"}
  /\ offerer' = [offerer EXCEPT !["resume"] = "out"]
  /\ UNCHANGED <<fast, req, queueVars, debouncer, transport, network, offered, failures>>

(* RtcSession::close waits for the signal task, then closes the peer        *)
(* connection, whoever is making an offer.                                  *)
SessionCloses ==
  /\ SignalIdle /\ sig # "Closed"
  /\ sig' = "Closed"
  /\ UNCHANGED <<fast, req, queueVars, debouncer, offerer, lock, hasRemote, renegotiate,
                 restartingIce, pendingCandidates, applied, network, offered, failures>>

-----------------------------------------------------------------------------
CallerStep(c) == MarkForRetry(c) \/ QueueNegotiation(c)
Task == TaskStart \/ TaskOffered \/ TaskWoken \/ TaskTimesOut \/ TaskTimedOut
        \/ TaskCheck \/ TaskExit
Debounce == DebouncerFires \/ DebouncerEnds
Offer(o) == OfferPostponed(o) \/ OfferSkipped(o) \/ OfferNotTakenBack(o)
            \/ OfferMade(o) \/ OfferSent(o) \/ OfferFails(o)
SignalTask == AnswerApplied \/ AnswerFlushFails \/ AnswerRefused \/ AnswerNotified
              \/ \E i \in Candidate : CandidateReceived(i)

Next ==
  \/ \E c \in Caller : NegotiationNeeded(c) \/ DebounceNegotiation(c) \/ CallerStep(c)
  \/ Task \/ Debounce
  \/ \E o \in Offerer : Offer(o)
  \/ SignalTask
  \/ ServerAnswers \/ \E i \in Candidate : ServerTrickles(i)
  \/ SignalLostAndResumed \/ ResumeEnds
  \/ SessionCloses

Spec == Init /\ [][Next]_negVars

(* Every task is polled, the server answers.                                *)
Fairness ==
  /\ \A c \in Caller : WF_negVars(CallerStep(c))
  /\ WF_negVars(Task)
  /\ WF_negVars(Debounce)
  /\ \A o \in Offerer : WF_negVars(Offer(o))
  /\ WF_negVars(SignalTask)
  /\ WF_negVars(ServerAnswers)
  /\ WF_negVars(ResumeEnds)

FairSpec == Spec /\ Fairness
-----------------------------------------------------------------------------
(* Properties.                                                              *)

(* The transport waits for itself: no task will ever get its lock again.    *)
SelfDeadlock == lock = "signal" /\ offerer["signal"] = "acquire"

(* What makes the safety properties inductive: task_running tells whether   *)
(* the task exists, although it is not set in the same critical section as  *)
(* the state; and the lock of the transport is held exactly while an offer  *)
(* is being made, or forever.                                               *)
TaskRuns == taskRunning <=> task # "none"
LockHeld ==
  /\ \A o \in Offerer : offerer[o] = "made" => lock = o
  /\ lock # "free" => (offerer[lock] = "made" \/ SelfDeadlock)
MadeIsStable ==
  losses = 0 => \A o \in Offerer : offerer[o] = "made" => sig \in {"Stable", "Closed"}
ResumesAreLosses == losses = 0 => offerer["resume"] = "out"
OffererRuns ==
  /\ offerer["task"] # "out" => task = "offer"
  /\ offerer["debouncer"] # "out" => debouncer = "running"
NegotiationInv ==
  /\ TypeOK /\ TaskRuns /\ OffererRuns
  /\ LockHeld /\ MadeIsStable /\ ResumesAreLosses

(* Two negotiation tasks never overlap: one starts when the last one has    *)
(* ended, or goes on with its own next round.                               *)
NegotiationsDoNotOverlap ==
  [][task # "start" /\ task' = "start" => task \in {"none", "check"}]_negVars

(* Where in toClient the answers are.                                       *)
Answers == {k \in DOMAIN toClient : toClient[k] = "answer"}

(* Without an ICE restart, one offer at most waits for its answer, whoever  *)
(* asked for it: callers, a retry, the debouncer.                           *)
OneOfferUnanswered ==
  losses = 0 =>
    /\ sig = "Stable" => toServer = <<>> /\ Answers = {}
    /\ Len(toServer) <= 1
    /\ toServer # <<>> => Answers = {}
    /\ \A j, k \in Answers : j = k

(* Candidates wait only while the connection cannot take them.              *)
PendingFlushed ==
  pendingCandidates # {} => (~hasRemote \/ restartingIce)

(* In the fast mode a request is never dropped silently: it is in an offer, *)
(* marked for a retry, or the transport has been asked for an offer, until  *)
(* the session is closed.                                                   *)
RequestAccounted ==
  (fast /\ failures = 0 /\ sig # "Closed") =>
    \A c \in Caller : req[c] = "done" =>
      \/ c \in offered
      \/ nstate = "PendingRetry" \/ task = "start" \/ offerer["task"] = "acquire"
      \/ renegotiate \/ SelfDeadlock

(* A negotiation ends, answered or timed out, unless the transport waits    *)
(* for itself.                                                              *)
NegotiationEnds == task # "none" ~> (task = "none" \/ SelfDeadlock)

(* What the doc of publisher_negotiation_needed says: it starts a           *)
(* negotiation.  Then an offer is made after the request, unless the        *)
(* session is closed.                                                       *)
NegotiationStarts ==
  \A c \in Caller : req[c] = "done" ~> (c \in offered \/ sig = "Closed")

(* What the comment in RtcSession::close says of a running operation: that  *)
(* it can be waited for.  Then whoever holds the transport's lock, the      *)
(* signal task too, lets it go.                                             *)
LockIsReleased == lock # "free" ~> lock = "free"
=============================================================================
