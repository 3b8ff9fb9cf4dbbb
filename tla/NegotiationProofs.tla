--------------------------- MODULE NegotiationProofs ---------------------------
(***************************************************************************)
(* Proofs about the negotiation of the publisher connection, for any set   *)
(* of requests and candidates and any number of losses and failures.       *)
(***************************************************************************)
EXTENDS Negotiation, SequenceTheorems, TLAPS

-----------------------------------------------------------------------------
(* Type correctness, one lemma for each part of Next.                       *)

(* The requests and the debouncer.                                          *)
LEMMA TypeRequest ==
  ASSUME TypeOK,
         \/ \E c \in Caller : NegotiationNeeded(c) \/ DebounceNegotiation(c) \/ CallerStep(c)
         \/ Debounce
  PROVE  TypeOK'
<1>. USE DEF TypeOK, queueVars, transport, network
<1>1. ASSUME NEW c \in Caller, NegotiationNeeded(c)
      PROVE  TypeOK'
  BY <1>1 DEF NegotiationNeeded
<1>2. ASSUME NEW c \in Caller, DebounceNegotiation(c)
      PROVE  TypeOK'
  BY <1>2 DEF DebounceNegotiation
<1>3. ASSUME NEW c \in Caller, MarkForRetry(c)
      PROVE  TypeOK'
  BY <1>3 DEF MarkForRetry
<1>4. ASSUME NEW c \in Caller, QueueNegotiation(c)
      PROVE  TypeOK'
  BY <1>4 DEF QueueNegotiation
<1>5. CASE DebouncerFires
  BY <1>5 DEF DebouncerFires, Offerer, OfferStep
<1>6. CASE DebouncerEnds
  BY <1>6 DEF DebouncerEnds, Offerer, OfferStep
<1>. QED
  BY <1>1, <1>2, <1>3, <1>4, <1>5, <1>6 DEF CallerStep, Debounce

(* The negotiation task.                                                    *)
LEMMA TypeTask ==
  ASSUME TypeOK, Task
  PROVE  TypeOK'
<1>. USE DEF TypeOK, transport, network, taskUnchanged, Offerer, OfferStep
<1>1. CASE TaskStart
  BY <1>1 DEF TaskStart
<1>2. CASE TaskOffered
  BY <1>2 DEF TaskOffered
<1>3. CASE TaskWoken
  BY <1>3 DEF TaskWoken
<1>4. CASE TaskTimesOut
  BY <1>4 DEF TaskTimesOut
<1>5. CASE TaskTimedOut
  BY <1>5 DEF TaskTimedOut
<1>6. CASE TaskCheck
  BY <1>6 DEF TaskCheck
<1>7. CASE TaskExit
  BY <1>7 DEF TaskExit
<1>. QED
  BY <1>1, <1>2, <1>3, <1>4, <1>5, <1>6, <1>7 DEF Task

(* Making an offer, for any offerer.                                        *)
LEMMA TypeOffer ==
  ASSUME TypeOK, NEW o \in Offerer, Offer(o)
  PROVE  TypeOK'
<1>. USE DEF TypeOK, queueVars, network, offerUnchanged, OfferStep
<1>1. CASE OfferPostponed(o)
  BY <1>1 DEF OfferPostponed, IceRestart
<1>2. CASE OfferMade(o)
  BY <1>2 DEF OfferMade, IceRestart
<1>3. CASE OfferSent(o)
  <2>1. toServer' \in Seq({"offer"})
    BY <1>3, AppendProperties DEF OfferSent
  <2>. QED
    BY <1>3, <2>1 DEF OfferSent
<1>4. CASE OfferFails(o)
  BY <1>4 DEF OfferFails
<1>5. CASE OfferSkipped(o)
  BY <1>5 DEF OfferSkipped, IceRestart
<1>6. CASE OfferNotTakenBack(o)
  BY <1>6 DEF OfferNotTakenBack
<1>. QED
  BY <1>1, <1>2, <1>3, <1>4, <1>5, <1>6 DEF Offer

(* The signal task.                                                         *)
LEMMA TypeSignal ==
  ASSUME TypeOK, SignalTask
  PROVE  TypeOK'
<1>. USE DEF TypeOK, transport, signalUnchanged
<1>1. ASSUME NEW m, SignalReads(m)
      PROVE  toClient' \in Seq({"answer"} \cup Candidate)
  BY <1>1, HeadTailProperties DEF SignalReads
<1>2. CASE AnswerApplied
  BY <1>1, <1>2 DEF AnswerApplied, Offerer, OfferStep
<1>3. CASE AnswerRefused
  BY <1>1, <1>3 DEF AnswerRefused
<1>4. CASE AnswerNotified
  BY <1>4 DEF AnswerNotified
<1>5. ASSUME NEW i \in Candidate, CandidateReceived(i)
      PROVE  TypeOK'
  BY <1>1, <1>5 DEF CandidateReceived
<1>6. CASE AnswerFlushFails
  <2>1. applied' \subseteq Candidate /\ failures' \in Nat
    BY <1>6 DEF AnswerFlushFails
  <2>. QED
    BY <1>1, <1>6, <2>1 DEF AnswerFlushFails
<1>. QED
  BY <1>2, <1>3, <1>4, <1>5, <1>6 DEF SignalTask

(* The server, and the resume of a lost signal connection.                  *)
LEMMA TypeServer ==
  ASSUME TypeOK,
         \/ ServerAnswers \/ \E i \in Candidate : ServerTrickles(i)
         \/ SignalLostAndResumed \/ ResumeEnds \/ SessionCloses
         \/ UNCHANGED negVars
  PROVE  TypeOK'
<1>. USE DEF TypeOK, queueVars, transport, network
<1>1. CASE ServerAnswers
  <2>1. /\ toServer' \in Seq({"offer"})
        /\ toClient' \in Seq({"answer"} \cup Candidate)
    BY <1>1, HeadTailProperties, AppendProperties DEF ServerAnswers
  <2>. QED
    BY <1>1, <2>1 DEF ServerAnswers
<1>2. ASSUME NEW i \in Candidate, ServerTrickles(i)
      PROVE  TypeOK'
  <2>1. toClient' \in Seq({"answer"} \cup Candidate)
    BY <1>2, AppendProperties DEF ServerTrickles
  <2>. QED
    BY <1>2, <2>1 DEF ServerTrickles
<1>3. CASE SignalLostAndResumed
  <2>1. toServer' \in Seq({"offer"}) /\ toClient' \in Seq({"answer"} \cup Candidate)
    BY <1>3, EmptySeq DEF SignalLostAndResumed
  <2>. QED
    BY <1>3, <2>1 DEF SignalLostAndResumed, Offerer, OfferStep
<1>4. CASE ResumeEnds
  BY <1>4 DEF ResumeEnds, Offerer, OfferStep
<1>5. CASE UNCHANGED negVars
  BY <1>5 DEF negVars
<1>6. CASE SessionCloses
  BY <1>6 DEF SessionCloses
<1>. QED
  BY <1>1, <1>2, <1>3, <1>4, <1>5, <1>6

(* Every step keeps the types.                                              *)
LEMMA TypeStep ==
  ASSUME TypeOK, [Next]_negVars
  PROVE  TypeOK'
BY TypeRequest, TypeTask, TypeOffer, TypeSignal, TypeServer DEF Next

-----------------------------------------------------------------------------
(* The inductive invariant.                                                 *)

(* No lock, no task and no offerer at the start.                            *)
LEMMA InvInit ==
  ASSUME NegotiationAssumption, Init
  PROVE  NegotiationInv
<1>1. <<>> \in Seq({"offer"}) /\ <<>> \in Seq({"answer"} \cup Candidate)
  BY EmptySeq
<1>2. TypeOK
  <2>1. /\ {fast, taskRunning, waiting, permit, hasRemote, renegotiate, restartingIce, answering}
             \subseteq BOOLEAN
        /\ {losses, failures} \subseteq Nat
    <3>1. /\ fast \in BOOLEAN
          /\ taskRunning = FALSE /\ waiting = FALSE /\ permit = FALSE
          /\ hasRemote = FALSE /\ renegotiate = FALSE /\ restartingIce = FALSE
          /\ answering = FALSE
      BY DEF Init
    <3>2. losses = 0 /\ failures = 0
      BY DEF Init
    <3>3. {fast, taskRunning, waiting, permit, hasRemote, renegotiate, restartingIce, answering}
             \subseteq BOOLEAN
      BY <3>1, Zenon
    <3>. QED
      BY <3>2, <3>3
  <2>2. /\ req \in [Caller -> {"idle", "mark", "queue", "done"}]
        /\ offerer \in [Offerer -> OfferStep]
    BY DEF Init, OfferStep
  <2>3. /\ toServer \in Seq({"offer"}) /\ toClient \in Seq({"answer"} \cup Candidate)
        /\ {pendingCandidates, applied} \subseteq SUBSET Candidate
        /\ offered \in SUBSET Caller
    BY <1>1 DEF Init
  <2>. QED
    BY <2>1, <2>2, <2>3 DEF Init, TypeOK
<1>. QED
  BY <1>2 DEF Init, NegotiationInv, TaskRuns, OffererRuns, LockHeld, MadeIsStable,
     ResumesAreLosses, Offerer

(* A request starts the task only when there is none, and the debouncer     *)
(* fires only when its last offer is over.                                  *)
LEMMA InvRequest ==
  ASSUME NegotiationInv,
         \/ \E c \in Caller : NegotiationNeeded(c) \/ DebounceNegotiation(c) \/ CallerStep(c)
         \/ Debounce
  PROVE  (TaskRuns /\ OffererRuns /\ LockHeld /\ MadeIsStable /\ ResumesAreLosses)'
<1>. USE DEF NegotiationInv, TypeOK, queueVars, transport, network, TaskRuns, OffererRuns,
             LockHeld, SelfDeadlock, MadeIsStable, ResumesAreLosses, Offerer, OfferStep
<1>1. ASSUME NEW c \in Caller, NegotiationNeeded(c)
      PROVE  (TaskRuns /\ OffererRuns /\ LockHeld /\ MadeIsStable /\ ResumesAreLosses)'
  BY <1>1 DEF NegotiationNeeded
<1>2. ASSUME NEW c \in Caller, DebounceNegotiation(c)
      PROVE  (TaskRuns /\ OffererRuns /\ LockHeld /\ MadeIsStable /\ ResumesAreLosses)'
  BY <1>2 DEF DebounceNegotiation
<1>3. ASSUME NEW c \in Caller, MarkForRetry(c)
      PROVE  (TaskRuns /\ OffererRuns /\ LockHeld /\ MadeIsStable /\ ResumesAreLosses)'
  BY <1>3 DEF MarkForRetry
<1>4. ASSUME NEW c \in Caller, QueueNegotiation(c)
      PROVE  (TaskRuns /\ OffererRuns /\ LockHeld /\ MadeIsStable /\ ResumesAreLosses)'
  BY <1>4 DEF QueueNegotiation
<1>5. CASE DebouncerFires
  BY <1>5 DEF DebouncerFires
<1>6. CASE DebouncerEnds
  BY <1>6 DEF DebouncerEnds
<1>. QED
  BY <1>1, <1>2, <1>3, <1>4, <1>5, <1>6 DEF CallerStep, Debounce

(* task_running is set and reset with the task.                             *)
LEMMA InvTask ==
  ASSUME NegotiationInv, Task
  PROVE  (TaskRuns /\ OffererRuns /\ LockHeld /\ MadeIsStable /\ ResumesAreLosses)'
<1>. USE DEF NegotiationInv, TypeOK, transport, network, taskUnchanged, TaskRuns, OffererRuns,
             LockHeld, SelfDeadlock, MadeIsStable, ResumesAreLosses, Offerer, OfferStep
<1>1. CASE TaskStart
  BY <1>1 DEF TaskStart
<1>2. CASE TaskOffered
  BY <1>2 DEF TaskOffered
<1>3. CASE TaskWoken
  BY <1>3 DEF TaskWoken
<1>4. CASE TaskTimesOut
  BY <1>4 DEF TaskTimesOut
<1>5. CASE TaskTimedOut
  BY <1>5 DEF TaskTimedOut
<1>6. CASE TaskCheck
  BY <1>6 DEF TaskCheck
<1>7. CASE TaskExit
  BY <1>7 DEF TaskExit
<1>. QED
  BY <1>1, <1>2, <1>3, <1>4, <1>5, <1>6, <1>7 DEF Task

(* An offerer takes the lock that is free and lets go of its own.           *)
LEMMA InvOffer ==
  ASSUME NegotiationInv, NEW o \in Offerer, Offer(o)
  PROVE  (TaskRuns /\ OffererRuns /\ LockHeld /\ MadeIsStable /\ ResumesAreLosses)'
<1>. USE DEF NegotiationInv, TypeOK, queueVars, network, offerUnchanged, TaskRuns, OffererRuns,
             LockHeld, SelfDeadlock, MadeIsStable, ResumesAreLosses, Offerer, OfferStep
<1>1. CASE OfferPostponed(o)
  BY <1>1 DEF OfferPostponed
<1>2. CASE OfferMade(o)
  BY <1>2 DEF OfferMade
<1>3. CASE OfferSent(o)
  BY <1>3 DEF OfferSent
<1>4. CASE OfferFails(o)
  BY <1>4 DEF OfferFails
<1>5. CASE OfferSkipped(o)
  BY <1>5 DEF OfferSkipped
<1>6. CASE OfferNotTakenBack(o)
  BY <1>6 DEF OfferNotTakenBack
<1>. QED
  BY <1>1, <1>2, <1>3, <1>4, <1>5, <1>6 DEF Offer

(* The signal task reads only while the lock is free.                       *)
LEMMA InvSignal ==
  ASSUME NegotiationInv, SignalTask
  PROVE  (TaskRuns /\ OffererRuns /\ LockHeld /\ MadeIsStable /\ ResumesAreLosses)'
<1>. USE DEF NegotiationInv, TypeOK, transport, signalUnchanged, SignalReads, TaskRuns, OffererRuns,
             LockHeld, SelfDeadlock, MadeIsStable, ResumesAreLosses, Offerer, OfferStep
<1>1. CASE AnswerApplied
  BY <1>1 DEF AnswerApplied
<1>2. CASE AnswerRefused
  BY <1>2 DEF AnswerRefused
<1>3. CASE AnswerNotified
  BY <1>3 DEF AnswerNotified
<1>4. ASSUME NEW i \in Candidate, CandidateReceived(i)
      PROVE  (TaskRuns /\ OffererRuns /\ LockHeld /\ MadeIsStable /\ ResumesAreLosses)'
  BY <1>4 DEF CandidateReceived
<1>5. CASE AnswerFlushFails
  BY <1>5 DEF AnswerFlushFails
<1>. QED
  BY <1>1, <1>2, <1>3, <1>4, <1>5 DEF SignalTask

(* A resume starts behind a loss, and only when the last one is over.       *)
LEMMA InvServer ==
  ASSUME NegotiationInv,
         \/ ServerAnswers \/ \E i \in Candidate : ServerTrickles(i)
         \/ SignalLostAndResumed \/ ResumeEnds \/ SessionCloses
         \/ UNCHANGED negVars
  PROVE  (TaskRuns /\ OffererRuns /\ LockHeld /\ MadeIsStable /\ ResumesAreLosses)'
<1>. USE DEF NegotiationInv, TypeOK, queueVars, transport, network, TaskRuns, OffererRuns,
             LockHeld, SelfDeadlock, MadeIsStable, ResumesAreLosses, Offerer, OfferStep
<1>1. CASE ServerAnswers
  BY <1>1 DEF ServerAnswers
<1>2. ASSUME NEW i \in Candidate, ServerTrickles(i)
      PROVE  (TaskRuns /\ OffererRuns /\ LockHeld /\ MadeIsStable /\ ResumesAreLosses)'
  BY <1>2 DEF ServerTrickles
<1>3. CASE SignalLostAndResumed
  BY <1>3 DEF SignalLostAndResumed
<1>4. CASE ResumeEnds
  BY <1>4 DEF ResumeEnds
<1>5. CASE UNCHANGED negVars
  BY <1>5 DEF negVars
<1>6. CASE SessionCloses
  BY <1>6 DEF SessionCloses
<1>. QED
  BY <1>1, <1>2, <1>3, <1>4, <1>5, <1>6

(* Every step keeps the invariant.                                          *)
LEMMA InvStep ==
  ASSUME NegotiationInv, [Next]_negVars
  PROVE  NegotiationInv'
<1>1. TypeOK'
  BY TypeStep DEF NegotiationInv
<1>2. (TaskRuns /\ OffererRuns /\ LockHeld /\ MadeIsStable /\ ResumesAreLosses)'
  BY InvRequest, InvTask, InvOffer, InvSignal, InvServer DEF Next
<1>. QED
  BY <1>1, <1>2 DEF NegotiationInv

-----------------------------------------------------------------------------
(* Theorems.                                                                *)

(* Every variable keeps its type, task_running tells whether a negotiation  *)
(* task exists, and the lock of the transport is held only while an offer   *)
(* is made, or by a signal task that waits for it.                          *)
THEOREM NegotiationInvariant == Spec => []NegotiationInv
<1>1. Init => NegotiationInv
  BY InvInit, NegotiationAssumption
<1>2. NegotiationInv /\ [Next]_negVars => NegotiationInv'
  BY InvStep
<1>. QED
  BY <1>1, <1>2, PTL DEF Spec

(* Every variable keeps its type.                                           *)
THEOREM NegotiationTypeOK == Spec => []TypeOK
BY NegotiationInvariant, PTL DEF NegotiationInv

(* Two negotiation tasks never overlap (queue_negotiation).                 *)
THEOREM NegotiationsNeverOverlap == Spec => NegotiationsDoNotOverlap
<1>1. ASSUME NegotiationInv, Next, task # "start", task' = "start"
      PROVE  task \in {"none", "check"}
  <2>1. CASE \E c \in Caller : QueueNegotiation(c)
    BY <1>1, <2>1 DEF QueueNegotiation, NegotiationInv, TaskRuns
  <2>2. CASE \E c \in Caller : NegotiationNeeded(c) \/ DebounceNegotiation(c) \/ MarkForRetry(c)
    BY <1>1, <2>2 DEF NegotiationNeeded, DebounceNegotiation, MarkForRetry, queueVars
  <2>3. CASE Task
    BY <1>1, <2>3 DEF Task, TaskStart, TaskOffered, TaskWoken, TaskTimesOut, TaskTimedOut,
       TaskCheck, TaskExit
  <2>4. CASE Debounce
    BY <1>1, <2>4 DEF Debounce, DebouncerFires, DebouncerEnds, queueVars
  <2>5. CASE \E o \in Offerer : Offer(o)
    BY <1>1, <2>5 DEF Offer, OfferPostponed, OfferSkipped, OfferNotTakenBack, OfferMade,
       OfferSent, OfferFails, offerUnchanged, queueVars
  <2>6. CASE SignalTask
    BY <1>1, <2>6 DEF SignalTask, AnswerApplied, AnswerFlushFails, AnswerRefused,
       AnswerNotified, CandidateReceived, signalUnchanged
  <2>7. CASE \/ ServerAnswers \/ \E i \in Candidate : ServerTrickles(i)
             \/ SignalLostAndResumed \/ ResumeEnds \/ SessionCloses
    BY <1>1, <2>7 DEF ServerAnswers, ServerTrickles, SignalLostAndResumed, ResumeEnds,
       SessionCloses, queueVars
  <2>. QED
    BY <1>1, <2>1, <2>2, <2>3, <2>4, <2>5, <2>6, <2>7 DEF Next, CallerStep
<1>2. NegotiationInv /\ [Next]_negVars
        => [task # "start" /\ task' = "start" => task \in {"none", "check"}]_negVars
  BY <1>1
<1>. QED
  BY <1>2, NegotiationInvariant, PTL DEF Spec, NegotiationsDoNotOverlap

(* A step keeps PendingFlushed: an answer takes the candidates that waited, *)
(* and only a candidate that cannot be used joins them.                     *)
LEMMA FlushedStep ==
  ASSUME PendingFlushed, TypeOK, [Next]_negVars
  PROVE  PendingFlushed'
<1>. USE DEF PendingFlushed, TypeOK, transport
<1>1. CASE \E o \in Offerer : Offer(o)
  BY <1>1 DEF Offer, OfferPostponed, OfferSkipped, OfferNotTakenBack, OfferMade,
     OfferSent, OfferFails, offerUnchanged
<1>2. CASE SignalTask
  <2>1. CASE AnswerApplied \/ AnswerFlushFails
    BY <2>1 DEF AnswerApplied, AnswerFlushFails
  <2>2. CASE AnswerRefused \/ AnswerNotified
    BY <2>2 DEF AnswerRefused, AnswerNotified
  <2>3. ASSUME NEW i \in Candidate, CandidateReceived(i)
        PROVE  PendingFlushed'
    BY <2>3 DEF CandidateReceived
  <2>. QED
    BY <1>2, <2>1, <2>2, <2>3 DEF SignalTask
<1>3. CASE UNCHANGED <<pendingCandidates, hasRemote, restartingIce>>
  BY <1>3
<1>4. CASE \/ \E c \in Caller : NegotiationNeeded(c) \/ DebounceNegotiation(c) \/ CallerStep(c)
           \/ Debounce
  BY <1>3, <1>4 DEF NegotiationNeeded, DebounceNegotiation, CallerStep, MarkForRetry,
     QueueNegotiation, Debounce, DebouncerFires, DebouncerEnds
<1>5. CASE Task
  BY <1>3, <1>5 DEF Task, TaskStart, TaskOffered, TaskWoken, TaskTimesOut, TaskTimedOut,
     TaskCheck, TaskExit, taskUnchanged
<1>6. CASE \/ ServerAnswers \/ \E i \in Candidate : ServerTrickles(i)
           \/ SignalLostAndResumed \/ ResumeEnds \/ SessionCloses
           \/ UNCHANGED negVars
  BY <1>3, <1>6 DEF ServerAnswers, ServerTrickles, SignalLostAndResumed, ResumeEnds,
     SessionCloses, negVars
<1>. QED
  BY <1>1, <1>2, <1>4, <1>5, <1>6 DEF Next

(* Candidates wait only while the connection cannot take them               *)
(* (PeerTransport::add_ice_candidate and set_remote_description).           *)
THEOREM CandidatesAreFlushed == Spec => []PendingFlushed
<1>1. Init => PendingFlushed
  BY DEF Init, PendingFlushed
<1>2. TypeOK /\ PendingFlushed /\ [Next]_negVars => PendingFlushed'
  BY FlushedStep
<1>. QED
  BY <1>1, <1>2, NegotiationTypeOK, PTL DEF Spec

(* A step keeps RequestAccounted.  An offer that is made covers all the     *)
(* requests so far; a request that finds one open leaves its mark, which a  *)
(* further round of the task, or the answer, turns into an offer again.     *)
LEMMA AccountedStep ==
  ASSUME RequestAccounted, NegotiationInv, [Next]_negVars
  PROVE  RequestAccounted'
<1>. USE DEF RequestAccounted, NegotiationInv, TypeOK, SelfDeadlock, queueVars, transport, network
<1>1. CASE \E c \in Caller : NegotiationNeeded(c) \/ DebounceNegotiation(c) \/ CallerStep(c)
  <2>1. ASSUME NEW c \in Caller, NegotiationNeeded(c)
        PROVE  RequestAccounted'
    BY <2>1 DEF NegotiationNeeded
  <2>2. ASSUME NEW c \in Caller, DebounceNegotiation(c)
        PROVE  RequestAccounted'
    BY <2>2 DEF DebounceNegotiation
  <2>3. ASSUME NEW c \in Caller, MarkForRetry(c)
        PROVE  RequestAccounted'
    BY <2>3 DEF MarkForRetry
  <2>4. ASSUME NEW c \in Caller, QueueNegotiation(c)
        PROVE  RequestAccounted'
    BY <2>4 DEF QueueNegotiation
  <2>. QED
    BY <1>1, <2>1, <2>2, <2>3, <2>4 DEF CallerStep
<1>2. CASE Task
  <2>. USE DEF taskUnchanged, Offerer, OfferStep
  <2>1. CASE TaskStart
    BY <2>1 DEF TaskStart
  <2>2. CASE TaskOffered
    BY <2>2 DEF TaskOffered
  <2>3. CASE TaskWoken
    BY <2>3 DEF TaskWoken
  <2>4. CASE TaskTimesOut
    BY <2>4 DEF TaskTimesOut
  <2>5. CASE TaskTimedOut
    BY <2>5 DEF TaskTimedOut
  <2>6. CASE TaskCheck
    BY <2>6 DEF TaskCheck
  <2>7. CASE TaskExit
    BY <2>7 DEF TaskExit
  <2>. QED
    BY <1>2, <2>1, <2>2, <2>3, <2>4, <2>5, <2>6, <2>7 DEF Task
<1>3. CASE Debounce
  <2>1. CASE DebouncerFires
    BY <2>1 DEF DebouncerFires, Offerer, OfferStep
  <2>2. CASE DebouncerEnds
    BY <2>2 DEF DebouncerEnds, Offerer, OfferStep
  <2>. QED
    BY <1>3, <2>1, <2>2 DEF Debounce
<1>4. ASSUME NEW o \in Offerer, Offer(o)
      PROVE  RequestAccounted'
  <2>. USE DEF offerUnchanged, Offerer, OfferStep, LockHeld
  <2>1. CASE OfferPostponed(o)
    BY <2>1 DEF OfferPostponed
  <2>2. CASE OfferMade(o)
    BY <2>2 DEF OfferMade
  <2>3. CASE OfferSent(o)
    BY <2>3 DEF OfferSent
  <2>4. CASE OfferFails(o)
    BY <2>4 DEF OfferFails
  <2>5. CASE OfferSkipped(o)
    BY <2>5 DEF OfferSkipped
  <2>6. CASE OfferNotTakenBack(o)
    <3>1. failures' # 0
      BY <2>6 DEF OfferNotTakenBack
    <3>. QED
      BY <3>1
  <2>. QED
    BY <1>4, <2>1, <2>2, <2>3, <2>4, <2>5, <2>6 DEF Offer
<1>5. CASE SignalTask
  <2>. USE DEF signalUnchanged, SignalReads, Offerer, OfferStep
  <2>1. CASE AnswerApplied
    BY <2>1 DEF AnswerApplied
  <2>2. CASE AnswerRefused
    BY <2>2 DEF AnswerRefused
  <2>3. CASE AnswerNotified
    BY <2>3 DEF AnswerNotified
  <2>4. ASSUME NEW i \in Candidate, CandidateReceived(i)
        PROVE  RequestAccounted'
    BY <2>4 DEF CandidateReceived
  <2>5. CASE AnswerFlushFails
    BY <2>5 DEF AnswerFlushFails
  <2>. QED
    BY <1>5, <2>1, <2>2, <2>3, <2>4, <2>5 DEF SignalTask
<1>6. CASE \/ ServerAnswers \/ \E i \in Candidate : ServerTrickles(i)
           \/ SignalLostAndResumed \/ ResumeEnds \/ SessionCloses
           \/ UNCHANGED negVars
  <2>1. CASE ServerAnswers
    BY <2>1 DEF ServerAnswers
  <2>2. ASSUME NEW i \in Candidate, ServerTrickles(i)
        PROVE  RequestAccounted'
    BY <2>2 DEF ServerTrickles
  <2>3. CASE SignalLostAndResumed
    BY <2>3 DEF SignalLostAndResumed, Offerer, OfferStep
  <2>4. CASE ResumeEnds
    BY <2>4 DEF ResumeEnds, Offerer, OfferStep
  <2>5. CASE UNCHANGED negVars
    BY <2>5 DEF negVars
  <2>6. CASE SessionCloses
    BY <2>6 DEF SessionCloses
  <2>. QED
    BY <1>6, <2>1, <2>2, <2>3, <2>4, <2>5, <2>6
<1>. QED
  BY <1>1, <1>2, <1>3, <1>4, <1>5, <1>6 DEF Next

(* In the fast mode no request is dropped silently (queue_negotiation,      *)
(* execute_negotiation_with_retry, create_and_send_offer).                  *)
THEOREM RequestsAreAccountedFor == Spec => []RequestAccounted
<1>1. Init => RequestAccounted
  BY DEF Init, RequestAccounted
<1>2. NegotiationInv /\ RequestAccounted /\ [Next]_negVars => RequestAccounted'
  BY AccountedStep
<1>. QED
  BY <1>1, <1>2, NegotiationInvariant, PTL DEF Spec

-----------------------------------------------------------------------------
(* One offer at a time.                                                     *)

(* Where the answers are when a message is added ...                        *)
LEMMA AnswersAppended ==
  ASSUME TypeOK, NEW m \in {"answer"} \cup Candidate, toClient' = Append(toClient, m)
  PROVE  Answers' = IF m = "answer" THEN Answers \cup {Len(toClient) + 1} ELSE Answers
BY DEF TypeOK, Answers

(* ... and when the first one is taken.                                     *)
LEMMA AnswersTaken ==
  ASSUME TypeOK, toClient # <<>>, toClient' = Tail(toClient)
  PROVE  /\ \A k \in Answers' : k + 1 \in Answers /\ k \in Nat \ {0}
         /\ 1 \in Answers <=> Head(toClient) = "answer"
<1>1. /\ Len(toClient) \in Nat \ {0}
      /\ Len(toClient') = Len(toClient) - 1
      /\ \A k \in 1 .. Len(toClient) - 1 : toClient'[k] = toClient[k + 1]
      /\ Head(toClient) = toClient[1]
  BY HeadTailProperties, EmptySeq DEF TypeOK
<1>2. DOMAIN toClient = 1 .. Len(toClient) /\ DOMAIN toClient' = 1 .. Len(toClient')
  BY HeadTailProperties, LenProperties DEF TypeOK
<1>. QED
  BY <1>1, <1>2 DEF Answers

(* A step keeps OneOfferUnanswered.                                         *)
LEMMA OneOfferStep ==
  ASSUME OneOfferUnanswered, NegotiationInv, NegotiationAssumption, [Next]_negVars
  PROVE  OneOfferUnanswered'
<1>. USE DEF NegotiationInv
<1>1. SUFFICES ASSUME losses' = 0
               PROVE  (/\ sig = "Stable" => toServer = <<>> /\ Answers = {}
                       /\ Len(toServer) <= 1
                       /\ toServer # <<>> => Answers = {}
                       /\ \A j, k \in Answers : j = k)'
  BY DEF OneOfferUnanswered
<1>2. losses = 0 /\ ~SignalLostAndResumed
  BY <1>1 DEF Next, TypeOK, network, negVars, NegotiationNeeded, DebounceNegotiation, CallerStep,
     MarkForRetry, QueueNegotiation, Debounce, DebouncerFires, DebouncerEnds,
     Task, TaskStart, TaskOffered, TaskWoken, TaskTimesOut, TaskTimedOut, TaskCheck, TaskExit,
     taskUnchanged, Offer, OfferPostponed, OfferSkipped, OfferNotTakenBack, OfferMade, OfferSent,
     OfferFails, offerUnchanged, SignalTask, AnswerApplied, AnswerFlushFails, AnswerRefused,
     AnswerNotified, CandidateReceived, signalUnchanged,
     ServerAnswers, ServerTrickles, SignalLostAndResumed, ResumeEnds, SessionCloses
<1>3. /\ sig = "Stable" => toServer = <<>> /\ Answers = {}
      /\ Len(toServer) <= 1
      /\ toServer # <<>> => Answers = {}
      /\ \A j, k \in Answers : j = k
  BY <1>2 DEF OneOfferUnanswered
<1>4. UNCHANGED toClient => UNCHANGED Answers
  BY DEF Answers
<1>5. ASSUME NEW o \in Offerer, Offer(o)
      PROVE  OneOfferUnanswered'
  <2>1. CASE OfferPostponed(o) \/ OfferSkipped(o) \/ OfferNotTakenBack(o) \/ OfferFails(o)
    BY <1>3, <1>4, <2>1 DEF OfferPostponed, OfferSkipped, OfferNotTakenBack, OfferFails,
       offerUnchanged, network, OneOfferUnanswered
  <2>2. CASE OfferMade(o)
    <3>1. sig = "Stable"
      BY <1>2, <2>2 DEF OfferMade, IceRestart, ResumesAreLosses, TypeOK
    <3>. QED
      BY <1>3, <1>4, <2>2, <3>1 DEF OfferMade, offerUnchanged, network, OneOfferUnanswered
  <2>3. CASE OfferSent(o)
    <3>1. sig = "Stable"
      BY <1>2, <2>3 DEF OfferSent, MadeIsStable
    <3>2. Len(toServer') = 1
      BY <1>3, <2>3, <3>1 DEF OfferSent
    <3>. QED
      BY <1>3, <1>4, <2>3, <3>1, <3>2 DEF OfferSent, OneOfferUnanswered
  <2>. QED
    BY <1>5, <2>1, <2>2, <2>3 DEF Offer
<1>6. CASE SignalTask
  <2>1. CASE AnswerApplied \/ AnswerFlushFails
    <3>1. 1 \in Answers /\ \A k \in Answers' : k + 1 \in Answers /\ k \in Nat \ {0}
      BY <2>1, AnswersTaken DEF AnswerApplied, AnswerFlushFails, SignalReads
    <3>2. Answers' = {} /\ toServer' = <<>>
      BY <1>3, <2>1, <3>1 DEF AnswerApplied, AnswerFlushFails, signalUnchanged
    <3>. QED
      BY <3>2 DEF OneOfferUnanswered
  <2>2. CASE AnswerRefused
    <3>1. 1 \in Answers
      BY <2>2, AnswersTaken DEF AnswerRefused, SignalReads
    <3>. QED
      BY <1>3, <2>2, <3>1 DEF AnswerRefused
  <2>3. CASE AnswerNotified
    BY <1>3, <1>4, <2>3 DEF AnswerNotified, signalUnchanged, transport, OneOfferUnanswered
  <2>4. ASSUME NEW i \in Candidate, CandidateReceived(i)
        PROVE  OneOfferUnanswered'
    <3>1. \A k \in Answers' : k + 1 \in Answers /\ k \in Nat \ {0}
      BY <2>4, AnswersTaken DEF CandidateReceived, SignalReads
    <3>2. UNCHANGED <<sig, toServer>>
      BY <2>4 DEF CandidateReceived, signalUnchanged
    <3>3. \A j, k \in Answers' : j = k
      BY <1>3, <3>1
    <3>. QED
      BY <1>3, <3>1, <3>2, <3>3 DEF OneOfferUnanswered
  <2>. QED
    BY <1>1, <1>6, <2>1, <2>2, <2>3, <2>4 DEF SignalTask, OneOfferUnanswered
<1>7. CASE ServerAnswers
  <2>1. toServer # <<>> /\ toServer' = Tail(toServer) /\ UNCHANGED sig
    BY <1>7 DEF ServerAnswers, transport
  <2>2. toServer' = <<>>
    BY <1>3, <2>1, HeadTailProperties, EmptySeq DEF TypeOK
  <2>3. Answers' = {Len(toClient) + 1}
    BY <1>3, <1>7, <2>1, AnswersAppended DEF ServerAnswers
  <2>4. sig' # "Stable"
    BY <1>3, <2>1
  <2>. QED
    BY <2>2, <2>3, <2>4 DEF OneOfferUnanswered
<1>8. ASSUME NEW i \in Candidate, ServerTrickles(i)
      PROVE  OneOfferUnanswered'
  <2>1. Answers' = Answers
    BY <1>8, AnswersAppended DEF ServerTrickles, NegotiationAssumption
  <2>. QED
    BY <1>3, <1>8, <2>1 DEF ServerTrickles, transport, OneOfferUnanswered
<1>9. CASE UNCHANGED <<sig, toServer, toClient>>
  BY <1>3, <1>4, <1>9
<1>10. CASE \/ \E c \in Caller : NegotiationNeeded(c) \/ DebounceNegotiation(c) \/ CallerStep(c)
            \/ Debounce \/ Task \/ ResumeEnds \/ UNCHANGED negVars
  BY <1>9, <1>10 DEF NegotiationNeeded, DebounceNegotiation, CallerStep, MarkForRetry,
     QueueNegotiation, Debounce, DebouncerFires, DebouncerEnds, Task, TaskStart, TaskOffered,
     TaskWoken, TaskTimesOut, TaskTimedOut, TaskCheck, TaskExit, taskUnchanged, ResumeEnds,
     transport, network, negVars
<1>11. CASE SessionCloses
  BY <1>3, <1>4, <1>11 DEF SessionCloses, network
<1>. QED
  BY <1>1, <1>2, <1>5, <1>6, <1>7, <1>8, <1>10, <1>11 DEF Next, OneOfferUnanswered

(* Without an ICE restart, one offer at most is unanswered, whoever asked   *)
(* for it (create_and_send_offer).                                          *)
THEOREM OneOfferIsUnanswered == Spec => []OneOfferUnanswered
<1>1. Init => OneOfferUnanswered
  BY DEF Init, OneOfferUnanswered, Answers
<1>2. NegotiationInv /\ OneOfferUnanswered /\ [Next]_negVars => OneOfferUnanswered'
  BY OneOfferStep, NegotiationAssumption
<1>. QED
  BY <1>1, <1>2, NegotiationInvariant, PTL DEF Spec
=============================================================================
