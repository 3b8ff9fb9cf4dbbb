--------------------------- MODULE ComponentsProofs ---------------------------
(***************************************************************************)
(* Proofs about the smaller components, and that they keep to themselves.  *)
(* A performed RPC call is answered once, and succeeds only when its       *)
(* handler did, for any number of calls and tasks and any packets lost or  *)
(* repeated.  The stream of a track is told when the handle of the track   *)
(* is dropped, for any number of handles, requests and drops.  The stream  *)
(* of a participant keeps its types.  Side by side, each component takes   *)
(* only steps of its own specification.                                    *)
(***************************************************************************)
EXTENDS MCComponents, SignalQueueProofs, RoomProofs, DataStreamProofs,
        ParticipantsProofs, SequenceTheorems, TLAPS

-----------------------------------------------------------------------------
(* RPC: the tables of pending calls agree with the calls.                   *)

(* Nothing is in the tables, and nothing was answered, before it is there.  *)
Unregistered ==
  \A c \in Call : call[c] \in {"idle", "publishing", "published"} =>
    /\ c \notin pending_acks /\ c \notin pending_responses
    /\ c \notin acked /\ response[c] = "none"

(* An ack that came is no longer waited for, nor is a response.             *)
AckedIsTaken == \A c \in acked : c \notin pending_acks
AnsweredIsTaken == \A c \in Call : response[c] # "none" => c \notin pending_responses
AckedFirst == \A c \in Call : call[c] = "response" => c \in acked

(* A payload, wherever it is on its way, is that of a call that ran.        *)
TaskIsTrue ==
  \A t \in Task : task[t].step = "respond" /\ task[t].result = "payload" =>
    task[t].call \in ran
NotYetRun ==
  \A t \in Task : task[t].step \in {"ack", "handler", "waiting"} => task[t].result = "error"
AnswersAreTrue ==
  \A i \in 1..Len(answers) : answers[i].type = "payload" => answers[i].call \in ran
ResponseIsTrue == \A c \in Call : response[c] = "payload" => c \in ran
WaitersWait == \A t \in waiters : task[t].step = "waiting"

RpcInv ==
  /\ RpcTypeOK
  /\ Unregistered /\ AckedIsTaken /\ AnsweredIsTaken /\ AckedFirst
  /\ TaskIsTrue /\ NotYetRun /\ AnswersAreTrue /\ ResponseIsTrue /\ WaitersWait
  /\ RpcAnswers

Answer == [type : {"ack"} \cup Results, call : Call]

-----------------------------------------------------------------------------
(* What a queue holds after its head was taken, or something was put behind.*)
LEMMA QueueTail ==
  ASSUME NEW T, NEW s \in Seq(T), s # <<>>
  PROVE  /\ Head(s) \in T /\ Head(s) = s[1] /\ 1 \in 1..Len(s)
         /\ Tail(s) \in Seq(T)
         /\ \A i \in 1..Len(Tail(s)) : \E j \in 1..Len(s) : Tail(s)[i] = s[j]
<1>1. Len(s) \in Nat /\ Len(s) # 0
  BY EmptySeq, LenProperties
<1>2. /\ Head(s) \in T /\ Tail(s) \in Seq(T)
      /\ Len(Tail(s)) = Len(s) - 1
      /\ \A i \in 1..Len(Tail(s)) : Tail(s)[i] = s[i + 1]
  BY HeadTailProperties
<1>3. \A i \in 1..Len(Tail(s)) : i + 1 \in 1..Len(s)
  BY <1>1, <1>2
<1> QED
  BY <1>1, <1>2, <1>3

(* Appending keeps a sequence and what it holds.                            *)
LEMMA QueueAppend ==
  ASSUME NEW T, NEW s \in Seq(T), NEW e \in T
  PROVE  /\ Append(s, e) \in Seq(T)
         /\ \A i \in 1..Len(Append(s, e)) :
              Append(s, e)[i] = e \/ (i \in 1..Len(s) /\ Append(s, e)[i] = s[i])
<1>1. /\ Append(s, e) \in Seq(T) /\ Len(Append(s, e)) = Len(s) + 1
      /\ \A i \in 1..Len(s) : Append(s, e)[i] = s[i]
      /\ Append(s, e)[Len(s) + 1] = e
  BY AppendProperties
<1>2. \A i \in 1..(Len(s) + 1) : i \in 1..Len(s) \/ i = Len(s) + 1
  BY LenProperties
<1> QED
  BY <1>1, <1>2

(* Where the result of a task is, and what it names.                        *)
LEMMA TaskType ==
  ASSUME RpcTypeOK, NEW t \in Task, task[t].step # "free"
  PROVE  task[t] \in [step : {"ack", "handler", "waiting", "respond", "done"}, call : Call,
                      result : Results]
BY DEF RpcTypeOK

(* No call, no task, no registered method.                                  *)
LEMMA RpcInitInv == RpcInit => RpcInv
<1> SUFFICES ASSUME RpcInit PROVE RpcInv
  OBVIOUS
<1>1. RpcTypeOK
  BY DEF RpcInit, RpcTypeOK, Steps, Outcomes, Results
<1>2. \A t \in Task : task[t].step = "free"
  BY DEF RpcInit
<1>3. Unregistered /\ AckedIsTaken /\ AnsweredIsTaken /\ AckedFirst /\ ResponseIsTrue
  BY DEF RpcInit, Unregistered, AckedIsTaken, AnsweredIsTaken, AckedFirst, ResponseIsTrue
<1>4. TaskIsTrue /\ NotYetRun /\ WaitersWait
  BY <1>2 DEF RpcInit, TaskIsTrue, NotYetRun, WaitersWait
<1>5. AnswersAreTrue
  <2>1. Len(answers) = 0
    BY EmptySeq DEF RpcInit
  <2> QED BY <2>1 DEF AnswersAreTrue
<1>6. RpcAnswers
  BY DEF RpcInit, RpcAnswers, NothingPending, SuccessIsTrue
<1> QED
  BY <1>1, <1>3, <1>4, <1>5, <1>6 DEF RpcInv

(* Steps of a call that only change how far it is.                          *)
LEMMA CallMoves ==
  ASSUME RpcInv, NEW c \in Call,
         PerformRpc(c) \/ RequestLeaves(c) \/ RequestFails(c) \/ Cancel(c)
           \/ AckReceived(c) \/ ResponseReceived(c)
  PROVE  RpcInv'
<1> USE DEF RpcInv
<1>1. /\ UNCHANGED <<pending_acks, pending_responses, acked, response, answers, task,
                     registered, waiters, ran, twice>>
      /\ \A d \in Call : d # c => call'[d] = call[d]
  BY DEF PerformRpc, RequestLeaves, RequestFails, Cancel, AckReceived, ResponseReceived,
     Becomes, RpcTypeOK
<1>2. requests' \in Seq(Call)
  BY QueueAppend, SMTT(30) DEF PerformRpc, RequestLeaves, RequestFails, Cancel, AckReceived,
     ResponseReceived, RpcTypeOK
<1>3. call' \in [Call -> Steps \cup Outcomes]
  BY DEF PerformRpc, RequestLeaves, RequestFails, Cancel, AckReceived, ResponseReceived,
     Becomes, RpcTypeOK, Steps, Outcomes, Results
<1>4. /\ call'[c] \in {"idle", "publishing", "published"} =>
           call[c] \in {"idle", "publishing", "published"}
      /\ call'[c] = "response" => c \in acked
      /\ call'[c] = "payload" => c \in ran
      /\ c \in pending_acks \cup pending_responses =>
           call'[c] \in {"ack", "response", "cancelled"}
  <2>1. CASE PerformRpc(c) \/ RequestLeaves(c) \/ RequestFails(c)
    BY <2>1 DEF PerformRpc, RequestLeaves, RequestFails, Becomes, RpcTypeOK, Unregistered
  <2>2. CASE Cancel(c)
    BY <2>2 DEF Cancel, Becomes, RpcTypeOK
  <2>3. CASE AckReceived(c)
    BY <2>3 DEF AckReceived, Becomes, RpcTypeOK
  <2>4. CASE ResponseReceived(c)
    BY <2>4 DEF ResponseReceived, Becomes, RpcTypeOK, AckedFirst, AckedIsTaken,
       AnsweredIsTaken, ResponseIsTrue, Results
  <2> QED BY <2>1, <2>2, <2>3, <2>4
<1>5. RpcTypeOK'
  BY <1>1, <1>2, <1>3 DEF RpcTypeOK
<1>6. Unregistered' /\ AckedIsTaken' /\ AnsweredIsTaken' /\ AckedFirst'
  BY <1>1, <1>4 DEF Unregistered, AckedIsTaken, AnsweredIsTaken, AckedFirst
<1>7. TaskIsTrue' /\ NotYetRun' /\ AnswersAreTrue' /\ ResponseIsTrue' /\ WaitersWait'
  BY <1>1 DEF TaskIsTrue, NotYetRun, AnswersAreTrue, ResponseIsTrue, WaitersWait
<1>8. RpcAnswers'
  <2>1. pending_acks \subseteq Call /\ pending_responses \subseteq Call
    BY DEF RpcTypeOK
  <2> QED BY <1>1, <1>4, <2>1 DEF RpcAnswers, NothingPending, SuccessIsTrue
<1> QED
  BY <1>5, <1>6, <1>7, <1>8

(* Registering, and the two timeouts, change the tables with the call.      *)
LEMMA CallTables ==
  ASSUME RpcInv, NEW c \in Call, Register(c) \/ AckTimeout(c) \/ ResponseTimeout(c)
  PROVE  RpcInv'
<1> USE DEF RpcInv
<1>1. /\ UNCHANGED <<acked, response, requests, answers, task, registered, waiters, ran, twice>>
      /\ \A d \in Call : d # c => /\ call'[d] = call[d]
                                  /\ d \in pending_acks' <=> d \in pending_acks
                                  /\ d \in pending_responses' <=> d \in pending_responses
      /\ pending_acks' \subseteq Call /\ pending_responses' \subseteq Call
  BY DEF Register, AckTimeout, ResponseTimeout, Becomes, RpcTypeOK
<1>2. call' \in [Call -> Steps \cup Outcomes]
  BY DEF Register, AckTimeout, ResponseTimeout, Becomes, RpcTypeOK, Steps, Outcomes
<1>3. /\ call'[c] \in {"ack", "connectionTimeout", "responseTimeout"}
      /\ c \in pending_acks' \cup pending_responses' => call'[c] = "ack"
      /\ c \in acked => c \notin pending_acks'
      /\ response[c] # "none" => c \notin pending_responses'
  <2>1. CASE Register(c)
    BY <2>1 DEF Register, Becomes, RpcTypeOK, Unregistered
  <2>2. CASE AckTimeout(c)
    BY <2>2 DEF AckTimeout, Becomes, RpcTypeOK
  <2>3. CASE ResponseTimeout(c)
    BY <2>3 DEF ResponseTimeout, Becomes, RpcTypeOK, AckedFirst, AckedIsTaken
  <2> QED BY <2>1, <2>2, <2>3
<1>4. RpcTypeOK'
  BY <1>1, <1>2 DEF RpcTypeOK
<1>5. Unregistered' /\ AckedIsTaken' /\ AnsweredIsTaken' /\ AckedFirst'
  <2>1. acked \subseteq Call
    BY DEF RpcTypeOK
  <2> QED
    BY <1>1, <1>3, <2>1 DEF Unregistered, AckedIsTaken, AnsweredIsTaken, AckedFirst
<1>6. TaskIsTrue' /\ NotYetRun' /\ AnswersAreTrue' /\ ResponseIsTrue' /\ WaitersWait'
  BY <1>1 DEF TaskIsTrue, NotYetRun, AnswersAreTrue, ResponseIsTrue, WaitersWait
<1>7. RpcAnswers'
  BY <1>1, <1>3 DEF RpcAnswers, NothingPending, SuccessIsTrue
<1> QED
  BY <1>4, <1>5, <1>6, <1>7

(* The room task handles an ack or a response, which may come again: only   *)
(* a call that is registered takes it.                                      *)
LEMMA AnswerStep ==
  ASSUME RpcInv, ReceiveAnswer
  PROVE  RpcInv'
<1> USE DEF RpcInv
<1> DEFINE a == Head(answers)
<1>1. /\ answers \in Seq(Answer) /\ answers # <<>>
      /\ UNCHANGED <<call, requests, task, registered, waiters, ran>>
  BY DEF ReceiveAnswer, RpcTypeOK, Answer
<1>2. /\ a \in Answer /\ a = answers[1] /\ 1 \in 1..Len(answers)
      /\ Tail(answers) \in Seq(Answer)
      /\ \A i \in 1..Len(Tail(answers)) : \E j \in 1..Len(answers) : Tail(answers)[i] = answers[j]
  BY <1>1, QueueTail
<1>3. answers' = Tail(answers) \/ answers' = answers
  BY DEF ReceiveAnswer, Deliver
<1>4. twice' \in Nat
  BY DEF ReceiveAnswer, Deliver, RpcTypeOK
<1>5. a.type = "payload" => a.call \in ran
  BY <1>2 DEF AnswersAreTrue
<1> HIDE DEF a
<1>6. /\ a.call \in Call /\ a.type \in {"ack"} \cup Results
  BY <1>2 DEF Answer
<1>7. \/ a.type = "ack" /\ HandleAck(a.call)
      \/ a.type \in Results /\ HandleResponse(a.call, a.type)
  BY <1>6 DEF ReceiveAnswer, a
<1>8. /\ pending_acks' \subseteq pending_acks /\ pending_responses' \subseteq pending_responses
      /\ acked \subseteq acked' /\ acked' \subseteq Call
      /\ \A c \in acked' : c \notin pending_acks' /\ (c \in acked \/ c \in pending_acks)
      /\ response' \in [Call -> Results \cup {"none"}]
      /\ \A c \in Call : /\ response'[c] # "none" => c \notin pending_responses'
                         /\ response'[c] # response[c] => c \in pending_responses
                         /\ response'[c] = "payload" => c \in ran
  <2>1. CASE a.type = "ack" /\ HandleAck(a.call)
    BY <2>1, <1>6 DEF HandleAck, RpcTypeOK, AckedIsTaken, AnsweredIsTaken, ResponseIsTrue
  <2>2. CASE a.type \in Results /\ HandleResponse(a.call, a.type)
    BY <2>2, <1>5, <1>6 DEF HandleResponse, RpcTypeOK, AckedIsTaken, AnsweredIsTaken,
       ResponseIsTrue
  <2> QED BY <1>7, <2>1, <2>2
<1>9. RpcTypeOK'
  BY <1>1, <1>2, <1>3, <1>4, <1>8 DEF RpcTypeOK, Answer
<1>10. Unregistered' /\ AckedIsTaken' /\ AnsweredIsTaken' /\ AckedFirst' /\ ResponseIsTrue'
  BY <1>1, <1>8 DEF Unregistered, AckedIsTaken, AnsweredIsTaken, AckedFirst, ResponseIsTrue
<1>11. TaskIsTrue' /\ NotYetRun' /\ WaitersWait'
  BY <1>1 DEF TaskIsTrue, NotYetRun, WaitersWait
<1>12. AnswersAreTrue'
  BY <1>1, <1>2, <1>3 DEF AnswersAreTrue
<1>13. RpcAnswers'
  BY <1>1, <1>8 DEF RpcAnswers, NothingPending, SuccessIsTrue
<1> QED
  BY <1>9, <1>10, <1>11, <1>12, <1>13

(* The other side: what a task of it must leave as it was.                  *)
LEMMA TaskSide ==
  ASSUME RpcInv, RpcTypeOK',
         UNCHANGED <<call, pending_acks, pending_responses, acked, response>>,
         ran \subseteq ran'
  PROVE  Unregistered' /\ AckedIsTaken' /\ AnsweredIsTaken' /\ AckedFirst'
           /\ ResponseIsTrue' /\ RpcAnswers'
BY DEF RpcInv, Unregistered, AckedIsTaken, AnsweredIsTaken, AckedFirst, ResponseIsTrue,
   RpcAnswers, NothingPending, SuccessIsTrue

(* The request reaches the callee, where a task is spawned for it.          *)
LEMMA RequestStep ==
  ASSUME RpcInv, NEW t \in Task, ReceiveRequest(t)
  PROVE  RpcInv'
<1> USE DEF RpcInv
<1>1. Head(requests) \in Call /\ Tail(requests) \in Seq(Call)
  BY QueueTail DEF ReceiveRequest, RpcTypeOK
<1>2. requests' \in Seq(Call) /\ twice' \in Nat
  <2>1. requests \in Seq(Call) /\ twice \in Nat
    BY DEF RpcTypeOK
  <2>2. /\ requests' = Tail(requests) \/ requests' = requests
        /\ twice' = twice \/ twice' = twice + 1
    BY DEF ReceiveRequest, Deliver
  <2> QED BY <1>1, <2>1, <2>2
<1>3. /\ UNCHANGED <<call, pending_acks, pending_responses, acked, response, answers,
                     registered, waiters, ran>>
      /\ task[t].step = "free"
      /\ \A u \in Task : u # t => task'[u] = task[u]
      /\ task'[t] = [step |-> "ack", call |-> Head(requests), result |-> "error"]
  BY DEF ReceiveRequest, RpcTypeOK
<1>4. RpcTypeOK'
  BY <1>1, <1>2, <1>3 DEF RpcTypeOK, ReceiveRequest, Results
<1>5. TaskIsTrue' /\ NotYetRun' /\ WaitersWait'
  <2>1. waiters \subseteq Task
    BY DEF RpcTypeOK
  <2> QED BY <1>3, <2>1 DEF TaskIsTrue, NotYetRun, WaitersWait
<1>6. AnswersAreTrue'
  BY <1>3 DEF AnswersAreTrue
<1> QED
  BY <1>3, <1>4, <1>5, <1>6, TaskSide

(* The callee acknowledges before it looks for the handler.                 *)
LEMMA SendAckStep ==
  ASSUME RpcInv, NEW t \in Task, SendAck(t)
  PROVE  RpcInv'
<1> USE DEF RpcInv
<1> DEFINE a == [type |-> "ack", call |-> task[t].call]
<1>1. /\ UNCHANGED <<call, pending_acks, pending_responses, acked, response, requests,
                     registered, waiters, ran, twice>>
      /\ task[t].step = "ack" /\ a \in Answer /\ answers \in Seq(Answer)
      /\ \A u \in Task : u # t => task'[u] = task[u]
      /\ task'[t] = [task[t] EXCEPT !.step = "handler"]
      /\ answers' = Append(answers, a) \/ answers' = answers
  BY TaskType DEF SendAck, RpcTypeOK, Answer
<1>2. /\ task'[t].step = "handler" /\ task'[t].result = task[t].result
      /\ task' \in [Task -> [step : {"free"}] \cup
           [step : {"ack", "handler", "waiting", "respond", "done"}, call : Call,
            result : Results]]
  BY <1>1, TaskType DEF SendAck, RpcTypeOK
<1>3. a.type # "payload"
  OBVIOUS
<1> HIDE DEF a
<1>4. /\ answers' \in Seq(Answer)
      /\ \A i \in 1..Len(answers') : answers'[i] = a \/ (i \in 1..Len(answers) /\ answers'[i] = answers[i])
  BY <1>1, QueueAppend
<1>5. RpcTypeOK'
  BY <1>1, <1>2, <1>4 DEF RpcTypeOK, Answer
<1>6. TaskIsTrue' /\ NotYetRun' /\ WaitersWait'
  <2>1. waiters \subseteq Task
    BY DEF RpcTypeOK
  <2> QED BY <1>1, <1>2, <2>1 DEF TaskIsTrue, NotYetRun, WaitersWait
<1>7. AnswersAreTrue'
  BY <1>1, <1>3, <1>4 DEF AnswersAreTrue
<1> QED
  BY <1>1, <1>5, <1>6, <1>7, TaskSide

(* The handler is looked up and its event sent, or the call refused.        *)
LEMMA InvokeStep ==
  ASSUME RpcInv, NEW t \in Task, Invoke(t)
  PROVE  RpcInv'
<1> USE DEF RpcInv
<1>1. /\ UNCHANGED <<call, pending_acks, pending_responses, acked, response, requests,
                     answers, registered, ran, twice>>
      /\ task[t].step = "handler" /\ task[t].result = "error"
      /\ \A u \in Task : u # t => task'[u] = task[u]
  BY DEF Invoke, RpcTypeOK, NotYetRun
<1>2. /\ task'[t].result = "error"
      /\ task' \in [Task -> [step : {"free"}] \cup
           [step : {"ack", "handler", "waiting", "respond", "done"}, call : Call,
            result : Results]]
      /\ \/ waiters' = waiters
         \/ waiters' = waiters \cup {t} /\ task'[t].step = "waiting"
  BY <1>1, TaskType DEF Invoke, RpcTypeOK
<1>3. RpcTypeOK'
  BY <1>1, <1>2 DEF RpcTypeOK
<1>4. TaskIsTrue' /\ NotYetRun' /\ AnswersAreTrue' /\ WaitersWait'
  BY <1>1, <1>2 DEF TaskIsTrue, NotYetRun, AnswersAreTrue, WaitersWait, RpcTypeOK
<1> QED
  BY <1>1, <1>3, <1>4, TaskSide

(* A task that got an answer keeps its call.                                *)
LEMMA Responding ==
  ASSUME NEW S, NEW C, NEW R, NEW x \in [step : S, call : C, result : R],
         NEW y \in S, NEW z \in R
  PROVE  LET r == [x EXCEPT !.step = y, !.result = z]
         IN  /\ r.step = y /\ r.result = z /\ r.call = x.call
             /\ r \in [step : S, call : C, result : R]
OBVIOUS

(* The client answers the invocation.                                       *)
LEMMA ClientStep ==
  ASSUME RpcInv, NEW t \in Task, NEW result \in Results, ClientResponds(t, result)
  PROVE  RpcInv'
<1> USE DEF RpcInv
<1>1. /\ UNCHANGED <<call, pending_acks, pending_responses, acked, response, requests,
                     answers, registered, twice>>
      /\ task[t].step = "waiting" /\ waiters' = waiters \ {t}
      /\ ran' = IF result = "payload" THEN ran \cup {task[t].call} ELSE ran
      /\ \A u \in Task : u # t => task'[u] = task[u]
      /\ task[t].call \in Call
  BY TaskType DEF ClientResponds, RpcTypeOK, WaitersWait
<1>2. /\ task'[t].step = "respond" /\ task'[t].result = result /\ task'[t].call = task[t].call
      /\ task' \in [Task -> [step : {"free"}] \cup
           [step : {"ack", "handler", "waiting", "respond", "done"}, call : Call,
            result : Results]]
  <2>. DEFINE Started == [step : {"ack", "handler", "waiting", "respond", "done"},
                          call : Call, result : Results]
              r == [task[t] EXCEPT !.step = "respond", !.result = result]
  <2>1. task \in [Task -> [step : {"free"}] \cup Started] /\ task[t] \in Started
    BY <1>1, TaskType DEF RpcTypeOK
  <2>2. /\ r.step = "respond" /\ r.result = result /\ r.call = task[t].call
        /\ r \in Started
    BY <2>1, Responding
  <2>3. task' = [task EXCEPT ![t] = r]
    BY DEF ClientResponds
  <2>. HIDE DEF Started, r
  <2>4. task'[t] = r /\ task' \in [Task -> [step : {"free"}] \cup Started]
    BY <2>1, <2>2, <2>3
  <2> QED BY <2>2, <2>4 DEF Started
<1>3. RpcTypeOK' /\ ran \subseteq ran'
  BY <1>1, <1>2 DEF RpcTypeOK
<1>4. TaskIsTrue' /\ NotYetRun' /\ AnswersAreTrue' /\ WaitersWait'
  BY <1>1, <1>2, <1>3 DEF TaskIsTrue, NotYetRun, AnswersAreTrue, WaitersWait, RpcTypeOK
<1> QED
  BY <1>1, <1>3, <1>4, TaskSide

(* The answer leaves for the caller, or is lost.                            *)
LEMMA RespondStep ==
  ASSUME RpcInv, NEW t \in Task, Respond(t)
  PROVE  RpcInv'
<1> USE DEF RpcInv
<1>1. /\ UNCHANGED <<call, pending_acks, pending_responses, acked, response, requests,
                     registered, waiters, ran, twice>>
      /\ task[t].step = "respond" /\ answers \in Seq(Answer)
      /\ \A u \in Task : u # t => task'[u] = task[u]
      /\ task[t].call \in Call /\ task[t].result \in Results
  BY TaskType DEF Respond, RpcTypeOK, Answer
<1>2. /\ task'[t].step = "done"
      /\ task' \in [Task -> [step : {"free"}] \cup
           [step : {"ack", "handler", "waiting", "respond", "done"}, call : Call,
            result : Results]]
  BY <1>1, TaskType DEF Respond, RpcTypeOK
<1>3. answers' \in Seq(Answer) /\ AnswersAreTrue'
  <2>1. CASE answers' = answers
    BY <1>1, <2>1 DEF AnswersAreTrue
  <2>2. ASSUME NEW r \in {task[t].result, "error"},
               answers' = Append(answers, [type |-> r, call |-> task[t].call])
        PROVE  answers' \in Seq(Answer) /\ AnswersAreTrue'
    <3>1. r = "payload" => task[t].call \in ran
      BY <1>1 DEF TaskIsTrue
    <3>2. [type |-> r, call |-> task[t].call] \in Answer
      BY <1>1 DEF Answer, Results
    <3> QED
      BY <1>1, <2>2, <3>1, <3>2, QueueAppend DEF AnswersAreTrue
  <2> QED BY <2>1, <2>2 DEF Respond
<1>4. RpcTypeOK'
  BY <1>1, <1>2, <1>3 DEF RpcTypeOK, Answer
<1>5. TaskIsTrue' /\ NotYetRun' /\ WaitersWait'
  BY <1>1, <1>2 DEF TaskIsTrue, NotYetRun, WaitersWait, RpcTypeOK
<1> QED
  BY <1>1, <1>3, <1>4, <1>5, TaskSide

(* A method goes, or a packet is lost.                                      *)
LEMMA LossStep ==
  ASSUME RpcInv, Unregister \/ LosePacket
  PROVE  RpcInv'
<1> USE DEF RpcInv
<1>1. UNCHANGED <<call, pending_acks, pending_responses, acked, response, task, waiters,
                  ran, twice>>
  BY DEF Unregister, LosePacket
<1>2. /\ requests \in Seq(Call) /\ answers \in Seq(Answer)
      /\ registered' \in BOOLEAN
  BY DEF Unregister, LosePacket, RpcTypeOK, Answer
<1>3. /\ requests' = requests \/ (requests # <<>> /\ requests' = Tail(requests))
      /\ answers' = answers \/ (answers # <<>> /\ answers' = Tail(answers))
  BY DEF Unregister, LosePacket
<1>4. requests' \in Seq(Call)
  BY <1>2, <1>3, QueueTail
<1>5. answers' \in Seq(Answer) /\ AnswersAreTrue'
  <2>1. CASE answers' = answers
    BY <1>1, <1>2, <2>1 DEF AnswersAreTrue
  <2>2. CASE answers # <<>> /\ answers' = Tail(answers)
    <3>1. /\ Tail(answers) \in Seq(Answer)
          /\ \A i \in 1..Len(Tail(answers)) :
               \E j \in 1..Len(answers) : Tail(answers)[i] = answers[j]
      BY <1>2, <2>2, QueueTail
    <3> QED BY <1>1, <2>2, <3>1 DEF AnswersAreTrue
  <2> QED BY <1>3, <2>1, <2>2
<1>6. RpcTypeOK'
  BY <1>1, <1>2, <1>4, <1>5 DEF RpcTypeOK, Answer
<1>7. TaskIsTrue' /\ NotYetRun' /\ WaitersWait'
  BY <1>1 DEF TaskIsTrue, NotYetRun, WaitersWait
<1> QED
  BY <1>1, <1>6, <1>7, <1>5, TaskSide

(* Every step keeps the invariant.                                          *)
LEMMA RpcStepInv == RpcInv /\ [RpcNext]_rpcVars => RpcInv'
<1> SUFFICES ASSUME RpcInv, [RpcNext]_rpcVars PROVE RpcInv'
  OBVIOUS
<1>1. ASSUME NEW c \in Call, PerformRpc(c) \/ CallSteps(c) \/ Cancel(c) PROVE RpcInv'
  BY <1>1, CallMoves, CallTables DEF CallSteps
<1>2. ASSUME NEW t \in Task,
             ReceiveRequest(t) \/ SendAck(t) \/ Invoke(t) \/ Respond(t)
               \/ \E result \in Results : ClientResponds(t, result)
      PROVE  RpcInv'
  BY <1>2, RequestStep, SendAckStep, InvokeStep, RespondStep, ClientStep
<1>3. CASE UNCHANGED rpcVars
  BY <1>3 DEF rpcVars, RpcInv, RpcTypeOK, Unregistered, AckedIsTaken, AnsweredIsTaken,
     AckedFirst, TaskIsTrue, NotYetRun, AnswersAreTrue, ResponseIsTrue, WaitersWait,
     RpcAnswers, NothingPending, SuccessIsTrue
<1> QED
  BY <1>1, <1>2, <1>3, AnswerStep, LossStep DEF RpcNext

(* The caller's tables, its calls and the packets under way agree in every  *)
(* reachable state, for any number of calls and tasks (perform_rpc,         *)
(* handle_incoming_rpc_ack, handle_incoming_rpc_response).                  *)
THEOREM RpcInvariant == RpcSpec => []RpcInv
BY RpcInitInv, RpcStepInv, PTL DEF RpcSpec

(* A call that returned leaves nothing pending, and succeeds only when its  *)
(* own handler did (local_participant.rs:761-818).                          *)
THEOREM RpcAlwaysAnswers == RpcSpec => []RpcAnswers
<1>1. RpcInv => RpcAnswers
  BY DEF RpcInv
<1> QED
  BY <1>1, RpcInvariant, PTL

-----------------------------------------------------------------------------
(* Handles.                                                                 *)

NoEntryIsNone ==
  /\ NoEntry \notin SUBSET Watcher
  /\ \A S \in SUBSET Watcher : S # NoEntry

(* A drop of h has removed the object and not yet the senders.              *)
Dropping(h) == \E d \in Dropper : dropper[d].handle = h /\ dropper[d].step = "notify"

(* Senders are those of streams on this handle.                             *)
SendersAreStreams ==
  \A h \in Handle : \A w \in Senders(h) :
    watcher[w].handle = h /\ watcher[w].step = "stream"

(* Only streams are told, ...                                               *)
ToldAreStreams == \A w \in notified : watcher[w].step = "stream"

(* ... and a stream that was not told has its sender in the table.          *)
StreamsHaveSenders ==
  \A w \in Watcher : watcher[w].step = "stream" =>
    w \in notified \/ w \in Senders(watcher[w].handle)

(* A sender that stays behind when nobody drops the handle any more is late.*)
LeftBehindIsLate ==
  \A w \in Watcher :
    LET h == watcher[w].handle IN
    /\ watcher[w].step = "stream" /\ w \in Senders(h)
    /\ ffi_handles[h] # "track" /\ ~Dropping(h)
    => w \in late

(* A handle never becomes that of a track again.                            *)
DroppedIsDropped ==
  \A d \in Dropper : dropper[d].step # "idle" => ffi_handles[dropper[d].handle] # "track"

ToldIsDropped ==
  \A w \in notified : ffi_handles[watcher[w].handle] # "track" \/ w \in emptied

HandlesInv ==
  /\ HandlesTypeOK
  /\ SendersAreStreams /\ ToldAreStreams /\ StreamsHaveSenders
  /\ LeftBehindIsLate /\ DroppedIsDropped /\ ToldIsDropped

-----------------------------------------------------------------------------
(* The absence of an entry is no set of senders.                            *)
LEMMA NoEntryLemma == NoEntryIsNone
BY HandlesAssumption DEF HandlesAssumption, NoEntryIsNone, NoEntry

(* The senders of a handle are requests.                                    *)
LEMMA SendersType ==
  ASSUME HandlesTypeOK, NEW h \in Handle
  PROVE  Senders(h) \in SUBSET Watcher
BY DEF HandlesTypeOK, Senders

(* The initial state: no stream, no sender, every handle a track's.         *)
LEMMA HandlesInitInv == HandlesInit => HandlesInv
<1> SUFFICES ASSUME HandlesInit PROVE HandlesInv
  OBVIOUS
<1>1. HandlesTypeOK
  BY DEF HandlesInit, HandlesTypeOK
<1>2. \A h \in Handle : Senders(h) = {}
  BY DEF HandlesInit, Senders
<1>3. \A w \in Watcher : watcher[w].step = "idle"
  BY DEF HandlesInit
<1>4. \A d \in Dropper : dropper[d].step = "idle"
  BY DEF HandlesInit
<1>5. notified = {}
  BY DEF HandlesInit
<1> QED
  BY <1>1, <1>2, <1>3, <1>4, <1>5 DEF HandlesInv, SendersAreStreams, ToldAreStreams,
     StreamsHaveSenders, LeftBehindIsLate, DroppedIsDropped, ToldIsDropped

(* Every step of a request or of a drop keeps the types.                    *)
LEMMA HandlesTypeStep ==
  ASSUME HandlesTypeOK, [HandlesNext]_handlesVars
  PROVE  HandlesTypeOK'
<1>1. ASSUME NEW w \in Watcher, Retrieve(w) \/ Look(w) PROVE HandlesTypeOK'
  BY <1>1, SMTT(30) DEF HandlesTypeOK, Retrieve, Look, Watches
<1>2. ASSUME NEW w \in Watcher, Insert(w) PROVE HandlesTypeOK'
  BY <1>2, SendersType DEF HandlesTypeOK, Insert, Watches
<1>3. ASSUME NEW w \in Watcher, Push(w) PROVE HandlesTypeOK'
  <2>1. CASE handle_dropped_txs[watcher[w].handle] = NoEntry
    BY <1>3, <2>1, SMTT(30) DEF HandlesTypeOK, Push, Watches
  <2>2. CASE handle_dropped_txs[watcher[w].handle] # NoEntry
    BY <1>3, <2>2 DEF HandlesTypeOK, Push, Watches
  <2> QED BY <2>1, <2>2
<1>4. ASSUME NEW d \in Dropper, RemoveHandle(d) PROVE HandlesTypeOK'
  <2>1. ffi_handles' \in [Handle -> {"track", "empty", "nothing"}]
    BY <1>4 DEF HandlesTypeOK, RemoveHandle
  <2>2. dropper' \in [Dropper -> [step : {"idle", "notify", "store", "done"},
                                 handle : Handle, room : BOOLEAN]]
    <3>1. PICK b \in BOOLEAN :
            dropper' = [dropper EXCEPT ![d] = [@ EXCEPT !.step = "notify", !.room = b]]
      BY <1>4 DEF HandlesTypeOK, RemoveHandle
    <3> QED BY <3>1 DEF HandlesTypeOK
  <2> QED BY <1>4, <2>1, <2>2 DEF HandlesTypeOK, RemoveHandle
<1>5. ASSUME NEW d \in Dropper, Notify(d) PROVE HandlesTypeOK'
  BY <1>5, SendersType DEF HandlesTypeOK, Notify, Drops
<1>6. ASSUME NEW d \in Dropper, StoreEmpty(d) PROVE HandlesTypeOK'
  BY <1>6 DEF HandlesTypeOK, StoreEmpty, Drops
<1>7. ASSUME UNCHANGED handlesVars PROVE HandlesTypeOK'
  BY <1>7 DEF HandlesTypeOK, handlesVars
<1> QED
  BY <1>1, <1>2, <1>3, <1>4, <1>5, <1>6, <1>7 DEF HandlesNext

(* Retrieve and Look only move a request on that is no stream yet.          *)
LEMMA LookStep ==
  ASSUME HandlesInv, NEW w \in Watcher, Retrieve(w) \/ Look(w)
  PROVE  HandlesInv'
<1> USE DEF HandlesInv
<1>1. HandlesTypeOK'
  BY HandlesTypeStep DEF HandlesNext
<1>2. UNCHANGED <<ffi_handles, handle_dropped_txs, dropper, notified, emptied, late>>
  BY DEF Retrieve, Look
<1>3. \A v \in Watcher : /\ watcher'[v].handle = watcher[v].handle
                         /\ watcher'[v].step = "stream" <=> watcher[v].step = "stream"
  BY DEF Retrieve, Look, Watches, HandlesTypeOK
<1>4. \A h \in Handle : Senders(h)' = Senders(h) /\ Senders(h) \subseteq Watcher
  BY <1>2, SendersType DEF Senders
<1>5. \A h \in Handle : Dropping(h)' <=> Dropping(h)
  BY <1>2 DEF Dropping
<1>6. notified \subseteq Watcher /\ \A v \in Watcher : watcher[v].handle \in Handle
  BY DEF HandlesTypeOK
<1> QED
  BY <1>1, <1>2, <1>3, <1>4, <1>5, <1>6 DEF SendersAreStreams, ToldAreStreams, StreamsHaveSenders,
     LeftBehindIsLate, DroppedIsDropped, ToldIsDropped

(* Insert tells whoever had a sender in the entry it replaces.              *)
LEMMA InsertStep ==
  ASSUME HandlesInv, NEW w \in Watcher, Insert(w)
  PROVE  HandlesInv'
<1> DEFINE h == watcher[w].handle
<1> USE DEF HandlesInv
<1>1. HandlesTypeOK'
  BY HandlesTypeStep DEF HandlesNext
<1>2. /\ UNCHANGED <<ffi_handles, dropper, late>>
      /\ notified' = notified \cup Senders(h)
      /\ emptied' = emptied \cup Senders(h)
  BY DEF Insert
<1>3. \A v \in Watcher : /\ watcher'[v].handle = watcher[v].handle
                         /\ watcher'[v].step = "stream" <=> watcher[v].step = "stream"
  BY DEF Insert, Watches, HandlesTypeOK
<1>4. \A k \in Handle : Senders(k)' = IF k = h THEN {} ELSE Senders(k)
  <2>1. \A k \in Handle : handle_dropped_txs'[k] = IF k = h THEN {} ELSE handle_dropped_txs[k]
    BY DEF Insert, HandlesTypeOK
  <2> QED BY <2>1 DEF Senders
<1>5. \A k \in Handle : Senders(k) \subseteq Watcher
  BY SendersType
<1>6. \A k \in Handle : Dropping(k)' <=> Dropping(k)
  BY <1>2 DEF Dropping
<1>7. notified \subseteq Watcher /\ \A v \in Watcher : watcher[v].handle \in Handle
  BY DEF HandlesTypeOK
<1> HIDE DEF h
<1>8. h \in Handle
  BY <1>7 DEF h
<1>9. SendersAreStreams' /\ ToldAreStreams' /\ StreamsHaveSenders'
  BY <1>2, <1>3, <1>4, <1>5, <1>7, <1>8 DEF SendersAreStreams, ToldAreStreams, StreamsHaveSenders
<1>10. LeftBehindIsLate' /\ DroppedIsDropped' /\ ToldIsDropped'
  BY <1>2, <1>3, <1>4, <1>5, <1>6, <1>7, <1>8 DEF LeftBehindIsLate, DroppedIsDropped, ToldIsDropped
<1> QED
  BY <1>1, <1>9, <1>10

(* Push makes a stream, and its sender is late if the drop is over.         *)
LEMMA PushStep ==
  ASSUME HandlesInv, NEW w \in Watcher, Push(w)
  PROVE  HandlesInv'
<1> DEFINE h == watcher[w].handle
<1> USE DEF HandlesInv
<1>1. HandlesTypeOK'
  BY HandlesTypeStep DEF HandlesNext
<1>2. /\ UNCHANGED <<ffi_handles, dropper, notified, emptied>>
      /\ watcher[w].step = "push" /\ h \in Handle
  BY DEF Push, HandlesTypeOK
<1>3. /\ notified \subseteq Watcher
      /\ \A v \in Watcher : watcher[v].handle \in Handle
      /\ \A k \in Handle : Senders(k) \subseteq Watcher
  BY SendersType DEF HandlesTypeOK
<1>4. \A k \in Handle : Dropping(k)' <=> Dropping(k)
  BY <1>2 DEF Dropping
<1>5. CASE handle_dropped_txs[h] = NoEntry
  <2>1. \A v \in Watcher : /\ watcher'[v].handle = watcher[v].handle
                           /\ watcher'[v].step = "stream" <=> watcher[v].step = "stream"
    BY <1>2, <1>5 DEF Push, Watches, HandlesTypeOK
  <2>2. late' = late /\ \A k \in Handle : Senders(k)' = Senders(k)
    BY <1>5 DEF Push, Senders
  <2> QED
    BY <1>1, <1>2, <1>3, <1>4, <2>1, <2>2 DEF SendersAreStreams, ToldAreStreams,
       StreamsHaveSenders, LeftBehindIsLate, DroppedIsDropped, ToldIsDropped
<1>6. CASE handle_dropped_txs[h] # NoEntry
  <2>1. \A v \in Watcher : /\ watcher'[v].handle = watcher[v].handle
                           /\ v # w => watcher'[v].step = watcher[v].step
                           /\ v = w => watcher'[v].step = "stream"
    BY <1>2, <1>6 DEF Push, Watches, HandlesTypeOK
  <2>2. \A k \in Handle : Senders(k)' = IF k = h THEN Senders(k) \cup {w} ELSE Senders(k)
    <3>1. \A k \in Handle : handle_dropped_txs'[k] =
            IF k = h THEN handle_dropped_txs[k] \cup {w} ELSE handle_dropped_txs[k]
      BY <1>6 DEF Push, HandlesTypeOK
    <3>2. handle_dropped_txs[h] \cup {w} \in SUBSET Watcher
      BY <1>2, <1>6 DEF HandlesTypeOK
    <3>3. handle_dropped_txs[h] \cup {w} # NoEntry
      BY <3>2, NoEntryLemma DEF NoEntryIsNone
    <3> QED
      BY <1>6, <3>1, <3>3 DEF Senders
  <2>3. late \subseteq late' /\ (ffi_handles[h] # "track" /\ ~Dropping(h) => w \in late')
    BY <1>6 DEF Push, Dropping
  <2> HIDE DEF h
  <2>4. watcher[w].handle = h
    BY DEF h
  <2>5. SendersAreStreams'
    BY <1>2, <1>3, <2>1, <2>2, <2>4 DEF SendersAreStreams
  <2>6. ToldAreStreams' /\ ToldIsDropped' /\ DroppedIsDropped'
    BY <1>2, <1>3, <2>1 DEF ToldAreStreams, ToldIsDropped, DroppedIsDropped
  <2>7. StreamsHaveSenders'
    BY <1>2, <1>3, <2>1, <2>2, <2>4 DEF StreamsHaveSenders
  <2>8. LeftBehindIsLate'
    BY <1>2, <1>3, <1>4, <2>1, <2>2, <2>3, <2>4 DEF LeftBehindIsLate
  <2> QED
    BY <1>1, <2>5, <2>6, <2>7, <2>8
<1> QED
  BY <1>5, <1>6

(* The object goes: from here the handle is being dropped.                  *)
LEMMA RemoveStep ==
  ASSUME HandlesInv, NEW d \in Dropper, RemoveHandle(d)
  PROVE  HandlesInv'
<1> USE DEF HandlesInv
<1> PICK h \in Handle : h = dropper[d].handle
  BY DEF HandlesTypeOK
<1>1. HandlesTypeOK'
  BY HandlesTypeStep DEF HandlesNext
<1>2. /\ UNCHANGED <<handle_dropped_txs, watcher, notified, emptied, late>>
      /\ \A k \in Handle : ffi_handles'[k] = IF k = h THEN "nothing" ELSE ffi_handles[k]
  BY DEF RemoveHandle, HandlesTypeOK
<1>3. \A e \in Dropper : /\ dropper'[e].handle = dropper[e].handle
                         /\ e # d => dropper'[e].step = dropper[e].step
                         /\ e = d => dropper'[e].step = "notify"
  BY DEF RemoveHandle, HandlesTypeOK
<1>4. /\ notified \subseteq Watcher
      /\ \A v \in Watcher : watcher[v].handle \in Handle
      /\ \A e \in Dropper : dropper[e].handle \in Handle
      /\ \A k \in Handle : Senders(k)' = Senders(k)
  BY <1>2 DEF HandlesTypeOK, Senders
<1>5. Dropping(h)' /\ \A k \in Handle : Dropping(k) => Dropping(k)'
  <2>1. dropper[d].step = "idle"
    BY DEF RemoveHandle
  <2> QED BY <1>3, <2>1 DEF Dropping
<1>6. SendersAreStreams' /\ ToldAreStreams' /\ StreamsHaveSenders'
  BY <1>2, <1>4 DEF SendersAreStreams, ToldAreStreams, StreamsHaveSenders
<1>7. LeftBehindIsLate'
  BY <1>2, <1>4, <1>5 DEF LeftBehindIsLate
<1>8. DroppedIsDropped' /\ ToldIsDropped'
  BY <1>2, <1>3, <1>4 DEF DroppedIsDropped, ToldIsDropped
<1> QED
  BY <1>1, <1>6, <1>7, <1>8

(* The senders go, and whoever had one is told.                             *)
LEMMA NotifyStep ==
  ASSUME HandlesInv, NEW d \in Dropper, Notify(d)
  PROVE  HandlesInv'
<1> DEFINE h == dropper[d].handle
<1> USE DEF HandlesInv
<1>1. HandlesTypeOK'
  BY HandlesTypeStep DEF HandlesNext
<1>2. /\ UNCHANGED <<ffi_handles, watcher, emptied, late>>
      /\ h \in Handle
      /\ notified' = notified \cup Senders(h)
      /\ ffi_handles[h] # "track"
  BY DEF Notify, HandlesTypeOK, DroppedIsDropped
<1>3. \A e \in Dropper : /\ dropper'[e].handle = dropper[e].handle
                         /\ e # d => dropper'[e].step = dropper[e].step
  BY DEF Notify, Drops, HandlesTypeOK
<1>4. \A k \in Handle : Senders(k)' = IF k = h THEN {} ELSE Senders(k)
  <2>1. \A k \in Handle : handle_dropped_txs'[k] =
          IF k = h THEN NoEntry ELSE handle_dropped_txs[k]
    BY DEF Notify, HandlesTypeOK
  <2> QED BY <2>1 DEF Senders
<1>5. /\ notified \subseteq Watcher
      /\ \A v \in Watcher : watcher[v].handle \in Handle
      /\ \A e \in Dropper : dropper[e].handle \in Handle
      /\ \A k \in Handle : Senders(k) \subseteq Watcher
  BY SendersType DEF HandlesTypeOK
<1>6. \A k \in Handle : k # h /\ Dropping(k) => Dropping(k)'
  BY <1>3 DEF Dropping
<1>7. dropper[d].step = "notify"
  BY DEF Notify
<1> HIDE DEF h
<1>8. dropper[d].handle = h
  BY DEF h
<1>9. SendersAreStreams' /\ ToldAreStreams' /\ StreamsHaveSenders'
  BY <1>2, <1>4, <1>5 DEF SendersAreStreams, ToldAreStreams, StreamsHaveSenders
<1>10. LeftBehindIsLate'
  BY <1>2, <1>4, <1>5, <1>6 DEF LeftBehindIsLate
<1>11. DroppedIsDropped'
  BY <1>2, <1>3, <1>7, <1>8 DEF DroppedIsDropped
<1>12. ToldIsDropped'
  BY <1>2, <1>5 DEF ToldIsDropped, SendersAreStreams
<1> QED
  BY <1>1, <1>9, <1>10, <1>11, <1>12

(* What FfiRoom::close stores afterwards is no track.                       *)
LEMMA StoreStep ==
  ASSUME HandlesInv, NEW d \in Dropper, StoreEmpty(d)
  PROVE  HandlesInv'
<1> DEFINE h == dropper[d].handle
<1> USE DEF HandlesInv
<1>1. HandlesTypeOK'
  BY HandlesTypeStep DEF HandlesNext
<1>2. /\ UNCHANGED <<handle_dropped_txs, watcher, notified, emptied, late>>
      /\ h \in Handle
      /\ ffi_handles[h] # "track"
      /\ \A k \in Handle : ffi_handles'[k] = IF k = h THEN "empty" ELSE ffi_handles[k]
  BY DEF StoreEmpty, HandlesTypeOK, DroppedIsDropped
<1>3. \A e \in Dropper : /\ dropper'[e].handle = dropper[e].handle
                         /\ e # d => dropper'[e].step = dropper[e].step
                         /\ dropper'[e].step = "idle" => dropper[e].step = "idle"
                         /\ dropper[e].step = "notify" => dropper'[e].step = "notify"
  BY DEF StoreEmpty, Drops, HandlesTypeOK
<1>4. /\ notified \subseteq Watcher
      /\ \A v \in Watcher : watcher[v].handle \in Handle
      /\ \A e \in Dropper : dropper[e].handle \in Handle
      /\ \A k \in Handle : Senders(k)' = Senders(k)
  BY <1>2 DEF HandlesTypeOK, Senders
<1>5. \A k \in Handle : Dropping(k) => Dropping(k)'
  BY <1>3 DEF Dropping
<1>6. \A k \in Handle : ffi_handles'[k] # "track" <=> ffi_handles[k] # "track"
  BY <1>2
<1>7. SendersAreStreams' /\ ToldAreStreams' /\ StreamsHaveSenders'
  BY <1>2, <1>4 DEF SendersAreStreams, ToldAreStreams, StreamsHaveSenders
<1>8. LeftBehindIsLate'
  BY <1>2, <1>4, <1>5, <1>6 DEF LeftBehindIsLate
<1>9. DroppedIsDropped' /\ ToldIsDropped'
  BY <1>2, <1>3, <1>4, <1>6 DEF DroppedIsDropped, ToldIsDropped
<1> QED
  BY <1>1, <1>7, <1>8, <1>9

(* Every step keeps the invariant.                                          *)
LEMMA HandlesStepInv == HandlesInv /\ [HandlesNext]_handlesVars => HandlesInv'
<1> SUFFICES ASSUME HandlesInv, [HandlesNext]_handlesVars PROVE HandlesInv'
  OBVIOUS
<1>1. CASE HandlesNext
  BY <1>1, LookStep, InsertStep, PushStep, RemoveStep, NotifyStep, StoreStep DEF HandlesNext
<1>2. CASE UNCHANGED handlesVars
  BY <1>2 DEF handlesVars, HandlesInv, HandlesTypeOK, SendersAreStreams, ToldAreStreams,
     StreamsHaveSenders, LeftBehindIsLate, DroppedIsDropped, ToldIsDropped, Senders, Dropping
<1> QED
  BY <1>1, <1>2

(* The invariant implies what the streams are promised.                     *)
LEMMA InvTold == HandlesInv => StreamsAreTold
BY DEF HandlesInv, HandlesTypeOK, ToldIsDropped, StreamsHaveSenders, LeftBehindIsLate,
   Dropping, StreamsAreTold

(* The table of senders and the streams agree in every reachable state, for *)
(* any number of handles, requests and drops (watch_handle_dropped,         *)
(* drop_handle).                                                            *)
THEOREM HandlesInvariant == HandlesSpec => []HandlesInv
BY HandlesInitInv, HandlesStepInv, PTL DEF HandlesSpec

(* A stream is told that its track's handle was dropped, and only then, but *)
(* for the two races that are named (mod.rs:240-249).                       *)
THEOREM StreamsAreAlwaysTold == HandlesSpec => []StreamsAreTold
BY HandlesInvariant, InvTold, PTL

-----------------------------------------------------------------------------
(* The streams of a participant.                                            *)

(* The event that a receiver takes, and what stays behind it.               *)
LEMMA TrackEventTaken ==
  ASSUME roomRx \in Seq(TrackEvent), roomRx # <<>>
  PROVE  /\ Tail(roomRx) \in Seq(TrackEvent) /\ Head(roomRx) \in TrackEvent
         /\ Head(roomRx)[1] \in {"subscribed", "unsubscribed"} => Head(roomRx)[2] \in MediaTrack
<1>1. Tail(roomRx) \in Seq(TrackEvent) /\ Head(roomRx) \in TrackEvent
  BY HeadTailProperties
<1>2. ASSUME NEW e \in TrackEvent, e[1] \in {"subscribed", "unsubscribed"}
      PROVE  e[2] \in MediaTrack
  BY <1>2 DEF TrackEvent
<1> QED
  BY <1>1, <1>2

(* The trigger sends one track, when there is room for it.                  *)
LEMMA SendTyped ==
  ASSUME trackChan \in Seq(MediaTrack), Len(trackChan) \leq 1, NEW t \in MediaTrack, SendTrack(t)
  PROVE  trackChan' \in Seq(MediaTrack) /\ Len(trackChan') \leq 1
<1>1. <<t>> \in Seq(MediaTrack) /\ Len(<<t>>) \leq 1
  OBVIOUS
<1>2. trackChan' = trackChan \/ trackChan' = <<t>>
  BY DEF SendTrack
<1> QED
  BY <1>1, <1>2, Zenon

(* A trigger that listens gets the event.                                   *)
LEMMA HeardTyped ==
  ASSUME roomRx \in Seq(TrackEvent), NEW e \in TrackEvent, Heard(e)
  PROVE  roomRx' \in Seq(TrackEvent)
<1>1. roomRx' = roomRx \/ roomRx' = Append(roomRx, e)
  BY DEF Heard
<1> QED
  BY <1>1, AppendProperties

(* Every variable of a stream keeps its type: in particular the trigger     *)
(* waits before a channel that is full (track_changed_trigger).             *)
LEMMA ParticipantStreamTypes ==
  ASSUME ParticipantStreamTypeOK, [ParticipantStreamNext]_participantStreamVars
  PROVE  ParticipantStreamTypeOK'
<1>1. ASSUME NEW t \in MediaTrack, RoomSubscribes(t) \/ RoomUnsubscribes(t)
      PROVE  ParticipantStreamTypeOK'
  <2>1. <<"subscribed", t>> \in TrackEvent /\ <<"unsubscribed", t>> \in TrackEvent
    BY DEF TrackEvent
  <2>2. roomRx' \in Seq(TrackEvent)
    <3>1. roomRx \in Seq(TrackEvent)
      BY DEF ParticipantStreamTypeOK
    <3>2. Heard(<<"subscribed", t>>) \/ Heard(<<"unsubscribed", t>>)
      BY <1>1 DEF RoomSubscribes, RoomUnsubscribes
    <3> QED
      BY <2>1, <3>1, <3>2, HeardTyped
  <2>3. subscribed' \in [MediaTrack -> {"before", "now", "after"}]
    BY <1>1 DEF RoomSubscribes, RoomUnsubscribes, ParticipantStreamTypeOK
  <2>4. missed' \subseteq MediaTrack \cup {NoTrack}
    BY <1>1 DEF RoomSubscribes, RoomUnsubscribes, Unheard, ParticipantStreamTypeOK
  <2>5. UNCHANGED <<kind, left, trigger, trackChan, taskVars>>
    BY <1>1 DEF RoomSubscribes, RoomUnsubscribes
  <2> QED
    BY <2>2, <2>3, <2>4, <2>5 DEF ParticipantStreamTypeOK, taskVars
<1>2. CASE RoomDisconnects
  <2>1. <<"left", NoTrack>> \in TrackEvent
    BY DEF TrackEvent
  <2>2. roomRx' \in Seq(TrackEvent)
    BY <1>2, <2>1, HeardTyped DEF RoomDisconnects, ParticipantStreamTypeOK
  <2>3. missed' \subseteq MediaTrack \cup {NoTrack}
    BY <1>2 DEF RoomDisconnects, Unheard, ParticipantStreamTypeOK
  <2>4. left' = TRUE /\ UNCHANGED <<kind, subscribed, trigger, trackChan, taskVars>>
    BY <1>2 DEF RoomDisconnects
  <2> QED
    BY <2>2, <2>3, <2>4 DEF ParticipantStreamTypeOK, taskVars
<1>3. CASE TriggerLists \/ TriggerSubscribes
  <2>1. /\ trigger' \in [step : {"start", "listing", "events", "ended"}, tracks : SUBSET MediaTrack]
        /\ UNCHANGED <<kind, trackVars, roomRx, trackChan, taskVars, missed>>
    BY <1>3 DEF TriggerLists, TriggerSubscribes, ParticipantStreamTypeOK
  <2> QED
    BY <2>1 DEF ParticipantStreamTypeOK, trackVars, taskVars
<1>4. ASSUME NEW t \in MediaTrack, TriggerSendsListed(t)
      PROVE  ParticipantStreamTypeOK'
  <2>1. trackChan \in Seq(MediaTrack) /\ Len(trackChan) \leq 1
    BY DEF ParticipantStreamTypeOK
  <2>2. trackChan' \in Seq(MediaTrack) /\ Len(trackChan') \leq 1
    BY <1>4, <2>1, SendTyped DEF TriggerSendsListed
  <2>3. /\ trigger' \in [step : {"start", "listing", "events", "ended"}, tracks : SUBSET MediaTrack]
        /\ UNCHANGED <<kind, trackVars, roomRx, taskVars, missed>>
    BY <1>4 DEF TriggerSendsListed, ParticipantStreamTypeOK
  <2> QED
    BY <2>2, <2>3 DEF ParticipantStreamTypeOK, trackVars, taskVars
<1>5. CASE TriggerHears
  <2>1. /\ Tail(roomRx) \in Seq(TrackEvent) /\ Head(roomRx) \in TrackEvent
        /\ Head(roomRx)[1] \in {"subscribed", "unsubscribed"} => Head(roomRx)[2] \in MediaTrack
    BY <1>5, TrackEventTaken DEF TriggerHears, ParticipantStreamTypeOK
  <2>2. roomRx' = Tail(roomRx) /\ UNCHANGED <<kind, trackVars, streamTask, dropped, eos>>
    BY <1>5 DEF TriggerHears
  <2>3. Head(roomRx)[1] \in {"subscribed", "unsubscribed", "left"}
    BY <2>1 DEF TrackEvent
  <2>4. \/ Head(roomRx)[1] = "subscribed" /\ HearsSubscribed(Head(roomRx)[2])
        \/ Head(roomRx)[1] = "unsubscribed" /\ HearsUnsubscribed(Head(roomRx)[2])
        \/ HearsLeft
    BY <1>5, <2>3 DEF TriggerHears
  <2>5. trackChan' \in Seq(MediaTrack) /\ Len(trackChan') \leq 1
    BY <2>1, <2>4, SendTyped
    DEF HearsSubscribed, HearsUnsubscribed, HearsLeft, ParticipantStreamTypeOK
  <2>6. /\ trigger' \in [step : {"start", "listing", "events", "ended"}, tracks : SUBSET MediaTrack]
        /\ finished' \in {finished, TRUE}
        /\ missed' \subseteq MediaTrack \cup {NoTrack}
    BY <2>1, <2>4 DEF HearsSubscribed, HearsUnsubscribed, HearsLeft, ParticipantStreamTypeOK
  <2> QED
    BY <2>1, <2>2, <2>5, <2>6 DEF ParticipantStreamTypeOK, trackVars
<1>6. CASE StreamTask \/ CloseSeen
  <2>1. UNCHANGED <<kind, trackVars, triggerVars, dropped, missed>>
    BY <1>6 DEF StreamTask, TaskTakes, NativeEnds, TracksDone, CloseSeen
  <2>2. trackChan' = trackChan \/ trackChan' = <<>>
    BY <1>6 DEF StreamTask, TaskTakes, NativeEnds, TracksDone, CloseSeen
  <2>3. trackChan # <<>> => Head(trackChan) \in MediaTrack
    BY HeadTailProperties DEF ParticipantStreamTypeOK
  <2>4. /\ streamTask' \in [step : {"waiting", "streaming", "ended"},
                            track : MediaTrack \cup {NoTrack}]
        /\ finished' \in {finished, FALSE}
        /\ eos' \in {eos, TRUE, kind = "audio"}
    <3>1. CASE TaskTakes
      BY <2>3, <3>1 DEF TaskTakes
    <3>2. CASE NativeEnds
      BY <3>2 DEF NativeEnds
    <3>3. CASE TracksDone
      BY <3>3 DEF TracksDone, EndsWith
    <3>4. CASE CloseSeen
      BY <3>4 DEF CloseSeen, EndsWith
    <3> QED
      BY <1>6, <3>1, <3>2, <3>3, <3>4 DEF StreamTask
  <2>5. trackChan' \in Seq(MediaTrack) /\ Len(trackChan') \leq 1
    <3>1. <<>> \in Seq(MediaTrack) /\ Len(<<>>) \leq 1
      BY EmptySeq
    <3>2. trackChan \in Seq(MediaTrack) /\ Len(trackChan) \leq 1
      BY DEF ParticipantStreamTypeOK
    <3> QED
      BY <2>2, <3>1, <3>2, Zenon
  <2> QED
    BY <2>1, <2>4, <2>5 DEF ParticipantStreamTypeOK, trackVars, triggerVars
<1>7. CASE DropStreamHandle
  BY <1>7 DEF DropStreamHandle, ParticipantStreamTypeOK, trackVars, triggerVars
<1>8. CASE UNCHANGED participantStreamVars
  BY <1>8 DEF participantStreamVars, ParticipantStreamTypeOK, trackVars, triggerVars, taskVars
<1> QED
  BY <1>1, <1>2, <1>3, <1>4, <1>5, <1>6, <1>7, <1>8 DEF ParticipantStreamNext, Trigger, ParticipantLeaves

(* Every variable of a participant's stream keeps its type, and the channel *)
(* of tracks holds one at most (mpsc::channel(1)).                          *)
THEOREM ParticipantStreamTyped == ParticipantStreamSpec => []ParticipantStreamTypeOK
<1>1. ParticipantStreamInit => ParticipantStreamTypeOK
  <2> SUFFICES ASSUME ParticipantStreamInit PROVE ParticipantStreamTypeOK
    OBVIOUS
  <2>1. <<>> \in Seq(TrackEvent) /\ <<>> \in Seq(MediaTrack) /\ Len(<<>>) = 0
    BY EmptySeq
  <2>2. roomRx = <<>> /\ trackChan = <<>>
    BY DEF ParticipantStreamInit
  <2>3. /\ kind \in {"audio", "video"}
        /\ subscribed \in [MediaTrack -> {"before", "now", "after"}]
        /\ trigger \in [step : {"start", "listing", "events", "ended"},
                        tracks : SUBSET MediaTrack]
        /\ streamTask \in [step : {"waiting", "streaming", "ended"},
                           track : MediaTrack \cup {NoTrack}]
        /\ missed \subseteq MediaTrack \cup {NoTrack}
        /\ {left, finished, dropped, eos} \subseteq BOOLEAN
    BY DEF ParticipantStreamInit
  <2>4. roomRx \in Seq(TrackEvent) /\ trackChan \in Seq(MediaTrack) /\ Len(trackChan) \leq 1
    BY <2>1, <2>2
  <2> QED
    BY <2>3, <2>4 DEF ParticipantStreamTypeOK
<1> QED
  BY <1>1, ParticipantStreamTypes, PTL DEF ParticipantStreamSpec

-----------------------------------------------------------------------------
(* The components, side by side.                                            *)

(* Each part starts as its own specification does.                          *)
LEMMA ComponentsStart ==
  ASSUME ComponentsInit
  PROVE  /\ Init /\ RoomInit /\ StreamInit /\ RpcInit /\ ParticipantsInit
         /\ ParticipantStreamInit /\ HandlesInit
BY DEF ComponentsInit

(* A step of one is a step of its specification, and none of the others'.   *)
LEMMA ComponentsMove ==
  ASSUME [ComponentsNext]_componentsVars
  PROVE  /\ [Next]_signalVars /\ [RoomNext]_roomAll /\ [StreamNext]_streamVars
         /\ [RpcNext]_rpcVars /\ [ParticipantsNext]_participantVars
         /\ [ParticipantStreamNext]_participantStreamVars /\ [HandlesNext]_handlesVars
<1>1. OpenRoomNext => RoomNext
  BY DEF OpenRoomNext, RoomNext, UserSteps
<1>2. CASE UNCHANGED componentsVars
  BY <1>2 DEF componentsVars
<1>3. CASE ComponentsNext
  BY <1>1, <1>3 DEF ComponentsNext
<1> QED
  BY <1>2, <1>3

(* None of the seven disturbs another: what is proved of each holds of it   *)
(* among the others.                                                        *)
THEOREM ComponentsAreIndependent ==
  ComponentsSpec =>
    /\ Spec /\ RoomSpec /\ StreamSpec /\ RpcSpec /\ ParticipantsSpec
    /\ ParticipantStreamSpec /\ HandlesSpec
<1>1. ComponentsInit => /\ Init /\ RoomInit /\ StreamInit /\ RpcInit /\ ParticipantsInit
                        /\ ParticipantStreamInit /\ HandlesInit
  BY ComponentsStart
<1>2. [ComponentsNext]_componentsVars =>
        /\ [Next]_signalVars /\ [RoomNext]_roomAll /\ [StreamNext]_streamVars
        /\ [RpcNext]_rpcVars /\ [ParticipantsNext]_participantVars
        /\ [ParticipantStreamNext]_participantStreamVars /\ [HandlesNext]_handlesVars
  BY ComponentsMove
<1> QED
  BY <1>1, <1>2, PTL DEF ComponentsSpec, Spec, RoomSpec, StreamSpec, RpcSpec, ParticipantsSpec,
     ParticipantStreamSpec, HandlesSpec

(* Every variable of every component keeps its type, whatever the values of *)
(* the constants.                                                           *)
THEOREM ComponentsTyped == ComponentsSpec => []TypesOK
<1>1. /\ StreamInv => StreamTypeOK
      /\ RpcInv => RpcTypeOK
      /\ ParticipantsInv => ParticipantsTypeOK
      /\ HandlesInv => HandlesTypeOK
  BY DEF StreamInv, RpcInv, ParticipantsInv, HandlesInv
<1>2. (TypeOK /\ RoomTypeOK /\ StreamTypeOK /\ RpcTypeOK
        /\ ParticipantsTypeOK /\ ParticipantStreamTypeOK /\ HandlesTypeOK) => TypesOK
  BY DEF TypesOK
<1> QED
  BY <1>1, <1>2, ComponentsAreIndependent, SignalTypeOK, RoomTypesOK, DataStreamInvariant,
     RpcInvariant, ParticipantsInvariant, ParticipantStreamTyped, HandlesInvariant, PTL

================================================================================
