--------------------------------- MODULE Rpc ----------------------------------
(***************************************************************************)
(* Remote procedure calls between two participants, the called one a       *)
(* client of the FFI (livekit/src/room/participant/local_participant.rs,   *)
(* livekit-ffi/src/server/participant.rs).                                 *)
(*                                                                         *)
(* A call publishes its request and only then registers for the ack and    *)
(* the response, which the room task may handle meanwhile.  Packets are    *)
(* lost, and come twice; every request that comes starts a task.           *)
(***************************************************************************)
EXTENDS Naturals, Sequences

CONSTANTS
  Call,     \* the calls of perform_rpc, by their request id
  Task,     \* the tasks that handle incoming requests
  MaxTwice  \* bound: how many packets come twice

ASSUME RpcAssumption == MaxTwice \in Nat

VARIABLES
  call,              \* each call: its step, then its outcome
  pending_acks,      \* RpcState.pending_acks
  pending_responses, \* RpcState.pending_responses
  acked,             \* the calls whose ack was sent to them
  response,          \* what was sent to each call as its response
  requests,          \* requests under way
  answers,           \* acks and responses under way
  task,              \* each task: its call, its step and its result
  registered,        \* the method is registered
  waiters,           \* RoomInner.rpc_method_invocation_waiters
  ran,               \* the calls whose handler returned a payload (history)
  twice              \* bound only

rpcVars == <<call, pending_acks, pending_responses, acked, response, requests,
             answers, task, registered, waiters, ran, twice>>

Steps == {"idle", "publishing", "published", "ack", "response"}
Outcomes == {"payload", "error", "sendFailed", "connectionTimeout",
             "responseTimeout", "cancelled"}
Results == {"payload", "error"}

RpcTypeOK ==
  /\ call \in [Call -> Steps \cup Outcomes]
  /\ pending_acks \subseteq Call /\ pending_responses \subseteq Call
  /\ acked \subseteq Call /\ ran \subseteq Call
  /\ response \in [Call -> Results \cup {"none"}]
  /\ requests \in Seq(Call)
  /\ answers \in Seq([type : {"ack"} \cup Results, call : Call])
  /\ task \in [Task -> [step : {"free"}] \cup
       [step : {"ack", "handler", "waiting", "respond", "done"}, call : Call,
        result : Results]]
  /\ registered \in BOOLEAN
  /\ waiters \subseteq Task
  /\ twice \in Nat

RpcInit ==
  /\ call = [c \in Call |-> "idle"]
  /\ pending_acks = {} /\ pending_responses = {} /\ acked = {}
  /\ response = [c \in Call |-> "none"]
  /\ requests = <<>> /\ answers = <<>>
  /\ task = [t \in Task |-> [step |-> "free"]]
  /\ registered = TRUE
  /\ waiters = {} /\ ran = {}
  /\ twice = 0

Becomes(c, step) == call' = [call EXCEPT ![c] = step]

-----------------------------------------------------------------------------
(* perform_rpc                                                              *)
PerformRpc(c) ==
  /\ call[c] = "idle"
  /\ Becomes(c, "publishing")
  /\ UNCHANGED <<pending_acks, pending_responses, acked, response, requests,
                 answers, task, registered, waiters, ran, twice>>

(* publish_rpc_request: the request leaves before the call goes on.         *)
RequestLeaves(c) ==
  /\ call[c] = "publishing"
  /\ Becomes(c, "published")
  /\ requests' = Append(requests, c)
  /\ UNCHANGED <<pending_acks, pending_responses, acked, response, answers, task,
                 registered, waiters, ran, twice>>

RequestFails(c) ==
  /\ call[c] \in {"publishing", "published"}
  /\ Becomes(c, "sendFailed")
  /\ UNCHANGED <<pending_acks, pending_responses, acked, response, requests,
                 answers, task, registered, waiters, ran, twice>>

Register(c) ==
  /\ call[c] = "published"
  /\ Becomes(c, "ack")
  /\ pending_acks' = pending_acks \cup {c}
  /\ pending_responses' = pending_responses \cup {c}
  /\ UNCHANGED <<acked, response, requests, answers, task, registered, waiters,
                 ran, twice>>

AckReceived(c) ==
  /\ call[c] = "ack" /\ c \in acked
  /\ Becomes(c, "response")
  /\ UNCHANGED <<pending_acks, pending_responses, acked, response, requests,
                 answers, task, registered, waiters, ran, twice>>

(* Mutant: the response is still waited for.                                *)
AckTimeoutKeeps(c) ==
  /\ call[c] = "ack" /\ c \notin acked
  /\ Becomes(c, "connectionTimeout")
  /\ pending_acks' = pending_acks \ {c}
  /\ UNCHANGED <<pending_responses, acked, response, requests, answers, task, registered,
                 waiters, ran, twice>>

AckTimeout(c) ==
  /\ call[c] = "ack" /\ c \notin acked
  /\ Becomes(c, "connectionTimeout")
  /\ pending_acks' = pending_acks \ {c}
  /\ pending_responses' = pending_responses \ {c}
  /\ UNCHANGED <<acked, response, requests, answers, task, registered, waiters,
                 ran, twice>>

ResponseReceived(c) ==
  /\ call[c] = "response" /\ response[c] # "none"
  /\ Becomes(c, response[c])
  /\ UNCHANGED <<pending_acks, pending_responses, acked, response, requests,
                 answers, task, registered, waiters, ran, twice>>

ResponseTimeout(c) ==
  /\ call[c] = "response" /\ response[c] = "none"
  /\ Becomes(c, "responseTimeout")
  /\ pending_responses' = pending_responses \ {c}
  /\ UNCHANGED <<pending_acks, acked, response, requests, answers, task,
                 registered, waiters, ran, twice>>

(* The future is dropped at an await: what it registered stays.             *)
Cancel(c) ==
  /\ call[c] \in Steps \ {"idle"}
  /\ Becomes(c, "cancelled")
  /\ UNCHANGED <<pending_acks, pending_responses, acked, response, requests,
                 answers, task, registered, waiters, ran, twice>>

(* handle_incoming_rpc_ack, handle_incoming_rpc_response, of the next       *)
(* answer, which may come again.                                            *)
Deliver(packets, rest) ==
  \/ rest = Tail(packets) /\ UNCHANGED twice
  \/ rest = packets /\ twice < MaxTwice /\ twice' = twice + 1

HandleAck(c) ==
  /\ pending_acks' = pending_acks \ {c}
  /\ acked' = IF c \in pending_acks THEN acked \cup {c} ELSE acked
  /\ UNCHANGED <<pending_responses, response>>

HandleResponse(c, result) ==
  /\ pending_responses' = pending_responses \ {c}
  /\ response' = IF c \in pending_responses
                 THEN [response EXCEPT ![c] = result] ELSE response
  /\ UNCHANGED <<pending_acks, acked>>

ReceiveAnswer ==
  /\ answers # <<>>
  /\ Deliver(answers, answers')
  /\ LET a == Head(answers) IN
       IF a.type = "ack" THEN HandleAck(a.call) ELSE HandleResponse(a.call, a.type)
  /\ UNCHANGED <<call, requests, task, registered, waiters, ran>>

-----------------------------------------------------------------------------
(* The room task of the other side spawns handle_incoming_rpc_request.      *)
ReceiveRequest(t) ==
  /\ requests # <<>>
  /\ task[t].step = "free"
  /\ Deliver(requests, requests')
  /\ task' = [task EXCEPT ![t] = [step |-> "ack", call |-> Head(requests),
                                  result |-> "error"]]
  /\ UNCHANGED <<call, pending_acks, pending_responses, acked, response, answers,
                 registered, waiters, ran>>

(* publish_rpc_ack, which may fail                                          *)
SendAck(t) ==
  /\ task[t].step = "ack"
  /\ task' = [task EXCEPT ![t].step = "handler"]
  /\ \/ answers' = Append(answers, [type |-> "ack", call |-> task[t].call])
     \/ UNCHANGED answers
  /\ UNCHANGED <<call, pending_acks, pending_responses, acked, response, requests,
                 registered, waiters, ran, twice>>

(* Another version or no method: an error.  Else the handler of the FFI     *)
(* leaves a waiter, tells the client and waits.                             *)
Invoke(t) ==
  /\ task[t].step = "handler"
  /\ \/ task' = [task EXCEPT ![t].step = "respond"] /\ UNCHANGED waiters
     \/ /\ registered
        /\ task' = [task EXCEPT ![t].step = "waiting"]
        /\ waiters' = waiters \cup {t}
  /\ UNCHANGED <<call, pending_acks, pending_responses, acked, response, requests,
                 answers, registered, ran, twice>>

(* on_rpc_method_invocation_response takes the waiter and sends to it.      *)
ClientResponds(t, result) ==
  /\ t \in waiters
  /\ waiters' = waiters \ {t}
  /\ task' = [task EXCEPT ![t] = [@ EXCEPT !.step = "respond", !.result = result]]
  /\ ran' = IF result = "payload" THEN ran \cup {task[t].call} ELSE ran
  /\ UNCHANGED <<call, pending_acks, pending_responses, acked, response, requests,
                 answers, registered, twice>>

(* publish_rpc_response, which may fail; a payload that is too large is     *)
(* answered with an error.                                                  *)
Respond(t) ==
  /\ task[t].step = "respond"
  /\ task' = [task EXCEPT ![t].step = "done"]
  /\ \/ \E result \in {task[t].result, "error"} :
          answers' = Append(answers, [type |-> result, call |-> task[t].call])
     \/ UNCHANGED answers
  /\ UNCHANGED <<call, pending_acks, pending_responses, acked, response, requests,
                 registered, waiters, ran, twice>>

(* register_rpc_method, unregister_rpc_method                               *)
Unregister ==
  /\ registered
  /\ registered' = FALSE
  /\ UNCHANGED <<call, pending_acks, pending_responses, acked, response, requests,
                 answers, task, waiters, ran, twice>>

-----------------------------------------------------------------------------
LosePacket ==
  /\ \/ requests # <<>> /\ requests' = Tail(requests) /\ UNCHANGED answers
     \/ answers # <<>> /\ answers' = Tail(answers) /\ UNCHANGED requests
  /\ UNCHANGED <<call, pending_acks, pending_responses, acked, response, task,
                 registered, waiters, ran, twice>>

CallSteps(c) == RequestLeaves(c) \/ RequestFails(c) \/ Register(c) \/ AckReceived(c)
             \/ AckTimeout(c) \/ ResponseReceived(c) \/ ResponseTimeout(c)

RpcNext ==
  \/ \E c \in Call : PerformRpc(c) \/ CallSteps(c) \/ Cancel(c)
  \/ ReceiveAnswer
  \/ \E t \in Task : \/ ReceiveRequest(t) \/ SendAck(t) \/ Invoke(t) \/ Respond(t)
                     \/ \E result \in Results : ClientResponds(t, result)
  \/ Unregister
  \/ LosePacket

RpcSpec == RpcInit /\ [][RpcNext]_rpcVars
-----------------------------------------------------------------------------
(* A call that returned leaves nothing behind in either table, in whatever  *)
(* order ack, response and timeouts came (a dropped future does).           *)
NothingPending ==
  \A c \in pending_acks \cup pending_responses :
    call[c] \in {"ack", "response", "cancelled"}

(* A call succeeds only when the client handled this very call.             *)
SuccessIsTrue == \A c \in Call : call[c] = "payload" => c \in ran

(* The tables of pending calls and the outcome of each call agree, in every *)
(* order of acks, responses, timeouts and repeated packets.                 *)
RpcAnswers == NothingPending /\ SuccessIsTrue
=============================================================================
