----------------------------- MODULE MCComponents ------------------------------
(***************************************************************************)
(* Seven systems in one run.  They share no state, so that it runs one of  *)
(* them from start to end: the part that is chosen in the initial state.   *)
(* The others stay in an initial state of theirs, of which one is enough.  *)
(***************************************************************************)
EXTENDS SignalQueue, Room, DataStream, Rpc, Participants, ParticipantStream,
        Handles

CONSTANT MaxRoom

VARIABLE part

MCPub == Track \X Session

componentsVars == <<part, signalVars, roomAll, streamVars, rpcVars, participantVars,
                    participantStreamVars, handlesVars>>

ComponentsInit ==
  /\ part \in {"signal", "room", "dataStream", "rpc", "participants",
               "participantStream", "handles"}
  /\ Init /\ RoomInit /\ StreamInit /\ RpcInit /\ ParticipantsInit
  /\ ParticipantStreamInit /\ HandlesInit
  /\ part # "dataStream" => total = NoTotal
  /\ part # "participantStream" => kind = "audio"
  /\ part # "handles" => \A d \in Dropper : ~dropper[d].room

(* A room that is not closed (MCRoom closes it), with more than one         *)
(* reconnection or more than one track (bound: MaxRoom of both together).   *)
(* Nothing in it depends on when the application receives its events, which *)
(* here is at once, nor on which of the tracks is published first.          *)
Begun == {t \in Track : publish[<<t, First>>].step # "idle"}
FirstTrack == CHOOSE t \in Track : TRUE

OpenRoomNext ==
  \/ /\ roomEvents = <<>>
     /\ \/ RoomSteps \/ Reconnects
        \/ \E t \in Track : PublishTrack(t)
        \/ \E p \in Publication : UnpublishTrack(p)
     /\ FirstTrack \in Begun' \/ Begun' = {}
     /\ rounds' + Cardinality(Begun') \leq MaxRoom
  \/ Receive

ComponentsNext ==
  \/ /\ part = "signal" /\ Next
     /\ UNCHANGED <<part, roomAll, streamVars, rpcVars, participantVars,
                    participantStreamVars, handlesVars>>
  \/ /\ part = "room" /\ OpenRoomNext
     /\ UNCHANGED <<part, signalVars, streamVars, rpcVars, participantVars,
                    participantStreamVars, handlesVars>>
  \/ /\ part = "dataStream" /\ StreamNext
     /\ UNCHANGED <<part, signalVars, roomAll, rpcVars, participantVars,
                    participantStreamVars, handlesVars>>
  \/ /\ part = "rpc" /\ RpcNext
     /\ UNCHANGED <<part, signalVars, roomAll, streamVars, participantVars,
                    participantStreamVars, handlesVars>>
  \/ /\ part = "participants" /\ ParticipantsNext
     /\ UNCHANGED <<part, signalVars, roomAll, streamVars, rpcVars,
                    participantStreamVars, handlesVars>>
  \/ /\ part = "participantStream" /\ ParticipantStreamNext
     /\ UNCHANGED <<part, signalVars, roomAll, streamVars, rpcVars, participantVars,
                    handlesVars>>
  \/ /\ part = "handles" /\ HandlesNext
     /\ UNCHANGED <<part, signalVars, roomAll, streamVars, rpcVars, participantVars,
                    participantStreamVars>>

(* The fairness of each module, for the part that runs.                     *)
ComponentsSignalFairness ==
  /\ \A m \in Message : WF_signalVars(part = "signal" /\ Sending(m))
  /\ \A p \in Flusher : WF_signalVars(part = "signal" /\ Flush(p))
  /\ WF_signalVars(part = "signal" /\ stream # "open" /\ SignalTaskEnds)
  /\ WF_signalVars(part = "signal" /\ SignalTaskCloses)
  /\ WF_signalVars(part = "signal" /\ Restarting)

ComponentsStreamFairness ==
  /\ WF_streamVars(part = "dataStream" /\ DropStream)
  /\ WF_streamVars(part = "dataStream" /\ (Receiving \/ Lose))

ComponentsParticipantStreamFairness ==
  /\ WF_participantStreamVars(part = "participantStream" /\ Trigger)
  /\ WF_participantStreamVars(part = "participantStream" /\ StreamTask)
  /\ WF_participantStreamVars(part = "participantStream" /\ CloseSeen)

ComponentsSpec ==
  /\ ComponentsInit /\ [][ComponentsNext]_componentsVars
  /\ ComponentsSignalFairness
  /\ ComponentsStreamFairness /\ ComponentsParticipantStreamFairness

(* Every type invariant, of the part that runs and of the others.           *)
TypesOK ==
  /\ TypeOK /\ RoomTypeOK /\ StreamTypeOK /\ RpcTypeOK
  /\ ParticipantsTypeOK /\ ParticipantStreamTypeOK /\ HandlesTypeOK
=============================================================================
