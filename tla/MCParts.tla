------------------------------ MODULE MCParts ------------------------------
(***************************************************************************)
(* The smaller parts of the program on small instances: the state machine, *)
(* as a test harness uses it, the driver of the CAN bus, the two           *)
(* directions of the radio, and the receive side of the simulation link.   *)
(* A behaviour here is one of one part, which is selected at the start,    *)
(* while the others stay as they were initialised.                         *)
(*                                                                         *)
(* What one part can do to another goes through the queue of the timer     *)
(* task, which the UARTs share.  RadioTransmit has the requests of the     *)
(* others come at any time, which allows all that the product of the parts *)
(* would, and more.                                                        *)
(***************************************************************************)
EXTENDS StateMachine, CanDriver, RadioTransmit, XbeeReceive, SimReceive

(* A test harness may force every state the enumeration names but stateError. *)
AnyState == State \ {"Error"}

MCSender == {"outputLoop", "mandatoryOutput"}

(* A received packet whose checksum is 0x7E, one with 0x7E in its data, one
   with 0x7E and a length in its data, which is also too long for the slot,
   and a status frame in which 0x7E is only the start. *)
MCFrames == {<<144, 241>>, <<144, 126, 7>>, <<144, 126, 0, 2>>, <<139, 7>>}

MCNoise == {126, 0}

VARIABLE selected

vars == <<smVars, canVars, txVars, xbeeVars, simRxVars, selected>>

PartsInit ==
    /\ selected \in {"stateMachine", "can", "radioTransmit", "xbee", "simReceive"}
    /\ Init /\ CanInit /\ TxInit /\ XbeeInit /\ SimRxInit
    /\ selected # "xbee" => frameState = "waitstart"

PartsNext ==
    /\ \/ /\ selected = "stateMachine" /\ Next
          /\ UNCHANGED <<canVars, txVars, xbeeVars, simRxVars>>
       \/ /\ selected = "can" /\ CanNext
          /\ UNCHANGED <<smVars, txVars, xbeeVars, simRxVars>>
       \/ /\ selected = "radioTransmit" /\ TxNext
          /\ UNCHANGED <<smVars, canVars, xbeeVars, simRxVars>>
       \/ /\ selected = "xbee" /\ XbeeNext
          /\ UNCHANGED <<smVars, canVars, txVars, simRxVars>>
       \/ /\ selected = "simReceive" /\ SimRxNext
          /\ UNCHANGED <<smVars, canVars, txVars, xbeeVars>>
    /\ UNCHANGED selected

(* The fairness of each part's own specification, for the selected one. *)
PartsSpec ==
    /\ PartsInit /\ [][PartsNext]_vars
    /\ WF_canVars(selected = "can" /\ CanTask)
    /\ WF_canVars(selected = "can" /\ FrameAvailable)
    /\ WF_canVars(selected = "can" /\ TransmitComplete)
    /\ \A t \in Sender : WF_txVars(selected = "radioTransmit" /\ xbee_frame_write(t))
    /\ WF_txVars(selected = "radioTransmit" /\ (ByteOut \/ TransmissionComplete))
    /\ WF_txVars(selected = "radioTransmit" /\ SetTxEvent)
    /\ WF_xbeeVars(selected = "xbee" /\ SendByte)
    /\ WF_xbeeVars(selected = "xbee" /\ \E f \in RadioFrames : BeginFrame(f))
    /\ WF_xbeeVars(selected = "xbee" /\ (TickBegins \/ xbee_frame_load))
    /\ \A id \in Id : WF_simRxVars(selected = "simReceive" /\ Receive(id))
    /\ WF_simRxVars(selected = "simReceive" /\ \E id \in Id : Fill(id) \/ Publish(id))
=============================================================================
