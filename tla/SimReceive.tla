----------------------------- MODULE SimReceive -----------------------------
(***************************************************************************)
(* The receive side of the simulation link: inputLoop of                   *)
(* envs/x86/src/stdio_controller.c extracts packets from stdin and writes  *)
(* them into the rings of the receive direction, from which ReadImuTask    *)
(* (uartReceive) and CanTask (canReceive) read.                            *)
(*                                                                         *)
(* Both readers have a higher priority than inputLoop and wait for nothing *)
(* but packets, so that inputLoop runs only while each of them waits.  The *)
(* simulator sends one datagram in each packet for the sensor: uartReceive *)
(* then reads one packet for each call.                                    *)
(***************************************************************************)
EXTENDS PacketRing

CONSTANTS Packet, NoPacketYet

ASSUME PacketAssumption == NoPacketYet \notin Packet

VARIABLES
    content,   \* what the packets in the rings hold
    copied,    \* what a reader has copied in readFromBuf
    got,       \* what uartReceive or canReceive returned last
    extracted  \* the packet of each id that was extracted last

packets == <<content, copied, got, extracted>>
simRxVars == <<ringVars, packets>>

-----------------------------------------------------------------------------

SimRxInit ==
    /\ slot = [id \in Id |-> [i \in Slot |-> "unwritten"]]
    /\ writeIndex = [id \in Id |-> 0] /\ readIndex = [id \in Id |-> 0]
    /\ lowerLimit = [id \in Id |-> 0 - Size] /\ newFlag = [id \in Id |-> 0]
    /\ writePc = [id \in Id |-> "idle"] /\ writepoint = [id \in Id |-> 0]
    /\ readPc = [id \in Id |-> "take"] /\ readpoint = [id \in Id |-> 0]
    /\ content = [id \in Id |-> [i \in Slot |-> NoPacketYet]]
    /\ copied = [id \in Id |-> NoPacketYet]
    /\ got = [id \in Id |-> NoPacketYet]
    /\ extracted = [id \in Id |-> NoPacketYet]

ReadersWait == \A id \in Id : readPc[id] = "take" /\ newFlag[id] = 0

-----------------------------------------------------------------------------
(* inputLoop.                                                              *)

Extract(id, p) ==
    /\ ReadersWait /\ \A i \in Id : writePc[i] = "idle"
    /\ ChooseSlot(id)
    /\ extracted' = [extracted EXCEPT ![id] = p]
    /\ UNCHANGED <<content, copied, got>>

Fill(id) ==
    /\ ReadersWait
    /\ FillSlot(id)
    /\ content' = [content EXCEPT ![id][writepoint[id]] = extracted[id]]
    /\ UNCHANGED <<copied, got, extracted>>

Publish(id) ==
    /\ ReadersWait
    /\ RaiseLimit(id) \/ ClipLimit(id) \/ GiveFlag(id)
    /\ UNCHANGED packets

extractPacket ==
    \E id \in Id : \/ Fill(id) \/ Publish(id)
                   \/ \E p \in Packet : Extract(id, p)

-----------------------------------------------------------------------------
(* uartReceive of id 0 and canReceive of id 'c'.                           *)

Take(id) == TakeFlag(id) /\ UNCHANGED packets

Copy(id) ==
    /\ CopySlot(id)
    /\ copied' = [copied EXCEPT ![id] = content[id][readpoint[id]]]
    /\ UNCHANGED <<content, got, extracted>>

(* readFromBuf returns; the task uses the packet. *)
ReturnPacket(id) ==
    /\ MoveOn(id)
    /\ got' = [got EXCEPT ![id] = copied[id]]
    /\ UNCHANGED <<content, copied, extracted>>

(* The task receives again. *)
ReceiveAgain(id) ==
    /\ ReaderGoes(id, "idle", "take")
    /\ UNCHANGED <<shared, writer, readpoint, packets>>

Receive(id) == Take(id) \/ Copy(id) \/ ReturnPacket(id) \/ ReceiveAgain(id)

SimRxNext == \/ extractPacket
             \/ \E id \in Id : Receive(id)

(* The tasks run; the simulator need not send. *)
SimRxSpec == /\ SimRxInit /\ [][SimRxNext]_simRxVars
             /\ \A id \in Id : WF_simRxVars(Receive(id))
             /\ WF_simRxVars(\E id \in Id : Fill(id) \/ Publish(id))

-----------------------------------------------------------------------------

SimRxTypeOK ==
    /\ RingTypeOK
    /\ content \in [Id -> [Slot -> Packet \cup {NoPacketYet}]]
    /\ \A field \in {copied, got, extracted} : field \in [Id -> Packet \cup {NoPacketYet}]

(***************************************************************************)
(* The rings, with their indices and limits, implement a line that holds   *)
(* one packet back: readFromBuf does not move on when it has read the      *)
(* newest packet of the first round.  Nothing else is lost or repeated,    *)
(* and every packet is answered.  (Between two packets the program works   *)
(* with readings that are one packet old; sim_resend is the same fault on  *)
(* the other side.)                                                        *)
(***************************************************************************)
Delay == INSTANCE DelayLine WITH
    sent <- extracted,
    waiting <- [id \in Id |-> writePc[id] # "idle" \/ newFlag[id] > 0
                              \/ readPc[id] \in {"copy", "check"}],
    heldBack <- [id \in Id |-> IF got[id] = NoPacketYet THEN NoPacketYet
                               ELSE content[id][Wrapped(readIndex[id])]]

IsDelayLine == Delay!DelaySpec
=============================================================================
