---------------------------- MODULE CommandPath ----------------------------
(***************************************************************************)
(* How a command of the ground station's HMI reaches the flight state      *)
(* machine: inputLoop splits a radio packet into bytes and puts those      *)
(* above CRITICAL_WATERSHED into radioBufRXCrit, dealWithCritMessages gets *)
(* them and sets the triggers, StateTask acts on the triggers.             *)
(*                                                                         *)
(* The buffer is the queue that Buffer implements.  Bytes at or below the  *)
(* watershed go to another buffer and touch nothing here; neither do the   *)
(* replies that the ping and config bytes put into the transmit buffer.    *)
(***************************************************************************)
EXTENDS StateMachine, Sequences

CONSTANTS
    Capacity,    \* of radioBufRXCrit (512 in the code)
    MaxPacket    \* bytes of a packet that are above the watershed

ASSUME SizeAssumption == Capacity \in Nat \ {0} /\ MaxPacket \in Nat \ {0}

VARIABLES
    packet,          \* inputLoop: the bytes of radioPacket not yet put
    radioBufRXCrit,
    critMessage,     \* dealWithCritMessages: its local `message'
    critPc,          \* dealWithCritMessages: "get" or "switch"
    heard,           \* history: every byte received so far
    latest           \* history: the last of them

history == <<heard, latest>>
radioVars == <<packet, radioBufRXCrit, critMessage, critPc, history>>
vars == <<smVars, radioVars>>

-----------------------------------------------------------------------------

(***************************************************************************)
(* The bytes 0x41, 0x46 and 0x53, and the others above the watershed: ping *)
(* (0x50), config (0x43) and those no case of the switch matches.  None is *)
(* the 0 that dealWithCritMessages starts with.                            *)
(***************************************************************************)
HMITrigger == {"Abort", "Fueling", "Standby"}
None == "None"
Byte == HMITrigger \cup {"Other"}

Buf == INSTANCE DropOldestQueue
         WITH Task <- {}, Message <- Byte, NoMessage <- None,
              queue <- radioBufRXCrit, answer <- <<>>

Range(q) == {q[i] : i \in DOMAIN q}

PathInit == /\ Init
            /\ packet = <<>> /\ radioBufRXCrit = <<>>
            /\ critMessage = None /\ critPc = "get"
            /\ heard = {} /\ latest = None

-----------------------------------------------------------------------------

(* radioReceive hands inputLoop a packet. *)
Receive ==
    /\ packet = <<>>
    /\ \E n \in 1 .. MaxPacket : packet' \in [1 .. n -> Byte]
    /\ heard' = heard \cup Range(packet')
    /\ latest' = packet'[Len(packet')]
    /\ UNCHANGED <<smVars, radioBufRXCrit, critMessage, critPc>>

(* Mutant: a full buffer grows instead of dropping its oldest byte. *)
MutPutByteGrows ==
    /\ packet # <<>>
    /\ radioBufRXCrit' = Append(radioBufRXCrit, Head(packet))
    /\ packet' = Tail(packet)
    /\ UNCHANGED <<smVars, critMessage, critPc, history>>

(* Mutant: a put into a full buffer leaves it as it is, as buffer.h says. *)
MutPutByteRefused ==
    /\ packet # <<>>
    /\ radioBufRXCrit' = IF Len(radioBufRXCrit) = Capacity
                          THEN radioBufRXCrit
                          ELSE Append(radioBufRXCrit, Head(packet))
    /\ packet' = Tail(packet)
    /\ UNCHANGED <<smVars, critMessage, critPc, history>>

PutByte ==
    /\ packet # <<>>
    /\ radioBufRXCrit' = Buf!Enqueue(radioBufRXCrit, Head(packet))
    /\ packet' = Tail(packet)
    /\ UNCHANGED <<smVars, critMessage, critPc, history>>

inputLoop == Receive \/ PutByte

-----------------------------------------------------------------------------
(* `if (!cbufGet(radioBufRXCrit, &message))': the switch is entered when    *)
(* the buffer was empty, on the byte that the last successful get left.    *)

GetByte ==
    /\ critPc = "get" /\ radioBufRXCrit # <<>>
    /\ critMessage' = Buf!Oldest(radioBufRXCrit)
    /\ radioBufRXCrit' = Buf!Dequeue(radioBufRXCrit)
    /\ UNCHANGED <<smVars, packet, critPc, history>>

GetNothing ==
    /\ critPc = "get" /\ radioBufRXCrit = <<>>
    /\ critPc' = "switch"
    /\ UNCHANGED <<smVars, packet, radioBufRXCrit, critMessage, history>>

(* Mutant: the abort case has no break. *)
MutSwitchFallsThrough ==
    /\ critPc = "switch"
    /\ \/ critMessage = "Abort" /\ SetTrigger("Abort")
       \/ critMessage \in HMITrigger /\ SetTrigger("Fueling")
       \/ critMessage \notin HMITrigger /\ UNCHANGED smVars
    /\ critPc' = "get"
    /\ UNCHANGED <<packet, radioBufRXCrit, critMessage, history>>

(* Only this task takes the semaphore of stateTransitionInput: no waiting. *)
Switch ==
    /\ critPc = "switch"
    /\ \/ critMessage \in HMITrigger /\ SetTrigger(critMessage)
       \/ critMessage \notin HMITrigger /\ UNCHANGED smVars
    /\ critPc' = "get"
    /\ UNCHANGED <<packet, radioBufRXCrit, critMessage, history>>

dealWithCritMessages == GetByte \/ GetNothing \/ Switch

-----------------------------------------------------------------------------

StateTask == setNextState /\ UNCHANGED radioVars

(* The ignition trigger comes from the ground support equipment. *)
GSE == SetTrigger("Ignition") /\ UNCHANGED radioVars

PathNext == inputLoop \/ dealWithCritMessages \/ StateTask \/ GSE

PathSpec == PathInit /\ [][PathNext]_vars

(***************************************************************************)
(* Each task runs again and again, and inputLoop puts all of a packet; the *)
(* HMI and the ground support equipment need never send anything.          *)
(***************************************************************************)
FairPathSpec == /\ PathSpec
                /\ WF_vars(PutByte)
                /\ WF_vars(dealWithCritMessages)
                /\ WF_vars(StateTask)

-----------------------------------------------------------------------------

PathTypeOK ==
    /\ TypeOK
    /\ packet \in Seq(Byte) /\ Len(packet) <= MaxPacket
    /\ radioBufRXCrit \in Seq(Byte) /\ Len(radioBufRXCrit) <= Capacity
    /\ critMessage \in Byte \cup {None}
    /\ critPc \in {"get", "switch"}
    /\ heard \subseteq Byte /\ latest \in Byte \cup {None}

(***************************************************************************)
(* Across both tasks, both queues and the state machine, nothing happens   *)
(* that the HMI did not ask for: a trigger that is set, and a state that   *)
(* only that trigger leads to, were commanded by a byte that was received. *)
(***************************************************************************)
StateWasCommanded ==
    /\ triggers \subseteq heard \cup {"Ignition"}
    /\ curState # "Startup" => "Fueling" \in heard
    /\ curState \in {"Standby", "Ignition"} => "Standby" \in heard
    /\ curState = "GroundAbort" => "Abort" \in heard

(***************************************************************************)
(* If an abort is the last byte above the watershed that ever arrives, the *)
(* rocket is eventually safe: it is aborted again and again, or it never   *)
(* left startup.  (Again and again: a stale fueling trigger can take it    *)
(* out of ground abort, until the abort is repeated.)                      *)
(***************************************************************************)
LastAbortActedOn ==
    <>[](latest = "Abort" /\ packet = <<>>)
        => []<>(curState \in {"Startup", "GroundAbort"})

(***************************************************************************)
(* buffer.h, 64, says cbufGet returns "length of message in buffer, 0 if   *)
(* no message", and radio_protocol.c, 69-70, that the HMI bytes are to be  *)
(* handled "as fast as possible": an abort byte that has been got is acted *)
(* on, whatever arrives after it.                                          *)
(***************************************************************************)
EveryAbortActedOn == critMessage = "Abort" ~> "Abort" \in triggers
=============================================================================
