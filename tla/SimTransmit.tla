---------------------------- MODULE SimTransmit ----------------------------
(***************************************************************************)
(* The transmit side of the simulation link of                             *)
(* envs/x86/src/stdio_controller.c: the handshake between outputLoop,      *)
(* inputLoop and the ground station, the tasks that write packets with     *)
(* uartSend and canSend, and sendPackets, which visits the rings of all    *)
(* ids in turn and sends at most one packet of each.  What other tasks     *)
(* print goes to the same stdout.                                          *)
(***************************************************************************)
EXTENDS PacketRing, Sequences

CONSTANT IdOrder \* the ids in the order sendPackets visits them

ASSUME IdOrderAssumption ==
    /\ IdOrder \in Seq(Id) /\ IdOrder # <<>>
    /\ \A id \in Id : \E i \in DOMAIN IdOrder : IdOrder[i] = id

VARIABLES
    outPc,             \* outputLoop: "syn", "wait", "look" or "read"
    next,              \* sendPackets: the position of its id in IdOrder
    inPc,              \* inputLoop: "ack", "config", "signal" or "extract"
    handshakeRecieved,
    wire               \* history: the kinds of output sent so far

linkVars == <<outPc, next, inPc, handshakeRecieved, wire>>
vars == <<ringVars, linkVars>>

-----------------------------------------------------------------------------

Init == /\ RingInit
        /\ outPc = "syn" /\ next = 1 /\ inPc = "ack"
        /\ handshakeRecieved = FALSE
        /\ wire = {}

(* uartSend and canSend, which may run before the link is up. *)
Send == \E id \in Id : writeToBuf(id) /\ UNCHANGED linkVars

(* printf in a task of Whistler-Blackcomb.c.  RadioTask has a higher priority
   than outputLoop and prints before the SYN. *)
PrintText ==
    /\ wire' = wire \cup {"text"}
    /\ UNCHANGED <<ringVars, outPc, next, inPc, handshakeRecieved>>

-----------------------------------------------------------------------------
(* inputLoop.  The ground station acknowledges a SYN; anything else trips  *)
(* the assertion and ends the program.                                     *)

ReceiveAck ==
    /\ inPc = "ack" /\ "SYN" \in wire
    /\ inPc' = "config"
    /\ UNCHANGED <<ringVars, outPc, next, handshakeRecieved, wire>>

putConfigPacket ==
    /\ inPc = "config"
    /\ wire' = wire \cup {"config"}
    /\ inPc' = "signal"
    /\ UNCHANGED <<ringVars, outPc, next, handshakeRecieved>>

Signal ==
    /\ inPc = "signal"
    /\ handshakeRecieved' = TRUE
    /\ inPc' = "extract"
    /\ UNCHANGED <<ringVars, outPc, next, wire>>

inputLoop == ReceiveAck \/ putConfigPacket \/ Signal

-----------------------------------------------------------------------------
(* outputLoop.                                                             *)

SendSyn ==
    /\ outPc = "syn"
    /\ wire' = wire \cup {"SYN"}
    /\ outPc' = "wait"
    /\ UNCHANGED <<ringVars, next, inPc, handshakeRecieved>>

(* Mutant: the wait for the handshake is left out. *)
MutDoNotAwait ==
    /\ outPc = "wait"
    /\ outPc' = "look"
    /\ UNCHANGED <<ringVars, next, inPc, handshakeRecieved, wire>>

AwaitHandshake ==
    /\ outPc = "wait" /\ handshakeRecieved
    /\ outPc' = "look"
    /\ UNCHANGED <<ringVars, next, inPc, handshakeRecieved, wire>>

(* Mutant: the loop over the ids stops short of the last one. *)
MutFollowingStopsShort == IF next >= Len(IdOrder) - 1 THEN 1 ELSE next + 1

Following == IF next = Len(IdOrder) THEN 1 ELSE next + 1

Skip ==
    /\ outPc = "look" /\ newFlag[IdOrder[next]] = 0
    /\ next' = Following
    /\ UNCHANGED <<ringVars, outPc, inPc, handshakeRecieved, wire>>

(* Mutant: the count of new packets is not looked at. *)
MutLookNever ==
    /\ outPc = "look"
    /\ ReaderGoes(IdOrder[next], "idle", "take")
    /\ outPc' = "read"
    /\ UNCHANGED <<shared, writer, readpoint, next, inPc, handshakeRecieved, wire>>

Look ==
    /\ outPc = "look" /\ newFlag[IdOrder[next]] > 0
    /\ ReaderGoes(IdOrder[next], "idle", "take")
    /\ outPc' = "read"
    /\ UNCHANGED <<shared, writer, readpoint, next, inPc, handshakeRecieved, wire>>

Read ==
    /\ outPc = "read"
    /\ readFromBuf(IdOrder[next])
    /\ UNCHANGED linkVars

(* putPacket, once readFromBuf has returned. *)
putPacket ==
    /\ outPc = "read" /\ readPc[IdOrder[next]] = "idle"
    /\ wire' = wire \cup {"data"}
    /\ next' = Following
    /\ outPc' = "look"
    /\ UNCHANGED <<ringVars, inPc, handshakeRecieved>>

sendPackets == Skip \/ Look \/ Read \/ putPacket

outputLoop == SendSyn \/ AwaitHandshake \/ sendPackets

-----------------------------------------------------------------------------

Next == Send \/ PrintText \/ inputLoop \/ outputLoop

(***************************************************************************)
(* Both loops run again and again, and a task that has begun to write a    *)
(* packet finishes; no task need ever write, nor the ground station answer.*)
(***************************************************************************)
Spec == /\ Init /\ [][Next]_vars
        /\ WF_vars(outputLoop)
        /\ WF_vars(putConfigPacket \/ Signal)
        /\ \A id \in Id : WF_vars(FinishWrite(id) /\ UNCHANGED linkVars)

-----------------------------------------------------------------------------

TypeOK == /\ RingTypeOK
          /\ outPc \in {"syn", "wait", "look", "read"}
          /\ next \in DOMAIN IdOrder
          /\ inPc \in {"ack", "config", "signal", "extract"}
          /\ handshakeRecieved \in BOOLEAN
          /\ wire \subseteq {"SYN", "config", "data", "text"}

(***************************************************************************)
(* Among the packets of the link, the config packet is the first: inputLoop*)
(* sends it, and none of those that tasks put into the rings during the    *)
(* handshake and outputLoop sends overtakes it.  (Text that tasks print    *)
(* may come before it, and before the SYN of line 112.)                    *)
(***************************************************************************)
ConfigFirst == "data" \in wire => "config" \in wire

(***************************************************************************)
(* sendPackets looks at the count of a semaphore and takes it later, with  *)
(* no timeout.  Were the count used up in between, the packets of every    *)
(* other id would be stuck behind it.                                      *)
(***************************************************************************)
SendingNeverBlocks == \A id \in Id : readPc[id] = "take" => newFlag[id] > 0

(***************************************************************************)
(* As long as a task keeps writing packets, packets that were not sent     *)
(* before keep going out, whichever task writes and however its writes     *)
(* fall between the reads: neither the loop over the ids nor the lower     *)
(* limit, which holds the read index back, starves a ring for good.        *)
(***************************************************************************)
CopyNew(id) == CopySlot(id) /\ slot[id][readpoint[id]] \in {"unread", "partial"}

NewPacketsFlow ==
    \A id \in Id : ([]<>handshakeRecieved /\ []<><<GiveFlag(id)>>_vars)
                       => []<><<CopyNew(id)>>_vars

(***************************************************************************)
(* The comment of sendPackets, line 322: it "Sends new packets once".  A   *)
(* packet that is copied out of a ring has not been copied out before.     *)
(***************************************************************************)
SendsNewPacketsOnce ==
    \A id \in Id : readPc[id] = "copy" => slot[id][readpoint[id]] # "read"
=============================================================================
