---------------------------- MODULE XbeeReceive ----------------------------
(***************************************************************************)
(* The receive side of the radio driver: radioReceive of common/src/radio.c *)
(* over xbee_dev_tick and _xbee_frame_load of the xbee library, which look *)
(* for frames in the stream of bytes from the radio.  A frame is the byte  *)
(* 0x7E, two bytes of length, the data and a checksum; 0x7E may occur      *)
(* inside a frame as well, and bytes may be lost, or noise added, so that  *)
(* the parser must find its way back to the start of a frame.              *)
(*                                                                         *)
(* Each read is one call of uartReceive, which on the board blocks until   *)
(* it has all bytes or gives up and returns none, so bytes_read stays 0.   *)
(*                                                                         *)
(* Of the packet in the slot of radio.c the model keeps the length.  The   *)
(* handler copies a frame of any length into the slot, and a frame shorter *)
(* than its own header leaves a negative length: what such a copy does is  *)
(* undefined, the model notes it and claims nothing of what follows.       *)
(***************************************************************************)
EXTENDS Integers, Sequences, SequencesExt

CONSTANTS
    RadioFrames,  \* the data of the frames that the radio sends
    Noise,        \* the bytes that noise adds
    MaxFaults,    \* a bound: of the bytes lost and added and reads given up
    LineCapacity, \* a bound: of the bytes on the line
    MaxFrame,     \* XBEE_MAX_RX_FRAME_LEN: 274
    MaxDispatch,  \* XBEE_DEV_MAX_DISPATCH_PER_TICK: 5
    HeaderLength, \* offsetof(xbee_frame_receive_t, payload): 12
    SlotSize      \* the bytes of receive_packet: 256

XbeeByte == 0 .. 255
TwoBytes == 0 .. 65535

ASSUME XbeeAssumption ==
    /\ \A f \in RadioFrames : f \in Seq(XbeeByte) /\ Len(f) \in 2 .. MaxFrame
    /\ Noise \subseteq XbeeByte
    /\ MaxFaults \in Nat /\ MaxFrame \in TwoBytes /\ MaxFrame >= 2
    /\ MaxDispatch \in Nat \ {0} /\ HeaderLength \in Nat /\ SlotSize \in Nat
    /\ LineCapacity \in Nat /\ LineCapacity > MaxFrame

VARIABLES
    toSend,        \* what the radio has not sent of its present frame
    line,          \* the bytes received and not read yet
    faults,        \* the faults so far
    cleanBytes,    \* history: the length of the clean stretch, see CleanStretch
    frameState,    \* rx.state
    bytesInFrame,  \* rx.bytes_in_frame
    inTick,        \* the flag XBEE_DEV_FLAG_IN_TICK
    dispatched,    \* the frames dispatched in this tick
    receivePacketLength,
    undefinedCopy  \* history: memcpy ran past the slot, or was given a negative length

radio == <<toSend, faults, cleanBytes>>
packetSlot == <<receivePacketLength, undefinedCopy>>
parser == <<frameState, bytesInFrame, inTick, dispatched, packetSlot>>
xbeeVars == <<radio, line, parser>>

-----------------------------------------------------------------------------

Delimiter == 126

ReceiveType == 144  \* XBEE_FRAME_RECEIVE; other types have no handler here

NoPacket == -1

XbeeState == {"uninitialised", "waitstart", "length_msb", "length_lsb", "rxframe"}

(* _xbee_checksum: what is left of `initial' without all the bytes. *)
Checksum(bytes, initial) == FoldLeft(LAMBDA sum, b : (sum - b) % 256, initial, bytes)

Encode(f) == <<Delimiter, Len(f) \div 256, Len(f) % 256>>
             \o Append(f, Checksum(f, 255))

(* A frame in which 0x7E is only the start, and the bytes of such frames, one
   after the other, that a parser in any state needs to be back in step: it
   may have to read a start byte as a length and then a longest frame. *)
IsClean(f) == Delimiter \notin ToSet(Tail(Encode(f)))

CleanStretch == MaxFrame + 2

(* xbee_dev_init leaves rx.state as it finds it: 0 in the global radio of
   radio_protocol.c, the pattern that FreeRTOS fills stacks with in RadioTask. *)
XbeeInit ==
    /\ toSend = <<>> /\ line = <<>> /\ faults = 0 /\ cleanBytes = 0
    /\ frameState \in {"waitstart", "uninitialised"} /\ bytesInFrame = 0
    /\ inTick = FALSE /\ dispatched = 0
    /\ receivePacketLength = NoPacket /\ undefinedCopy = FALSE

-----------------------------------------------------------------------------
(* The radio and the UART.                                                 *)

BeginFrame(f) ==
    /\ toSend = <<>>
    /\ toSend' = Encode(f)
    /\ cleanBytes' = IF ~IsClean(f) THEN 0
                     ELSE IF cleanBytes + Len(f) + 4 < CleanStretch
                          THEN cleanBytes + Len(f) + 4 ELSE CleanStretch
    /\ UNCHANGED <<line, faults, parser>>

SendByte ==
    /\ toSend # <<>> /\ Len(line) < LineCapacity
    /\ line' = Append(line, Head(toSend))
    /\ toSend' = Tail(toSend)
    /\ UNCHANGED <<faults, cleanBytes, parser>>

Fault == faults < MaxFaults /\ faults' = faults + 1

LoseByte ==
    /\ Fault
    /\ toSend # <<>>
    /\ toSend' = Tail(toSend)
    /\ UNCHANGED <<line, cleanBytes, parser>>

AddNoise(b) ==
    /\ Fault
    /\ Len(line) < LineCapacity
    /\ line' = Append(line, b)
    /\ UNCHANGED <<toSend, cleanBytes, parser>>

-----------------------------------------------------------------------------
(* _xbee_frame_load, one read at a time.                                   *)

(* xbee_dev_tick is called. *)
TickBegins ==
    /\ ~inTick
    /\ inTick' = TRUE
    /\ dispatched' = 0
    /\ UNCHANGED <<radio, line, frameState, bytesInFrame, packetSlot>>

(* Mutant: one frame alone does not count. *)
MutRadioReceiveReturnsLate(length, count) ==
    /\ inTick' = FALSE /\ dispatched' = count
    /\ receivePacketLength' = IF count > 1 /\ length >= NoPacket THEN NoPacket ELSE length
    /\ undefinedCopy' = (undefinedCopy \/ (count > 1 /\ length < NoPacket))

(* Mutant: that the slot is empty is not looked at. *)
MutRadioReceiveReturnsUnchecked(length, count) ==
    /\ inTick' = FALSE /\ dispatched' = count
    /\ receivePacketLength' = IF count > 0 /\ length >= NoPacket THEN NoPacket ELSE length
    /\ undefinedCopy' = (undefinedCopy \/ (count > 0 /\ length <= NoPacket))

(* The tick ends with a packet of that length in the slot, and radioReceive
   copies it out when it sees a frame dispatched and the slot not empty. *)
radioReceiveReturns(length, count) ==
    /\ inTick' = FALSE /\ dispatched' = count
    /\ receivePacketLength' = IF count > 0 /\ length >= NoPacket THEN NoPacket ELSE length
    /\ undefinedCopy' = (undefinedCopy \/ (count > 0 /\ length < NoPacket))

(* The default of the switch over the state. *)
InvalidState ==
    /\ inTick /\ frameState = "uninitialised"
    /\ frameState' = "waitstart"
    /\ UNCHANGED <<radio, line, bytesInFrame, inTick, dispatched, packetSlot>>

NothingToRead ==
    /\ inTick /\ line = <<>> /\ frameState # "uninitialised"
    /\ radioReceiveReturns(receivePacketLength, dispatched)
    /\ UNCHANGED <<radio, line, frameState, bytesInFrame>>

(* The bytes that the next read asks for: the data with its checksum. *)
Wanted == IF frameState = "rxframe" THEN bytesInFrame + 1 ELSE 1

(* An overrun ends the read; what it had got is lost. *)
ReadGivenUp(lost) ==
    /\ Fault
    /\ inTick /\ frameState # "uninitialised"
    /\ line # <<>> /\ lost <= Len(line) /\ lost < Wanted
    /\ line' = SubSeq(line, lost + 1, Len(line))
    /\ radioReceiveReturns(receivePacketLength, dispatched)
    /\ UNCHANGED <<toSend, cleanBytes, frameState, bytesInFrame>>

Read(state) == inTick /\ frameState = state /\ line # <<>>

ReadStart ==
    /\ Read("waitstart")
    /\ line' = Tail(line)
    /\ frameState' = IF Head(line) = Delimiter THEN "length_msb" ELSE "waitstart"
    /\ UNCHANGED <<radio, bytesInFrame, inTick, dispatched, packetSlot>>

(* A second delimiter is taken for the start of the frame. *)
ReadLengthMSB ==
    /\ Read("length_msb")
    /\ line' = Tail(line)
    /\ IF Head(line) = Delimiter
       THEN UNCHANGED <<frameState, bytesInFrame>>
       ELSE frameState' = "length_lsb" /\ bytesInFrame' = Head(line) * 256
    /\ UNCHANGED <<radio, inTick, dispatched, packetSlot>>

(* Mutant: the length is not checked. *)
MutReadLengthLSBUnchecked ==
    /\ Read("length_lsb")
    /\ line' = Tail(line)
    /\ bytesInFrame' = bytesInFrame + Head(line)
    /\ frameState' = "rxframe"
    /\ UNCHANGED <<radio, inTick, dispatched, packetSlot>>

ReadLengthLSB ==
    /\ Read("length_lsb")
    /\ line' = Tail(line)
    /\ bytesInFrame' = bytesInFrame + Head(line)
    /\ frameState' = IF bytesInFrame' \in 2 .. MaxFrame THEN "rxframe"
                  ELSE IF Head(line) = Delimiter THEN "length_msb"
                  ELSE "waitstart"
    /\ UNCHANGED <<radio, inTick, dispatched, packetSlot>>

(* _xbee_frame_dispatch calls _xbee_handle_receive for a received packet. *)
Dispatch(data) ==
    LET received == Head(data) = ReceiveType
        length   == IF received THEN Len(data) - HeaderLength ELSE receivePacketLength
    IN  IF received /\ Len(data) > SlotSize
        THEN /\ undefinedCopy' = TRUE /\ receivePacketLength' = length
             /\ UNCHANGED <<inTick, dispatched>>
        ELSE IF dispatched + 1 = MaxDispatch
        THEN radioReceiveReturns(length, MaxDispatch)
        ELSE /\ dispatched' = dispatched + 1 /\ receivePacketLength' = length
             /\ UNCHANGED <<inTick, undefinedCopy>>

(* Mutant: the checksum is left on the line. *)
MutReadFrameShort ==
    /\ Read("rxframe") /\ Len(line) >= bytesInFrame
    /\ line' = SubSeq(line, bytesInFrame + 1, Len(line))
    /\ frameState' = "waitstart"
    /\ Dispatch(SubSeq(line, 1, bytesInFrame))
    /\ UNCHANGED <<radio, bytesInFrame>>

(* Mutant: only a good frame ends the search for its end. *)
MutReadFrameKeepsState ==
    /\ Read("rxframe") /\ Len(line) >= Wanted
    /\ line' = SubSeq(line, Wanted + 1, Len(line))
    /\ IF Checksum(SubSeq(line, 1, Wanted), 255) = 0
       THEN frameState' = "waitstart" /\ Dispatch(SubSeq(line, 1, bytesInFrame))
       ELSE UNCHANGED <<frameState, inTick, dispatched, packetSlot>>
    /\ UNCHANGED <<radio, bytesInFrame>>

ReadFrame ==
    /\ Read("rxframe") /\ Len(line) >= Wanted
    /\ line' = SubSeq(line, Wanted + 1, Len(line))
    /\ frameState' = "waitstart"
    /\ IF Checksum(SubSeq(line, 1, Wanted), 255) = 0
       THEN Dispatch(SubSeq(line, 1, bytesInFrame))
       ELSE UNCHANGED <<inTick, dispatched, packetSlot>>
    /\ UNCHANGED <<radio, bytesInFrame>>

xbee_frame_load == \/ InvalidState \/ NothingToRead \/ ReadStart
                   \/ ReadLengthMSB \/ ReadLengthLSB \/ ReadFrame

XbeeNext == \/ \E f \in RadioFrames : BeginFrame(f)
            \/ SendByte \/ LoseByte \/ TickBegins \/ xbee_frame_load
            \/ \E b \in Noise : AddNoise(b)
            \/ \E n \in 0 .. MaxFrame : ReadGivenUp(n)

(* The radio keeps sending, and a task calls radioReceive again and again. *)
XbeeSpec == XbeeInit /\ [][XbeeNext]_xbeeVars
            /\ WF_xbeeVars(SendByte) /\ WF_xbeeVars(\E f \in RadioFrames : BeginFrame(f))
            /\ WF_xbeeVars(TickBegins \/ xbee_frame_load)

-----------------------------------------------------------------------------

(* A frame that is read fits into frame_data, whatever length was announced.
   (Not every frame fits into the slot: see OnlyMisfitsUndefined.) *)
XbeeTypeOK ==
    /\ toSend \in Seq(XbeeByte) /\ line \in Seq(XbeeByte) /\ Len(line) <= LineCapacity
    /\ faults \in 0 .. MaxFaults /\ frameState \in XbeeState
    /\ bytesInFrame \in TwoBytes
    /\ frameState = "rxframe" => bytesInFrame \in 2 .. MaxFrame
    /\ inTick \in BOOLEAN /\ dispatched \in 0 .. MaxDispatch
    /\ receivePacketLength \in {NoPacket} \cup 2 - HeaderLength .. MaxFrame - HeaderLength
    /\ undefinedCopy \in BOOLEAN /\ cleanBytes \in 0 .. CleanStretch

(* The bytes of a frame that the parser has read already. *)
ReadSoFar ==
    CASE frameState \in {"uninitialised", "waitstart"} -> <<>>
      [] frameState = "length_msb" -> <<Delimiter>>
      [] frameState = "length_lsb" -> <<Delimiter, bytesInFrame \div 256>>
      [] frameState = "rxframe"    -> <<Delimiter, bytesInFrame \div 256, bytesInFrame % 256>>

(* What is read and what comes next are whole frames, one after the other. *)
InSync ==
    LET stream == ReadSoFar \o line \o toSend
        most   == Len(stream) \div 5
    IN  \E n \in 0 .. most : \E fs \in [1 .. n -> RadioFrames] :
            FlattenSeq([i \in 1 .. n |-> Encode(fs[i])]) = stream

(***************************************************************************)
(* On a clean line the parser never leaves the frames: no 0x7E inside a    *)
(* frame misleads it, and every frame is dispatched whole.                 *)
(***************************************************************************)
StaysInSync == faults = 0 /\ ~undefinedCopy => InSync

(***************************************************************************)
(* After faults the parser finds its way back to the frames, and stays     *)
(* there, when the radio sends clean stretches again and again.            *)
(* xbee_device.c, 773, leaves out a search of a frame that fails its       *)
(* checksum, and relies on a good connection.  So a frame with 0x7E and an *)
(* acceptable length inside, sent time after time, can hold a parser that  *)
(* lost a byte out of step for ever: the stretches are needed.             *)
(***************************************************************************)
RegainsSync == []<>(cleanBytes = CleanStretch) => <>[](InSync \/ undefinedCopy)

(***************************************************************************)
(* radio.c, 60: "Order these are checked very much matters".  A packet is  *)
(* returned by the call of radioReceive that read it or not at all: none   *)
(* is left for a later call that has read nothing but a status frame.      *)
(***************************************************************************)
NoStalePacket == ~inTick /\ ~undefinedCopy => receivePacketLength = NoPacket

(***************************************************************************)
(* The slot takes each packet on a clean line, and no status frame makes   *)
(* radioReceive copy with the length -1 of an empty one: the first copy    *)
(* that is undefined is that of a frame which the radio did send and which *)
(* is longer than the slot, or ends within its own header.                 *)
(***************************************************************************)
IsMisfit(length) == length > SlotSize \/ length < HeaderLength - 1

OnlyMisfitsUndefined ==
    [][faults = 0 /\ ~undefinedCopy /\ undefinedCopy'
         => \E f \in RadioFrames :
               /\ Head(f) = ReceiveType /\ IsMisfit(Len(f))
               /\ Len(f) - HeaderLength = receivePacketLength']_xbeeVars
=============================================================================
