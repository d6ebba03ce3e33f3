----------------------------- MODULE PacketRing -----------------------------
(***************************************************************************)
(* The packet buffers of envs/x86/src/stdio_controller.c, which carry SIM  *)
(* packets between the program and the simulator: for each id a ring of    *)
(* Size packets with a write index, a read index, a lower limit of what    *)
(* may be read, and a counting semaphore of new packets.                   *)
(*                                                                         *)
(* writeToBuf and readFromBuf take no common lock, so each is cut at the   *)
(* statements that touch what the other one uses.  One task writes and one *)
(* task reads each id.  Of a packet the model keeps whether it was         *)
(* written, is being written, and whether it was read since.               *)
(***************************************************************************)
EXTENDS Integers, FiniteSets

CONSTANTS
    Id,          \* SIM ids of one direction, such as 'R' (radio) and 'c' (CAN)
    Size,        \* SIM_PACKET_BUFFER_SIZE: 8
    MaxNew       \* the bound of the counting semaphores: 8

ASSUME RingAssumption == Size \in Nat \ {0} /\ MaxNew \in Nat \ {0}

VARIABLES
    slot,        \* packetBuffers: slot[id][i] is the state of packet i
    writeIndex,  \* packetBuffersWriteIndex
    readIndex,   \* packetBuffersReadIndex
    lowerLimit,  \* packetBuffersReadLowerLimit
    newFlag,     \* the count of packetBuffersNewFlag
    writePc,     \* where the writer of an id is in writeToBuf
    writepoint,  \* its local variable of that name
    readPc,      \* where the reader of an id is in readFromBuf
    readpoint    \* its local variable of that name

shared == <<slot, writeIndex, readIndex, lowerLimit, newFlag>>
writer == <<writePc, writepoint>>
reader == <<readPc, readpoint>>
ringVars == <<shared, writer, reader>>

-----------------------------------------------------------------------------

PacketState == {"unwritten", "partial", "unread", "read"}

Slot == 0 .. Size - 1

(* Mutant: the semaphores start at their bound. *)
MutRingInitFull ==
    /\ slot = [id \in Id |-> [i \in Slot |-> "unwritten"]]
    /\ writeIndex = [id \in Id |-> 0] /\ readIndex = [id \in Id |-> 0]
    /\ lowerLimit = [id \in Id |-> 0 - Size]
    /\ newFlag = [id \in Id |-> MaxNew]
    /\ writePc = [id \in Id |-> "idle"] /\ writepoint = [id \in Id |-> 0]
    /\ readPc = [id \in Id |-> "idle"] /\ readpoint = [id \in Id |-> 0]

(* stdioInit and initBuf. *)
RingInit ==
    /\ slot = [id \in Id |-> [i \in Slot |-> "unwritten"]]
    /\ writeIndex = [id \in Id |-> 0] /\ readIndex = [id \in Id |-> 0]
    /\ lowerLimit = [id \in Id |-> 0 - Size]
    /\ newFlag = [id \in Id |-> 0]
    /\ writePc = [id \in Id |-> "idle"] /\ writepoint = [id \in Id |-> 0]
    /\ readPc = [id \in Id |-> "idle"] /\ readpoint = [id \in Id |-> 0]

WriterGoes(id, from, to) ==
    writePc[id] = from /\ writePc' = [writePc EXCEPT ![id] = to]

ReaderGoes(id, from, to) ==
    readPc[id] = from /\ readPc' = [readPc EXCEPT ![id] = to]

(* An index that has run past the end goes back to 0 before it is used. *)
Wrapped(index) == IF index >= Size THEN 0 ELSE index

-----------------------------------------------------------------------------
(* writeToBuf.                                                             *)

ChooseSlot(id) ==
    /\ WriterGoes(id, "idle", "fill")
    /\ writepoint' = [writepoint EXCEPT ![id] = Wrapped(writeIndex[id])]
    /\ writeIndex' = [writeIndex EXCEPT ![id] = Wrapped(writeIndex[id])]
    /\ slot' = [slot EXCEPT ![id][Wrapped(writeIndex[id])] = "partial"]
    /\ UNCHANGED <<readIndex, lowerLimit, newFlag, reader>>

FillSlot(id) ==
    /\ WriterGoes(id, "fill", "raise")
    /\ slot' = [slot EXCEPT ![id][writepoint[id]] = "unread"]
    /\ writeIndex' = [writeIndex EXCEPT ![id] = @ + 1]
    /\ UNCHANGED <<readIndex, lowerLimit, newFlag, writepoint, reader>>

RaiseLimit(id) ==
    /\ WriterGoes(id, "raise", "clip")
    /\ lowerLimit' = [lowerLimit EXCEPT ![id] = @ + 1]
    /\ UNCHANGED <<slot, writeIndex, readIndex, newFlag, writepoint, reader>>

(* Mutant: the limit is never taken back. *)
MutClipLimitNever(id) ==
    /\ WriterGoes(id, "clip", "give")
    /\ UNCHANGED <<shared, writepoint, reader>>

ClipLimit(id) ==
    /\ WriterGoes(id, "clip", "give")
    /\ lowerLimit' = [lowerLimit EXCEPT ![id] = Wrapped(@)]
    /\ UNCHANGED <<slot, writeIndex, readIndex, newFlag, writepoint, reader>>

(* A counting semaphore at its bound refuses the give, unnoticed. *)
GiveFlag(id) ==
    /\ WriterGoes(id, "give", "idle")
    /\ newFlag' = [newFlag EXCEPT ![id] = IF @ = MaxNew THEN @ ELSE @ + 1]
    /\ UNCHANGED <<slot, writeIndex, readIndex, lowerLimit, writepoint, reader>>

FinishWrite(id) == FillSlot(id) \/ RaiseLimit(id) \/ ClipLimit(id) \/ GiveFlag(id)

writeToBuf(id) == ChooseSlot(id) \/ FinishWrite(id)

-----------------------------------------------------------------------------
(* readFromBuf.                                                            *)

TakeFlag(id) ==
    /\ ReaderGoes(id, "take", "copy")
    /\ newFlag[id] > 0
    /\ newFlag' = [newFlag EXCEPT ![id] = @ - 1]
    /\ readIndex' = [readIndex EXCEPT ![id] = Wrapped(@)]
    /\ readpoint' = [readpoint EXCEPT ![id] = Wrapped(readIndex[id])]
    /\ UNCHANGED <<slot, writeIndex, lowerLimit, writer>>

CopySlot(id) ==
    /\ ReaderGoes(id, "copy", "check")
    /\ slot' = [slot EXCEPT ![id][readpoint[id]] = IF @ = "unread" THEN "read" ELSE @]
    /\ UNCHANGED <<writeIndex, readIndex, lowerLimit, newFlag, readpoint, writer>>

(* Mutant: the limit itself may be read. *)
MutMoveOnToLimit(id) ==
    /\ ReaderGoes(id, "check", "idle")
    /\ readIndex' = [readIndex EXCEPT ![id] =
                        IF readpoint[id] + 1 <= lowerLimit[id] + Size THEN @ + 1 ELSE @]
    /\ UNCHANGED <<slot, writeIndex, lowerLimit, newFlag, readpoint, writer>>

MoveOn(id) ==
    /\ ReaderGoes(id, "check", "idle")
    /\ readIndex' = [readIndex EXCEPT ![id] =
                        IF readpoint[id] + 1 < lowerLimit[id] + Size THEN @ + 1 ELSE @]
    /\ UNCHANGED <<slot, writeIndex, lowerLimit, newFlag, readpoint, writer>>

readFromBuf(id) == TakeFlag(id) \/ CopySlot(id) \/ MoveOn(id)

-----------------------------------------------------------------------------

RingTypeOK ==
    /\ slot \in [Id -> [Slot -> PacketState]]
    /\ writeIndex \in [Id -> 0 .. Size] /\ readIndex \in [Id -> 0 .. Size]
    /\ lowerLimit \in [Id -> 0 - Size .. Size]
    /\ newFlag \in [Id -> 0 .. MaxNew]
    /\ writePc \in [Id -> {"idle", "fill", "raise", "clip", "give"}]
    /\ writepoint \in [Id -> Slot]
    /\ readPc \in [Id -> {"idle", "take", "copy", "check"}]
    /\ readpoint \in [Id -> Slot]

(***************************************************************************)
(* A reader never copies a slot that no packet was ever written to: in the *)
(* first round through the ring the lower limit holds it back.             *)
(***************************************************************************)
NeverReadsUnwritten ==
    \A id \in Id : readPc[id] = "copy" => slot[id][readpoint[id]] # "unwritten"
=============================================================================
