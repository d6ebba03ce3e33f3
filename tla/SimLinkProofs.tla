--------------------------- MODULE SimLinkProofs ---------------------------
(***************************************************************************)
(* Theorems about the simulation link of envs/x86/src/stdio_controller.c,  *)
(* for any set of ids and rings of any size: what the rings guarantee      *)
(* whatever calls them, the transmit side (SimTransmit), and the receive   *)
(* side (SimReceive), which implements DelayLine.                          *)
(***************************************************************************)
EXTENDS SimTransmit, SimReceive, SequenceTheorems, TLAPS

-----------------------------------------------------------------------------
(* The rings.                                                              *)

(* A reader begins to wait for a packet. *)
BeginWait(id) ==
    ReaderGoes(id, "idle", "take") /\ UNCHANGED <<shared, writer, readpoint>>

RingStep(id) == writeToBuf(id) \/ readFromBuf(id) \/ BeginWait(id)

(***************************************************************************)
(* Each index and each limit is within the ring whenever it is used.       *)
(***************************************************************************)
IndexInv(id) ==
    /\ writePc[id] = "fill" => writeIndex[id] < Size
    /\ writePc[id] # "clip" => lowerLimit[id] < Size
    /\ readPc[id] \in {"copy", "check"} => readIndex[id] < Size

RingIndexInv == RingTypeOK /\ \A id \in Id : IndexInv(id)

LEMMA SizeType == Size \in Nat /\ Size >= 1 /\ MaxNew \in Nat /\ MaxNew >= 1
  BY RingAssumption

LEMMA WrappedType ==
    ASSUME NEW i \in 0 .. Size
    PROVE  Wrapped(i) \in Slot /\ Wrapped(i) < Size /\ Wrapped(i) \in 0 .. Size
  BY SizeType DEF Wrapped, Slot

LEMMA SlotSet ==
    ASSUME slot \in [Id -> [Slot -> PacketState]], NEW id \in Id, NEW i \in Slot,
           NEW s \in PacketState
    PROVE  [slot EXCEPT ![id][i] = s] \in [Id -> [Slot -> PacketState]]
  OBVIOUS

(* A step of one id changes nothing of another one. *)
RingSame(id) ==
    /\ slot'[id] = slot[id] /\ writeIndex'[id] = writeIndex[id] /\ readIndex'[id] = readIndex[id]
    /\ lowerLimit'[id] = lowerLimit[id] /\ newFlag'[id] = newFlag[id]
    /\ writePc'[id] = writePc[id] /\ writepoint'[id] = writepoint[id]
    /\ readPc'[id] = readPc[id] /\ readpoint'[id] = readpoint[id]

LEMMA OthersSame ==
    ASSUME RingTypeOK, NEW id \in Id, RingStep(id), NEW other \in Id, other # id
    PROVE  RingSame(other)
  <1> USE DEF RingTypeOK, RingSame, shared, writer, reader, WriterGoes, ReaderGoes
  <1>1. CASE ChooseSlot(id)
    BY <1>1 DEF ChooseSlot
  <1>2. CASE FillSlot(id)
    BY <1>2 DEF FillSlot
  <1>3. CASE RaiseLimit(id)
    BY <1>3 DEF RaiseLimit
  <1>4. CASE ClipLimit(id)
    BY <1>4 DEF ClipLimit
  <1>5. CASE GiveFlag(id)
    BY <1>5 DEF GiveFlag
  <1>6. CASE TakeFlag(id)
    BY <1>6 DEF TakeFlag
  <1>7. CASE CopySlot(id)
    BY <1>7 DEF CopySlot
  <1>8. CASE MoveOn(id)
    BY <1>8 DEF MoveOn
  <1>9. CASE BeginWait(id)
    BY <1>9 DEF BeginWait
  <1> QED
    BY <1>1, <1>2, <1>3, <1>4, <1>5, <1>6, <1>7, <1>8, <1>9
       DEF RingStep, writeToBuf, FinishWrite, readFromBuf

LEMMA ChooseSlotTypes ==
    ASSUME RingIndexInv, NEW id \in Id, ChooseSlot(id)
    PROVE  RingTypeOK' /\ IndexInv(id)'
  <1> DEFINE w == Wrapped(writeIndex[id])
  <1>1. writeIndex[id] \in 0 .. Size
    BY DEF RingIndexInv, RingTypeOK
  <1>2. w \in Slot /\ w < Size /\ w \in 0 .. Size
    BY <1>1, WrappedType
  <1>3. "partial" \in PacketState
    BY DEF PacketState
  <1>4. /\ writePc' = [writePc EXCEPT ![id] = "fill"]
        /\ writepoint' = [writepoint EXCEPT ![id] = w]
        /\ writeIndex' = [writeIndex EXCEPT ![id] = w]
        /\ slot' = [slot EXCEPT ![id][w] = "partial"]
        /\ UNCHANGED <<readIndex, lowerLimit, newFlag, readPc, readpoint>>
        /\ writePc[id] = "idle"
    BY DEF ChooseSlot, WriterGoes, reader
  <1> HIDE DEF w
  <1>5. slot' \in [Id -> [Slot -> PacketState]]
    BY <1>2, <1>3, <1>4, SlotSet DEF RingIndexInv, RingTypeOK
  <1>6. RingTypeOK'
    BY <1>2, <1>4, <1>5 DEF RingIndexInv, RingTypeOK
  <1>7. IndexInv(id)'
    BY <1>2, <1>4 DEF RingIndexInv, RingTypeOK, IndexInv
  <1> QED
    BY <1>6, <1>7

LEMMA FillSlotTypes ==
    ASSUME RingIndexInv, NEW id \in Id, FillSlot(id)
    PROVE  RingTypeOK' /\ IndexInv(id)'
  <1>1. /\ writeIndex[id] \in 0 .. Size /\ writeIndex[id] < Size
        /\ writepoint[id] \in Slot /\ "unread" \in PacketState
    BY DEF RingIndexInv, RingTypeOK, IndexInv, FillSlot, WriterGoes, PacketState
  <1>2. writeIndex[id] + 1 \in 0 .. Size
    BY <1>1, SizeType
  <1>3. /\ writePc' = [writePc EXCEPT ![id] = "raise"]
        /\ writeIndex' = [writeIndex EXCEPT ![id] = writeIndex[id] + 1]
        /\ slot' = [slot EXCEPT ![id][writepoint[id]] = "unread"]
        /\ UNCHANGED <<readIndex, lowerLimit, newFlag, writepoint, readPc, readpoint>>
        /\ writePc[id] = "fill"
    BY DEF FillSlot, WriterGoes, reader, RingIndexInv, RingTypeOK
  <1>4. slot' \in [Id -> [Slot -> PacketState]]
    BY <1>1, <1>3, SlotSet DEF RingIndexInv, RingTypeOK
  <1>5. RingTypeOK'
    BY <1>2, <1>3, <1>4 DEF RingIndexInv, RingTypeOK
  <1>6. IndexInv(id)'
    BY <1>3 DEF RingIndexInv, RingTypeOK, IndexInv
  <1> QED
    BY <1>5, <1>6

LEMMA LimitTypes ==
    ASSUME RingIndexInv, NEW id \in Id, RaiseLimit(id) \/ ClipLimit(id) \/ GiveFlag(id)
    PROVE  RingTypeOK' /\ IndexInv(id)'
  <1>1. /\ lowerLimit[id] \in 0 - Size .. Size /\ newFlag[id] \in 0 .. MaxNew
        /\ writePc[id] # "clip" => lowerLimit[id] < Size
    BY DEF RingIndexInv, RingTypeOK, IndexInv
  <1>2. CASE RaiseLimit(id)
    <2>1. /\ writePc' = [writePc EXCEPT ![id] = "clip"]
          /\ lowerLimit' = [lowerLimit EXCEPT ![id] = lowerLimit[id] + 1]
          /\ UNCHANGED <<slot, writeIndex, readIndex, newFlag, writepoint, readPc, readpoint>>
          /\ writePc[id] = "raise"
      BY <1>2 DEF RaiseLimit, WriterGoes, reader, RingIndexInv, RingTypeOK
    <2>2. lowerLimit[id] + 1 \in 0 - Size .. Size
      BY <1>1, <2>1, SizeType
    <2>3. RingTypeOK'
      BY <2>1, <2>2 DEF RingIndexInv, RingTypeOK
    <2> QED
      BY <2>1, <2>3 DEF RingIndexInv, RingTypeOK, IndexInv
  <1>3. CASE ClipLimit(id)
    <2> DEFINE l == Wrapped(lowerLimit[id])
    <2>1. /\ writePc' = [writePc EXCEPT ![id] = "give"]
          /\ lowerLimit' = [lowerLimit EXCEPT ![id] = l]
          /\ UNCHANGED <<slot, writeIndex, readIndex, newFlag, writepoint, readPc, readpoint>>
      BY <1>3 DEF ClipLimit, WriterGoes, reader, RingIndexInv, RingTypeOK
    <2>2. l \in 0 - Size .. Size /\ l < Size
      BY <1>1, SizeType DEF Wrapped
    <2> HIDE DEF l
    <2>3. RingTypeOK'
      BY <2>1, <2>2 DEF RingIndexInv, RingTypeOK
    <2> QED
      BY <2>1, <2>2, <2>3 DEF RingIndexInv, RingTypeOK, IndexInv
  <1>4. CASE GiveFlag(id)
    <2> DEFINE n == IF newFlag[id] = MaxNew THEN newFlag[id] ELSE newFlag[id] + 1
    <2>1. /\ writePc' = [writePc EXCEPT ![id] = "idle"] /\ writePc[id] = "give"
          /\ newFlag' = [newFlag EXCEPT ![id] = n]
          /\ UNCHANGED <<slot, writeIndex, readIndex, lowerLimit, writepoint, readPc, readpoint>>
      BY <1>4 DEF GiveFlag, WriterGoes, reader, RingIndexInv, RingTypeOK
    <2>2. n \in 0 .. MaxNew
      BY <1>1, SizeType
    <2> HIDE DEF n
    <2>3. RingTypeOK'
      BY <2>1, <2>2 DEF RingIndexInv, RingTypeOK
    <2> QED
      BY <2>1, <2>3 DEF RingIndexInv, RingTypeOK, IndexInv
  <1> QED
    BY <1>2, <1>3, <1>4

LEMMA ReaderTypes ==
    ASSUME RingIndexInv, NEW id \in Id, readFromBuf(id) \/ BeginWait(id)
    PROVE  RingTypeOK' /\ IndexInv(id)'
  <1>1. /\ readIndex[id] \in 0 .. Size /\ newFlag[id] \in 0 .. MaxNew
        /\ readpoint[id] \in Slot /\ IndexInv(id)
    BY DEF RingIndexInv, RingTypeOK
  <1>2. CASE TakeFlag(id)
    <2> DEFINE r == Wrapped(readIndex[id])
    <2>1. /\ readPc' = [readPc EXCEPT ![id] = "copy"] /\ newFlag[id] > 0
          /\ newFlag' = [newFlag EXCEPT ![id] = newFlag[id] - 1]
          /\ readIndex' = [readIndex EXCEPT ![id] = r]
          /\ readpoint' = [readpoint EXCEPT ![id] = r]
          /\ UNCHANGED <<slot, writeIndex, lowerLimit, writePc, writepoint>>
      BY <1>2 DEF TakeFlag, ReaderGoes, writer, RingIndexInv, RingTypeOK
    <2>2. r \in Slot /\ r \in 0 .. Size /\ r < Size /\ newFlag[id] - 1 \in 0 .. MaxNew
      BY <1>1, <2>1, SizeType, WrappedType
    <2> HIDE DEF r
    <2>3. RingTypeOK'
      BY <2>1, <2>2 DEF RingIndexInv, RingTypeOK
    <2> QED
      BY <1>1, <2>1, <2>2, <2>3 DEF RingIndexInv, RingTypeOK, IndexInv
  <1>3. CASE CopySlot(id)
    <2> DEFINE s == IF slot[id][readpoint[id]] = "unread" THEN "read" ELSE slot[id][readpoint[id]]
    <2>1. /\ readPc' = [readPc EXCEPT ![id] = "check"] /\ readPc[id] = "copy"
          /\ slot' = [slot EXCEPT ![id][readpoint[id]] = s]
          /\ UNCHANGED <<writeIndex, readIndex, lowerLimit, newFlag, readpoint, writePc, writepoint>>
      BY <1>3 DEF CopySlot, ReaderGoes, writer, RingIndexInv, RingTypeOK
    <2>2. s \in PacketState
      BY <1>1 DEF RingIndexInv, RingTypeOK, PacketState
    <2> HIDE DEF s
    <2>3. slot' \in [Id -> [Slot -> PacketState]]
      BY <1>1, <2>1, <2>2, SlotSet DEF RingIndexInv, RingTypeOK
    <2>4. RingTypeOK'
      BY <2>1, <2>3 DEF RingIndexInv, RingTypeOK
    <2> QED
      BY <1>1, <2>1, <2>4 DEF RingIndexInv, RingTypeOK, IndexInv
  <1>4. CASE MoveOn(id)
    <2> DEFINE r == IF readpoint[id] + 1 < lowerLimit[id] + Size THEN readIndex[id] + 1
                    ELSE readIndex[id]
    <2>1. /\ readPc' = [readPc EXCEPT ![id] = "idle"] /\ readPc[id] = "check"
          /\ readIndex' = [readIndex EXCEPT ![id] = r]
          /\ UNCHANGED <<slot, writeIndex, lowerLimit, newFlag, readpoint, writePc, writepoint>>
      BY <1>4 DEF MoveOn, ReaderGoes, writer, RingIndexInv, RingTypeOK
    <2>2. r \in 0 .. Size
      BY <1>1, <2>1, SizeType DEF IndexInv
    <2> HIDE DEF r
    <2>3. RingTypeOK'
      BY <2>1, <2>2 DEF RingIndexInv, RingTypeOK
    <2> QED
      BY <1>1, <2>1, <2>3 DEF RingIndexInv, RingTypeOK, IndexInv
  <1>5. CASE BeginWait(id)
    <2>1. /\ readPc' = [readPc EXCEPT ![id] = "take"]
          /\ UNCHANGED <<slot, writeIndex, readIndex, lowerLimit, newFlag, readpoint, writePc,
                         writepoint>>
      BY <1>5 DEF BeginWait, ReaderGoes, shared, writer
    <2>2. RingTypeOK'
      BY <2>1 DEF RingIndexInv, RingTypeOK
    <2> QED
      BY <1>1, <2>1, <2>2 DEF RingIndexInv, RingTypeOK, IndexInv
  <1> QED
    BY <1>2, <1>3, <1>4, <1>5 DEF readFromBuf

LEMMA RingIndexStep ==
    ASSUME RingIndexInv, NEW id \in Id, RingStep(id)
    PROVE  RingIndexInv'
  <1>1. RingTypeOK' /\ IndexInv(id)'
    BY ChooseSlotTypes, FillSlotTypes, LimitTypes, ReaderTypes
       DEF RingStep, writeToBuf, FinishWrite
  <1>2. ASSUME NEW other \in Id, other # id PROVE IndexInv(other)'
    <2>1. RingSame(other)
      BY <1>2, OthersSame DEF RingIndexInv
    <2> QED
      BY <2>1 DEF RingSame, RingIndexInv, IndexInv
  <1> QED
    BY <1>1, <1>2 DEF RingIndexInv

(***************************************************************************)
(* In the first round through the ring, the slots before the write index   *)
(* are written, the lower limit counts them, and the read index stays      *)
(* before it; a packet is announced only once there is one.                *)
(***************************************************************************)
AllWritten(id) == \A i \in Slot : slot[id][i] # "unwritten"

FirstRound(id) ==
    /\ writeIndex[id] < Size
    /\ \A i \in Slot : i < writeIndex[id] => slot[id][i] # "unwritten"
    /\ writePc[id] = "fill" => writepoint[id] = writeIndex[id]
    /\ lowerLimit[id] + Size = writeIndex[id] - (IF writePc[id] = "raise" THEN 1 ELSE 0)
    /\ (\/ writePc[id] \in {"raise", "clip", "give"} \/ newFlag[id] > 0
        \/ readPc[id] \in {"copy", "check"}) => writeIndex[id] > 0
    /\ readIndex[id] = 0 \/ readIndex[id] < writeIndex[id]
    /\ readPc[id] \in {"copy", "check"} => readpoint[id] = readIndex[id]

RoundInv == \A id \in Id : AllWritten(id) \/ FirstRound(id)

LEMMA WrittenKept ==
    ASSUME RingTypeOK, NEW id \in Id, RingStep(id), NEW i \in Slot, slot[id][i] # "unwritten"
    PROVE  slot'[id][i] # "unwritten"
  <1> USE DEF RingTypeOK
  <1>1. CASE ChooseSlot(id)
    BY <1>1 DEF ChooseSlot
  <1>2. CASE FillSlot(id)
    BY <1>2 DEF FillSlot
  <1>3. CASE CopySlot(id)
    BY <1>3 DEF CopySlot
  <1>4. CASE UNCHANGED slot
    BY <1>4
  <1>5. RaiseLimit(id) \/ ClipLimit(id) \/ GiveFlag(id) \/ TakeFlag(id) \/ MoveOn(id)
          \/ BeginWait(id) => UNCHANGED slot
    BY DEF RaiseLimit, ClipLimit, GiveFlag, TakeFlag, MoveOn, BeginWait, shared
  <1> QED
    BY <1>1, <1>2, <1>3, <1>4, <1>5 DEF RingStep, writeToBuf, FinishWrite, readFromBuf

LEMMA FirstRoundStep ==
    ASSUME RingIndexInv, NEW id \in Id, RingStep(id), FirstRound(id)
    PROVE  AllWritten(id)' \/ FirstRound(id)'
  <1>1. /\ writeIndex[id] \in 0 .. Size /\ readIndex[id] \in 0 .. Size
        /\ lowerLimit[id] \in 0 - Size .. Size /\ newFlag[id] \in 0 .. MaxNew
        /\ writepoint[id] \in Slot /\ readpoint[id] \in Slot /\ Size \in Nat /\ Size >= 1
        /\ MaxNew \in Nat
    BY SizeType DEF RingIndexInv, RingTypeOK
  <1>2. \A i \in Slot : slot[id][i] # "unwritten" => slot'[id][i] # "unwritten"
    BY WrittenKept DEF RingIndexInv
  <1>3. \A i \in Slot : i < writeIndex[id] => slot'[id][i] # "unwritten"
    BY <1>2 DEF FirstRound
  <1>4. CASE ChooseSlot(id)
    <2>1. Wrapped(writeIndex[id]) = writeIndex[id]
      BY <1>1 DEF Wrapped, FirstRound
    <2>2. /\ writePc'[id] = "fill" /\ writepoint'[id] = writeIndex[id]
          /\ writeIndex'[id] = writeIndex[id] /\ writePc[id] = "idle"
          /\ UNCHANGED <<readIndex, lowerLimit, newFlag, readPc, readpoint>>
      BY <1>4, <2>1 DEF ChooseSlot, WriterGoes, reader, RingIndexInv, RingTypeOK
    <2> QED
      BY <1>3, <2>2 DEF FirstRound
  <1>5. CASE FillSlot(id)
    <2>1. /\ writePc'[id] = "raise" /\ writepoint[id] = writeIndex[id]
          /\ writeIndex'[id] = writeIndex[id] + 1 /\ writePc[id] = "fill"
          /\ slot'[id][writepoint[id]] = "unread"
          /\ UNCHANGED <<readIndex, lowerLimit, newFlag, readPc, readpoint>>
      BY <1>5 DEF FillSlot, WriterGoes, reader, RingIndexInv, RingTypeOK, FirstRound
    <2>2. \A i \in Slot : i < writeIndex'[id] => slot'[id][i] # "unwritten"
      <3> SUFFICES ASSUME NEW i \in Slot, i < writeIndex[id] + 1
                   PROVE  slot'[id][i] # "unwritten"
        BY <2>1
      <3>1. i < writeIndex[id] \/ i = writepoint[id]
        BY <1>1, <2>1 DEF Slot
      <3> QED
        BY <1>3, <2>1, <3>1
    <2>3. CASE writeIndex[id] + 1 = Size
      <3>1. \A i \in Slot : i < writeIndex'[id]
        BY <1>1, <2>1, <2>3 DEF Slot
      <3> QED
        BY <2>2, <3>1 DEF AllWritten
    <2>4. CASE writeIndex[id] + 1 # Size
      <3>1. writeIndex[id] + 1 < Size
        BY <1>1, <2>4 DEF FirstRound
      <3>2. /\ lowerLimit[id] + Size = writeIndex[id]
            /\ readIndex[id] = 0 \/ readIndex[id] < writeIndex[id] + 1
        BY <1>1, <2>1 DEF FirstRound
      <3>3. writeIndex'[id] < Size /\ writeIndex'[id] > 0
        BY <1>1, <2>1, <3>1
      <3>4. lowerLimit'[id] + Size = writeIndex'[id] - 1
        BY <1>1, <2>1, <3>2
      <3> QED
        BY <2>1, <2>2, <3>2, <3>3, <3>4 DEF FirstRound
    <2> QED
      BY <2>3, <2>4
  <1>6. CASE RaiseLimit(id)
    <2>1. /\ writePc'[id] = "clip" /\ writePc[id] = "raise"
          /\ lowerLimit'[id] = lowerLimit[id] + 1
          /\ UNCHANGED <<slot, writeIndex, writepoint, readIndex, newFlag, readPc, readpoint>>
      BY <1>6 DEF RaiseLimit, WriterGoes, reader, RingIndexInv, RingTypeOK
    <2>2. lowerLimit'[id] + Size = writeIndex[id]
      BY <1>1, <2>1 DEF FirstRound
    <2> QED
      BY <1>3, <2>1, <2>2, <1>1 DEF FirstRound
  <1>7. CASE ClipLimit(id)
    <2>1. Wrapped(lowerLimit[id]) = lowerLimit[id]
      BY <1>1, <1>7 DEF Wrapped, FirstRound, ClipLimit, WriterGoes
    <2>2. /\ writePc'[id] = "give" /\ writePc[id] = "clip"
          /\ lowerLimit'[id] = lowerLimit[id]
          /\ UNCHANGED <<slot, writeIndex, writepoint, readIndex, newFlag, readPc, readpoint>>
      BY <1>7, <2>1 DEF ClipLimit, WriterGoes, reader, RingIndexInv, RingTypeOK
    <2> QED
      BY <1>3, <2>2 DEF FirstRound
  <1>8. CASE GiveFlag(id)
    <2>1. /\ writePc'[id] = "idle" /\ writePc[id] = "give"
          /\ UNCHANGED <<slot, writeIndex, writepoint, readIndex, lowerLimit, readPc, readpoint>>
      BY <1>8 DEF GiveFlag, WriterGoes, reader, RingIndexInv, RingTypeOK
    <2> QED
      BY <1>3, <2>1 DEF FirstRound
  <1>9. CASE TakeFlag(id)
    <2>1. Wrapped(readIndex[id]) = readIndex[id]
      BY <1>1 DEF Wrapped, FirstRound
    <2>2. /\ readPc'[id] = "copy" /\ newFlag[id] > 0
          /\ readIndex'[id] = readIndex[id] /\ readpoint'[id] = readIndex[id]
          /\ UNCHANGED <<slot, writeIndex, writepoint, writePc, lowerLimit>>
      BY <1>9, <2>1 DEF TakeFlag, ReaderGoes, writer, RingIndexInv, RingTypeOK
    <2> QED
      BY <1>3, <2>2 DEF FirstRound
  <1>10. CASE CopySlot(id)
    <2>1. /\ readPc'[id] = "check" /\ readPc[id] = "copy"
          /\ UNCHANGED <<writeIndex, writepoint, writePc, lowerLimit, readIndex, newFlag, readpoint>>
      BY <1>10 DEF CopySlot, ReaderGoes, writer, RingIndexInv, RingTypeOK
    <2> QED
      BY <1>3, <2>1 DEF FirstRound
  <1>11. CASE MoveOn(id)
    <2>1. /\ readPc'[id] = "idle" /\ readPc[id] = "check"
          /\ readIndex'[id] = IF readpoint[id] + 1 < lowerLimit[id] + Size
                              THEN readIndex[id] + 1 ELSE readIndex[id]
          /\ UNCHANGED <<slot, writeIndex, writepoint, writePc, lowerLimit, newFlag, readpoint>>
      BY <1>11 DEF MoveOn, ReaderGoes, writer, RingIndexInv, RingTypeOK
    <2>2. readpoint[id] = readIndex[id] /\ lowerLimit[id] + Size <= writeIndex[id]
      BY <1>1, <2>1 DEF FirstRound
    <2>3. readIndex'[id] = 0 \/ readIndex'[id] < writeIndex[id]
      BY <1>1, <2>1, <2>2 DEF FirstRound
    <2> QED
      BY <1>3, <2>1, <2>3 DEF FirstRound
  <1>12. CASE BeginWait(id)
    <2>1. /\ readPc'[id] = "take"
          /\ UNCHANGED <<slot, writeIndex, writepoint, writePc, lowerLimit, readIndex, newFlag>>
      BY <1>12 DEF BeginWait, ReaderGoes, writer, shared, RingIndexInv, RingTypeOK
    <2> QED
      BY <1>3, <2>1 DEF FirstRound
  <1> QED
    BY <1>4, <1>5, <1>6, <1>7, <1>8, <1>9, <1>10, <1>11, <1>12
       DEF RingStep, writeToBuf, FinishWrite, readFromBuf

LEMMA RoundStep ==
    ASSUME RingIndexInv, RoundInv, NEW id \in Id, RingStep(id)
    PROVE  RoundInv'
  <1>1. AllWritten(id)' \/ FirstRound(id)'
    <2>1. CASE AllWritten(id)
      BY <2>1, WrittenKept DEF AllWritten, RingIndexInv
    <2>2. CASE FirstRound(id)
      BY <2>2, FirstRoundStep
    <2> QED
      BY <2>1, <2>2 DEF RoundInv
  <1>2. ASSUME NEW other \in Id, other # id PROVE AllWritten(other)' \/ FirstRound(other)'
    <2>1. RingSame(other)
      BY <1>2, OthersSame DEF RingIndexInv
    <2>2. AllWritten(other) \/ FirstRound(other)
      BY DEF RoundInv
    <2> QED
      BY <2>1, <2>2 DEF RingSame, AllWritten, FirstRound
  <1> QED
    BY <1>1, <1>2 DEF RoundInv

LEMMA RoundRead == RingIndexInv /\ RoundInv => NeverReadsUnwritten
  <1> SUFFICES ASSUME RingIndexInv, RoundInv, NEW id \in Id, readPc[id] = "copy"
               PROVE  slot[id][readpoint[id]] # "unwritten"
    BY DEF NeverReadsUnwritten
  <1>1. readpoint[id] \in Slot /\ writeIndex[id] \in 0 .. Size /\ Size \in Nat
    BY SizeType DEF RingIndexInv, RingTypeOK
  <1>2. CASE AllWritten(id)
    BY <1>1, <1>2 DEF AllWritten
  <1>3. CASE FirstRound(id)
    <2>1. readpoint[id] < writeIndex[id]
      BY <1>1, <1>3 DEF FirstRound
    <2> QED
      BY <1>1, <1>3, <2>1 DEF FirstRound
  <1> QED
    BY <1>2, <1>3 DEF RoundInv

LEMMA RingUnchanged ==
    ASSUME RingIndexInv, RoundInv, UNCHANGED ringVars
    PROVE  RingIndexInv' /\ RoundInv'
  <1> USE DEF ringVars, shared, writer, reader
  <1>1. RingIndexInv'
    BY DEF RingIndexInv, RingTypeOK, IndexInv
  <1>2. RoundInv'
    BY DEF RoundInv, AllWritten, FirstRound
  <1> QED
    BY <1>1, <1>2

LEMMA RingStart ==
    ASSUME slot = [id \in Id |-> [i \in Slot |-> "unwritten"]],
           writeIndex = [id \in Id |-> 0], readIndex = [id \in Id |-> 0],
           lowerLimit = [id \in Id |-> 0 - Size], newFlag = [id \in Id |-> 0],
           writePc = [id \in Id |-> "idle"], writepoint = [id \in Id |-> 0],
           readPc \in [Id -> {"idle", "take"}], readpoint = [id \in Id |-> 0]
    PROVE  RingIndexInv /\ RoundInv
  <1>1. /\ 0 \in Slot /\ 0 \in 0 .. Size /\ 0 \in 0 .. MaxNew /\ 0 < Size
        /\ 0 - Size \in 0 - Size .. Size /\ 0 - Size < Size /\ (0 - Size) + Size = 0
    BY SizeType DEF Slot
  <1>2. RingTypeOK
    BY <1>1 DEF RingTypeOK, PacketState
  <1>3. \A id \in Id : IndexInv(id)
    BY <1>1 DEF IndexInv
  <1>4. RoundInv
    <2> SUFFICES ASSUME NEW id \in Id PROVE FirstRound(id)
      BY DEF RoundInv
    <2>1. \A i \in Slot : ~(i < 0)
      BY SizeType DEF Slot
    <2>2. /\ writeIndex[id] = 0 /\ lowerLimit[id] = 0 - Size /\ newFlag[id] = 0
          /\ writePc[id] = "idle" /\ readPc[id] \in {"idle", "take"} /\ readIndex[id] = 0
      OBVIOUS
    <2> QED
      BY <1>1, <2>1, <2>2 DEF FirstRound
  <1> QED
    BY <1>2, <1>3, <1>4 DEF RingIndexInv

-----------------------------------------------------------------------------
(* The transmit side.                                                      *)

(***************************************************************************)
(* How far the two loops have come says what is on the wire.               *)
(***************************************************************************)
LinkInv ==
    /\ outPc \in {"syn", "wait", "look", "read"} /\ next \in DOMAIN IdOrder
    /\ inPc \in {"ack", "config", "signal", "extract"} /\ handshakeRecieved \in BOOLEAN
    /\ wire \subseteq {"SYN", "config", "data", "text"}
    /\ inPc \in {"signal", "extract"} \/ outPc \in {"look", "read"} => "config" \in wire
    /\ handshakeRecieved => "config" \in wire
    /\ ConfigFirst

(* What sendPackets waits for without a timeout is there. *)
LinkRingStep(id) ==
    \/ writeToBuf(id) \/ readFromBuf(id)
    \/ BeginWait(id) /\ newFlag[id] > 0

TransmitInv == RingIndexInv /\ RoundInv /\ LinkInv /\ SendingNeverBlocks

LEMMA IdOrderType ==
    /\ 1 \in DOMAIN IdOrder
    /\ \A n \in DOMAIN IdOrder : /\ IdOrder[n] \in Id
                                 /\ n # Len(IdOrder) => n + 1 \in DOMAIN IdOrder
  <1>1. IdOrder \in Seq(Id) /\ IdOrder # <<>>
    BY IdOrderAssumption
  <1>2. Len(IdOrder) \in Nat /\ DOMAIN IdOrder = 1 .. Len(IdOrder) /\ Len(IdOrder) # 0
    BY <1>1, LenProperties, EmptySeq
  <1>3. \A n \in DOMAIN IdOrder : IdOrder[n] \in Id
    BY <1>1, <1>2, ElementOfSeq
  <1> QED
    BY <1>2, <1>3

LEMMA TransmitInvInit == Init => TransmitInv
  <1> SUFFICES ASSUME Init PROVE TransmitInv
    OBVIOUS
  <1>1. RingInit
    BY DEF Init
  <1>2. RingIndexInv /\ RoundInv
    <2>1. readPc \in [Id -> {"idle", "take"}]
      BY <1>1 DEF RingInit
    <2> QED
      BY <1>1, <2>1, RingStart DEF RingInit
  <1>3. LinkInv
    BY IdOrderType DEF Init, LinkInv, ConfigFirst
  <1>4. SendingNeverBlocks
    BY <1>1 DEF SendingNeverBlocks, RingInit
  <1> QED
    BY <1>2, <1>3, <1>4 DEF TransmitInv

LEMMA NextRingStep ==
    ASSUME next \in DOMAIN IdOrder, [Next]_vars
    PROVE  UNCHANGED ringVars \/ \E id \in Id : LinkRingStep(id)
  <1>1. IdOrder[next] \in Id
    BY IdOrderType
  <1>2. ASSUME Send PROVE \E id \in Id : LinkRingStep(id)
    BY <1>2 DEF Send, LinkRingStep
  <1>3. ASSUME Look PROVE \E id \in Id : LinkRingStep(id)
    <2>1. BeginWait(IdOrder[next]) /\ newFlag[IdOrder[next]] > 0
      BY <1>3 DEF Look, BeginWait
    <2> QED
      BY <1>1, <2>1 DEF LinkRingStep
  <1>4. ASSUME Read PROVE \E id \in Id : LinkRingStep(id)
    BY <1>1, <1>4 DEF Read, LinkRingStep
  <1>5. PrintText \/ inputLoop \/ SendSyn \/ AwaitHandshake \/ Skip \/ putPacket \/ UNCHANGED vars
           => UNCHANGED ringVars
    BY DEF PrintText, inputLoop, ReceiveAck, putConfigPacket, Signal, SendSyn, AwaitHandshake, Skip,
           putPacket, vars
  <1> QED
    BY <1>2, <1>3, <1>4, <1>5 DEF Next, outputLoop, sendPackets

LEMMA NeverBlocksStep ==
    ASSUME RingTypeOK, SendingNeverBlocks, NEW id \in Id, LinkRingStep(id)
    PROVE  SendingNeverBlocks'
  <1> SUFFICES ASSUME NEW other \in Id, readPc'[other] = "take" PROVE newFlag'[other] > 0
    BY DEF SendingNeverBlocks
  <1>1. newFlag[other] \in 0 .. MaxNew /\ MaxNew \in Nat
    BY SizeType DEF RingTypeOK
  <1>2. CASE other # id
    <2>1. RingSame(other)
      BY <1>2, OthersSame DEF LinkRingStep, RingStep
    <2> QED
      BY <2>1 DEF RingSame, SendingNeverBlocks
  <1>3. CASE other = id
    <2>1. CASE writeToBuf(id)
      <3>1. readPc' = readPc
        BY <2>1 DEF writeToBuf, FinishWrite, ChooseSlot, FillSlot, RaiseLimit, ClipLimit,
                    GiveFlag, reader
      <3>2. newFlag' = newFlag \/ GiveFlag(id)
        BY <2>1 DEF writeToBuf, FinishWrite, ChooseSlot, FillSlot, RaiseLimit, ClipLimit
      <3>3. newFlag[id] > 0
        BY <1>3, <3>1 DEF SendingNeverBlocks
      <3>4. GiveFlag(id) => newFlag'[id] = IF newFlag[id] = MaxNew THEN newFlag[id]
                                           ELSE newFlag[id] + 1
        BY DEF GiveFlag, RingTypeOK
      <3> QED
        BY <1>1, <1>3, <3>2, <3>3, <3>4
    <2>2. CASE readFromBuf(id)
      <3>1. readPc'[id] # "take"
        BY <2>2 DEF readFromBuf, TakeFlag, CopySlot, MoveOn, ReaderGoes, RingTypeOK
      <3> QED
        BY <1>3, <3>1
    <2>3. CASE BeginWait(id) /\ newFlag[id] > 0
      BY <1>3, <2>3 DEF BeginWait, shared
    <2> QED
      BY <2>1, <2>2, <2>3 DEF LinkRingStep
  <1> QED
    BY <1>2, <1>3

LEMMA LinkInvStep == LinkInv /\ [Next]_vars => LinkInv'
  <1> SUFFICES ASSUME LinkInv, [Next]_vars PROVE LinkInv'
    OBVIOUS
  <1> USE DEF LinkInv, ConfigFirst
  <1>1. CASE Send \/ Read \/ UNCHANGED vars
    <2>1. UNCHANGED <<outPc, next, inPc, handshakeRecieved, wire>>
      BY <1>1 DEF Send, Read, vars, linkVars
    <2> QED
      BY <2>1
  <1>2. CASE ReceiveAck
    BY <1>2 DEF ReceiveAck
  <1>3. CASE putConfigPacket
    BY <1>3 DEF putConfigPacket
  <1>4. CASE Signal
    BY <1>4 DEF Signal
  <1>5. CASE SendSyn
    BY <1>5 DEF SendSyn
  <1>6. CASE AwaitHandshake
    BY <1>6 DEF AwaitHandshake
  <1>7. Following \in DOMAIN IdOrder
    BY IdOrderType DEF Following
  <1>8. CASE Skip
    BY <1>7, <1>8 DEF Skip
  <1>9. CASE Look
    BY <1>9 DEF Look
  <1>10. CASE putPacket
    BY <1>7, <1>10 DEF putPacket
  <1>11. CASE PrintText
    BY <1>11 DEF PrintText
  <1> QED
    BY <1>1, <1>2, <1>3, <1>4, <1>5, <1>6, <1>8, <1>9, <1>10, <1>11
       DEF Next, inputLoop, outputLoop, sendPackets

LEMMA TransmitInvStep == TransmitInv /\ [Next]_vars => TransmitInv'
  <1> SUFFICES ASSUME TransmitInv, [Next]_vars PROVE TransmitInv'
    OBVIOUS
  <1>1. RingIndexInv /\ RoundInv /\ LinkInv /\ SendingNeverBlocks /\ RingTypeOK
    BY DEF TransmitInv, RingIndexInv
  <1>2. LinkInv'
    BY <1>1, LinkInvStep
  <1>3. CASE UNCHANGED ringVars
    <2>1. SendingNeverBlocks'
      BY <1>1, <1>3 DEF SendingNeverBlocks, ringVars, shared, reader
    <2> QED
      BY <1>1, <1>2, <1>3, <2>1, RingUnchanged DEF TransmitInv
  <1>4. ASSUME NEW id \in Id, LinkRingStep(id) PROVE TransmitInv'
    <2>1. RingStep(id)
      BY <1>4 DEF LinkRingStep, RingStep
    <2> QED
      BY <1>1, <1>2, <1>4, <2>1, RingIndexStep, RoundStep, NeverBlocksStep DEF TransmitInv
  <1> QED
    BY <1>1, <1>3, <1>4, NextRingStep DEF LinkInv

LEMMA TransmitInvariant == Spec => []TransmitInv
  BY TransmitInvInit, TransmitInvStep, PTL DEF Spec

(***************************************************************************)
(* Whatever the tasks write and whenever sendPackets comes round, every    *)
(* index, limit and count of the rings stays within its bounds.            *)
(***************************************************************************)
THEOREM SimTransmitTypeCorrect == Spec => []TypeOK
  <1>1. TransmitInv => TypeOK
    BY DEF TransmitInv, RingIndexInv, LinkInv, TypeOK
  <1> QED
    BY <1>1, TransmitInvariant, PTL

(***************************************************************************)
(* readFromBuf never hands out a packet that no task has begun to write.   *)
(***************************************************************************)
THEOREM SimReadsOnlyWritten == Spec => []NeverReadsUnwritten
  <1>1. TransmitInv => NeverReadsUnwritten
    BY RoundRead DEF TransmitInv
  <1> QED
    BY <1>1, TransmitInvariant, PTL

(***************************************************************************)
(* No packet that a task wrote during the handshake overtakes the config   *)
(* packet, for any ids and rings of any size.                              *)
(***************************************************************************)
THEOREM SimConfigFirst == Spec => []ConfigFirst
  <1>1. TransmitInv => ConfigFirst
    BY DEF TransmitInv, LinkInv
  <1> QED
    BY <1>1, TransmitInvariant, PTL

(***************************************************************************)
(* sendPackets is never stuck on the semaphore of one id.                  *)
(***************************************************************************)
THEOREM SimSendingNeverBlocks == Spec => []SendingNeverBlocks
  <1>1. TransmitInv => SendingNeverBlocks
    BY DEF TransmitInv
  <1> QED
    BY <1>1, TransmitInvariant, PTL

-----------------------------------------------------------------------------
(* The receive side.                                                       *)

(***************************************************************************)
(* inputLoop writes a packet only while the reader waits, and the reader   *)
(* has read it before the next one is written.                             *)
(***************************************************************************)
TurnsInv(id) ==
    /\ writePc[id] # "idle" => readPc[id] = "take" /\ newFlag[id] = 0
    /\ newFlag[id] > 0 => newFlag[id] = 1 /\ readPc[id] = "take" /\ writePc[id] = "idle"

Waiting(id) == writePc[id] # "idle" \/ newFlag[id] > 0 \/ readPc[id] \in {"copy", "check"}

(* The slot that the next read, or the present one, is of. *)
Held(id) == Wrapped(readIndex[id])

(* The packet being read is the newest one, the reader the one before. *)
Fresh(id) == got[id] = NoPacketYet

(* Nothing waits: the newest packet is the one that is held back. *)
QuietInv(id) ==
    IF Fresh(id)
    THEN writeIndex[id] = 0 /\ readIndex[id] = 0 /\ lowerLimit[id] = 0 - Size
    ELSE /\ writeIndex[id] >= 1 /\ Held(id) = writeIndex[id] - 1
         /\ content[id][Held(id)] = extracted[id]
         /\ \/ lowerLimit[id] = writeIndex[id] - Size
            \/ lowerLimit[id] = writeIndex[id] /\ writeIndex[id] < Size

(* A packet is being written: the one before it is the one held back. *)
FillInv(id) ==
    /\ writepoint[id] = writeIndex[id]
    /\ IF Fresh(id)
       THEN writeIndex[id] = 0 /\ readIndex[id] = 0 /\ lowerLimit[id] = 0 - Size
       ELSE \/ /\ writeIndex[id] >= 1 /\ Held(id) = writeIndex[id] - 1
               /\ \/ lowerLimit[id] = writeIndex[id] - Size
                  \/ lowerLimit[id] = writeIndex[id]
            \/ writeIndex[id] = 0 /\ Held(id) = Size - 1 /\ lowerLimit[id] = 0

(* A packet is written and not answered yet. *)
Raised(id) == lowerLimit[id] + (IF writePc[id] = "raise" THEN 1 ELSE 0)

WrittenInv(id) ==
    /\ writeIndex[id] >= 1 /\ content[id][writeIndex[id] - 1] = extracted[id]
    /\ IF Fresh(id)
       THEN writeIndex[id] = 1 /\ readIndex[id] = 0 /\ Raised(id) = 1 - Size
       ELSE \/ /\ writeIndex[id] >= 2 /\ Held(id) = writeIndex[id] - 2
               /\ \/ Raised(id) = writeIndex[id] - Size
                  \/ /\ Raised(id) = writeIndex[id]
                     /\ (writeIndex[id] < Size \/ writePc[id] \in {"raise", "clip"})
            \/ writeIndex[id] = 1 /\ Held(id) = Size - 1 /\ Raised(id) = 1

LineInv(id) ==
    /\ TurnsInv(id)
    /\ Waiting(id) => extracted[id] \in Packet
    /\ ~Fresh(id) => content[id][Held(id)] \in Packet
    /\ readPc[id] \in {"copy", "check"} => readIndex[id] = readpoint[id]
    /\ readPc[id] = "check" => copied[id] = content[id][readpoint[id]]
    /\ ~Waiting(id) => QuietInv(id)
    /\ writePc[id] = "fill" => FillInv(id)
    /\ Waiting(id) /\ writePc[id] # "fill" => WrittenInv(id)

SimRxInv == SimRxTypeOK /\ RingIndexInv /\ \A id \in Id : LineInv(id)

LEMMA SimRxTypeParts ==
    SimRxTypeOK <=> /\ RingTypeOK
                    /\ content \in [Id -> [Slot -> Packet \cup {NoPacketYet}]]
                    /\ copied \in [Id -> Packet \cup {NoPacketYet}]
                    /\ got \in [Id -> Packet \cup {NoPacketYet}]
                    /\ extracted \in [Id -> Packet \cup {NoPacketYet}]
  BY DEF SimRxTypeOK

(* The values that the invariant is about, for one id. *)
LEMMA LineTypes ==
    ASSUME SimRxInv, NEW id \in Id
    PROVE  /\ writeIndex[id] \in 0 .. Size /\ readIndex[id] \in 0 .. Size
           /\ lowerLimit[id] \in 0 - Size .. Size /\ newFlag[id] \in 0 .. MaxNew
           /\ writePc[id] \in {"idle", "fill", "raise", "clip", "give"}
           /\ readPc[id] \in {"idle", "take", "copy", "check"}
           /\ writepoint[id] \in Slot /\ readpoint[id] \in Slot
           /\ Held(id) \in Slot
           /\ \A i \in Slot : content[id][i] \in Packet \cup {NoPacketYet}
           /\ got[id] \in Packet \cup {NoPacketYet} /\ extracted[id] \in Packet \cup {NoPacketYet}
           /\ IndexInv(id) /\ LineInv(id) /\ RingTypeOK
           /\ content \in [Id -> [Slot -> Packet \cup {NoPacketYet}]]
           /\ copied \in [Id -> Packet \cup {NoPacketYet}]
           /\ got \in [Id -> Packet \cup {NoPacketYet}]
           /\ extracted \in [Id -> Packet \cup {NoPacketYet}]
  <1>1. /\ RingTypeOK /\ RingIndexInv /\ LineInv(id)
        /\ content \in [Id -> [Slot -> Packet \cup {NoPacketYet}]]
        /\ copied \in [Id -> Packet \cup {NoPacketYet}]
        /\ got \in [Id -> Packet \cup {NoPacketYet}]
        /\ extracted \in [Id -> Packet \cup {NoPacketYet}]
    BY SimRxTypeParts DEF SimRxInv
  <1>2. /\ writeIndex[id] \in 0 .. Size /\ readIndex[id] \in 0 .. Size
        /\ lowerLimit[id] \in 0 - Size .. Size /\ newFlag[id] \in 0 .. MaxNew
        /\ writePc[id] \in {"idle", "fill", "raise", "clip", "give"}
        /\ readPc[id] \in {"idle", "take", "copy", "check"}
        /\ writepoint[id] \in Slot /\ readpoint[id] \in Slot
    BY <1>1 DEF RingTypeOK
  <1>3. Held(id) \in Slot
    BY <1>2, WrappedType DEF Held
  <1>4. IndexInv(id)
    BY <1>1 DEF RingIndexInv
  <1> QED
    BY <1>1, <1>2, <1>3, <1>4

(***************************************************************************)
(* What the steps of one id mean to the line: nothing, that a packet is    *)
(* sent, or that one is handed over.                                       *)
(***************************************************************************)
HeldBack(id) == IF Fresh(id) THEN NoPacketYet ELSE content[id][Held(id)]

Nothing(id) ==
    /\ Waiting(id)' = Waiting(id) /\ HeldBack(id)' = HeldBack(id)
    /\ got' = got /\ extracted' = extracted

Sent(id, p) ==
    /\ ~Waiting(id) /\ Waiting(id)' /\ HeldBack(id)' = HeldBack(id) /\ got' = got
    /\ extracted' = [extracted EXCEPT ![id] = p]

HandedOver(id) ==
    /\ Waiting(id) /\ ~Waiting(id)' /\ HeldBack(id)' = extracted[id]
    /\ got' = [got EXCEPT ![id] = IF HeldBack(id) = NoPacketYet THEN extracted[id]
                                  ELSE HeldBack(id)]
    /\ extracted' = extracted

LEMMA ExtractLine ==
    ASSUME SimRxInv, NEW id \in Id, NEW p \in Packet, Extract(id, p)
    PROVE  LineInv(id)' /\ Sent(id, p)
  <1>1. /\ writeIndex[id] \in 0 .. Size /\ readIndex[id] \in 0 .. Size
        /\ lowerLimit[id] \in 0 - Size .. Size /\ newFlag[id] \in 0 .. MaxNew
        /\ Size \in Nat /\ Size >= 1 /\ LineInv(id) /\ RingTypeOK
        /\ extracted \in [Id -> Packet \cup {NoPacketYet}]
    BY LineTypes, SizeType
  <1> DEFINE w == Wrapped(writeIndex[id])
  <1>2. /\ readPc[id] = "take" /\ newFlag[id] = 0 /\ writePc[id] = "idle"
        /\ writePc'[id] = "fill" /\ writepoint'[id] = w /\ writeIndex'[id] = w
        /\ UNCHANGED <<readIndex, lowerLimit, newFlag, readPc, readpoint>>
        /\ extracted' = [extracted EXCEPT ![id] = p] /\ UNCHANGED <<content, copied, got>>
    BY <1>1 DEF Extract, ReadersWait, ChooseSlot, WriterGoes, reader, RingTypeOK
  <1>3. extracted'[id] = p
    BY <1>1, <1>2
  <1>4. w = IF writeIndex[id] = Size THEN 0 ELSE writeIndex[id]
    BY <1>1 DEF Wrapped
  <1> HIDE DEF w
  <1>5. ~Waiting(id) /\ QuietInv(id) /\ (~Fresh(id) => content[id][Held(id)] \in Packet)
    BY <1>1, <1>2 DEF Waiting, LineInv
  <1>6. Held(id)' = Held(id) /\ Fresh(id)' = Fresh(id)
    BY <1>2 DEF Held, Fresh, Wrapped
  <1>7. FillInv(id)'
    <2>1. CASE Fresh(id)
      BY <1>1, <1>2, <1>4, <1>5, <1>6, <2>1 DEF FillInv, QuietInv
    <2>2. CASE ~Fresh(id)
      <3>1. /\ writeIndex[id] >= 1 /\ Held(id) = writeIndex[id] - 1
            /\ \/ lowerLimit[id] = writeIndex[id] - Size
               \/ lowerLimit[id] = writeIndex[id] /\ writeIndex[id] < Size
        BY <1>5, <2>2 DEF QuietInv
      <3>2. \/ /\ w >= 1 /\ Held(id) = w - 1
               /\ (lowerLimit[id] = w - Size \/ lowerLimit[id] = w)
            \/ w = 0 /\ Held(id) = Size - 1 /\ lowerLimit[id] = 0
        BY <1>1, <1>4, <3>1
      <3> QED
        BY <1>2, <1>6, <2>2, <3>2 DEF FillInv
    <2> QED
      BY <2>1, <2>2
  <1>8. Waiting(id)' /\ TurnsInv(id)'
    BY <1>2 DEF Waiting, TurnsInv
  <1>9. (~Fresh(id) => content[id][Held(id)] \in Packet)'
    BY <1>2, <1>5, <1>6
  <1>10. LineInv(id)'
    BY <1>2, <1>3, <1>7, <1>8, <1>9 DEF LineInv
  <1>11. HeldBack(id)' = HeldBack(id)
    BY <1>2, <1>6 DEF HeldBack
  <1> QED
    BY <1>2, <1>5, <1>8, <1>10, <1>11 DEF Sent

LEMMA FillLine ==
    ASSUME Size >= 2, SimRxInv, NEW id \in Id, Fill(id)
    PROVE  LineInv(id)' /\ Nothing(id)
  <1>1. /\ writeIndex[id] \in 0 .. Size /\ readIndex[id] \in 0 .. Size
        /\ lowerLimit[id] \in 0 - Size .. Size
        /\ Size \in Nat /\ LineInv(id) /\ RingTypeOK
        /\ writepoint[id] \in Slot /\ Held(id) \in Slot /\ IndexInv(id)
        /\ content \in [Id -> [Slot -> Packet \cup {NoPacketYet}]]
    BY LineTypes, SizeType
  <1> DEFINE w == writeIndex[id]
  <1>2. /\ readPc[id] = "take" /\ newFlag[id] = 0 /\ writePc[id] = "fill"
        /\ writePc'[id] = "raise" /\ writeIndex'[id] = w + 1
        /\ UNCHANGED <<readIndex, lowerLimit, newFlag, readPc, readpoint>>
        /\ UNCHANGED <<extracted, copied, got>>
        /\ content' = [content EXCEPT ![id][writepoint[id]] = extracted[id]]
    BY <1>1 DEF Fill, ReadersWait, FillSlot, WriterGoes, reader, RingTypeOK
  <1>3. FillInv(id) /\ Waiting(id) /\ extracted[id] \in Packet /\ w < Size
    BY <1>1, <1>2 DEF LineInv, Waiting, IndexInv
  <1>4. Held(id)' = Held(id) /\ Fresh(id)' = Fresh(id)
    BY <1>2 DEF Held, Fresh, Wrapped
  <1>5. writepoint[id] = w
    BY <1>3 DEF FillInv
  <1>6. /\ content'[id][w] = extracted[id]
        /\ \A i \in Slot : i # w => content'[id][i] = content[id][i]
    BY <1>1, <1>2, <1>5
  <1>7. ~Fresh(id) => Held(id) # w
    <2> SUFFICES ASSUME ~Fresh(id) PROVE Held(id) # w
      OBVIOUS
    <2>1. (w >= 1 /\ Held(id) = w - 1) \/ (w = 0 /\ Held(id) = Size - 1)
      BY <1>3 DEF FillInv
    <2> QED
      BY <1>1, <2>1
  <1>8. ~Fresh(id) => content'[id][Held(id)] = content[id][Held(id)]
    BY <1>1, <1>6, <1>7
  <1>9. WrittenInv(id)'
    <2>1. writeIndex'[id] >= 1 /\ content'[id][writeIndex'[id] - 1] = extracted'[id]
      <3>1. w + 1 >= 1 /\ (w + 1) - 1 = w
        BY <1>1
      <3> QED
        BY <1>2, <1>6, <3>1
    <2>2. Raised(id)' = lowerLimit[id] + 1
      BY <1>2 DEF Raised
    <2>3. CASE Fresh(id)
      <3>1. w = 0 /\ readIndex[id] = 0 /\ lowerLimit[id] = 0 - Size
        BY <1>3, <2>3 DEF FillInv
      <3>2. w + 1 = 1 /\ lowerLimit[id] + 1 = 1 - Size
        BY <1>1, <3>1
      <3> QED
        BY <1>2, <1>4, <2>1, <2>2, <2>3, <3>1, <3>2 DEF WrittenInv
    <2>4. CASE ~Fresh(id)
      <3>1. \/ /\ w >= 1 /\ Held(id) = w - 1
               /\ (lowerLimit[id] = w - Size \/ lowerLimit[id] = w)
            \/ w = 0 /\ Held(id) = Size - 1 /\ lowerLimit[id] = 0
        BY <1>3, <2>4 DEF FillInv
      <3>2. \/ /\ w + 1 >= 2 /\ Held(id) = (w + 1) - 2
               /\ (lowerLimit[id] + 1 = (w + 1) - Size \/ lowerLimit[id] + 1 = w + 1)
            \/ w + 1 = 1 /\ Held(id) = Size - 1 /\ lowerLimit[id] + 1 = 1
        BY <1>1, <3>1
      <3> QED
        BY <1>2, <1>4, <2>1, <2>2, <2>4, <3>2 DEF WrittenInv
    <2> QED
      BY <2>3, <2>4
  <1>10. Waiting(id)' /\ TurnsInv(id)'
    BY <1>2 DEF Waiting, TurnsInv
  <1>11. (~Fresh(id) => content[id][Held(id)] \in Packet)'
    BY <1>1, <1>2, <1>4, <1>8 DEF LineInv
  <1>12. LineInv(id)'
    BY <1>2, <1>3, <1>9, <1>10, <1>11 DEF LineInv
  <1>13. HeldBack(id)' = HeldBack(id)
    BY <1>2, <1>4, <1>8 DEF HeldBack
  <1> QED
    BY <1>2, <1>3, <1>10, <1>12, <1>13 DEF Nothing

LEMMA PublishLine ==
    ASSUME Size >= 2, SimRxInv, NEW id \in Id, Publish(id)
    PROVE  LineInv(id)' /\ Nothing(id)
  <1>1. /\ writeIndex[id] \in 0 .. Size /\ readIndex[id] \in 0 .. Size
        /\ lowerLimit[id] \in 0 - Size .. Size /\ newFlag[id] \in 0 .. MaxNew
        /\ Size \in Nat /\ LineInv(id) /\ RingTypeOK /\ MaxNew \in Nat /\ MaxNew >= 1
    BY LineTypes, SizeType
  <1>2. /\ readPc[id] = "take" /\ newFlag[id] = 0
        /\ UNCHANGED <<writeIndex, readIndex, readPc, readpoint>>
        /\ UNCHANGED <<content, copied, got, extracted>>
    BY DEF Publish, ReadersWait, RaiseLimit, ClipLimit, GiveFlag, reader, packets
  <1>3. \/ /\ writePc[id] = "raise" /\ writePc'[id] = "clip" /\ newFlag'[id] = newFlag[id]
           /\ lowerLimit'[id] = lowerLimit[id] + 1
        \/ /\ writePc[id] = "clip" /\ writePc'[id] = "give" /\ newFlag'[id] = newFlag[id]
           /\ lowerLimit'[id] = Wrapped(lowerLimit[id])
        \/ /\ writePc[id] = "give" /\ writePc'[id] = "idle" /\ newFlag'[id] = 1
           /\ lowerLimit'[id] = lowerLimit[id]
    <2>1. CASE RaiseLimit(id)
      BY <1>1, <2>1 DEF RaiseLimit, WriterGoes, RingTypeOK
    <2>2. CASE ClipLimit(id)
      BY <1>1, <2>2 DEF ClipLimit, WriterGoes, RingTypeOK
    <2>3. CASE GiveFlag(id)
      BY <1>1, <1>2, <2>3 DEF GiveFlag, WriterGoes, RingTypeOK
    <2> QED
      BY <2>1, <2>2, <2>3 DEF Publish
  <1>4. Held(id)' = Held(id) /\ Fresh(id)' = Fresh(id) /\ HeldBack(id)' = HeldBack(id)
    BY <1>2 DEF Held, Fresh, HeldBack, Wrapped
  <1>5. Waiting(id) /\ WrittenInv(id) /\ extracted[id] \in Packet
    BY <1>1, <1>3 DEF LineInv, Waiting
  <1>6. Waiting(id)' /\ TurnsInv(id)'
    BY <1>2, <1>3 DEF Waiting, TurnsInv
  <1>7. WrittenInv(id)'
    <2>1. CASE writePc[id] = "raise"
      <3>1. Raised(id)' = Raised(id)
        BY <1>1, <1>3, <2>1 DEF Raised
      <3>2. writePc'[id] = "clip"
        BY <1>3, <2>1
      <3> QED
        BY <1>2, <1>4, <1>5, <3>1, <3>2 DEF WrittenInv
    <2>2. CASE writePc[id] = "clip"
      <3>1. Raised(id) = lowerLimit[id] /\ Raised(id)' = Wrapped(lowerLimit[id])
        BY <1>1, <1>3, <2>2 DEF Raised, Wrapped
      <3>2. Raised(id)' = IF lowerLimit[id] = Size THEN 0 ELSE lowerLimit[id]
        BY <1>1, <3>1 DEF Wrapped
      <3>3. CASE Fresh(id)
        BY <1>1, <1>2, <1>4, <1>5, <3>1, <3>2, <3>3 DEF WrittenInv
      <3>4. CASE ~Fresh(id)
        <4>1. \/ /\ writeIndex[id] >= 2 /\ Held(id) = writeIndex[id] - 2
                 /\ \/ lowerLimit[id] = writeIndex[id] - Size
                    \/ lowerLimit[id] = writeIndex[id]
              \/ writeIndex[id] = 1 /\ Held(id) = Size - 1 /\ lowerLimit[id] = 1
          BY <1>5, <3>1, <3>4 DEF WrittenInv
        <4>2. \/ /\ writeIndex[id] >= 2 /\ Held(id) = writeIndex[id] - 2
                 /\ \/ Raised(id)' = writeIndex[id] - Size
                    \/ Raised(id)' = writeIndex[id] /\ writeIndex[id] < Size
              \/ writeIndex[id] = 1 /\ Held(id) = Size - 1 /\ Raised(id)' = 1
          BY <1>1, <3>2, <4>1
        <4> QED
          BY <1>2, <1>4, <1>5, <3>4, <4>2 DEF WrittenInv
      <3> QED
        BY <3>3, <3>4
    <2>3. CASE writePc[id] = "give"
      <3>1. Raised(id)' = Raised(id)
        BY <1>3, <2>3 DEF Raised
      <3> QED
        BY <1>2, <1>4, <1>5, <2>3, <3>1 DEF WrittenInv
    <2> QED
      BY <1>3, <2>1, <2>2, <2>3
  <1>8. (~Fresh(id) => content[id][Held(id)] \in Packet)'
    BY <1>1, <1>2, <1>4 DEF LineInv
  <1>9. writePc'[id] # "fill"
    BY <1>3
  <1>10. LineInv(id)'
    BY <1>2, <1>5, <1>6, <1>7, <1>8, <1>9 DEF LineInv
  <1> QED
    BY <1>2, <1>4, <1>5, <1>6, <1>10 DEF Nothing

LEMMA TakeLine ==
    ASSUME SimRxInv, NEW id \in Id, Take(id)
    PROVE  LineInv(id)' /\ Nothing(id)
  <1>1. /\ writeIndex[id] \in 0 .. Size /\ readIndex[id] \in 0 .. Size
        /\ lowerLimit[id] \in 0 - Size .. Size /\ newFlag[id] \in 0 .. MaxNew
        /\ Size \in Nat /\ Size >= 1 /\ LineInv(id) /\ RingTypeOK
    BY LineTypes, SizeType
  <1>2. /\ readPc[id] = "take" /\ newFlag[id] > 0 /\ readPc'[id] = "copy"
        /\ newFlag'[id] = newFlag[id] - 1 /\ readIndex'[id] = Wrapped(readIndex[id])
        /\ readpoint'[id] = Wrapped(readIndex[id])
        /\ UNCHANGED <<writeIndex, lowerLimit, writePc, writepoint>>
        /\ UNCHANGED <<content, copied, got, extracted>>
    BY <1>1 DEF Take, TakeFlag, ReaderGoes, writer, packets, RingTypeOK
  <1>3. newFlag[id] = 1 /\ writePc[id] = "idle" /\ Waiting(id)
    BY <1>1, <1>2 DEF LineInv, TurnsInv, Waiting
  <1>4. newFlag'[id] = 0
    BY <1>2, <1>3
  <1>5. Held(id)' = Held(id) /\ Fresh(id)' = Fresh(id)
    BY <1>1, <1>2 DEF Held, Fresh, Wrapped
  <1>6. HeldBack(id)' = HeldBack(id)
    BY <1>2, <1>5 DEF HeldBack
  <1>7. WrittenInv(id) /\ extracted[id] \in Packet
    BY <1>1, <1>3 DEF LineInv
  <1>8. WrittenInv(id)'
    <2>1. Raised(id)' = Raised(id)
      BY <1>2 DEF Raised
    <2>2. readIndex[id] = 0 => readIndex'[id] = 0
      BY <1>1, <1>2 DEF Wrapped
    <2> QED
      BY <1>2, <1>5, <1>7, <2>1, <2>2 DEF WrittenInv
  <1>9. Waiting(id)' /\ TurnsInv(id)'
    BY <1>2, <1>3, <1>4 DEF Waiting, TurnsInv
  <1>10. (~Fresh(id) => content[id][Held(id)] \in Packet)'
    BY <1>1, <1>2, <1>5 DEF LineInv
  <1>11. LineInv(id)'
    BY <1>2, <1>3, <1>7, <1>8, <1>9, <1>10 DEF LineInv
  <1> QED
    BY <1>2, <1>3, <1>6, <1>9, <1>11 DEF Nothing

LEMMA CopyLine ==
    ASSUME SimRxInv, NEW id \in Id, Copy(id)
    PROVE  LineInv(id)' /\ Nothing(id)
  <1>1. /\ LineInv(id) /\ RingTypeOK
        /\ copied \in [Id -> Packet \cup {NoPacketYet}] /\ newFlag[id] \in 0 .. MaxNew
    BY LineTypes
  <1>2. /\ readPc[id] = "copy" /\ readPc'[id] = "check"
        /\ UNCHANGED <<writeIndex, readIndex, lowerLimit, newFlag, readpoint, writePc, writepoint>>
        /\ UNCHANGED <<content, got, extracted>>
        /\ copied'[id] = content[id][readpoint[id]]
    BY <1>1 DEF Copy, CopySlot, ReaderGoes, writer, RingTypeOK
  <1>3. /\ Held(id)' = Held(id) /\ Fresh(id)' = Fresh(id) /\ Raised(id)' = Raised(id)
        /\ Waiting(id) /\ Waiting(id)' /\ writePc[id] = "idle"
    BY <1>1, <1>2 DEF Held, Fresh, Wrapped, Waiting, Raised, LineInv, TurnsInv
  <1>4. HeldBack(id)' = HeldBack(id)
    BY <1>2, <1>3 DEF HeldBack
  <1>5. WrittenInv(id)' /\ extracted[id] \in Packet
    BY <1>1, <1>2, <1>3 DEF LineInv, WrittenInv
  <1>6. TurnsInv(id)'
    BY <1>1, <1>2, <1>3 DEF LineInv, TurnsInv
  <1>7. (~Fresh(id) => content[id][Held(id)] \in Packet)'
    BY <1>1, <1>2, <1>3 DEF LineInv
  <1>8. LineInv(id)'
    BY <1>1, <1>2, <1>3, <1>5, <1>6, <1>7 DEF LineInv
  <1> QED
    BY <1>2, <1>3, <1>4, <1>8 DEF Nothing

LEMMA ReturnLine ==
    ASSUME Size >= 2, SimRxInv, NEW id \in Id, ReturnPacket(id)
    PROVE  LineInv(id)' /\ HandedOver(id)
  <1>1. /\ writeIndex[id] \in 0 .. Size /\ readIndex[id] \in 0 .. Size
        /\ lowerLimit[id] \in 0 - Size .. Size /\ newFlag[id] \in 0 .. MaxNew
        /\ Size \in Nat /\ LineInv(id) /\ RingTypeOK /\ IndexInv(id)
        /\ got \in [Id -> Packet \cup {NoPacketYet}] /\ NoPacketYet \notin Packet
    BY LineTypes, SizeType, PacketAssumption
  <1> DEFINE w == writeIndex[id]
             r == readIndex[id]
             m == IF r + 1 < lowerLimit[id] + Size THEN r + 1 ELSE r
  <1>2. /\ readPc[id] = "check" /\ readPc'[id] = "idle"
        /\ UNCHANGED <<writeIndex, lowerLimit, newFlag, readpoint, writePc, writepoint>>
        /\ UNCHANGED <<content, copied, extracted>>
        /\ got' = [got EXCEPT ![id] = copied[id]]
    BY <1>1 DEF ReturnPacket, MoveOn, ReaderGoes, writer, RingTypeOK
  <1>3. /\ Waiting(id) /\ WrittenInv(id) /\ extracted[id] \in Packet
        /\ writePc[id] = "idle" /\ ~(newFlag[id] > 0)
        /\ r = readpoint[id] /\ r < Size /\ copied[id] = content[id][r]
    BY <1>1, <1>2 DEF LineInv, Waiting, TurnsInv, IndexInv
  <1>4. readIndex'[id] = m
    BY <1>1, <1>3 DEF ReturnPacket, MoveOn, RingTypeOK
  <1>5. Held(id) = r /\ Raised(id) = lowerLimit[id]
    BY <1>1, <1>3 DEF Held, Wrapped, Raised
  <1>6. got'[id] = content[id][r]
    BY <1>1, <1>2, <1>3
  <1>7. /\ w >= 1 /\ Wrapped(m) = w - 1
        /\ Fresh(id) => r = w - 1
        /\ lowerLimit[id] = w - Size \/ (lowerLimit[id] = w /\ w < Size)
    <2>1. CASE Fresh(id)
      <3>1. w = 1 /\ r = 0 /\ lowerLimit[id] = 1 - Size
        BY <1>3, <1>5, <2>1 DEF WrittenInv
      <3>2. m = 0 /\ Wrapped(0) = 0
        BY <1>1, <3>1 DEF Wrapped
      <3> QED
        BY <3>1, <3>2
    <2>2. CASE ~Fresh(id)
      <3>1. \/ /\ w >= 2 /\ r = w - 2
               /\ lowerLimit[id] = w - Size \/ (lowerLimit[id] = w /\ w < Size)
            \/ w = 1 /\ r = Size - 1 /\ lowerLimit[id] = 1
        BY <1>3, <1>5, <2>2 DEF WrittenInv
      <3>2. CASE w >= 2 /\ r = w - 2
        <4>1. lowerLimit[id] = w - Size \/ (lowerLimit[id] = w /\ w < Size)
          BY <1>1, <3>1, <3>2
        <4>2. m = w - 1
          BY <1>1, <3>2, <4>1
        <4>3. Wrapped(w - 1) = w - 1
          BY <1>1 DEF Wrapped
        <4> QED
          BY <1>1, <2>2, <3>2, <4>1, <4>2, <4>3
      <3>3. CASE w = 1 /\ r = Size - 1 /\ lowerLimit[id] = 1
        <4>1. m = Size
          BY <1>1, <3>3
        <4>2. Wrapped(Size) = 0
          BY <1>1 DEF Wrapped
        <4> QED
          BY <1>1, <2>2, <3>3, <4>1, <4>2
      <3> QED
        BY <3>1, <3>2, <3>3
    <2> QED
      BY <2>1, <2>2
  <1>8. Held(id)' = w - 1 /\ content[id][w - 1] = extracted[id]
    BY <1>2, <1>3, <1>4, <1>7 DEF Held, Wrapped, WrittenInv
  <1> HIDE DEF m
  <1>9. got'[id] \in Packet /\ (Fresh(id) => got'[id] = extracted[id])
    <2>1. CASE Fresh(id)
      BY <1>3, <1>6, <1>7, <1>8, <2>1
    <2>2. CASE ~Fresh(id)
      BY <1>1, <1>5, <1>6, <2>2 DEF LineInv
    <2> QED
      BY <2>1, <2>2
  <1>10. ~Fresh(id)'
    BY <1>1, <1>9 DEF Fresh
  <1>11. HeldBack(id)' = extracted[id]
    BY <1>2, <1>8, <1>10 DEF HeldBack
  <1>12. ~Waiting(id)' /\ TurnsInv(id)'
    BY <1>2, <1>3 DEF Waiting, TurnsInv
  <1>13. QuietInv(id)'
    BY <1>2, <1>7, <1>8, <1>10 DEF QuietInv
  <1>14. LineInv(id)'
    BY <1>2, <1>3, <1>8, <1>12, <1>13 DEF LineInv
  <1>15. got'[id] = IF HeldBack(id) = NoPacketYet THEN extracted[id] ELSE HeldBack(id)
    <2>1. CASE Fresh(id)
      BY <1>9, <2>1 DEF HeldBack
    <2>2. CASE ~Fresh(id)
      BY <1>1, <1>5, <1>6, <1>9, <2>2 DEF HeldBack
    <2> QED
      BY <2>1, <2>2
  <1>16. got' = [got EXCEPT ![id] = IF HeldBack(id) = NoPacketYet THEN extracted[id]
                                    ELSE HeldBack(id)]
    BY <1>1, <1>2, <1>15
  <1> QED
    BY <1>2, <1>3, <1>11, <1>12, <1>14, <1>16 DEF HandedOver

LEMMA AgainLine ==
    ASSUME SimRxInv, NEW id \in Id, ReceiveAgain(id)
    PROVE  LineInv(id)' /\ Nothing(id)
  <1>1. LineInv(id) /\ RingTypeOK
    BY LineTypes
  <1>2. /\ readPc[id] = "idle" /\ readPc'[id] = "take"
        /\ UNCHANGED <<writeIndex, readIndex, lowerLimit, newFlag, readpoint, writePc, writepoint>>
        /\ UNCHANGED <<content, got, copied, extracted>>
    BY <1>1 DEF ReceiveAgain, ReaderGoes, shared, writer, packets, RingTypeOK
  <1>3. ~Waiting(id) /\ ~Waiting(id)' /\ writePc[id] = "idle"
    BY <1>1, <1>2 DEF LineInv, TurnsInv, Waiting
  <1>4. Held(id)' = Held(id) /\ Fresh(id)' = Fresh(id)
    BY <1>2 DEF Held, Fresh, Wrapped
  <1>5. HeldBack(id)' = HeldBack(id)
    BY <1>2, <1>4 DEF HeldBack
  <1>6. QuietInv(id)'
    BY <1>1, <1>2, <1>3, <1>4 DEF LineInv, QuietInv
  <1>7. TurnsInv(id)'
    BY <1>1, <1>2 DEF LineInv, TurnsInv
  <1>8. (~Fresh(id) => content[id][Held(id)] \in Packet)'
    BY <1>1, <1>2, <1>4 DEF LineInv
  <1>9. LineInv(id)'
    BY <1>2, <1>3, <1>6, <1>7, <1>8 DEF LineInv
  <1> QED
    BY <1>2, <1>3, <1>5, <1>9 DEF Nothing, Waiting

(***************************************************************************)
(* A step for one id is a step of its ring, and leaves the lines of all    *)
(* others as they are.                                                     *)
(***************************************************************************)
PacketsSame(id) ==
    /\ content'[id] = content[id] /\ copied'[id] = copied[id]
    /\ got'[id] = got[id] /\ extracted'[id] = extracted[id]

LineStep(id) == \/ Fill(id) \/ Publish(id) \/ Receive(id)
                \/ \E p \in Packet : Extract(id, p)

LEMMA LineStepRing ==
    ASSUME NEW id \in Id, LineStep(id)
    PROVE  RingStep(id)
  BY DEF LineStep, Fill, Publish, Receive, Extract, Take, Copy, ReturnPacket, ReceiveAgain,
         RingStep, writeToBuf, FinishWrite, readFromBuf, BeginWait, packets

LEMMA LineStepPackets ==
    ASSUME SimRxTypeOK, NEW id \in Id, LineStep(id)
    PROVE  /\ content' \in [Id -> [Slot -> Packet \cup {NoPacketYet}]]
           /\ copied' \in [Id -> Packet \cup {NoPacketYet}]
           /\ got' \in [Id -> Packet \cup {NoPacketYet}]
           /\ extracted' \in [Id -> Packet \cup {NoPacketYet}]
           /\ \A other \in Id : other # id => PacketsSame(other)
  <1> USE DEF PacketsSame
  <1> DEFINE P == Packet \cup {NoPacketYet}
  <1>1. /\ content \in [Id -> [Slot -> P]] /\ copied \in [Id -> P] /\ got \in [Id -> P]
        /\ extracted \in [Id -> P] /\ writepoint[id] \in Slot /\ readpoint[id] \in Slot
    BY SimRxTypeParts DEF RingTypeOK
  <1>2. Packet \subseteq P
    OBVIOUS
  <1> HIDE DEF P
  <1>3. CASE \E p \in Packet : Extract(id, p)
    <2>1. PICK p \in Packet : Extract(id, p)
      BY <1>3
    <2>2. extracted' = [extracted EXCEPT ![id] = p] /\ UNCHANGED <<content, copied, got>>
      BY <2>1 DEF Extract
    <2> QED
      BY <1>1, <1>2, <2>2 DEF P
  <1>4. CASE Fill(id)
    <2>1. content' = [content EXCEPT ![id][writepoint[id]] = extracted[id]]
          /\ UNCHANGED <<copied, got, extracted>>
      BY <1>4 DEF Fill
    <2> DEFINE line == [content[id] EXCEPT ![writepoint[id]] = extracted[id]]
    <2>2. line \in [Slot -> P] /\ content' = [content EXCEPT ![id] = line]
      BY <1>1, <2>1
    <2> HIDE DEF line
    <2>3. content' \in [Id -> [Slot -> P]]
      BY <1>1, <2>2
    <2> QED
      BY <1>1, <2>1, <2>2, <2>3 DEF P
  <1>5. CASE Copy(id)
    <2>1. copied' = [copied EXCEPT ![id] = content[id][readpoint[id]]]
          /\ UNCHANGED <<content, got, extracted>>
      BY <1>5 DEF Copy
    <2>2. content[id][readpoint[id]] \in P
      BY <1>1
    <2> QED
      BY <1>1, <2>1, <2>2 DEF P
  <1>6. CASE ReturnPacket(id)
    <2>1. got' = [got EXCEPT ![id] = copied[id]] /\ UNCHANGED <<content, copied, extracted>>
      BY <1>6 DEF ReturnPacket
    <2> QED
      BY <1>1, <2>1 DEF P
  <1>7. CASE UNCHANGED <<content, copied, got, extracted>>
    BY <1>1, <1>7 DEF P
  <1>8. Publish(id) \/ Take(id) \/ ReceiveAgain(id) => UNCHANGED <<content, copied, got, extracted>>
    BY DEF Publish, Take, ReceiveAgain, packets
  <1> QED
    BY <1>3, <1>4, <1>5, <1>6, <1>7, <1>8 DEF LineStep, Receive

LEMMA OtherLines ==
    ASSUME NEW id \in Id, RingSame(id), PacketsSame(id), LineInv(id)
    PROVE  LineInv(id)' /\ Waiting(id)' = Waiting(id) /\ HeldBack(id)' = HeldBack(id)
  <1> USE DEF RingSame, PacketsSame
  <1>1. /\ Waiting(id)' = Waiting(id) /\ Held(id)' = Held(id) /\ Fresh(id)' = Fresh(id)
        /\ Raised(id)' = Raised(id)
    BY DEF Waiting, Held, Wrapped, Fresh, Raised
  <1>2. HeldBack(id)' = HeldBack(id)
    BY <1>1 DEF HeldBack
  <1>3. TurnsInv(id)' = TurnsInv(id)
    BY DEF TurnsInv
  <1>4. QuietInv(id)' = QuietInv(id)
    BY <1>1 DEF QuietInv
  <1>5. FillInv(id)' = FillInv(id)
    BY <1>1 DEF FillInv
  <1>6. WrittenInv(id)' = WrittenInv(id)
    BY <1>1 DEF WrittenInv
  <1>7. LineInv(id)'
    BY <1>1, <1>3, <1>4, <1>5, <1>6 DEF LineInv
  <1> QED
    BY <1>1, <1>2, <1>7

-----------------------------------------------------------------------------
(* Every state of the receive side.                                        *)

SimRxTypeInv == SimRxTypeOK /\ RingIndexInv

LEMMA SimRxNextStep == SimRxNext => \E id \in Id : LineStep(id)
  BY DEF SimRxNext, extractPacket, LineStep

LEMMA SimRxTypeInvInit == SimRxInit => SimRxTypeInv
  <1> SUFFICES ASSUME SimRxInit PROVE SimRxTypeInv
    OBVIOUS
  <1>1. readPc \in [Id -> {"idle", "take"}]
    BY DEF SimRxInit
  <1>2. RingIndexInv
    BY <1>1, RingStart DEF SimRxInit
  <1>3. SimRxTypeOK
    BY <1>2, SimRxTypeParts DEF SimRxInit, RingIndexInv
  <1> QED
    BY <1>2, <1>3 DEF SimRxTypeInv

LEMMA SimRxTypeInvStep == SimRxTypeInv /\ [SimRxNext]_simRxVars => SimRxTypeInv'
  <1>1. ASSUME SimRxTypeInv, NEW id \in Id, LineStep(id) PROVE SimRxTypeInv'
    <2>1. RingIndexInv'
      BY <1>1, LineStepRing, RingIndexStep DEF SimRxTypeInv
    <2>2. /\ RingTypeOK'
          /\ content' \in [Id -> [Slot -> Packet \cup {NoPacketYet}]]
          /\ copied' \in [Id -> Packet \cup {NoPacketYet}]
          /\ got' \in [Id -> Packet \cup {NoPacketYet}]
          /\ extracted' \in [Id -> Packet \cup {NoPacketYet}]
      BY <1>1, <2>1, LineStepPackets DEF SimRxTypeInv, RingIndexInv
    <2>3. SimRxTypeOK'
      BY <2>2 DEF SimRxTypeOK
    <2> QED
      BY <2>1, <2>3 DEF SimRxTypeInv
  <1>2. ASSUME SimRxTypeInv, UNCHANGED simRxVars PROVE SimRxTypeInv'
    BY <1>2 DEF SimRxTypeInv, SimRxTypeOK, RingIndexInv, RingTypeOK, IndexInv, simRxVars,
                ringVars, shared, writer, reader, packets
  <1> QED
    BY <1>1, <1>2, SimRxNextStep

(***************************************************************************)
(* However many packets the simulator sends and whenever the tasks read    *)
(* them, every index and limit of the receiving rings stays in its range.  *)
(***************************************************************************)
THEOREM SimRxTypeCorrect == SimRxSpec => []SimRxTypeOK
  <1>1. SimRxTypeInv => SimRxTypeOK
    BY DEF SimRxTypeInv
  <1> QED
    BY <1>1, SimRxTypeInvInit, SimRxTypeInvStep, PTL DEF SimRxSpec

-----------------------------------------------------------------------------
(* The rings implement a line that holds one packet back.                  *)

LEMMA SimRxInvInit == SimRxInit => SimRxInv
  <1> SUFFICES ASSUME SimRxInit PROVE SimRxInv
    OBVIOUS
  <1>1. SimRxTypeOK /\ RingIndexInv
    BY SimRxTypeInvInit DEF SimRxTypeInv
  <1>2. ASSUME NEW id \in Id PROVE LineInv(id)
    <2>1. /\ writePc[id] = "idle" /\ readPc[id] = "take" /\ newFlag[id] = 0
          /\ writeIndex[id] = 0 /\ readIndex[id] = 0 /\ lowerLimit[id] = 0 - Size
          /\ got[id] = NoPacketYet
      BY DEF SimRxInit
    <2>2. ~Waiting(id) /\ TurnsInv(id) /\ Fresh(id)
      BY <2>1 DEF Waiting, TurnsInv, Fresh
    <2>3. QuietInv(id)
      BY <2>1, <2>2 DEF QuietInv
    <2> QED
      BY <2>1, <2>2, <2>3 DEF LineInv
  <1> QED
    BY <1>1, <1>2 DEF SimRxInv

LEMMA LineMeaning ==
    ASSUME Size >= 2, SimRxInv, NEW id \in Id, LineStep(id)
    PROVE  /\ LineInv(id)'
           /\ Nothing(id) \/ HandedOver(id) \/ \E p \in Packet : Sent(id, p)
  BY ExtractLine, FillLine, PublishLine, TakeLine, CopyLine, ReturnLine, AgainLine
     DEF LineStep, Receive

LEMMA LinesApart ==
    ASSUME SimRxInv, NEW id \in Id, LineStep(id), NEW other \in Id, other # id
    PROVE  /\ LineInv(other)' /\ Waiting(other)' = Waiting(other)
           /\ HeldBack(other)' = HeldBack(other)
  <1>1. SimRxTypeOK /\ RingTypeOK /\ LineInv(other)
    BY SimRxTypeParts DEF SimRxInv
  <1>2. RingSame(other)
    BY <1>1, LineStepRing, OthersSame
  <1>3. PacketsSame(other)
    BY <1>1, LineStepPackets
  <1> QED
    BY <1>1, <1>2, <1>3, OtherLines

LEMMA SimRxInvStep == ASSUME Size >= 2 PROVE SimRxInv /\ [SimRxNext]_simRxVars => SimRxInv'
  <1>1. ASSUME SimRxInv, [SimRxNext]_simRxVars PROVE SimRxTypeOK' /\ RingIndexInv'
    BY <1>1, SimRxTypeInvStep DEF SimRxInv, SimRxTypeInv
  <1>2. ASSUME SimRxInv, NEW id \in Id, LineStep(id) PROVE \A other \in Id : LineInv(other)'
    BY <1>2, LineMeaning, LinesApart
  <1>3. ASSUME SimRxInv, UNCHANGED simRxVars, NEW id \in Id PROVE LineInv(id)'
    <2>1. RingSame(id) /\ PacketsSame(id)
      BY <1>3 DEF RingSame, PacketsSame, simRxVars, ringVars, shared, writer, reader, packets
    <2> QED
      BY <1>3, <2>1, OtherLines DEF SimRxInv
  <1> QED
    BY <1>1, <1>2, <1>3, SimRxNextStep DEF SimRxInv

(* What the lines are in a state of the rings. *)
LEMMA LineStart == SimRxInit => Delay!DelayInit
  <1> SUFFICES ASSUME SimRxInit PROVE Delay!DelayInit
    OBVIOUS
  <1>1. \A id \in Id : got[id] = NoPacketYet /\ ~Waiting(id)
    BY DEF SimRxInit, Waiting
  <1> QED
    BY <1>1 DEF Delay!DelayInit, SimRxInit, Waiting

LEMMA DelayStep ==
    ASSUME Size >= 2, SimRxInv, [SimRxNext]_simRxVars
    PROVE  [Delay!DelayNext]_(Delay!delayVars)
  <1> DEFINE waiting == [id \in Id |-> writePc[id] # "idle" \/ newFlag[id] > 0
                                       \/ readPc[id] \in {"copy", "check"}]
             heldBack == [id \in Id |-> IF got[id] = NoPacketYet THEN NoPacketYet
                                        ELSE content[id][Wrapped(readIndex[id])]]
  <1>1. /\ waiting = [id \in Id |-> Waiting(id)] /\ waiting' = [id \in Id |-> Waiting(id)']
        /\ heldBack = [id \in Id |-> HeldBack(id)] /\ heldBack' = [id \in Id |-> HeldBack(id)']
    BY DEF Waiting, HeldBack, Fresh, Held, Wrapped
  <1> HIDE DEF waiting, heldBack
  <1>2. CASE UNCHANGED simRxVars
    BY <1>2 DEF Delay!delayVars, simRxVars, ringVars, shared, writer, reader, packets, Wrapped
  <1>3. ASSUME NEW id \in Id, LineStep(id) PROVE [Delay!DelayNext]_(Delay!delayVars)
    <2>1. \A other \in Id \ {id} : /\ Waiting(other)' = Waiting(other)
                                   /\ HeldBack(other)' = HeldBack(other)
      BY <1>3, LinesApart
    <2>2. CASE Nothing(id)
      <3>1. waiting' = waiting /\ heldBack' = heldBack
        BY <1>1, <2>1, <2>2 DEF Nothing
      <3> QED
        BY <2>2, <3>1 DEF Delay!delayVars, Nothing, waiting, heldBack
    <2>3. CASE HandedOver(id)
      <3>1. waiting' = [waiting EXCEPT ![id] = FALSE]
        <4>1. Waiting(id)' = FALSE
          BY <2>3 DEF HandedOver, Waiting
        <4> QED
          BY <1>1, <2>1, <4>1
      <3>2. heldBack' = [heldBack EXCEPT ![id] = extracted[id]]
        BY <1>1, <2>1, <2>3 DEF HandedOver
      <3>3. waiting[id] /\ heldBack[id] = HeldBack(id)
        BY <1>1, <2>3 DEF HandedOver
      <3>4. got' = [got EXCEPT ![id] = IF heldBack[id] = NoPacketYet THEN extracted[id]
                                       ELSE heldBack[id]]
        BY <2>3, <3>3 DEF HandedOver
      <3>5. Delay!HandOver(id)
        BY <2>3, <3>1, <3>2, <3>3, <3>4 DEF Delay!HandOver, waiting, heldBack, HandedOver
      <3> QED
        BY <3>5 DEF Delay!DelayNext
    <2>4. ASSUME NEW p \in Packet, Sent(id, p) PROVE Delay!DelayNext
      <3>1. waiting' = [waiting EXCEPT ![id] = TRUE] /\ heldBack' = heldBack
        BY <1>1, <2>1, <2>4 DEF Sent
      <3>2. ~waiting[id]
        BY <1>1, <2>4 DEF Sent
      <3>3. Delay!Send(id, p)
        BY <2>4, <3>1, <3>2 DEF Delay!Send, waiting, heldBack, Sent
      <3> QED
        BY <3>3 DEF Delay!DelayNext
    <2> QED
      BY <1>3, <2>2, <2>3, <2>4, LineMeaning
  <1> QED
    BY <1>2, <1>3, SimRxNextStep

(***************************************************************************)
(* The safety part of IsDelayLine, for rings of any size from two slots:   *)
(* whatever the simulator sends and however the tasks come round, each     *)
(* packet is handed over when the one after it comes, once and in order,   *)
(* the first one twice.  With one slot there is nothing to hold back.      *)
(***************************************************************************)
THEOREM SimRxImplementsDelayLine ==
    ASSUME Size >= 2
    PROVE  SimRxSpec => Delay!DelayInit /\ [][Delay!DelayNext]_(Delay!delayVars)
  <1>1. SimRxInv /\ [SimRxNext]_simRxVars => SimRxInv'
    BY SimRxInvStep
  <1>2. SimRxInv /\ [SimRxNext]_simRxVars => [Delay!DelayNext]_(Delay!delayVars)
    BY DelayStep
  <1> QED
    BY <1>1, <1>2, SimRxInvInit, LineStart, PTL DEF SimRxSpec
=============================================================================
