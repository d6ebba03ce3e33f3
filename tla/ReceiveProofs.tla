--------------------------- MODULE ReceiveProofs ---------------------------
(***************************************************************************)
(* Theorems about the two paths on which the board receives over a UART:   *)
(* the datagrams of the inertial sensor (UartReceive) and the frames from  *)
(* the radio (XbeeReceive), for rings, queues, datagrams and frames of any *)
(* size.                                                                   *)
(***************************************************************************)
EXTENDS UartReceive, XbeeReceive, SequenceTheorems, FiniteSetTheorems,
        WellFoundedInduction, TLAPS

-----------------------------------------------------------------------------
(* The order of bytes.                                                     *)

(* Once a sequence has a late byte, only late ones follow. *)
InOrder(s) == \A i, j \in 1 .. Len(s) : i <= j /\ s[i] = "late" => s[j] = "late"

Has(s, x) == \E i \in 1 .. Len(s) : s[i] = x

LEMMA TailHas ==
    ASSUME NEW S, NEW s \in Seq(S), s # <<>>, NEW x, Has(Tail(s), x)
    PROVE  Has(s, x)
  BY HeadTailProperties DEF Has

LEMMA AppendHas ==
    ASSUME NEW S, NEW s \in Seq(S), NEW e \in S, NEW x
    PROVE  Has(Append(s, e), x) <=> Has(s, x) \/ e = x
  <1>1. /\ Append(s, e) \in Seq(S) /\ Len(Append(s, e)) = Len(s) + 1 /\ Len(s) \in Nat
        /\ \A i \in 1 .. Len(s) : Append(s, e)[i] = s[i]
        /\ Append(s, e)[Len(s) + 1] = e
    BY AppendProperties
  <1> QED
    BY <1>1 DEF Has

LEMMA AppendInOrder ==
    ASSUME NEW s \in Seq(Byte), NEW b \in Byte, InOrder(s), Has(s, "late") => b = "late"
    PROVE  InOrder(Append(s, b))
  <1>1. /\ Len(Append(s, b)) = Len(s) + 1 /\ Len(s) \in Nat
        /\ \A i \in 1 .. Len(s) : Append(s, b)[i] = s[i]
        /\ Append(s, b)[Len(s) + 1] = b
    BY AppendProperties
  <1> QED
    BY <1>1 DEF InOrder, Has

LEMMA TailInOrder ==
    ASSUME NEW s \in Seq(Byte), s # <<>>, InOrder(s)
    PROVE  InOrder(Tail(s))
  <1>1. Len(s) \in Nat /\ Len(Tail(s)) = Len(s) - 1
    BY HeadTailProperties
  <1>2. \A i \in 1 .. Len(Tail(s)) : Tail(s)[i] = s[i + 1]
    BY HeadTailProperties
  <1> QED
    BY <1>1, <1>2 DEF InOrder

-----------------------------------------------------------------------------
(* The bytes of the inertial sensor.                                       *)

(***************************************************************************)
(* A reception in progress needs what is missing in its datagram, and the  *)
(* ring is empty while it does; so the bytes of the datagram are older     *)
(* than those of the ring, and all are as old as the stream or older.      *)
(***************************************************************************)
BytesInv ==
    /\ rxState = "busy" <=> rxDataSize > 0
    /\ rxDataSize > 0 => Len(datagram) + rxDataSize = DatagramSize /\ rxRing = <<>>
    /\ InOrder(datagram) /\ InOrder(rxRing)
    /\ \A i \in 1 .. Len(datagram), j \in 1 .. Len(rxRing) :
          datagram[i] = "late" => rxRing[j] = "late"
    /\ Has(datagram, "late") \/ Has(rxRing, "late") => late

(* What no action but those of the interrupt handler and of a reader does. *)
LEMMA BytesUntouched ==
    ASSUME BytesInv, UNCHANGED <<driver, late>>
    PROVE  BytesInv'
  BY DEF BytesInv, driver, InOrder, Has

LEMMA PendType ==
    ASSUME UartTypeOK, NEW e \in Event
    PROVE  Pend(e) \in Seq(Event) /\ Len(Pend(e)) <= QueueLength
  <1>1. pended \in Seq(Event) /\ Len(pended) <= QueueLength /\ QueueLength \in Nat
    BY QueueAssumption DEF UartTypeOK
  <1>2. Append(pended, e) \in Seq(Event) /\ Len(Append(pended, e)) = Len(pended) + 1
    BY <1>1, AppendProperties
  <1> QED
    BY <1>1, <1>2 DEF Pend, Requested

LEMMA ByteToReaderBytes ==
    ASSUME UartTypeOK, BytesInv, NEW b \in Byte, Sent(b), ByteToReader(b),
           UNCHANGED <<rxEvent, imuPc, status, debugTx, refused>>
    PROVE  UartTypeOK' /\ BytesInv'
  <1> USE UartAssumption DEF UartTypeOK, BytesInv
  <1>1. /\ Append(datagram, b) \in Seq(Byte) /\ Len(Append(datagram, b)) = Len(datagram) + 1
        /\ Len(datagram) \in Nat
    BY AppendProperties
  <1>2. rxRing = <<>> /\ Len(rxRing) = 0 /\ rxRing' = <<>>
    BY DEF ByteToReader
  <1>3. late' = (b = "late") /\ (late => b = "late")
    BY DEF Sent, Byte
  <1>4. InOrder(datagram') /\ (Has(datagram', "late") => late')
    <2>1. datagram' = Append(datagram, b)
      BY DEF ByteToReader
    <2>2. Has(datagram, "late") => b = "late"
      BY <1>3
    <2>3. InOrder(Append(datagram, b))
      BY <2>2, AppendInOrder
    <2>4. Has(Append(datagram, b), "late") => b = "late"
      BY <2>2, AppendHas
    <2> QED
      BY <1>3, <2>1, <2>3, <2>4
  <1>5. InOrder(rxRing') /\ ~Has(rxRing', "late")
    BY <1>2 DEF InOrder, Has
  <1>6. pended' \in Seq(Event) /\ Len(pended') <= QueueLength
    BY PendType DEF ByteToReader, Event, ReceiveEvent, Other
  <1>7. UartTypeOK'
    BY <1>1, <1>2, <1>3, <1>6 DEF ByteToReader
  <1>8. /\ rxState' = "busy" <=> rxDataSize' > 0
        /\ rxDataSize' > 0 => Len(datagram') + rxDataSize' = DatagramSize
    <2>1. CASE rxDataSize = 1
      BY <1>1, <2>1 DEF ByteToReader
    <2>2. CASE rxDataSize # 1
      <3>1. rxDataSize' = rxDataSize - 1 /\ rxDataSize > 1 /\ rxState' = rxState
        BY <2>2 DEF ByteToReader
      <3>2. Len(datagram') = Len(datagram) + 1
        BY <1>1 DEF ByteToReader
      <3>3. rxState = "busy" /\ Len(datagram) + rxDataSize = DatagramSize
        BY <3>1
      <3> QED
        BY <1>1, <3>1, <3>2, <3>3
    <2> QED
      BY <2>1, <2>2
  <1>9. BytesInv'
    BY <1>2, <1>4, <1>5, <1>8
  <1> QED
    BY <1>7, <1>9

LEMMA ByteToRingBytes ==
    ASSUME UartTypeOK, BytesInv, NEW b \in Byte, Sent(b), ByteToRing(b),
           UNCHANGED <<rxEvent, imuPc, status, debugTx, refused>>
    PROVE  UartTypeOK' /\ BytesInv'
  <1> USE UartAssumption DEF UartTypeOK, BytesInv
  <1>1. late' = (b = "late") /\ (late => b = "late")
    BY DEF Sent, Byte
  <1>2. /\ pended' \in Seq(Event) /\ Len(pended') <= QueueLength
        /\ unreported' \in BOOLEAN /\ crowdedOut' \in BOOLEAN
    BY PendType DEF ByteToRing, Overran, Event, ReceiveEvent, Other
  <1> DEFINE old == IF Len(rxRing) < RingCapacity THEN rxRing ELSE Tail(rxRing)
  <1>3. rxRing' = Append(old, b) /\ UNCHANGED <<rxDataSize, rxState, datagram>>
    BY DEF ByteToRing, Overran
  <1>4. /\ old \in Seq(Byte) /\ Len(old) \in Nat /\ Len(old) + 1 <= RingCapacity
        /\ InOrder(old)
        /\ \A x : Has(old, x) => Has(rxRing, x)
        /\ \A i \in 1 .. Len(datagram), j \in 1 .. Len(old) :
              datagram[i] = "late" => old[j] = "late"
    <2>1. CASE Len(rxRing) < RingCapacity
      BY <2>1
    <2>2. CASE ~(Len(rxRing) < RingCapacity)
      <3>1. rxRing # <<>> /\ Len(rxRing) = RingCapacity
        BY <2>2
      <3>2. /\ Tail(rxRing) \in Seq(Byte) /\ Len(Tail(rxRing)) = Len(rxRing) - 1
            /\ \A j \in 1 .. Len(Tail(rxRing)) : Tail(rxRing)[j] = rxRing[j + 1]
        BY <3>1, HeadTailProperties
      <3>3. InOrder(Tail(rxRing)) /\ \A x : Has(Tail(rxRing), x) => Has(rxRing, x)
        BY <3>1, TailInOrder, TailHas
      <3> QED
        BY <2>2, <3>1, <3>2, <3>3
    <2> QED
      BY <2>1, <2>2
  <1> HIDE DEF old
  <1>5. /\ rxRing' \in Seq(Byte) /\ Len(rxRing') = Len(old) + 1
        /\ \A i \in 1 .. Len(old) : rxRing'[i] = old[i]
        /\ rxRing'[Len(old) + 1] = b
    BY <1>3, <1>4, AppendProperties
  <1>6. UartTypeOK'
    BY <1>1, <1>2, <1>3, <1>4, <1>5
  <1>7. InOrder(rxRing') /\ (Has(datagram, "late") \/ Has(rxRing', "late") => late')
    <2>1. Has(old, "late") \/ Has(datagram, "late") => b = "late"
      BY <1>1, <1>4
    <2>2. InOrder(Append(old, b))
      BY <1>4, <2>1, AppendInOrder
    <2>3. Has(Append(old, b), "late") => b = "late"
      BY <1>4, <2>1, AppendHas
    <2> QED
      BY <1>1, <1>3, <2>1, <2>2, <2>3
  <1>8. ASSUME NEW i \in 1 .. Len(datagram), NEW j \in 1 .. Len(rxRing'),
               datagram[i] = "late"
        PROVE  rxRing'[j] = "late"
    <2>1. b = "late"
      BY <1>1, <1>8 DEF Has
    <2>2. CASE j = Len(old) + 1
      BY <1>5, <2>1, <2>2
    <2>3. CASE j # Len(old) + 1
      <3>1. j \in 1 .. Len(old)
        BY <1>4, <1>5, <2>3
      <3> QED
        BY <1>4, <1>5, <1>8, <3>1
    <2> QED
      BY <2>2, <2>3
  <1>9. rxDataSize = 0
    BY DEF ByteToRing, Overran
  <1>10. BytesInv'
    BY <1>3, <1>7, <1>8, <1>9
  <1> QED
    BY <1>6, <1>10

LEMMA StartReceiveBytes ==
    ASSUME UartTypeOK, BytesInv, StartReceive
    PROVE  UartTypeOK' /\ BytesInv'
  <1>1. CASE rxState = "busy"
    <2>1. BytesInv'
      BY <1>1, BytesUntouched DEF StartReceive, uartHistory
    <2>2. UartTypeOK'
      BY <1>1 DEF StartReceive, driver, uartHistory, ReaderPlace, UartTypeOK
    <2> QED
      BY <2>1, <2>2
  <1>2. CASE rxState # "busy"
    <2> DEFINE n == IF Len(rxRing) < DatagramSize THEN Len(rxRing) ELSE DatagramSize
    <2>1. /\ n \in 0 .. Len(rxRing) /\ n <= DatagramSize /\ Len(rxRing) \in Nat
          /\ n < DatagramSize => n = Len(rxRing)
      BY UartAssumption DEF UartTypeOK
    <2> HIDE DEF n
    <2>2. /\ datagram' = SubSeq(rxRing, 1, n)
          /\ rxRing' = SubSeq(rxRing, n + 1, Len(rxRing))
      BY <1>2 DEF StartReceive, n
    <2>3. /\ datagram' \in Seq(Byte) /\ rxRing' \in Seq(Byte)
          /\ Len(datagram') = n /\ Len(rxRing') = Len(rxRing) - n
          /\ InOrder(datagram') /\ InOrder(rxRing')
          /\ \A i \in 1 .. Len(datagram'), j \in 1 .. Len(rxRing') :
                datagram'[i] = "late" => rxRing'[j] = "late"
          /\ Has(datagram', "late") \/ Has(rxRing', "late") => Has(rxRing, "late")
      <3>1. rxRing \in Seq(Byte) /\ InOrder(rxRing)
        BY DEF BytesInv, UartTypeOK
      <3>2. \A i \in 1 .. Len(rxRing) : rxRing[i] \in Byte
        BY ElementOfSeq DEF UartTypeOK
      <3>3. /\ datagram' \in Seq(Byte) /\ Len(datagram') = n
            /\ \A i \in 1 .. n : datagram'[i] = rxRing[i]
        BY <2>1, <2>2, <3>2, SubSeqProperties
      <3>4. /\ rxRing' \in Seq(Byte) /\ Len(rxRing') = Len(rxRing) - n
            /\ \A i \in 1 .. Len(rxRing) - n : rxRing'[i] = rxRing[n + i]
        BY <2>1, <2>2, <3>2, SubSeqProperties
      <3>5. InOrder(datagram') /\ InOrder(rxRing')
        <4>1. InOrder(datagram')
          BY <2>1, <3>1, <3>3 DEF InOrder
        <4>2. InOrder(rxRing')
          BY <2>1, <3>1, <3>4 DEF InOrder
        <4> QED
          BY <4>1, <4>2
      <3>6. \A i \in 1 .. Len(datagram'), j \in 1 .. Len(rxRing') :
                datagram'[i] = "late" => rxRing'[j] = "late"
        BY <2>1, <3>1, <3>3, <3>4 DEF InOrder
      <3>7. Has(datagram', "late") \/ Has(rxRing', "late") => Has(rxRing, "late")
        BY <2>1, <3>3, <3>4 DEF Has
      <3> QED
        BY <3>3, <3>4, <3>5, <3>6, <3>7
    <2>4. Has(datagram', "late") \/ Has(rxRing', "late") => late'
      BY <2>3 DEF BytesInv, StartReceive, uartHistory
    <2>5. pended' \in Seq(Event) /\ Len(pended') <= QueueLength
      BY <1>2, PendType DEF StartReceive, Event, ReceiveEvent, Other, UartTypeOK, n
    <2>6. /\ rxState' = "busy" <=> rxDataSize' > 0
          /\ rxDataSize' > 0 => n < DatagramSize /\ rxDataSize' = DatagramSize - n
          /\ rxDataSize' \in 0 .. DatagramSize /\ rxState' \in {"idle", "busy"}
      BY <1>2, <2>1, UartAssumption DEF StartReceive, BytesInv, UartTypeOK, n
    <2>7. rxDataSize' > 0 => Len(datagram') + rxDataSize' = DatagramSize /\ rxRing' = <<>>
      <3> SUFFICES ASSUME rxDataSize' > 0
                   PROVE  Len(datagram') + rxDataSize' = DatagramSize /\ rxRing' = <<>>
        OBVIOUS
      <3>1. n = Len(rxRing) /\ rxDataSize' = DatagramSize - n
        BY <2>1, <2>6
      <3>2. Len(rxRing') = 0 /\ Len(datagram') + rxDataSize' = DatagramSize
        BY <2>1, <2>3, <3>1, UartAssumption
      <3> QED
        BY <2>3, <3>2, EmptySeq
    <2>8. BytesInv'
      BY <2>3, <2>4, <2>6, <2>7 DEF BytesInv
    <2>9. UartTypeOK'
      BY <1>2, <2>1, <2>3, <2>5, <2>6, UartAssumption
         DEF StartReceive, uartHistory, ReaderPlace, UartTypeOK
    <2> QED
      BY <2>8, <2>9
  <1> QED
    BY <1>1, <1>2

LEMMA UartTypeBytesInit == UartInit => UartTypeOK /\ BytesInv
  <1> SUFFICES ASSUME UartInit PROVE UartTypeOK /\ BytesInv
    OBVIOUS
  <1>1. UartTypeOK
    <2>1. \A S : <<>> \in Seq(S) /\ Len(<<>>) = 0
      BY EmptySeq
    <2>2. 0 <= RingCapacity /\ 0 <= QueueLength /\ 0 <= DatagramSize
      BY UartAssumption, QueueAssumption
    <2>3. 0 \in 0 .. DatagramSize
      BY UartAssumption
    <2> QED
      BY <2>1, <2>2, <2>3 DEF UartInit, UartTypeOK, ReaderPlace
  <1>2. BytesInv
    BY DEF UartInit, BytesInv, InOrder, Has
  <1> QED
    BY <1>1, <1>2

LEMMA UartTypeBytesStep ==
    ASSUME UartTypeOK, BytesInv, UartNext
    PROVE  UartTypeOK' /\ BytesInv'
  <1>1. CASE SomeByteArrives
    BY <1>1, ByteToReaderBytes, ByteToRingBytes DEF SomeByteArrives, ByteArrives
  <1>2. CASE FramingError
    <2>1. UartTypeOK'
      BY <1>2, UartAssumption DEF UartTypeOK, FramingError, uartHistory
    <2>2. BytesInv'
      BY <1>2 DEF BytesInv, FramingError, uartHistory, InOrder, Has
    <2> QED
      BY <2>1, <2>2
  <1>3. CASE HardwareOverrun
    <2>1. Pend("hardware") \in Seq(Event) /\ Len(Pend("hardware")) <= QueueLength
      BY PendType DEF Event, ReceiveEvent, Other
    <2>2. UartTypeOK'
      BY <1>3, <2>1 DEF UartTypeOK, HardwareOverrun, Overran, driver
    <2> QED
      BY <1>3, <2>2, BytesUntouched DEF HardwareOverrun, Overran
  <1>4. CASE DebugSent
    <2>1. Pend("sent") \in Seq(Event) /\ Len(Pend("sent")) <= QueueLength
      BY PendType DEF Event, ReceiveEvent, Other
    <2>2. UartTypeOK'
      BY <1>4, <2>1 DEF UartTypeOK, DebugSent, driver
    <2> QED
      BY <1>4, <2>2, BytesUntouched DEF DebugSent
  <1>5. CASE SetEvent
    <2>1. /\ Head(pended) \in Event /\ Tail(pended) \in Seq(Event)
          /\ Len(Tail(pended)) = Len(pended) - 1 /\ Len(pended) \in Nat
      BY <1>5, HeadTailProperties DEF SetEvent, UartTypeOK
    <2>2. Len(pended') <= QueueLength
      BY <1>5, <2>1, QueueAssumption DEF SetEvent, UartTypeOK
    <2>3. /\ rxEvent' \subseteq ReceiveEvent /\ status' \subseteq ReceiveEvent
          /\ imuPc' \in ReaderPlace
      BY <1>5, <2>1 DEF SetEvent, UartTypeOK, ReaderPlace
    <2>4. UartTypeOK'
      BY <1>5, <2>1, <2>2, <2>3 DEF UartTypeOK, SetEvent, driver, uartHistory
    <2> QED
      BY <1>5, <2>4, BytesUntouched DEF SetEvent, uartHistory
  <1>6. CASE StartReceive
    BY <1>6, StartReceiveBytes
  <1>7. CASE WaitForEvent
    <2>1. UartTypeOK'
      BY <1>7 DEF UartTypeOK, WaitForEvent, ReaderPlace, driver, uartHistory
    <2> QED
      BY <1>7, <2>1, BytesUntouched DEF WaitForEvent, uartHistory
  <1>8. CASE GiveUp
    <2>1. UartTypeOK'
      <3>1. 0 \in 0 .. DatagramSize /\ 0 <= DatagramSize
        BY UartAssumption
      <3>2. datagram' \in Seq(Byte) /\ Len(datagram') = 0
        BY <1>8, EmptySeq DEF GiveUp
      <3> QED
        BY <1>8, <3>1, <3>2 DEF UartTypeOK, GiveUp, Report, ReaderPlace
    <2>2. BytesInv'
      BY <1>8 DEF BytesInv, GiveUp, InOrder, Has
    <2> QED
      BY <2>1, <2>2
  <1>9. CASE Accept
    <2>1. datagram' \in Seq(Byte) /\ Len(datagram') <= DatagramSize
      BY <1>9, UartAssumption DEF UartTypeOK, Accept
    <2>2. UartTypeOK'
      BY <1>9, <2>1 DEF UartTypeOK, Accept, Report, ReaderPlace, uartHistory
    <2>3. BytesInv'
      <3>1. CASE rxState = "busy"
        BY <1>9, <3>1, BytesUntouched DEF Accept, driver, uartHistory
      <3>2. CASE rxState # "busy"
        BY <1>9, <3>2 DEF BytesInv, Accept, uartHistory, InOrder, Has
      <3> QED
        BY <3>1, <3>2
    <2> QED
      BY <2>2, <2>3
  <1>10. CASE OtherUart
    <2>1. Pend(Other) \in Seq(Event) /\ Len(Pend(Other)) <= QueueLength
      BY PendType DEF Event, ReceiveEvent, Other
    <2>2. UartTypeOK'
      BY <1>10, <2>1 DEF UartTypeOK, OtherUart, driver, uartHistory
    <2> QED
      BY <1>10, <2>2, BytesUntouched DEF OtherUart, uartHistory
  <1> QED
    BY <1>1, <1>2, <1>3, <1>4, <1>5, <1>6, <1>7, <1>8, <1>9, <1>10
       DEF UartNext, ReadImuTask

LEMMA UartBytes == UartSpec => [](UartTypeOK /\ BytesInv)
  <1>1. ASSUME UartTypeOK, BytesInv, UNCHANGED uartVars
        PROVE  UartTypeOK' /\ BytesInv'
    <2>1. UartTypeOK'
      BY <1>1 DEF UartTypeOK, uartVars, driver, uartHistory
    <2> QED
      BY <1>1, <2>1, BytesUntouched DEF uartVars, uartHistory
  <1>2. UartTypeOK /\ BytesInv /\ [UartNext]_uartVars => (UartTypeOK /\ BytesInv)'
    BY <1>1, UartTypeBytesStep
  <1> QED
    BY <1>2, UartTypeBytesInit, PTL DEF UartSpec

(***************************************************************************)
(* The variables of the UART driver and of ReadImuTask have their types:   *)
(* the ring, the datagram and the queue of the timer task keep their       *)
(* bounds, whatever the bounds are.                                        *)
(***************************************************************************)
THEOREM UartTypeCorrect == UartSpec => []UartTypeOK
  <1>1. UartTypeOK /\ BytesInv => UartTypeOK
    OBVIOUS
  <1> QED
    BY <1>1, UartBytes, PTL

(***************************************************************************)
(* However bytes fall between the ring and a reception in progress, and    *)
(* whatever errors end a reception, ReadImuTask gets them in the order in  *)
(* which they came.                                                        *)
(***************************************************************************)
THEOREM UartBytesInOrder == UartSpec => []BytesInOrder
  <1>1. ASSUME UartTypeOK, BytesInv PROVE BytesInOrder
    <2> DEFINE stream == datagram \o rxRing
               n == Len(datagram)
    <2>1. datagram \in Seq(Byte) /\ rxRing \in Seq(Byte)
      BY <1>1 DEF UartTypeOK
    <2>2. /\ stream \in Seq(Byte) /\ Len(stream) = n + Len(rxRing)
          /\ \A i \in 1 .. n + Len(rxRing) :
                stream[i] = IF i <= n THEN datagram[i] ELSE rxRing[i - n]
          /\ DOMAIN stream = 1 .. n + Len(rxRing)
          /\ n \in Nat /\ Len(rxRing) \in Nat
      BY <2>1, ConcatProperties, LenProperties
    <2> HIDE DEF stream, n
    <2>3. ASSUME NEW i \in DOMAIN stream, NEW j \in DOMAIN stream,
                 stream[i] = "early", stream[j] = "late", ~(i < j)
          PROVE  FALSE
      <3>1. i \in 1 .. n + Len(rxRing) /\ j \in 1 .. n + Len(rxRing) /\ j <= i
        BY <2>2, <2>3
      <3>2. CASE i <= n
        BY <1>1, <2>2, <2>3, <3>1, <3>2 DEF BytesInv, InOrder, n
      <3>3. CASE n < j
        <4>1. i - n \in 1 .. Len(rxRing) /\ j - n \in 1 .. Len(rxRing) /\ j - n <= i - n
          BY <2>2, <3>1, <3>3
        <4>2. rxRing[i - n] = "early" /\ rxRing[j - n] = "late"
          BY <2>2, <2>3, <3>1, <3>3
        <4> QED
          BY <1>1, <4>1, <4>2 DEF BytesInv, InOrder
      <3>4. CASE j <= n /\ n < i
        <4>1. i - n \in 1 .. Len(rxRing) /\ j \in 1 .. Len(datagram)
          BY <2>2, <3>1, <3>4 DEF n
        <4>2. rxRing[i - n] = "early" /\ datagram[j] = "late"
          BY <2>2, <2>3, <3>1, <3>4
        <4> QED
          BY <1>1, <4>1, <4>2 DEF BytesInv
      <3> QED
        BY <2>2, <3>1, <3>2, <3>3, <3>4
    <2>4. rxDataSize > 0 => rxRing = <<>>
      BY <1>1 DEF BytesInv
    <2> QED
      BY <2>3, <2>4 DEF BytesInOrder, stream
  <1> QED
    BY <1>1, UartBytes, PTL

-----------------------------------------------------------------------------
(* The requests in the queue of the timer task.                            *)

Once(s, x) == \A i, j \in 1 .. Len(s) : s[i] = x /\ s[j] = x => i = j

Twice(s, x) == \A i, j, k \in 1 .. Len(s) :
                  s[i] = x /\ s[j] = x /\ s[k] = x => i = j \/ j = k \/ i = k

(* The sequence s holds x at most m times, for m up to 2. *)
AtMost(s, x, m) ==
    /\ m >= 0
    /\ m = 0 => ~Has(s, x)
    /\ m = 1 => Once(s, x)
    /\ m = 2 => Twice(s, x)

NoneAfterSent(s) ==
    \A i, j \in 1 .. Len(s) : s[i] = "sent" /\ s[j] = "complete" => j < i

LEMMA WeakenAtMost ==
    ASSUME NEW s, NEW x, NEW m \in Int, NEW n \in Int, AtMost(s, x, m), m <= n
    PROVE  AtMost(s, x, n)
  <1>1. CASE m = 0
    BY <1>1 DEF AtMost, Has, Once, Twice
  <1>2. CASE m = 1
    BY <1>2 DEF AtMost, Has, Once, Twice
  <1>3. CASE m >= 2
    BY <1>3 DEF AtMost
  <1> QED
    BY <1>1, <1>2, <1>3 DEF AtMost

LEMMA AppendOther ==
    ASSUME NEW s \in Seq(Event), NEW e \in Event, NEW x, e # x,
           NEW m \in Int, AtMost(s, x, m)
    PROVE  AtMost(Append(s, e), x, m)
  <1>1. /\ Len(Append(s, e)) = Len(s) + 1 /\ Len(s) \in Nat
        /\ \A i \in 1 .. Len(s) : Append(s, e)[i] = s[i]
        /\ Append(s, e)[Len(s) + 1] = e
    BY AppendProperties
  <1> DEFINE t == Append(s, e)
  <1> HIDE DEF t
  <1>2. \A i \in 1 .. Len(t) : t[i] = x => i \in 1 .. Len(s) /\ s[i] = x
    BY <1>1 DEF t
  <1>3. AtMost(t, x, m)
    BY <1>2 DEF AtMost, Has, Once, Twice
  <1> QED
    BY <1>3 DEF t

LEMMA AppendSame ==
    ASSUME NEW s \in Seq(Event), NEW e \in Event,
           NEW m \in Int, AtMost(s, e, m)
    PROVE  AtMost(Append(s, e), e, m + 1)
  <1>1. /\ Len(Append(s, e)) = Len(s) + 1 /\ Len(s) \in Nat
        /\ \A i \in 1 .. Len(s) : Append(s, e)[i] = s[i]
        /\ Append(s, e)[Len(s) + 1] = e
    BY AppendProperties
  <1> DEFINE t == Append(s, e)
  <1> HIDE DEF t
  <1>2. \A i \in 1 .. Len(t) : t[i] = e => i = Len(s) + 1 \/ (i \in 1 .. Len(s) /\ s[i] = e)
    BY <1>1 DEF t
  <1>3. CASE m = 0
    <2>1. Once(t, e)
      BY <1>2, <1>3 DEF AtMost, Has, Once
    <2> QED
      BY <1>3, <2>1 DEF AtMost, t
  <1>4. CASE m = 1
    <2>1. Twice(t, e)
      BY <1>2, <1>4 DEF AtMost, Once, Twice
    <2> QED
      BY <1>4, <2>1 DEF AtMost, t
  <1>5. CASE m >= 2
    BY <1>5 DEF AtMost
  <1> QED
    BY <1>3, <1>4, <1>5 DEF AtMost

LEMMA TailAtMost ==
    ASSUME NEW s \in Seq(Event), s # <<>>, NEW x, NEW m \in Int, AtMost(s, x, m), m <= 2
    PROVE  /\ AtMost(Tail(s), x, m)
           /\ Head(s) = x => AtMost(Tail(s), x, m - 1)
  <1> DEFINE t == Tail(s)
  <1>1. /\ Len(s) \in Nat /\ Len(s) > 0 /\ Len(t) = Len(s) - 1
        /\ \A i \in 1 .. Len(t) : t[i] = s[i + 1]
        /\ s[1] = Head(s)
    BY HeadTailProperties
  <1> HIDE DEF t
  <1>2. \A i \in 1 .. Len(t) : i + 1 \in 1 .. Len(s) /\ i + 1 > 1
    BY <1>1
  <1>3. AtMost(t, x, m)
    <2>1. Has(t, x) => Has(s, x)
      BY <1>1, <1>2 DEF Has
    <2>2. Once(s, x) => Once(t, x)
      <3> SUFFICES ASSUME Once(s, x), NEW i \in 1 .. Len(t), NEW j \in 1 .. Len(t),
                          t[i] = x, t[j] = x
                   PROVE  i = j
        BY DEF Once
      <3>1. s[i + 1] = x /\ s[j + 1] = x
        BY <1>1
      <3>2. i + 1 = j + 1
        BY <1>2, <3>1 DEF Once
      <3> QED
        BY <1>1, <3>2
    <2>3. Twice(s, x) => Twice(t, x)
      <3> SUFFICES ASSUME Twice(s, x), NEW i \in 1 .. Len(t), NEW j \in 1 .. Len(t),
                          NEW k \in 1 .. Len(t), t[i] = x, t[j] = x, t[k] = x
                   PROVE  i = j \/ j = k \/ i = k
        BY DEF Twice
      <3>1. s[i + 1] = x /\ s[j + 1] = x /\ s[k + 1] = x
        BY <1>1
      <3>2. i + 1 = j + 1 \/ j + 1 = k + 1 \/ i + 1 = k + 1
        BY <1>2, <3>1 DEF Twice
      <3> QED
        BY <1>1, <3>2
    <2> QED
      BY <2>1, <2>2, <2>3 DEF AtMost
  <1>4. ASSUME Head(s) = x PROVE AtMost(t, x, m - 1)
    <2>1. 1 \in 1 .. Len(s) /\ s[1] = x
      BY <1>1, <1>4
    <2>2. m >= 1
      BY <2>1 DEF AtMost, Has
    <2>3. CASE m = 1
      <3>1. ~Has(t, x)
        <4> SUFFICES ASSUME NEW i \in 1 .. Len(t), t[i] = x PROVE FALSE
          BY DEF Has
        <4>1. s[i + 1] = x
          BY <1>1
        <4> QED
          BY <1>2, <2>1, <2>3, <4>1 DEF AtMost, Once
      <3> QED
        BY <2>3, <3>1 DEF AtMost
    <2>4. CASE m = 2
      <3>1. Once(t, x)
        <4> SUFFICES ASSUME NEW i \in 1 .. Len(t), NEW j \in 1 .. Len(t), t[i] = x, t[j] = x
                     PROVE  i = j
          BY DEF Once
        <4>1. s[i + 1] = x /\ s[j + 1] = x
          BY <1>1
        <4>2. i + 1 = j + 1
          BY <1>2, <2>1, <2>4, <4>1 DEF AtMost, Twice
        <4> QED
          BY <1>1, <4>2
      <3> QED
        BY <2>4, <3>1 DEF AtMost
    <2> QED
      BY <2>2, <2>3, <2>4 DEF AtMost
  <1> QED
    BY <1>3, <1>4 DEF t

LEMMA PendOther ==
    ASSUME UartTypeOK, NEW e \in Event, NEW x, e # x, NEW m \in Int, AtMost(pended, x, m)
    PROVE  AtMost(Pend(e), x, m)
  BY AppendOther DEF Pend, Requested, UartTypeOK

LEMMA PendSame ==
    ASSUME UartTypeOK, NEW e \in Event, NEW m \in Int, AtMost(pended, e, m)
    PROVE  AtMost(Pend(e), e, m + 1)
  <1>1. pended \in Seq(Event)
    BY DEF UartTypeOK
  <1>2. CASE Len(pended) < QueueLength
    BY <1>1, <1>2, AppendSame DEF Pend, Requested
  <1>3. CASE ~(Len(pended) < QueueLength)
    BY <1>3, WeakenAtMost DEF Pend, Requested
  <1> QED
    BY <1>2, <1>3

LEMMA PendNoneAfterSent ==
    ASSUME UartTypeOK, NEW e \in Event, e # "complete", NoneAfterSent(pended)
    PROVE  NoneAfterSent(Pend(e))
  <1>1. CASE Len(pended) < QueueLength
    <2>1. /\ Len(Pend(e)) = Len(pended) + 1 /\ Len(pended) \in Nat
          /\ \A i \in 1 .. Len(pended) : Pend(e)[i] = pended[i]
          /\ Pend(e)[Len(pended) + 1] = e
      BY <1>1, AppendProperties DEF Pend, Requested, UartTypeOK
    <2> QED
      BY <2>1 DEF NoneAfterSent
  <1>2. CASE ~(Len(pended) < QueueLength)
    BY <1>2 DEF Pend, Requested
  <1> QED
    BY <1>1, <1>2

LEMMA TailNoneAfterSent ==
    ASSUME NEW s \in Seq(Event), s # <<>>, NoneAfterSent(s)
    PROVE  /\ NoneAfterSent(Tail(s))
           /\ Head(s) = "sent" => ~Has(Tail(s), "complete")
  <1>1. /\ Len(s) \in Nat /\ Len(s) > 0 /\ Len(Tail(s)) = Len(s) - 1
        /\ \A i \in 1 .. Len(Tail(s)) : Tail(s)[i] = s[i + 1]
        /\ s[1] = Head(s)
    BY HeadTailProperties
  <1>2. NoneAfterSent(Tail(s))
    BY <1>1 DEF NoneAfterSent
  <1>3. ASSUME Head(s) = "sent", NEW i \in 1 .. Len(Tail(s)), Tail(s)[i] = "complete"
        PROVE  FALSE
    <2>1. s[i + 1] = "complete" /\ i + 1 \in 1 .. Len(s) /\ 1 \in 1 .. Len(s)
      BY <1>1, <1>3
    <2>2. i + 1 < 1
      BY <1>1, <1>3, <2>1 DEF NoneAfterSent
    <2> QED
      BY <1>1, <2>2
  <1> QED
    BY <1>2, <1>3 DEF Has

Bit(p) == IF p THEN 1 ELSE 0

(* The receptions that are to complete or have, and of which ReadImuTask has
   yet to see the completion, without those of which the request still waits. *)
Completions ==
    Bit("complete" \in rxEvent) + Bit("complete" \in status) + Bit(rxState = "busy")

(* No more completions than n, with those of which the request waits. *)
CompletionLimit(n) == AtMost(pended, "complete", n - Completions)

(***************************************************************************)
(* At most two receptions have completed or will, and ReadImuTask has seen *)
(* neither: one whose completion came too late for the reception that was  *)
(* woken by another event, and the one in progress.  A new one starts only *)
(* when at most one is left, which a given up reception achieves by the    *)
(* debug output: its own request follows all that were made before.        *)
(***************************************************************************)
EventsInv ==
    /\ imuPc = "woken" <=> status # {}
    /\ CompletionLimit(2)
    /\ imuPc = "receive" => CompletionLimit(1)
    /\ imuPc = "sending" =>
          CompletionLimit(1) \/ (rxState # "busy" /\ NoneAfterSent(pended))
    /\ AtMost(pended, "sent", Bit(imuPc = "sending") - Bit(debugTx))

LEMMA CompletionsType == Completions \in 0 .. 3
  BY DEF Completions, Bit

(* A step that adds no request and no completion. *)
LEMMA LimitKept ==
    ASSUME NEW n \in Int, CompletionLimit(n), UNCHANGED pended, Completions' <= Completions
    PROVE  CompletionLimit(n)'
  <1>1. Completions \in Int /\ Completions' \in Int
    BY DEF Completions, Bit
  <1> QED
    BY <1>1, WeakenAtMost DEF CompletionLimit

(* A step that makes a request of another kind and adds no completion. *)
LEMMA LimitKeptByPend ==
    ASSUME UartTypeOK, NEW n \in Int, CompletionLimit(n), NEW e \in Event, e # "complete",
           pended' = Pend(e), Completions' <= Completions
    PROVE  CompletionLimit(n)'
  <1>1. Completions \in Int /\ Completions' \in Int
    BY DEF Completions, Bit
  <1>2. AtMost(pended', "complete", n - Completions)
    BY <1>1, PendOther DEF CompletionLimit
  <1> QED
    BY <1>1, <1>2, WeakenAtMost DEF CompletionLimit

(* A step by which a reception completes. *)
LEMMA LimitKeptByCompletion ==
    ASSUME UartTypeOK, NEW n \in Int, CompletionLimit(n),
           pended' = Pend("complete"), Completions' = Completions - 1
    PROVE  CompletionLimit(n)'
  <1>1. Completions \in Int
    BY DEF Completions, Bit
  <1>2. AtMost(pended', "complete", n - Completions + 1)
    BY <1>1, PendSame DEF CompletionLimit, Event, ReceiveEvent, Other
  <1>3. n - Completions + 1 = n - Completions'
    BY <1>1
  <1> QED
    BY <1>2, <1>3 DEF CompletionLimit

(* A step that takes a request out of the queue. *)
LEMMA LimitKeptByTail ==
    ASSUME UartTypeOK, NEW n \in 0 .. 2, CompletionLimit(n),
           pended # <<>>, pended' = Tail(pended),
           \/ Completions' <= Completions
           \/ Head(pended) = "complete" /\ Completions' <= Completions + 1
    PROVE  CompletionLimit(n)'
  <1> DEFINE m == n - Completions
             k == n - Completions'
  <1>1. Completions \in 0 .. 3 /\ Completions' \in 0 .. 3
    BY DEF Completions, Bit
  <1>2. m \in Int /\ k \in Int /\ m - 1 \in Int /\ m <= 2
    BY <1>1
  <1>3. pended \in Seq(Event) /\ AtMost(pended, "complete", m)
    BY DEF UartTypeOK, CompletionLimit
  <1>4. m <= k \/ (Head(pended) = "complete" /\ m - 1 <= k)
    <2>1. \A c, d \in Int : /\ d <= c => n - c <= n - d
                            /\ d <= c + 1 => n - c - 1 <= n - d
      OBVIOUS
    <2>2. Completions \in Int /\ Completions' \in Int
      BY <1>1
    <2>3. CASE Completions' <= Completions
      BY <2>1, <2>2, <2>3
    <2>4. CASE Head(pended) = "complete" /\ Completions' <= Completions + 1
      BY <2>1, <2>2, <2>4
    <2> QED
      BY <2>3, <2>4
  <1> HIDE DEF m, k
  <1>5. AtMost(Tail(pended), "complete", m)
        /\ (Head(pended) = "complete" => AtMost(Tail(pended), "complete", m - 1))
    BY <1>2, <1>3, TailAtMost
  <1>6. AtMost(Tail(pended), "complete", k)
    BY <1>2, <1>4, <1>5, WeakenAtMost
  <1> QED
    BY <1>6 DEF CompletionLimit, k

(* The steps of the interrupt handlers that complete nothing. *)
LEMMA EventsKept ==
    ASSUME UartTypeOK, EventsInv,
           \/ pended' = pended \/ pended' = Pend(Other)
           \/ pended' = Pend("ring") \/ pended' = Pend("hardware"),
           UNCHANGED <<imuPc, status, rxEvent, debugTx>>,
           rxState' = rxState \/ rxState' # "busy"
    PROVE  EventsInv'
  <1>1. Completions' <= Completions
    BY DEF Completions, Bit
  <1>2. \A n \in Int : CompletionLimit(n) => CompletionLimit(n)'
    BY <1>1, LimitKept, LimitKeptByPend DEF Event, ReceiveEvent, Other
  <1>3. NoneAfterSent(pended) => NoneAfterSent(pended')
    BY PendNoneAfterSent DEF Event, ReceiveEvent, Other
  <1>4. AtMost(pended', "sent", Bit(imuPc' = "sending") - Bit(debugTx'))
    <2>1. Bit(imuPc = "sending") - Bit(debugTx) \in Int
      BY DEF Bit
    <2>2. AtMost(pended', "sent", Bit(imuPc = "sending") - Bit(debugTx))
      BY <2>1, PendOther DEF EventsInv, Event, ReceiveEvent, Other
    <2> QED
      BY <2>2
  <1>5. CompletionLimit(2)' /\ (imuPc' = "receive" => CompletionLimit(1)')
    BY <1>2 DEF EventsInv
  <1>6. imuPc' = "sending" =>
          CompletionLimit(1)' \/ (rxState' # "busy" /\ NoneAfterSent(pended'))
    BY <1>2, <1>3 DEF EventsInv
  <1>7. imuPc' = "woken" <=> status' # {}
    BY DEF EventsInv
  <1> QED
    BY <1>4, <1>5, <1>6, <1>7 DEF EventsInv

LEMMA ByteToReaderEvents ==
    ASSUME UartTypeOK, BytesInv, EventsInv, NEW b \in Byte, ByteToReader(b),
           UNCHANGED <<rxEvent, imuPc, status, debugTx>>
    PROVE  EventsInv'
  <1>1. CASE rxDataSize = 1
    <2>1. rxState = "busy" /\ rxState' = "idle" /\ pended' = Pend("complete")
      BY <1>1 DEF ByteToReader, BytesInv
    <2>2. Completions' = Completions - 1
      BY <2>1 DEF Completions, Bit
    <2>3. \A n \in Int : CompletionLimit(n) => CompletionLimit(n)'
      BY <2>1, <2>2, LimitKeptByCompletion
    <2>4. AtMost(pended', "sent", Bit(imuPc' = "sending") - Bit(debugTx'))
      <3>1. Bit(imuPc = "sending") - Bit(debugTx) \in Int
        BY DEF Bit
      <3>2. AtMost(pended', "sent", Bit(imuPc = "sending") - Bit(debugTx))
        BY <2>1, <3>1, PendOther DEF EventsInv, Event, ReceiveEvent, Other
      <3> QED
        BY <3>2
    <2>5. CompletionLimit(2)' /\ (imuPc' \in {"receive", "sending"} => CompletionLimit(1)')
      BY <2>1, <2>3 DEF EventsInv
    <2>6. imuPc' = "woken" <=> status' # {}
      BY DEF EventsInv
    <2> QED
      BY <2>4, <2>5, <2>6 DEF EventsInv
  <1>2. CASE rxDataSize # 1
    BY <1>2, EventsKept DEF ByteToReader
  <1> QED
    BY <1>1, <1>2

LEMMA DebugSentEvents ==
    ASSUME UartTypeOK, EventsInv, DebugSent
    PROVE  EventsInv'
  <1>1. pended' = Pend("sent") /\ debugTx /\ ~debugTx'
        /\ UNCHANGED <<imuPc, status, rxEvent, rxState>>
    BY DEF DebugSent, driver
  <1>2. Completions' <= Completions
    BY <1>1 DEF Completions, Bit
  <1>3. \A n \in Int : CompletionLimit(n) => CompletionLimit(n)'
    BY <1>1, <1>2, LimitKeptByPend DEF Event, ReceiveEvent, Other
  <1>4. imuPc = "sending" /\ AtMost(pended, "sent", 0)
    BY <1>1 DEF EventsInv, Bit, AtMost
  <1>5. AtMost(pended', "sent", Bit(imuPc' = "sending") - Bit(debugTx'))
    <2>1. AtMost(pended', "sent", 0 + 1)
      BY <1>1, <1>4, PendSame DEF Event, ReceiveEvent, Other
    <2>2. Bit(imuPc' = "sending") - Bit(debugTx') = 0 + 1
      BY <1>1, <1>4 DEF Bit
    <2> QED
      BY <2>1, <2>2
  <1>6. NoneAfterSent(pended) => NoneAfterSent(pended')
    BY <1>1, PendNoneAfterSent DEF Event, ReceiveEvent, Other
  <1>7. CompletionLimit(2)'
        /\ (CompletionLimit(1)' \/ (rxState' # "busy" /\ NoneAfterSent(pended')))
    BY <1>1, <1>3, <1>4, <1>6 DEF EventsInv
  <1>8. imuPc' = "woken" <=> status' # {}
    BY <1>1 DEF EventsInv
  <1> QED
    BY <1>1, <1>4, <1>5, <1>7, <1>8 DEF EventsInv

(* What the places of ReadImuTask without a debug output have in common. *)
LEMMA NoneSent ==
    ASSUME EventsInv, imuPc # "sending"
    PROVE  ~debugTx /\ AtMost(pended, "sent", 0)
  BY DEF EventsInv, AtMost, Bit

LEMMA LimitWeakened ==
    ASSUME CompletionLimit(1)
    PROVE  CompletionLimit(2)
  <1>1. Completions \in Int
    BY DEF Completions, Bit
  <1>2. \A c \in Int : 1 - c \in Int /\ 2 - c \in Int /\ 1 - c <= 2 - c
    OBVIOUS
  <1> QED
    BY <1>1, <1>2, WeakenAtMost DEF CompletionLimit

LEMMA SetEventEvents ==
    ASSUME UartTypeOK, EventsInv, SetEvent
    PROVE  EventsInv'
  <1>1. /\ pended # <<>> /\ pended' = Tail(pended) /\ pended \in Seq(Event)
        /\ UNCHANGED <<rxState, debugTx>>
    BY DEF SetEvent, driver, UartTypeOK
  <1>2. Head(pended) \in Event /\ Has(pended, Head(pended))
    BY <1>1, HeadTailProperties DEF Has
  <1>3. NoneAfterSent(pended) => NoneAfterSent(pended')
    BY <1>1, TailNoneAfterSent
  <1>4. CASE Head(pended) = "sent"
    <2>1. UNCHANGED <<rxEvent, status>>
      BY <1>4 DEF SetEvent, ReceiveEvent, Other
    <2>2. imuPc = "sending" /\ ~debugTx
      BY <1>2, <1>4 DEF EventsInv, AtMost, Bit
    <2>3. imuPc' = "receive" /\ status' = {}
      BY <1>4, <2>1, <2>2 DEF SetEvent, EventsInv, ReceiveEvent, Other
    <2>4. AtMost(pended', "sent", Bit(imuPc' = "sending") - Bit(debugTx'))
      <3>1. AtMost(pended, "sent", 1)
        BY <2>2 DEF EventsInv, Bit
      <3>2. AtMost(pended', "sent", 1 - 1)
        BY <1>1, <1>4, <3>1, TailAtMost
      <3>3. Bit(imuPc' = "sending") = 0 /\ Bit(debugTx') = 0
        BY <1>1, <2>2, <2>3, Zenon DEF Bit
      <3> QED
        BY <3>2, <3>3
    <2>5. CompletionLimit(1)'
      <3>1. CASE CompletionLimit(1)
        <4>1. Completions' <= Completions
          BY <1>1, <2>1 DEF Completions, Bit
        <4> QED
          BY <1>1, <3>1, <4>1, LimitKeptByTail
      <3>2. CASE rxState # "busy" /\ NoneAfterSent(pended)
        <4>1. ~Has(pended', "complete")
          BY <1>1, <1>4, <3>2, TailNoneAfterSent
        <4>2. AtMost(pended', "complete", 0)
          BY <4>1 DEF AtMost
        <4>3. 1 - Completions' \in Int /\ 0 <= 1 - Completions'
          BY <1>1, <2>3, <3>2 DEF Completions, Bit
        <4> QED
          BY <4>2, <4>3, WeakenAtMost DEF CompletionLimit
      <3> QED
        BY <2>2, <3>1, <3>2 DEF EventsInv
    <2>6. CompletionLimit(2)'
      <3>1. CompletionLimit(1)' => CompletionLimit(2)'
        BY LimitWeakened, PTL
      <3> QED
        BY <2>5, <3>1
    <2> QED
      BY <2>3, <2>4, <2>5, <2>6 DEF EventsInv
  <1>5. CASE Head(pended) # "sent"
    <2>1. \/ Completions' <= Completions
          \/ Head(pended) = "complete" /\ Completions' <= Completions + 1
      <3>1. CASE Head(pended) # Other /\ imuPc = "blocked"
        <4>1. /\ status = {} /\ status' = rxEvent \cup {Head(pended)} /\ rxEvent' = {}
              /\ rxState' = rxState
          BY <1>1, <1>5, <3>1 DEF SetEvent, EventsInv
        <4> QED
          BY <4>1 DEF Completions, Bit
      <3>2. CASE Head(pended) # Other /\ imuPc # "blocked"
        <4>1. /\ status' = status /\ rxEvent' = rxEvent \cup {Head(pended)}
              /\ rxState' = rxState
          BY <1>1, <1>5, <3>2 DEF SetEvent
        <4> QED
          BY <4>1 DEF Completions, Bit
      <3>3. CASE Head(pended) = Other
        <4>1. UNCHANGED <<status, rxEvent, rxState>>
          BY <1>1, <1>5, <3>3 DEF SetEvent, Event, ReceiveEvent, Other
        <4> QED
          BY <4>1 DEF Completions, Bit
      <3> QED
        BY <3>1, <3>2, <3>3
    <2>2. \A n \in 0 .. 2 : CompletionLimit(n) => CompletionLimit(n)'
      BY <1>1, <2>1, LimitKeptByTail
    <2>3. imuPc' = "woken" <=> status' # {}
      BY <1>5 DEF SetEvent, EventsInv
    <2>4. imuPc' = imuPc \/ (imuPc = "blocked" /\ imuPc' = "woken")
      BY <1>5 DEF SetEvent
    <2>5. AtMost(pended', "sent", Bit(imuPc' = "sending") - Bit(debugTx'))
      <3> DEFINE m == Bit(imuPc = "sending") - Bit(debugTx)
      <3>1. m \in Int /\ m <= 2 /\ AtMost(pended, "sent", m)
        BY DEF Bit, EventsInv
      <3>2. m = Bit(imuPc' = "sending") - Bit(debugTx')
        BY <1>1, <2>4 DEF Bit
      <3> HIDE DEF m
      <3>3. AtMost(Tail(pended), "sent", m)
        BY <1>1, <3>1, TailAtMost
      <3> QED
        BY <1>1, <3>2, <3>3
    <2>6. CompletionLimit(2)' /\ (imuPc' = "receive" => CompletionLimit(1)')
      BY <2>2, <2>4 DEF EventsInv
    <2>7. imuPc' = "sending" =>
            CompletionLimit(1)' \/ (rxState' # "busy" /\ NoneAfterSent(pended'))
      BY <1>1, <1>3, <2>2, <2>4 DEF EventsInv
    <2> QED
      BY <2>3, <2>5, <2>6, <2>7 DEF EventsInv
  <1> QED
    BY <1>4, <1>5

LEMMA StartReceiveEvents ==
    ASSUME UartTypeOK, BytesInv, EventsInv, StartReceive
    PROVE  EventsInv'
  <1>1. /\ imuPc = "receive" /\ imuPc' = "wait" /\ UNCHANGED <<rxEvent, status, debugTx>>
        /\ CompletionLimit(1)
    BY DEF StartReceive, EventsInv
  <1>2. ~debugTx /\ AtMost(pended, "sent", 0)
    BY <1>1, NoneSent
  <1>3. CompletionLimit(2)'
    <2>1. CASE Completions' <= Completions /\ pended' = pended
      BY <1>1, <2>1, LimitWeakened, LimitKept
    <2>2. CASE Completions' = Completions + 1 /\ pended' = pended
      <3>1. Completions \in Int /\ Completions' \in Int
        BY DEF Completions, Bit
      <3>2. \A c, d \in Int : d = c + 1 => 2 - d = 1 - c
        OBVIOUS
      <3>3. 2 - Completions' = 1 - Completions
        BY <2>2, <3>1, <3>2
      <3> QED
        BY <1>1, <2>2, <3>3 DEF CompletionLimit
    <2>3. CASE Completions' = Completions /\ pended' = Pend("complete")
      <3>1. Completions \in Int
        BY DEF Completions, Bit
      <3>2. \A c \in Int : 1 - c + 1 = 2 - c /\ 1 - c \in Int
        OBVIOUS
      <3>3. AtMost(pended', "complete", 1 - Completions + 1)
        BY <1>1, <2>3, <3>1, <3>2, PendSame DEF CompletionLimit, Event, ReceiveEvent, Other
      <3>4. 1 - Completions + 1 = 2 - Completions'
        BY <2>3, <3>1, <3>2
      <3> QED
        BY <3>3, <3>4 DEF CompletionLimit
    <2>4. \/ pended' = pended /\ rxState' = rxState
          \/ pended' = pended /\ rxState # "busy" /\ rxState' = "busy"
          \/ pended' = Pend("complete") /\ rxState' = rxState
      BY DEF StartReceive, driver
    <2>5. \/ Completions' <= Completions /\ pended' = pended
          \/ Completions' = Completions + 1 /\ pended' = pended
          \/ Completions' = Completions /\ pended' = Pend("complete")
      BY <1>1, <2>4 DEF Completions, Bit
    <2> QED
      BY <2>1, <2>2, <2>3, <2>5
  <1>4. AtMost(pended', "sent", 0)
    <2>1. pended' = pended \/ pended' = Pend("complete")
      BY DEF StartReceive, driver
    <2> QED
      BY <1>2, <2>1, PendOther DEF Event, ReceiveEvent, Other
  <1>5. Bit(imuPc' = "sending") = 0 /\ Bit(debugTx') = 0
    BY <1>1, <1>2, Zenon DEF Bit
  <1>6. AtMost(pended', "sent", Bit(imuPc' = "sending") - Bit(debugTx'))
    BY <1>4, <1>5
  <1>7. imuPc' = "woken" <=> status' # {}
    BY <1>1 DEF EventsInv
  <1> QED
    BY <1>1, <1>3, <1>6, <1>7 DEF EventsInv

LEMMA WaitForEventEvents ==
    ASSUME UartTypeOK, EventsInv, WaitForEvent
    PROVE  EventsInv'
  <1>1. /\ imuPc = "wait" /\ status = {} /\ imuPc' \in {"blocked", "woken"}
        /\ imuPc' = "woken" <=> status' # {}
        /\ UNCHANGED <<pended, debugTx, rxState>>
    BY DEF WaitForEvent, driver, EventsInv
  <1>2. ~debugTx /\ AtMost(pended, "sent", 0)
    BY <1>1, NoneSent
  <1>3. Completions' <= Completions
    BY <1>1 DEF WaitForEvent, Completions, Bit
  <1>4. CompletionLimit(2)'
    BY <1>1, <1>3, LimitKept DEF EventsInv
  <1>5. Bit(imuPc' = "sending") = 0 /\ Bit(debugTx') = 0
    BY <1>1, <1>2, Zenon DEF Bit
  <1>6. AtMost(pended', "sent", Bit(imuPc' = "sending") - Bit(debugTx'))
    BY <1>1, <1>2, <1>5
  <1> QED
    BY <1>1, <1>4, <1>6 DEF EventsInv

LEMMA GiveUpEvents ==
    ASSUME UartTypeOK, EventsInv, GiveUp
    PROVE  EventsInv'
  <1>1. /\ imuPc = "woken" /\ imuPc' = "sending" /\ status' = {} /\ debugTx' = TRUE
        /\ rxState' = "idle" /\ rxEvent' \subseteq rxEvent /\ pended' = pended
    BY DEF GiveUp, Report
  <1>2. ~debugTx /\ AtMost(pended, "sent", 0)
    BY <1>1, NoneSent
  <1>3. Completions' <= Completions
    BY <1>1 DEF Completions, Bit
  <1>4. CompletionLimit(2)'
    BY <1>1, <1>3, LimitKept DEF EventsInv
  <1>5. NoneAfterSent(pended')
    BY <1>1, <1>2 DEF NoneAfterSent, AtMost, Has
  <1>6. Bit(imuPc' = "sending") = 1 /\ Bit(debugTx') = 1
    BY <1>1, Zenon DEF Bit
  <1>7. AtMost(pended', "sent", Bit(imuPc' = "sending") - Bit(debugTx'))
    BY <1>1, <1>2, <1>6
  <1> QED
    BY <1>1, <1>4, <1>5, <1>7 DEF EventsInv

LEMMA AcceptEvents ==
    ASSUME UartTypeOK, EventsInv, Accept
    PROVE  EventsInv'
  <1>1. /\ imuPc = "woken" /\ status # {} /\ status' = {}
        /\ UNCHANGED <<rxState, rxEvent, pended>>
        /\ \/ imuPc' = "sending" /\ debugTx' = TRUE
           \/ imuPc' = "receive" /\ debugTx' = debugTx
    BY DEF Accept, EventsInv, Report
  <1>2. ~debugTx /\ AtMost(pended, "sent", 0)
    BY <1>1, NoneSent
  <1>3. "complete" \in status
    BY <1>1 DEF Accept, Overrun, OverrunEvent, UartTypeOK, Event, ReceiveEvent, Other
  <1>4. Completions' = Completions - 1 /\ Completions \in Int /\ Completions' \in Int
    BY <1>1, <1>3 DEF Completions, Bit
  <1>5. CompletionLimit(1)'
    <2>1. \A c, d \in Int : d = c - 1 => 1 - d = 2 - c
      OBVIOUS
    <2>2. 1 - Completions' = 2 - Completions
      BY <1>4, <2>1
    <2> QED
      BY <1>1, <2>2 DEF CompletionLimit, EventsInv
  <1>6. CompletionLimit(2)'
    <2>1. CompletionLimit(1)' => CompletionLimit(2)'
      BY LimitWeakened, PTL
    <2> QED
      BY <1>5, <2>1
  <1>7. AtMost(pended', "sent", Bit(imuPc' = "sending") - Bit(debugTx'))
    <2>1. CASE imuPc' = "sending" /\ debugTx' = TRUE
      <3>1. Bit(imuPc' = "sending") = 1 /\ Bit(debugTx') = 1
        BY <2>1, Zenon DEF Bit
      <3> QED
        BY <1>1, <1>2, <3>1
    <2>2. CASE imuPc' = "receive" /\ debugTx' = debugTx
      <3>1. Bit(imuPc' = "sending") = 0 /\ Bit(debugTx') = 0
        BY <1>2, <2>2, Zenon DEF Bit
      <3> QED
        BY <1>1, <1>2, <3>1
    <2> QED
      BY <1>1, <2>1, <2>2
  <1> QED
    BY <1>1, <1>5, <1>6, <1>7 DEF EventsInv

LEMMA UartEventsInit == UartInit => EventsInv
  <1> SUFFICES ASSUME UartInit PROVE EventsInv
    OBVIOUS
  <1>1. \A x : ~Has(pended, x)
    BY DEF UartInit, Has
  <1>2. Completions = 0 /\ Bit(imuPc = "sending") = 0 /\ Bit(debugTx) = 0
    <2>1. Completions = 0 /\ Bit(imuPc = "sending") = 0
      BY DEF UartInit, Completions, Bit
    <2>2. Bit(debugTx) = 0
      BY Zenon DEF UartInit, Bit
    <2> QED
      BY <2>1, <2>2
  <1>3. \A x : AtMost(pended, x, 0) /\ AtMost(pended, x, 1) /\ AtMost(pended, x, 2)
    <2> TAKE x
    <2>1. AtMost(pended, x, 0)
      BY <1>1 DEF AtMost
    <2> QED
      BY <2>1, WeakenAtMost
  <1>4. CompletionLimit(1) /\ CompletionLimit(2)
    <2>1. 1 - Completions = 1 /\ 2 - Completions = 2
      BY <1>2
    <2> QED
      BY <1>3, <2>1 DEF CompletionLimit
  <1>5. AtMost(pended, "sent", Bit(imuPc = "sending") - Bit(debugTx))
    <2>1. Bit(imuPc = "sending") - Bit(debugTx) = 0
      BY <1>2
    <2> QED
      BY <1>3, <2>1
  <1> QED
    BY <1>4, <1>5 DEF EventsInv, UartInit

LEMMA UartEventsStep ==
    ASSUME UartTypeOK, BytesInv, EventsInv, UartNext
    PROVE  EventsInv'
  <1>1. CASE SomeByteArrives
    <2>1. PICK b \in Byte : ByteArrives(b)
      BY <1>1 DEF SomeByteArrives
    <2>2. CASE ByteToReader(b)
      BY <2>1, <2>2, ByteToReaderEvents DEF ByteArrives
    <2>3. CASE ByteToRing(b)
      BY <2>1, <2>3, EventsKept DEF ByteArrives, ByteToRing, Overran
    <2> QED
      BY <2>1, <2>2, <2>3 DEF ByteArrives
  <1>2. CASE FramingError
    BY <1>2, EventsKept DEF FramingError
  <1>3. CASE HardwareOverrun
    BY <1>3, EventsKept DEF HardwareOverrun, Overran, driver
  <1>4. CASE DebugSent
    BY <1>4, DebugSentEvents
  <1>5. CASE SetEvent
    BY <1>5, SetEventEvents
  <1>6. CASE StartReceive
    BY <1>6, StartReceiveEvents
  <1>7. CASE WaitForEvent
    BY <1>7, WaitForEventEvents
  <1>8. CASE GiveUp
    BY <1>8, GiveUpEvents
  <1>9. CASE Accept
    BY <1>9, AcceptEvents
  <1>10. CASE OtherUart
    BY <1>10, EventsKept DEF OtherUart, driver
  <1> QED
    BY <1>1, <1>2, <1>3, <1>4, <1>5, <1>6, <1>7, <1>8, <1>9, <1>10
       DEF UartNext, ReadImuTask

LEMMA UartEvents == UartSpec => [](UartTypeOK /\ BytesInv /\ EventsInv)
  <1>1. UartTypeOK /\ BytesInv /\ EventsInv /\ [UartNext]_uartVars => EventsInv'
    <2> SUFFICES ASSUME UartTypeOK, BytesInv, EventsInv, UNCHANGED uartVars
                 PROVE  EventsInv'
      BY UartEventsStep
    <2> QED
      BY EventsKept DEF uartVars, driver
  <1> QED
    BY <1>1, UartEventsInit, UartBytes, PTL DEF UartSpec

(* A set without three different members. *)
LEMMA NoThree ==
    ASSUME NEW T, \A i, j, k \in T : i = j \/ j = k \/ i = k
    PROVE  IsFiniteSet(T) /\ Cardinality(T) <= 2
  <1>1. CASE T = {}
    BY <1>1, FS_EmptySet
  <1>2. ASSUME NEW a \in T PROVE IsFiniteSet(T) /\ Cardinality(T) <= 2
    <2>1. \E b \in T : T = {a} \cup {b}
      <3>1. CASE T = {a}
        BY <3>1
      <3>2. CASE T # {a}
        <4>1. PICK b \in T : b # a
          BY <3>2
        <4> QED
          BY <4>1
      <3> QED
        BY <3>1, <3>2
    <2>2. PICK b \in T : T = {a} \cup {b}
      BY <2>1
    <2>3. /\ IsFiniteSet({a}) /\ Cardinality({a}) = 1
          /\ IsFiniteSet({b}) /\ Cardinality({b}) = 1
      BY FS_Singleton
    <2>4. /\ IsFiniteSet({a} \cup {b}) /\ Cardinality({a} \cap {b}) \in Nat
          /\ Cardinality({a} \cup {b})
                = Cardinality({a}) + Cardinality({b}) - Cardinality({a} \cap {b})
      <3>1. IsFiniteSet({a} \cap {b})
        BY <2>3, FS_Intersection
      <3> QED
        BY <2>3, <3>1, FS_Union, FS_CardinalityType
    <2>5. Cardinality({a} \cup {b}) <= 2
      BY <2>3, <2>4
    <2> QED
      BY ONLY <2>2, <2>4, <2>5
  <1> QED
    BY <1>1, <1>2

LEMMA NoTwo ==
    ASSUME NEW T, \A i, j \in T : i = j
    PROVE  IsFiniteSet(T) /\ Cardinality(T) <= 1
  <1>1. CASE T = {}
    BY <1>1, FS_EmptySet
  <1>2. ASSUME NEW a \in T PROVE IsFiniteSet(T) /\ Cardinality(T) <= 1
    <2>1. T = {a}
      BY <1>2
    <2>2. IsFiniteSet({a}) /\ Cardinality({a}) = 1
      BY FS_Singleton
    <2>3. Cardinality({a}) <= 1
      BY <2>2
    <2> QED
      BY ONLY <2>1, <2>2, <2>3
  <1> QED
    BY <1>1, <1>2

LEMMA UnionBound ==
    ASSUME NEW A, NEW B, IsFiniteSet(A), IsFiniteSet(B)
    PROVE  /\ IsFiniteSet(A \cup B)
           /\ Cardinality(A \cup B) <= Cardinality(A) + Cardinality(B)
  <1>1. /\ Cardinality(A) \in Nat /\ Cardinality(B) \in Nat
        /\ Cardinality(A \cap B) \in Nat
    BY FS_CardinalityType, FS_Intersection
  <1>2. /\ IsFiniteSet(A \cup B)
        /\ Cardinality(A \cup B)
              = Cardinality(A) + Cardinality(B) - Cardinality(A \cap B)
    BY FS_Union
  <1> QED
    BY <1>1, <1>2

(***************************************************************************)
(* A full queue in which the other UARTs leave more than three places      *)
(* tells of an overrun: two completions and the reply of the debug UART    *)
(* are all else that can be in it.                                         *)
(***************************************************************************)
LEMMA FullQueueTells ==
    ASSUME UartTypeOK, EventsInv, QueueFull(pended), ~Crowded
    PROVE  Has(pended, "ring") \/ Has(pended, "hardware")
  <1> DEFINE O == PlacesOfOthers(pended)
             S == {i \in 1 .. Len(pended) : pended[i] = "sent"}
             C == {i \in 1 .. Len(pended) : pended[i] = "complete"}
  <1>1. /\ \A i \in 1 .. Len(pended) : pended[i] \in Event
        /\ DOMAIN pended = 1 .. Len(pended)
    BY ElementOfSeq, LenProperties DEF UartTypeOK
  <1>2. IsFiniteSet(S) /\ Cardinality(S) <= 1
    <2>1. Once(pended, "sent")
      BY DEF EventsInv, AtMost, Bit, Has, Once
    <2>2. \A i, j \in S : i = j
      BY <2>1 DEF Once
    <2> HIDE DEF S
    <2> QED
      BY <2>2, NoTwo
  <1>3. IsFiniteSet(C) /\ Cardinality(C) <= 2
    <2>1. 2 - Completions \in Int /\ 2 - Completions <= 2
      BY DEF Completions, Bit
    <2>2. AtMost(pended, "complete", 2)
      BY <2>1, WeakenAtMost DEF EventsInv, CompletionLimit
    <2>3. Twice(pended, "complete")
      BY <2>2 DEF AtMost
    <2>4. \A i, j, k \in C : i = j \/ j = k \/ i = k
      BY <2>3 DEF Twice
    <2> HIDE DEF C
    <2> QED
      BY <2>4, NoThree
  <1>4. /\ Len(pended) = QueueLength /\ QueueLength \in Nat
        /\ ~(Cardinality(O) >= QueueLength - 3)
    BY QueueAssumption DEF QueueFull, Crowded
  <1>5. IsFiniteSet(1 .. QueueLength) /\ Cardinality(1 .. QueueLength) = QueueLength
    BY <1>4, FS_Interval
  <1>6. IsFiniteSet(O) /\ Cardinality(O) \in Nat
    <2>1. O \subseteq 1 .. QueueLength
      BY <1>1, <1>4 DEF PlacesOfOthers
    <2> HIDE DEF O
    <2> QED
      BY <1>5, <2>1, FS_Subset, FS_CardinalityType
  <1> SUFFICES ASSUME ~Has(pended, "ring"), ~Has(pended, "hardware")
               PROVE  FALSE
    OBVIOUS
  <1>7. 1 .. QueueLength \subseteq O \cup (S \cup C)
    BY <1>1, <1>4 DEF Event, ReceiveEvent, Other, Has, PlacesOfOthers
  <1> HIDE DEF O, S, C
  <1>8. /\ IsFiniteSet(S \cup C) /\ Cardinality(S \cup C) <= 3
        /\ Cardinality(S \cup C) \in Nat
    <2>1. Cardinality(S) \in Nat /\ Cardinality(C) \in Nat
      BY <1>2, <1>3, FS_CardinalityType
    <2>2. /\ IsFiniteSet(S \cup C)
          /\ Cardinality(S \cup C) <= Cardinality(S) + Cardinality(C)
      BY <1>2, <1>3, UnionBound
    <2>3. Cardinality(S \cup C) \in Nat
      BY <2>2, FS_CardinalityType
    <2> QED
      BY ONLY <1>2, <1>3, <2>1, <2>2, <2>3
  <1>9. /\ IsFiniteSet(O \cup (S \cup C))
        /\ Cardinality(O \cup (S \cup C)) <= Cardinality(O) + Cardinality(S \cup C)
        /\ Cardinality(O \cup (S \cup C)) \in Nat
    <2>1. /\ IsFiniteSet(O \cup (S \cup C))
          /\ Cardinality(O \cup (S \cup C)) <= Cardinality(O) + Cardinality(S \cup C)
      BY <1>6, <1>8, UnionBound
    <2>2. Cardinality(O \cup (S \cup C)) \in Nat
      BY <2>1, FS_CardinalityType
    <2> QED
      BY <2>1, <2>2
  <1>10. QueueLength <= Cardinality(O \cup (S \cup C))
    <2>1. Cardinality(1 .. QueueLength) <= Cardinality(O \cup (S \cup C))
      BY <1>7, <1>9, FS_Subset
    <2> QED
      BY <1>5, <2>1
  <1> QED
    BY ONLY <1>4, <1>6, <1>8, <1>9, <1>10

(***************************************************************************)
(* Of an overrun since the last report there is always an event that is    *)
(* set, or that is requested, or that has woken ReadImuTask.               *)
(***************************************************************************)
Told == \/ \E e \in OverrunEvent : e \in rxEvent \/ Has(pended, e)
        \/ imuPc = "woken" /\ Overrun

LEMMA OverrunPended ==
    ASSUME UartTypeOK, EventsInv, NEW e \in OverrunEvent, Overran(e)
    PROVE  Told' \/ crowdedOut'
  <1>0. pended' = Pend(e) /\ (Crowded => crowdedOut')
    BY DEF Overran
  <1>1. CASE Len(pended) < QueueLength
    <2>1. Has(pended', e)
      BY <1>0, <1>1, AppendHas DEF Pend, Requested, UartTypeOK, OverrunEvent, Event, ReceiveEvent, Other
    <2> QED
      BY <2>1 DEF Told
  <1>2. CASE ~(Len(pended) < QueueLength)
    <2>1. QueueFull(pended) /\ pended' = pended
      BY <1>0, <1>2, QueueAssumption DEF Pend, Requested, UartTypeOK, QueueFull
    <2>2. CASE Crowded
      BY <1>0, <2>2
    <2>3. CASE ~Crowded
      <3>1. Has(pended', "ring") \/ Has(pended', "hardware")
        BY <2>1, <2>3, FullQueueTells
      <3> QED
        BY <3>1 DEF Told, OverrunEvent
    <2> QED
      BY <2>2, <2>3
  <1> QED
    BY <1>1, <1>2

LEMMA PendHas ==
    ASSUME UartTypeOK, NEW e \in Event, NEW x, Has(pended, x)
    PROVE  Has(Pend(e), x)
  <1>1. pended \in Seq(Event)
    BY DEF UartTypeOK
  <1>2. Has(Append(pended, e), x)
    BY <1>1, AppendHas
  <1> QED
    BY <1>2 DEF Pend, Requested

(* A step that takes no event away, and no request. *)
LEMMA ToldKept ==
    ASSUME UartTypeOK, Told, UNCHANGED <<imuPc, status>>, rxEvent \subseteq rxEvent',
           pended' = pended \/ \E e \in Event : pended' = Pend(e)
    PROVE  Told'
  <1>1. \A x : Has(pended, x) => Has(pended', x)
    BY PendHas
  <1> QED
    BY <1>1 DEF Told, Overrun, OverrunEvent

LEMMA ToldStep ==
    ASSUME UartTypeOK, EventsInv, unreported => Told \/ crowdedOut,
           [UartNext]_uartVars
    PROVE  unreported' => Told' \/ crowdedOut'
  <1>1. CASE SomeByteArrives
    <2>1. PICK b \in Byte : ByteArrives(b)
      BY <1>1 DEF SomeByteArrives
    <2>2. CASE ByteToReader(b)
      BY <2>1, <2>2, ToldKept DEF ByteArrives, ByteToReader, Event, ReceiveEvent, Other
    <2>3. CASE ByteToRing(b)
      <3>1. CASE Overran("ring")
        BY <3>1, OverrunPended DEF OverrunEvent
      <3>2. CASE UNCHANGED <<pended, unreported, crowdedOut>>
        BY <2>1, <3>2, ToldKept DEF ByteArrives
      <3> QED
        BY <2>3, <3>1, <3>2 DEF ByteToRing, Overran
    <2> QED
      BY <2>1, <2>2, <2>3 DEF ByteArrives
  <1>2. CASE FramingError
    BY <1>2, ToldKept DEF FramingError, uartHistory
  <1>3. CASE HardwareOverrun
    BY <1>3, OverrunPended DEF HardwareOverrun, Overran, OverrunEvent
  <1>4. CASE DebugSent
    BY <1>4, ToldKept DEF DebugSent, Event, ReceiveEvent, Other
  <1>5. CASE SetEvent
    <2> SUFFICES ASSUME unreported', ~crowdedOut' PROVE Told'
      OBVIOUS
    <2>1. /\ pended # <<>> /\ pended' = Tail(pended) /\ pended \in Seq(Event)
          /\ Told
      BY <1>5 DEF SetEvent, uartHistory, UartTypeOK
    <2>2. \A x : Has(pended, x) => x = Head(pended) \/ Has(pended', x)
      <3>1. /\ Len(pended) \in Nat /\ Len(Tail(pended)) = Len(pended) - 1
            /\ Head(pended) = pended[1]
            /\ \A i \in 1 .. Len(Tail(pended)) : Tail(pended)[i] = pended[i + 1]
        BY <2>1, HeadTailProperties
      <3>2. ASSUME NEW x, NEW i \in 1 .. Len(pended), pended[i] = x, i # 1
            PROVE  Has(pended', x)
        <4>1. i - 1 \in 1 .. Len(Tail(pended)) /\ Tail(pended)[i - 1] = x
          BY <3>1, <3>2
        <4> QED
          BY <2>1, <4>1 DEF Has
      <3> QED
        BY <3>1, <3>2 DEF Has
    <2>3. CASE Head(pended) \in {"sent", Other}
      <3>1. /\ UNCHANGED <<rxEvent, status>>
            /\ imuPc = "woken" => imuPc' = "woken"
        BY <1>5, <2>3 DEF SetEvent, ReceiveEvent, Other
      <3> QED
        BY <2>1, <2>2, <2>3, <3>1 DEF Told, Overrun, OverrunEvent, Other
    <2>4. CASE Head(pended) \notin {"sent", Other} /\ imuPc = "blocked"
      <3>1. status' = rxEvent \cup {Head(pended)} /\ imuPc' = "woken"
        BY <1>5, <2>4 DEF SetEvent
      <3> QED
        BY <2>1, <2>2, <2>4, <3>1 DEF Told, Overrun, OverrunEvent
    <2>5. CASE Head(pended) \notin {"sent", Other} /\ imuPc # "blocked"
      <3>1. rxEvent' = rxEvent \cup {Head(pended)} /\ UNCHANGED <<imuPc, status>>
        BY <1>5, <2>5 DEF SetEvent
      <3> QED
        BY <2>1, <2>2, <3>1 DEF Told, Overrun, OverrunEvent
    <2> QED
      BY <2>3, <2>4, <2>5
  <1>6. CASE StartReceive
    <2>1. /\ imuPc = "receive" /\ imuPc' = "wait" /\ UNCHANGED <<rxEvent, unreported, crowdedOut>>
          /\ pended' = pended \/ pended' = Pend("complete")
      BY <1>6 DEF StartReceive, driver, uartHistory
    <2>2. \A x : Has(pended, x) => Has(pended', x)
      BY <2>1, PendHas DEF Event, ReceiveEvent, Other
    <2> QED
      BY <2>1, <2>2 DEF Told
  <1>7. CASE WaitForEvent
    BY <1>7 DEF WaitForEvent, driver, uartHistory, Told, Overrun
  <1>8. CASE GiveUp
    BY <1>8 DEF GiveUp
  <1>9. CASE Accept
    BY <1>9 DEF Accept, Told, uartHistory
  <1>10. CASE UNCHANGED uartVars
    BY <1>10 DEF uartVars, uartHistory, Told, Overrun
  <1>11. CASE OtherUart
    BY <1>11, ToldKept DEF OtherUart, Event, ReceiveEvent, Other, driver, uartHistory
  <1> QED
    BY <1>1, <1>2, <1>3, <1>4, <1>5, <1>6, <1>7, <1>8, <1>9, <1>10, <1>11
       DEF UartNext, ReadImuTask

(***************************************************************************)
(* No overrun is silent unless the other UARTs crowd the queue of the      *)
(* timer task: two completions and the reply of the debug UART are all     *)
(* that the UART of the sensor and the debug UART can have in it beside    *)
(* requests that tell of an overrun.  So a full queue in which the events  *)
(* of the other UARTs leave more than three places tells of one.           *)
(***************************************************************************)
THEOREM UartOverrunReported == UartSpec => []OverrunReported
  <1>1. UartInit => (unreported => Told \/ crowdedOut)
    BY DEF UartInit
  <1>2. UartTypeOK /\ EventsInv /\ (unreported => Told \/ crowdedOut) /\ [UartNext]_uartVars
        => (unreported => Told \/ crowdedOut)'
    BY ToldStep
  <1>3. UartTypeOK /\ (unreported => Told \/ crowdedOut) => OverrunReported
    <2>1. ASSUME UartTypeOK, NEW x, Has(pended, x) PROVE x \in ToSet(pended)
      BY <2>1 DEF UartTypeOK, Has, ToSet
    <2> QED
      BY <2>1 DEF OverrunReported, Told
  <1> QED
    BY <1>1, <1>2, <1>3, UartEvents, PTL DEF UartSpec

-----------------------------------------------------------------------------
(* Induction over the natural numbers.                                     *)

(***************************************************************************)
(* From the well-foundedness of the strict subsets of a finite set: of the *)
(* intervals 1 .. k with k outside T, one would be the least.              *)
(***************************************************************************)
LEMMA NatSetInduction ==
    ASSUME NEW T, 0 \in T, \A n \in Nat : n \in T => n + 1 \in T
    PROVE  Nat \subseteq T
  <1> SUFFICES ASSUME NEW x \in Nat, x \notin T PROVE FALSE
    OBVIOUS
  <1> DEFINE R == StrictSubsetOrdering(1 .. x)
             Z == {s \in SUBSET (1 .. x) : \E k \in Nat : k \notin T /\ s = 1 .. k}
  <1>1. IsWellFoundedOn(R, SUBSET (1 .. x))
    <2>1. IsFiniteSet(1 .. x)
      BY FS_Interval
    <2>2. FiniteSubsetsOf(1 .. x) = SUBSET (1 .. x)
      BY <2>1, FS_FiniteSubsetsOfFinite, Zenon
    <2>3. IsWellFoundedOn(R, FiniteSubsetsOf(1 .. x))
      BY FS_StrictSubsetOrderingWellFounded
    <2> QED
      BY <2>2, <2>3
  <1>2. Z \subseteq SUBSET (1 .. x) /\ 1 .. x \in Z
    OBVIOUS
  <1>3. \A s, t \in SUBSET (1 .. x) : s \subseteq t /\ s # t => <<s, t>> \in R
    BY DEF StrictSubsetOrdering
  <1> HIDE DEF R
  <1>4. PICK s \in Z : \A t \in Z : ~(<<t, s>> \in R)
    <2> HIDE DEF Z
    <2> QED
    BY <1>1, <1>2, WFMin
  <1>5. PICK k \in Nat : k \notin T /\ s = 1 .. k
    BY <1>4
  <1>6. k # 0 /\ k - 1 \in Nat /\ k - 1 \notin T
    <2>1. k # 0
      BY <1>5
    <2>2. k - 1 \in Nat /\ k = (k - 1) + 1
      BY <2>1
    <2> QED
      BY <1>5, <2>1, <2>2
  <1>7. 1 .. (k - 1) \in Z /\ 1 .. (k - 1) \subseteq s /\ 1 .. (k - 1) # s
    <2>1. 1 .. (k - 1) \subseteq s /\ k \in s /\ k \notin 1 .. (k - 1)
      BY <1>5, <1>6
    <2>2. 1 .. (k - 1) \subseteq 1 .. x
      BY <1>4, <2>1
    <2> QED
    BY <1>6, <2>1, <2>2
  <1> QED
    BY <1>3, <1>4, <1>7

-----------------------------------------------------------------------------
(* FlattenSeq, by its equation.                                            *)

LEMMA FlattenExists ==
    ASSUME NEW S, NEW seqs \in Seq(Seq(S))
    PROVE  \E g \in [1 .. Len(seqs) -> Seq(S)] :
             \A i \in 1 .. Len(seqs) : g[i] = IF i = 1 THEN seqs[i] ELSE g[i - 1] \o seqs[i]
  <1> DEFINE P(k) == \E g \in [1 .. k -> Seq(S)] :
                       \A i \in 1 .. k : g[i] = IF i = 1 THEN seqs[i] ELSE g[i - 1] \o seqs[i]
             T == {k \in Nat : k <= Len(seqs) => P(k)}
  <1>1. 0 \in T
    <2>1. 1 .. 0 = {} /\ [i \in 1 .. 0 |-> <<>>] \in [1 .. 0 -> Seq(S)]
      OBVIOUS
    <2>2. P(0)
      BY <2>1
    <2> QED
      BY <2>2
  <1>2. ASSUME NEW k \in Nat, k \in T PROVE k + 1 \in T
    <2> SUFFICES ASSUME k + 1 <= Len(seqs), P(k) PROVE P(k + 1)
      <3> HIDE DEF P
      <3> QED
        BY <1>2
    <2>1. PICK g \in [1 .. k -> Seq(S)] :
                \A i \in 1 .. k : g[i] = IF i = 1 THEN seqs[i] ELSE g[i - 1] \o seqs[i]
      OBVIOUS
    <2>2. seqs[k + 1] \in Seq(S)
      BY ElementOfSeq
    <2> DEFINE e == IF k = 0 THEN seqs[k + 1] ELSE g[k] \o seqs[k + 1]
               h == [i \in 1 .. k + 1 |-> IF i = k + 1 THEN e ELSE g[i]]
    <2>3. e \in Seq(S)
      BY <2>2, ConcatProperties
    <2> HIDE DEF e
    <2>4. h \in [1 .. k + 1 -> Seq(S)]
      BY <2>3
    <2>5. ASSUME NEW i \in 1 .. k + 1
          PROVE  h[i] = IF i = 1 THEN seqs[i] ELSE h[i - 1] \o seqs[i]
      <3>1. CASE i = k + 1
        BY <3>1 DEF e
      <3>2. CASE i # k + 1
        <4>1. i \in 1 .. k /\ (i # 1 => i - 1 \in 1 .. k)
          BY <3>2
        <4>2. h[i] = g[i] /\ (i # 1 => h[i - 1] = g[i - 1])
          BY <3>2, <4>1
        <4>3. g[i] = IF i = 1 THEN seqs[i] ELSE g[i - 1] \o seqs[i]
          BY <2>1, <4>1
        <4> HIDE DEF h
        <4> QED
          BY <4>2, <4>3
      <3> QED
        BY <3>1, <3>2
    <2> HIDE DEF h
    <2> QED
      BY <2>4, <2>5
  <1> HIDE DEF P
  <1>3. Nat \subseteq T
    <2> HIDE DEF T
    <2> QED
      BY <1>1, <1>2, NatSetInduction
  <1>4. P(Len(seqs))
    BY <1>3
  <1> QED
    BY <1>4 DEF P

LEMMA FlattenUnfold ==
    ASSUME NEW S, NEW seqs \in Seq(Seq(S)), Len(seqs) # 0
    PROVE  \E f : /\ FlattenSeq(seqs) = f[Len(seqs)]
                  /\ f = [i \in 1 .. Len(seqs) |->
                          IF i = 1 THEN seqs[i] ELSE f[i - 1] \o seqs[i]]
  <1> DEFINE Unfold(f) == f = [i \in 1 .. Len(seqs) |->
                          IF i = 1 THEN seqs[i] ELSE f[i - 1] \o seqs[i]]
             flat == CHOOSE f : Unfold(f)
  <1>1. PICK g \in [1 .. Len(seqs) -> Seq(S)] :
             \A i \in 1 .. Len(seqs) : g[i] = IF i = 1 THEN seqs[i] ELSE g[i - 1] \o seqs[i]
    BY FlattenExists
  <1>2. Unfold(g)
    BY <1>1
  <1>3. Unfold(flat)
    <2> HIDE DEF Unfold
    <2> QED
      BY <1>2
  <1>4. FlattenSeq(seqs) = flat[Len(seqs)]
    BY DEF FlattenSeq
  <1> HIDE DEF flat
  <1> QED
    BY <1>3, <1>4

LEMMA FlattenEmpty == FlattenSeq(<<>>) = <<>>
  <1>1. Len(<<>>) = 0
    BY EmptySeq
  <1> QED
    BY <1>1 DEF FlattenSeq

-----------------------------------------------------------------------------
(* Checksum, by the equation of its fold.                                  *)

LEMMA MaxOfTop ==
    ASSUME NEW k \in Nat, NEW s \in SUBSET (1 .. k + 1), k + 1 \in s
    PROVE  Max(s) = k + 1
  <1>1. \A y \in s : k + 1 >= y
    OBVIOUS
  <1>2. \A x \in s : (\A y \in s : x >= y) => x = k + 1
    OBVIOUS
  <1> QED
    BY <1>1, <1>2 DEF Max

(* The equation of the fold that Checksum is, with the sums of all sets of places. *)
Sums(h, bytes, initial, K) ==
    \A s \in SUBSET K : h[s] = IF s = {} THEN initial
                               ELSE (h[s \ {Max(s)}] - bytes[Max(s)]) % 256

LEMMA SumsExist ==
    ASSUME NEW bytes \in Seq(XbeeByte), NEW initial \in XbeeByte, NEW n \in Nat, n <= Len(bytes)
    PROVE  \E h \in [SUBSET (1 .. n) -> XbeeByte] : Sums(h, bytes, initial, 1 .. n)
  <1> DEFINE P(k) == \E h \in [SUBSET (1 .. k) -> XbeeByte] : Sums(h, bytes, initial, 1 .. k)
             T == {k \in Nat : k <= Len(bytes) => P(k)}
  <1>1. P(0)
    <2> DEFINE h == [s \in SUBSET (1 .. 0) |-> initial]
    <2>1. 1 .. 0 = {} /\ h \in [SUBSET (1 .. 0) -> XbeeByte]
      OBVIOUS
    <2>2. Sums(h, bytes, initial, 1 .. 0)
      BY <2>1 DEF Sums
    <2> QED
      BY <2>1, <2>2
  <1>2. ASSUME NEW k \in Nat, k + 1 <= Len(bytes), P(k) PROVE P(k + 1)
    <2>1. PICK h \in [SUBSET (1 .. k) -> XbeeByte] : Sums(h, bytes, initial, 1 .. k)
      BY <1>2
    <2>2. bytes[k + 1] \in XbeeByte
      BY <1>2, ElementOfSeq
    <2> DEFINE g == [s \in SUBSET (1 .. k + 1) |->
                       IF k + 1 \in s THEN (h[s \ {k + 1}] - bytes[k + 1]) % 256 ELSE h[s]]
    <2>3. \A s \in SUBSET (1 .. k + 1) :
             /\ k + 1 \notin s => s \in SUBSET (1 .. k)
             /\ s \ {k + 1} \in SUBSET (1 .. k)
      OBVIOUS
    <2>4. g \in [SUBSET (1 .. k + 1) -> XbeeByte]
      <3> SUFFICES ASSUME NEW s \in SUBSET (1 .. k + 1)
                   PROVE  (IF k + 1 \in s THEN (h[s \ {k + 1}] - bytes[k + 1]) % 256 ELSE h[s])
                          \in XbeeByte
        OBVIOUS
      <3>1. CASE k + 1 \in s
        <4>1. h[s \ {k + 1}] \in XbeeByte
          BY <2>3
        <4>2. \A a, b \in XbeeByte : (a - b) % 256 \in XbeeByte
          BY DEF XbeeByte
        <4> QED
          BY <2>2, <3>1, <4>1, <4>2
      <3>2. CASE k + 1 \notin s
        BY <2>3, <3>2
      <3> QED
        BY <3>1, <3>2
    <2>5. ASSUME NEW s \in SUBSET (1 .. k + 1)
          PROVE  g[s] = IF s = {} THEN initial ELSE (g[s \ {Max(s)}] - bytes[Max(s)]) % 256
      <3>1. CASE k + 1 \in s
        <4>1. Max(s) = k + 1 /\ s # {}
          BY <3>1, MaxOfTop
        <4>2. g[s] = (h[s \ {k + 1}] - bytes[k + 1]) % 256
          BY <3>1
        <4>3. g[s \ {k + 1}] = h[s \ {k + 1}]
          BY <2>3
        <4> HIDE DEF g
        <4> QED
          BY <4>1, <4>2, <4>3
      <3>2. CASE k + 1 \notin s
        <4>1. s \in SUBSET (1 .. k) /\ g[s] = h[s]
          BY <2>3, <3>2
        <4>2. g[s \ {Max(s)}] = h[s \ {Max(s)}]
          BY <2>3, <3>2
        <4>3. h[s] = IF s = {} THEN initial ELSE (h[s \ {Max(s)}] - bytes[Max(s)]) % 256
          BY <2>1, <4>1 DEF Sums
        <4> HIDE DEF g
        <4> QED
          BY <4>1, <4>2, <4>3
      <3> QED
        BY <3>1, <3>2
    <2> HIDE DEF g
    <2>6. Sums(g, bytes, initial, 1 .. k + 1)
      BY <2>5 DEF Sums
    <2> QED
      BY <2>4, <2>6
  <1> HIDE DEF P
  <1>3. 0 \in T /\ \A k \in Nat : k \in T => k + 1 \in T
    BY <1>1, <1>2
  <1>4. Nat \subseteq T
    <2> HIDE DEF T
    <2> QED
      BY <1>3, NatSetInduction
  <1>5. P(n)
    BY <1>4
  <1> QED
    BY <1>5 DEF P

LEMMA SumsType ==
    ASSUME NEW bytes \in Seq(XbeeByte), NEW initial \in XbeeByte, NEW h,
           Sums(h, bytes, initial, 1 .. Len(bytes))
    PROVE  h[1 .. Len(bytes)] \in XbeeByte
  <1> DEFINE T == {k \in Nat : k <= Len(bytes) => h[1 .. k] \in XbeeByte}
  <1>1. 0 \in T
    <2>1. 1 .. 0 = {} /\ {} \in SUBSET (1 .. Len(bytes))
      OBVIOUS
    <2>2. h[{}] = initial
      BY <2>1 DEF Sums
    <2> QED
      BY <2>1, <2>2
  <1>2. ASSUME NEW k \in Nat, k \in T PROVE k + 1 \in T
    <2> SUFFICES ASSUME k + 1 <= Len(bytes) PROVE h[1 .. k + 1] \in XbeeByte
      OBVIOUS
    <2>1. h[1 .. k] \in XbeeByte /\ bytes[k + 1] \in XbeeByte
      BY <1>2, ElementOfSeq
    <2>2. Max(1 .. k + 1) = k + 1
      BY MaxOfTop
    <2>3. /\ (1 .. k + 1) \ {k + 1} = 1 .. k /\ k + 1 \in 1 .. k + 1
          /\ 1 .. k + 1 \subseteq 1 .. Len(bytes)
      <3>1. Len(bytes) \in Nat
        OBVIOUS
      <3>2. 1 .. k + 1 \subseteq 1 .. Len(bytes)
        BY <3>1
      <3>3. (1 .. k + 1) \ {k + 1} = 1 .. k
        OBVIOUS
      <3> QED
        BY <3>2, <3>3
    <2>4. h[1 .. k + 1] = (h[1 .. k] - bytes[k + 1]) % 256
      <3> DEFINE s == 1 .. k + 1
      <3>1. s \in SUBSET (1 .. Len(bytes)) /\ s # {} /\ Max(s) = k + 1 /\ s \ {k + 1} = 1 .. k
        BY <2>2, <2>3
      <3> HIDE DEF s
      <3>2. h[s] = (h[s \ {Max(s)}] - bytes[Max(s)]) % 256
        BY <3>1 DEF Sums
      <3> QED
        BY <3>1, <3>2 DEF s
    <2>5. \A a, b \in XbeeByte : (a - b) % 256 \in XbeeByte
      BY DEF XbeeByte
    <2> QED
      BY <2>1, <2>4, <2>5
  <1>3. Nat \subseteq T
    <2> HIDE DEF T
    <2> QED
      BY <1>1, <1>2, NatSetInduction
  <1> QED
    BY <1>3

LEMMA ChecksumType ==
    ASSUME NEW bytes \in Seq(XbeeByte), NEW initial \in XbeeByte
    PROVE  Checksum(bytes, initial) \in XbeeByte
  <1> DEFINE Fold(h) == h = [s \in SUBSET (DOMAIN bytes) |->
                               IF s = {} THEN initial
                               ELSE LET x == Max(s) IN (h[s \ {x}] - bytes[x]) % 256]
             sums == CHOOSE h : Fold(h)
  <1>1. DOMAIN bytes = 1 .. Len(bytes) /\ Len(bytes) \in Nat
    BY LenProperties
  <1>2. PICK h \in [SUBSET (1 .. Len(bytes)) -> XbeeByte] :
               Sums(h, bytes, initial, 1 .. Len(bytes))
    <2>1. Len(bytes) <= Len(bytes)
      BY <1>1
    <2> QED
      BY <1>1, <2>1, SumsExist
  <1>3. Fold(h)
    BY <1>1, <1>2 DEF Sums
  <1>4. Fold(sums)
    <2> HIDE DEF Fold
    <2> QED
      BY <1>3
  <1>5. Checksum(bytes, initial) = sums[DOMAIN bytes]
    BY DEF Checksum, FoldLeft, MapThenFoldSet
  <1> HIDE DEF sums
  <1>6. Sums(sums, bytes, initial, 1 .. Len(bytes))
    BY <1>1, <1>4 DEF Sums
  <1> QED
    BY <1>1, <1>5, <1>6, SumsType

-----------------------------------------------------------------------------
(* Frames, one after the other.                                            *)

LEMMA TwoBytesType ==
    \A n : n \in TwoBytes <=> n \in Int /\ 0 <= n /\ n <= 65535
  <1> DEFINE m == 65535
  <1>1. TwoBytes = 0 .. m /\ m \in Int
    BY DEF TwoBytes
  <1> SUFFICES \A n : n \in TwoBytes <=> n \in Int /\ 0 <= n /\ n <= m
    OBVIOUS
  <1> HIDE DEF m
  <1> QED
    BY <1>1

LEMMA DivideBy256 == ASSUME NEW k \in Int PROVE k = (k \div 256) * 256 + (k % 256)
  OBVIOUS

LEMMA TwoBytesParts ==
    ASSUME NEW n \in TwoBytes
    PROVE  /\ n \div 256 \in XbeeByte /\ n % 256 \in XbeeByte
           /\ n = (n \div 256) * 256 + (n % 256)
  <1>1. n \in Int /\ 0 <= n /\ n <= 65535
    BY TwoBytesType
  <1>2. \A k \in Int : 0 <= k /\ k <= 65535 =>
                        k \div 256 \in 0 .. 255 /\ k % 256 \in 0 .. 255
    OBVIOUS
  <1>3. n = (n \div 256) * 256 + (n % 256)
    BY <1>1, DivideBy256
  <1> QED
    BY <1>1, <1>2, <1>3 DEF XbeeByte

LEMMA BytesJoined ==
    ASSUME NEW q \in XbeeByte, NEW r \in XbeeByte
    PROVE  /\ q * 256 + r \in TwoBytes /\ q * 256 \in TwoBytes
           /\ (q * 256 + r) \div 256 = q /\ (q * 256 + r) % 256 = r
           /\ (q * 256) \div 256 = q
  <1>1. q \in Int /\ 0 <= q /\ q <= 255 /\ r \in Int /\ 0 <= r /\ r <= 255
    BY DEF XbeeByte
  <1>2. (q * 256 + r) \div 256 = q /\ (q * 256 + r) % 256 = r /\ (q * 256) \div 256 = q
    BY <1>1
  <1>3. q * 256 + r \in Int /\ 0 <= q * 256 + r /\ q * 256 + r <= 65535
    BY <1>1
  <1>4. q * 256 \in Int /\ 0 <= q * 256 /\ q * 256 <= 65535
    BY <1>1
  <1> QED
    BY <1>2, <1>3, <1>4, TwoBytesType

LEMMA FrameLengthType ==
    ASSUME NEW f \in RadioFrames
    PROVE  /\ f \in Seq(XbeeByte) /\ Len(f) \in TwoBytes
           /\ Len(f) \in Int /\ 2 <= Len(f) /\ Len(f) <= MaxFrame
  <1>1. f \in Seq(XbeeByte) /\ Len(f) \in Int /\ 2 <= Len(f) /\ Len(f) <= MaxFrame
    BY XbeeAssumption, TwoBytesType
  <1>2. MaxFrame \in Int /\ MaxFrame <= 65535
    BY XbeeAssumption, TwoBytesType
  <1>3. \A n, m \in Int : 2 <= n /\ n <= m /\ m <= 65535 => 0 <= n /\ n <= 65535
    OBVIOUS
  <1>4. 0 <= Len(f) /\ Len(f) <= 65535
    BY <1>1, <1>2, <1>3
  <1> QED
    BY <1>1, <1>4, TwoBytesType

LEMMA EncodeProperties ==
    ASSUME NEW f \in RadioFrames
    PROVE  /\ Encode(f) \in Seq(XbeeByte) /\ Len(Encode(f)) = Len(f) + 4
           /\ Encode(f)[1] = Delimiter
           /\ Encode(f)[2] = Len(f) \div 256 /\ Encode(f)[3] = Len(f) % 256
           /\ Encode(f)[4] = Head(f)
  <1>1. f \in Seq(XbeeByte) /\ Len(f) \in TwoBytes /\ Len(f) \in Int
    BY FrameLengthType
  <1>2. 255 \in XbeeByte /\ 126 \in XbeeByte
    BY DEF XbeeByte
  <1>3. Checksum(f, 255) \in XbeeByte
    BY <1>1, <1>2, ChecksumType
  <1> DEFINE c == Checksum(f, 255)
             a == Len(f) \div 256
             b == Len(f) % 256
             h == <<Delimiter, a, b>>
             t == Append(f, c)
  <1>4. c \in XbeeByte /\ Delimiter \in XbeeByte
    BY <1>2, <1>3 DEF Delimiter
  <1>5. a \in XbeeByte /\ b \in XbeeByte
    BY <1>1, TwoBytesParts
  <1>6. Encode(f) = h \o t
    BY DEF Encode
  <1>7. Len(f) \in Nat
    BY <1>1, LenProperties
  <1> HIDE DEF a, b, c
  <1>8. t \in Seq(XbeeByte) /\ Len(t) = Len(f) + 1
    BY <1>1, <1>4, AppendProperties
  <1>9. h \in Seq(XbeeByte) /\ Len(h) = 3 /\ h[1] = Delimiter /\ h[2] = a /\ h[3] = b
    BY <1>4, <1>5
  <1> HIDE DEF h, t
  <1>10. /\ h \o t \in Seq(XbeeByte) /\ Len(h \o t) = Len(h) + Len(t)
         /\ \A i \in 1 .. Len(h) + Len(t) :
               (h \o t)[i] = IF i <= Len(h) THEN h[i] ELSE t[i - Len(h)]
    BY <1>8, <1>9, ConcatProperties
  <1>11. Len(h \o t) = Len(f) + 4 /\ \A i \in 1 .. 3 : (h \o t)[i] = h[i]
    BY <1>7, <1>8, <1>9, <1>10
  <1>12. (h \o t)[4] = Head(f)
    <2>1. 2 <= Len(f) /\ f # <<>>
      BY <1>7, FrameLengthType, EmptySeq
    <2>2. t[1] = f[1] /\ Head(f) = f[1]
      BY <1>1, <1>4, <1>7, <2>1, AppendProperties DEF t
    <2>3. (h \o t)[4] = t[4 - 3]
      BY <1>7, <1>8, <1>9, <1>10
    <2> QED
      BY <2>2, <2>3
  <1> QED
    BY <1>1, <1>6, <1>9, <1>10, <1>11, <1>12 DEF a, b

(* Concatenation, for the provers a name alone. *)
Cat(a, b) == a \o b

LEMMA CatAssociative ==
    \A a, b, c \in Seq(XbeeByte) :
        Cat(a, b) \in Seq(XbeeByte) /\ Cat(Cat(a, b), c) = Cat(a, Cat(b, c))
  <1> SUFFICES ASSUME NEW a \in Seq(XbeeByte), NEW b \in Seq(XbeeByte), NEW c \in Seq(XbeeByte)
               PROVE  Cat(a, b) \in Seq(XbeeByte) /\ Cat(Cat(a, b), c) = Cat(a, Cat(b, c))
    OBVIOUS
  <1>1. a \o b \in Seq(XbeeByte)
    BY ConcatProperties
  <1>2. (a \o b) \o c = a \o (b \o c)
    BY ConcatAssociative
  <1> QED
    BY <1>1, <1>2 DEF Cat

Join(s, f) == s \o Encode(f)

(* The sequence s is n frames, one after the other; g[i] is the first i of them. *)
FramedBy(n, s) ==
    \E fs \in [1 .. n -> RadioFrames], g \in [0 .. n -> Seq(XbeeByte)] :
        /\ g[0] = <<>> /\ g[n] = s
        /\ \A i \in 1 .. n : g[i] = Join(g[i - 1], fs[i])

LEMMA FramedZero == \A s : FramedBy(0, s) <=> s = <<>>
  <1>1. ASSUME NEW s, FramedBy(0, s) PROVE s = <<>>
    BY <1>1 DEF FramedBy
  <1>2. FramedBy(0, <<>>)
    <2> DEFINE g == [i \in 0 .. 0 |-> <<>>]
               fs == [i \in 1 .. 0 |-> <<>>]
    <2>1. g \in [0 .. 0 -> Seq(XbeeByte)] /\ g[0] = <<>>
      BY EmptySeq
    <2>2. fs \in [1 .. 0 -> RadioFrames] /\ 1 .. 0 = {}
      OBVIOUS
    <2> HIDE DEF g, fs
    <2> QED
      BY <2>1, <2>2 DEF FramedBy
  <1> QED
    BY <1>1, <1>2

LEMMA FramedAppend ==
    ASSUME NEW n \in Nat, NEW s, FramedBy(n, s), NEW f \in RadioFrames
    PROVE  s \in Seq(XbeeByte) /\ FramedBy(n + 1, Join(s, f))
  <1>1. PICK fs \in [1 .. n -> RadioFrames], g \in [0 .. n -> Seq(XbeeByte)] :
        /\ g[0] = <<>> /\ g[n] = s
        /\ \A i \in 1 .. n : g[i] = Join(g[i - 1], fs[i])
    BY DEF FramedBy
  <1>2. s \in Seq(XbeeByte)
    BY <1>1
  <1>3. Join(s, f) \in Seq(XbeeByte)
    BY <1>2, EncodeProperties, ConcatProperties DEF Join
  <1> DEFINE fs2 == [i \in 1 .. n + 1 |-> IF i = n + 1 THEN f ELSE fs[i]]
             g2 == [i \in 0 .. n + 1 |-> IF i = n + 1 THEN Join(s, f) ELSE g[i]]
  <1>4. fs2 \in [1 .. n + 1 -> RadioFrames]
    OBVIOUS
  <1>5. g2 \in [0 .. n + 1 -> Seq(XbeeByte)]
    BY <1>3
  <1>6. g2[0] = <<>> /\ g2[n + 1] = Join(s, f)
    BY <1>1
  <1>7. ASSUME NEW i \in 1 .. n + 1 PROVE g2[i] = Join(g2[i - 1], fs2[i])
    <2>1. CASE i = n + 1
      <3>1. g2[i] = Join(s, f) /\ g2[i - 1] = s /\ fs2[i] = f
        BY <1>1, <2>1
      <3> HIDE DEF g2, fs2
      <3> QED
        BY <3>1
    <2>2. CASE i # n + 1
      <3>1. i \in 1 .. n
        BY <2>2
      <3>2. g2[i] = g[i] /\ g2[i - 1] = g[i - 1] /\ fs2[i] = fs[i]
        BY <3>1
      <3> HIDE DEF g2, fs2
      <3> QED
        BY <1>1, <3>1, <3>2
    <2> QED
      BY <2>1, <2>2
  <1> HIDE DEF g2, fs2
  <1> QED
    BY <1>2, <1>4, <1>5, <1>6, <1>7 DEF FramedBy

LEMMA FramedLast ==
    ASSUME NEW n \in Nat, NEW s, FramedBy(n + 1, s)
    PROVE  \E r \in Seq(XbeeByte), f \in RadioFrames : FramedBy(n, r) /\ s = Join(r, f)
  <1>1. PICK fs \in [1 .. n + 1 -> RadioFrames], g \in [0 .. n + 1 -> Seq(XbeeByte)] :
        /\ g[0] = <<>> /\ g[n + 1] = s
        /\ \A i \in 1 .. n + 1 : g[i] = Join(g[i - 1], fs[i])
    BY DEF FramedBy
  <1> DEFINE fs2 == [i \in 1 .. n |-> fs[i]]
             g2 == [i \in 0 .. n |-> g[i]]
  <1>2. fs2 \in [1 .. n -> RadioFrames] /\ g2 \in [0 .. n -> Seq(XbeeByte)]
    OBVIOUS
  <1>3. g2[0] = <<>> /\ g2[n] = g[n]
    BY <1>1
  <1>4. ASSUME NEW i \in 1 .. n PROVE g2[i] = Join(g2[i - 1], fs2[i])
    <2>1. g2[i] = g[i] /\ g2[i - 1] = g[i - 1] /\ fs2[i] = fs[i] /\ i \in 1 .. n + 1
      OBVIOUS
    <2> HIDE DEF g2, fs2
    <2> QED
      BY <1>1, <2>1
  <1> HIDE DEF g2, fs2
  <1>5. FramedBy(n, g[n])
    BY <1>2, <1>3, <1>4 DEF FramedBy
  <1>6. g[n] \in Seq(XbeeByte) /\ fs[n + 1] \in RadioFrames
    OBVIOUS
  <1>7. s = Join(g[n], fs[n + 1])
    <2>1. n + 1 \in 1 .. n + 1 /\ n + 1 - 1 = n
      OBVIOUS
    <2> QED
      BY <1>1, <2>1
  <1> QED
    BY <1>5, <1>6, <1>7

(* The sequence s is a frame, and n frames behind it. *)
FirstFrame(n, s) ==
    \E f \in RadioFrames, r \in Seq(XbeeByte) : FramedBy(n, r) /\ s = Encode(f) \o r

LEMMA FramedFirst ==
    ASSUME NEW m \in Nat, NEW u, FramedBy(m + 1, u)
    PROVE  FirstFrame(m, u)
  <1> DEFINE P(n) == \A s : FramedBy(n + 1, s) => FirstFrame(n, s)
             T == {n \in Nat : P(n)}
  <1>1. P(0)
    <2> SUFFICES ASSUME NEW s, FramedBy(0 + 1, s) PROVE FirstFrame(0, s)
      OBVIOUS
    <2>1. PICK q \in Seq(XbeeByte), f \in RadioFrames : FramedBy(0, q) /\ s = Join(q, f)
      <3>1. 0 \in Nat
        OBVIOUS
      <3> QED
        BY <3>1, FramedLast
    <2>2. q = <<>> /\ Encode(f) \in Seq(XbeeByte)
      BY <2>1, FramedZero, EncodeProperties
    <2>3. s = Encode(f) \o q
      BY <2>1, <2>2, ConcatEmptySeq DEF Join
    <2> QED
      BY <2>1, <2>3 DEF FirstFrame
  <1>2. ASSUME NEW n \in Nat, P(n) PROVE P(n + 1)
    <2> SUFFICES ASSUME NEW s, FramedBy(n + 1 + 1, s) PROVE FirstFrame(n + 1, s)
      OBVIOUS
    <2>1. PICK q \in Seq(XbeeByte), e \in RadioFrames :
               FramedBy(n + 1, q) /\ s = Join(q, e)
      <3>1. n + 1 \in Nat
        OBVIOUS
      <3> QED
        BY <3>1, FramedLast
    <2>2. PICK f \in RadioFrames, r \in Seq(XbeeByte) : FramedBy(n, r) /\ q = Encode(f) \o r
      BY <1>2, <2>1 DEF FirstFrame
    <2>3. Encode(e) \in Seq(XbeeByte) /\ Encode(f) \in Seq(XbeeByte)
      BY EncodeProperties
    <2>4. s = Encode(f) \o (r \o Encode(e))
      <3>1. Cat(Cat(Encode(f), r), Encode(e)) = Cat(Encode(f), Cat(r, Encode(e)))
        BY <2>3, CatAssociative
      <3> QED
        BY <2>1, <2>2, <3>1 DEF Join, Cat
    <2>5. FramedBy(n + 1, r \o Encode(e)) /\ r \o Encode(e) \in Seq(XbeeByte)
      BY <2>2, <2>3, FramedAppend, ConcatProperties DEF Join
    <2> QED
      BY <2>4, <2>5 DEF FirstFrame
  <1> HIDE DEF P
  <1>3. 0 \in T /\ \A n \in Nat : n \in T => n + 1 \in T
    BY <1>1, <1>2
  <1>4. Nat \subseteq T
    <2> HIDE DEF T
    <2> QED
      BY <1>3, NatSetInduction
  <1>5. P(m)
    BY <1>4
  <1> QED
    BY <1>5 DEF P

LEMMA JoinLength ==
    ASSUME NEW r \in Seq(XbeeByte), NEW f \in RadioFrames
    PROVE  /\ Len(Join(r, f)) = Len(r) + (Len(f) + 4)
           /\ Len(r) + 5 <= Len(Join(r, f))
  <1>1. Encode(f) \in Seq(XbeeByte) /\ Len(Encode(f)) = Len(f) + 4
    BY EncodeProperties
  <1>2. Len(f) \in Int /\ 2 <= Len(f)
    BY FrameLengthType
  <1>3. Len(Join(r, f)) = Len(r) + Len(Encode(f))
    BY <1>1, ConcatProperties DEF Join
  <1>4. Len(r) \in Int
    BY LenProperties
  <1>5. \A b, c \in Int : 2 <= c => b + 5 <= b + (c + 4)
    OBVIOUS
  <1> QED
    BY <1>1, <1>2, <1>3, <1>4, <1>5

LEMMA FramedLength ==
    ASSUME NEW m \in Nat, NEW u \in Seq(XbeeByte), FramedBy(m, u)
    PROVE  5 * m <= Len(u)
  <1> DEFINE P(n) == \A s \in Seq(XbeeByte) : FramedBy(n, s) => 5 * n <= Len(s)
             T == {n \in Nat : P(n)}
  <1>1. P(0)
    BY FramedZero, EmptySeq
  <1>2. ASSUME NEW n \in Nat, P(n), NEW s \in Seq(XbeeByte), FramedBy(n + 1, s)
        PROVE  5 * (n + 1) <= Len(s)
    <2>1. \E r \in Seq(XbeeByte), f \in RadioFrames : FramedBy(n, r) /\ s = Join(r, f)
      <3> HIDE DEF P
      <3> QED
        BY <1>2, FramedLast
    <2>2. PICK r \in Seq(XbeeByte), f \in RadioFrames : FramedBy(n, r) /\ s = Join(r, f)
      BY <2>1
    <2>3. 5 * n <= Len(r)
      BY <1>2, <2>2
    <2>4. Len(r) + 5 <= Len(s)
      BY <2>2, JoinLength
    <2>5. Len(r) \in Int /\ Len(s) \in Int
      BY LenProperties
    <2>6. \A a, b, c \in Int : 5 * a <= b /\ b + 5 <= c => 5 * (a + 1) <= c
      OBVIOUS
    <2> QED
      BY <2>3, <2>4, <2>5, <2>6
  <1>3. \A n \in Nat : P(n) => P(n + 1)
    BY <1>2
  <1> HIDE DEF P
  <1>4. 0 \in T /\ \A n \in Nat : n \in T => n + 1 \in T
    BY <1>1, <1>3
  <1>5. Nat \subseteq T
    <2> HIDE DEF T
    <2> QED
      BY <1>4, NatSetInduction
  <1>6. P(m)
    BY <1>5
  <1> QED
    BY <1>6 DEF P

(* What FlattenSeq builds up, f, is what FramedBy builds up, g. *)
LEMMA FlattenMatches ==
    ASSUME NEW n \in Nat, n # 0,
           NEW fs \in [1 .. n -> RadioFrames], NEW g \in [0 .. n -> Seq(XbeeByte)],
           g[0] = <<>>, \A i \in 1 .. n : g[i] = Join(g[i - 1], fs[i]),
           NEW f, f[1] = Encode(fs[1]),
           \A i \in 1 .. n : i # 1 => f[i] = Join(f[i - 1], fs[i])
    PROVE  f[n] = g[n]
  <1> DEFINE P(k) == k + 1 <= n => f[k + 1] = g[k + 1]
             T == {k \in Nat : P(k)}
  <1>1. P(0)
    <2>1. 1 \in 1 .. n /\ 1 - 1 = 0 /\ 0 + 1 = 1
      OBVIOUS
    <2>2. g[1] = Join(<<>>, fs[1]) /\ fs[1] \in RadioFrames
      BY <2>1
    <2>3. Encode(fs[1]) \in Seq(XbeeByte)
      BY <2>2, EncodeProperties
    <2>4. g[1] = Encode(fs[1])
      BY <2>2, <2>3, ConcatEmptySeq DEF Join
    <2> QED
      BY <2>1, <2>4
  <1>2. ASSUME NEW k \in Nat, P(k) PROVE P(k + 1)
    <2>1. SUFFICES ASSUME k + 1 + 1 <= n PROVE f[k + 1 + 1] = g[k + 1 + 1]
      OBVIOUS
    <2> DEFINE i == k + 1 + 1
    <2>2. i \in 1 .. n /\ i # 1 /\ i - 1 = k + 1 /\ k + 1 <= n
      BY <2>1
    <2>3. f[k + 1] = g[k + 1]
      BY <1>2, <2>2
    <2> HIDE DEF i
    <2>4. f[i] = Join(f[k + 1], fs[i]) /\ g[i] = Join(g[k + 1], fs[i])
      BY <2>2
    <2>5. f[i] = g[i]
      BY <2>3, <2>4
    <2> QED
      BY <2>5 DEF i
  <1> HIDE DEF P
  <1>3. 0 \in T /\ \A k \in Nat : k \in T => k + 1 \in T
    <2>1. 0 \in T
      BY ONLY <1>1 DEF T
    <2>2. ASSUME NEW k \in Nat, k \in T PROVE k + 1 \in T
      <3>1. P(k) /\ k + 1 \in Nat
        BY ONLY k \in T, k \in Nat DEF T
      <3>2. P(k + 1)
        BY <1>2, <3>1
      <3> QED
        BY ONLY <3>1, <3>2 DEF T
    <2> HIDE DEF T
    <2> QED
      BY ONLY <2>1, <2>2
  <1>4. Nat \subseteq T
    <2> HIDE DEF T
    <2> QED
      BY <1>3, NatSetInduction
  <1>5. n - 1 \in Nat /\ n - 1 + 1 = n
    OBVIOUS
  <1>6. P(n - 1)
    BY <1>4, <1>5
  <1> QED
    BY <1>5, <1>6 DEF P

LEMMA FramedFlattened ==
    ASSUME NEW n \in Nat, NEW s \in Seq(XbeeByte), FramedBy(n, s)
    PROVE  \E fs \in [1 .. n -> RadioFrames] :
               FlattenSeq([i \in 1 .. n |-> Encode(fs[i])]) = s
  <1>1. PICK fs \in [1 .. n -> RadioFrames], g \in [0 .. n -> Seq(XbeeByte)] :
        /\ g[0] = <<>> /\ g[n] = s
        /\ \A i \in 1 .. n : g[i] = Join(g[i - 1], fs[i])
    BY DEF FramedBy
  <1> DEFINE seqs == [i \in 1 .. n |-> Encode(fs[i])]
  <1>2. \A i \in 1 .. n : Encode(fs[i]) \in Seq(XbeeByte)
    BY EncodeProperties
  <1>3. /\ seqs \in Seq(Seq(XbeeByte)) /\ Len(seqs) = n
        /\ \A i \in 1 .. n : seqs[i] = Encode(fs[i])
    BY <1>2
  <1> SUFFICES FlattenSeq(seqs) = s
    OBVIOUS
  <1> HIDE DEF seqs
  <1>4. CASE n = 0
    <2>1. s = <<>> /\ Len(seqs) = 0 /\ seqs = <<>>
      BY <1>1, <1>3, <1>4, EmptySeq
    <2> QED
      BY <2>1, FlattenEmpty
  <1>5. CASE n # 0
    <2>1. PICK f : /\ FlattenSeq(seqs) = f[n]
                   /\ f = [i \in 1 .. n |-> IF i = 1 THEN seqs[i] ELSE f[i - 1] \o seqs[i]]
      BY <1>3, <1>5, FlattenUnfold
    <2>2. \A i \in 1 .. n : f[i] = IF i = 1 THEN seqs[i] ELSE f[i - 1] \o seqs[i]
      BY <2>1
    <2>3. f[1] = Encode(fs[1])
      <3>1. 1 \in 1 .. n
        BY <1>5
      <3> QED
        BY <1>3, <2>2, <3>1
    <2>4. ASSUME NEW i \in 1 .. n, i # 1 PROVE f[i] = Join(f[i - 1], fs[i])
      <3>1. f[i] = f[i - 1] \o seqs[i]
        BY <2>2, <2>4
      <3> QED
        BY <1>3, <3>1 DEF Join
    <2>5. f[n] = g[n]
      <3> HIDE <2>1
      <3> QED
        BY <1>1, <1>5, <2>3, <2>4, FlattenMatches
    <2> QED
      BY <1>1, <2>1, <2>5
  <1> QED
    BY <1>4, <1>5

-----------------------------------------------------------------------------
(* The parser of the radio's frames: types.                                *)

(***************************************************************************)
(* Between the two bytes of a length, bytesInFrame has the first, which is *)
(* not the delimiter; a tick is over once it has dispatched MaxDispatch    *)
(* frames, and until a copy is undefined a packet waits in the slot only   *)
(* in a tick that has dispatched one.                                      *)
(***************************************************************************)
LengthInv ==
    frameState = "length_lsb" => \E m \in XbeeByte \ {Delimiter} : bytesInFrame = m * 256

TickInv ==
    /\ inTick => dispatched < MaxDispatch
    /\ ~undefinedCopy =>
          (~inTick \/ dispatched = 0 => receivePacketLength = NoPacket)

XbeeInv == XbeeTypeOK /\ LengthInv /\ TickInv

LEMMA ConstantsType ==
    /\ MaxFrame \in TwoBytes /\ MaxFrame \in Int /\ 2 <= MaxFrame
    /\ MaxFaults \in Nat /\ MaxDispatch \in Nat \ {0} /\ LineCapacity \in Nat
    /\ Noise \subseteq XbeeByte
    /\ HeaderLength \in Nat /\ SlotSize \in Nat /\ CleanStretch \in Nat
  <1>1. MaxFrame \in TwoBytes /\ MaxFrame \in Nat
    BY XbeeAssumption, TwoBytesType
  <1> QED
    BY <1>1, XbeeAssumption DEF CleanStretch

(* What the handler and radioReceive leave as the length of the packet. *)
SlotLength == {NoPacket} \cup (2 - HeaderLength .. MaxFrame - HeaderLength)

LEMMA SlotLengthType ==
    /\ NoPacket \in SlotLength /\ SlotLength \subseteq Int
    /\ \A n \in 2 .. MaxFrame : n - HeaderLength \in SlotLength
  BY ConstantsType DEF SlotLength, NoPacket

LEMMA SubSeqType ==
    ASSUME NEW s \in Seq(XbeeByte), NEW k \in Nat, k <= Len(s)
    PROVE  /\ SubSeq(s, k + 1, Len(s)) \in Seq(XbeeByte)
           /\ Len(SubSeq(s, k + 1, Len(s))) = Len(s) - k
           /\ SubSeq(s, 1, k) \in Seq(XbeeByte) /\ Len(SubSeq(s, 1, k)) = k
  <1>1. Len(s) \in Nat /\ \A i \in 1 .. Len(s) : s[i] \in XbeeByte
    BY LenProperties, ElementOfSeq
  <1>2. SubSeq(s, k + 1, Len(s)) \in Seq(XbeeByte)
    BY <1>1, SubSeqProperties
  <1>3. Len(SubSeq(s, k + 1, Len(s))) = Len(s) - k
    BY <1>1, SubSeqProperties
  <1>4. SubSeq(s, 1, k) \in Seq(XbeeByte) /\ Len(SubSeq(s, 1, k)) = k
    BY <1>1, SubSeqProperties
  <1> QED
    BY <1>2, <1>3, <1>4

LEMMA EncodeFits == ASSUME NEW f \in RadioFrames PROVE Encode(f) \in Seq(XbeeByte)
  BY EncodeProperties

(* What a read leaves of the line. *)
LEMMA LineType ==
    ASSUME XbeeTypeOK
    PROVE  /\ line # <<>> => /\ Head(line) \in XbeeByte /\ Tail(line) \in Seq(XbeeByte)
                             /\ Len(Tail(line)) <= LineCapacity
           /\ \A k \in Nat : k <= Len(line) =>
                /\ SubSeq(line, k + 1, Len(line)) \in Seq(XbeeByte)
                /\ Len(SubSeq(line, k + 1, Len(line))) <= LineCapacity
                /\ SubSeq(line, 1, k) \in Seq(XbeeByte) /\ Len(SubSeq(line, 1, k)) = k
  <1>1. line \in Seq(XbeeByte) /\ Len(line) \in Nat /\ Len(line) <= LineCapacity
    BY LenProperties DEF XbeeTypeOK
  <1>2. LineCapacity \in Int
    BY ConstantsType
  <1>3. ASSUME line # <<>>
        PROVE  /\ Head(line) \in XbeeByte /\ Tail(line) \in Seq(XbeeByte)
               /\ Len(Tail(line)) <= LineCapacity
    <2>1. /\ Head(line) \in XbeeByte /\ Tail(line) \in Seq(XbeeByte)
          /\ Len(Tail(line)) = Len(line) - 1
      BY <1>1, <1>3, HeadTailProperties
    <2> QED
      BY <1>1, <1>2, <2>1
  <1>4. ASSUME NEW k \in Nat, k <= Len(line)
        PROVE  /\ SubSeq(line, k + 1, Len(line)) \in Seq(XbeeByte)
               /\ Len(SubSeq(line, k + 1, Len(line))) <= LineCapacity
               /\ SubSeq(line, 1, k) \in Seq(XbeeByte) /\ Len(SubSeq(line, 1, k)) = k
    <2>1. Len(line) - k <= LineCapacity
      BY <1>1, <1>2
    <2> QED
      BY <1>1, <1>4, <2>1, SubSeqType
  <1> QED
    BY <1>3, <1>4

LEMMA FaultType == ASSUME faults \in 0 .. MaxFaults, Fault PROVE faults' \in 0 .. MaxFaults
  BY ConstantsType DEF Fault

LEMMA XbeeInvInit == XbeeInit => XbeeInv
  <1> SUFFICES ASSUME XbeeInit PROVE XbeeInv
    OBVIOUS
  <1>1. 0 \in TwoBytes
    BY TwoBytesType
  <1>2. <<>> \in Seq(XbeeByte) /\ Len(<<>>) = 0
    BY EmptySeq
  <1>3. 0 <= LineCapacity /\ 0 <= MaxFrame /\ 0 \in 0 .. MaxFaults /\ 0 \in 0 .. MaxDispatch
    BY ConstantsType
  <1>4. frameState \in {"waitstart", "uninitialised"}
    BY DEF XbeeInit
  <1>5. frameState \in XbeeState /\ frameState # "rxframe" /\ frameState # "length_lsb"
    BY <1>4 DEF XbeeState
  <1>6. /\ toSend = <<>> /\ line = <<>> /\ faults = 0 /\ bytesInFrame = 0
        /\ inTick = FALSE /\ dispatched = 0 /\ receivePacketLength = NoPacket
        /\ undefinedCopy = FALSE /\ cleanBytes = 0
    BY DEF XbeeInit
  <1>7. XbeeTypeOK
    <2>1. 0 \in 0 .. CleanStretch
      BY ConstantsType
    <2> QED
      BY <1>1, <1>2, <1>3, <1>5, <1>6, <2>1 DEF XbeeTypeOK
  <1>8. LengthInv
    BY <1>5 DEF LengthInv
  <1>9. TickInv
    BY <1>6 DEF TickInv, NoPacket
  <1> QED
    BY <1>7, <1>8, <1>9 DEF XbeeInv

(* The parser is left alone. *)
LEMMA RadioStepInv ==
    ASSUME XbeeInv, UNCHANGED parser,
           toSend' \in Seq(XbeeByte), line' \in Seq(XbeeByte), Len(line') <= LineCapacity,
           faults' \in 0 .. MaxFaults, cleanBytes' \in 0 .. CleanStretch
    PROVE  XbeeInv'
  <1> USE DEF XbeeInv, parser, packetSlot
  <1>1. XbeeTypeOK'
    BY DEF XbeeTypeOK
  <1>2. LengthInv'
    BY DEF LengthInv
  <1>3. TickInv'
    BY DEF TickInv
  <1> QED
    BY <1>1, <1>2, <1>3

(* Only the bytes of a frame are read, or nothing is. *)
LEMMA ReadStepInv ==
    ASSUME XbeeInv, UNCHANGED <<toSend, cleanBytes, inTick, dispatched>>,
           UNCHANGED packetSlot, faults' \in 0 .. MaxFaults,
           line' \in Seq(XbeeByte), Len(line') <= LineCapacity,
           frameState' \in XbeeState, bytesInFrame' \in TwoBytes,
           frameState' = "rxframe" => bytesInFrame' \in 2 .. MaxFrame,
           LengthInv'
    PROVE  XbeeInv'
  <1> USE DEF XbeeInv, packetSlot
  <1>1. XbeeTypeOK'
    BY DEF XbeeTypeOK
  <1>2. TickInv'
    BY DEF TickInv
  <1> QED
    BY <1>1, <1>2

(* The tick ends, or a frame is dispatched. *)
LEMMA TickStepInv ==
    ASSUME XbeeInv, UNCHANGED toSend, faults' \in 0 .. MaxFaults,
           line' \in Seq(XbeeByte), Len(line') <= LineCapacity,
           UNCHANGED <<bytesInFrame, cleanBytes>>,
           frameState' = frameState \/ frameState' = "waitstart",
           inTick' \in BOOLEAN, dispatched' \in 0 .. MaxDispatch,
           receivePacketLength' \in SlotLength, undefinedCopy' \in BOOLEAN,
           TickInv'
    PROVE  XbeeInv'
  <1> USE DEF XbeeInv
  <1>1. "waitstart" \in XbeeState
    BY DEF XbeeState
  <1>2. XbeeTypeOK'
    BY <1>1 DEF XbeeTypeOK, SlotLength
  <1>3. LengthInv'
    BY DEF LengthInv
  <1> QED
    BY <1>2, <1>3

LEMMA radioReceiveReturnsInv ==
    ASSUME XbeeInv, NEW length \in SlotLength, NEW count \in 0 .. MaxDispatch,
           ~undefinedCopy /\ count = 0 => length = NoPacket,
           radioReceiveReturns(length, count)
    PROVE  /\ inTick' \in BOOLEAN /\ dispatched' \in 0 .. MaxDispatch
           /\ receivePacketLength' \in SlotLength /\ undefinedCopy' \in BOOLEAN
           /\ TickInv'
  <1>1. inTick' = FALSE /\ dispatched' = count
    BY DEF radioReceiveReturns
  <1>2. /\ receivePacketLength' = IF count > 0 /\ length >= NoPacket THEN NoPacket ELSE length
        /\ undefinedCopy' = (undefinedCopy \/ (count > 0 /\ length < NoPacket))
    BY DEF radioReceiveReturns
  <1>3. receivePacketLength' \in SlotLength
    BY <1>2, SlotLengthType
  <1>4. undefinedCopy' \in BOOLEAN
    BY <1>2 DEF XbeeInv, XbeeTypeOK
  <1>5. ~undefinedCopy' => receivePacketLength' = NoPacket
    <2>1. count \in Int /\ count >= 0 /\ length \in Int /\ NoPacket \in Int
      BY SlotLengthType, ConstantsType
    <2>2. count > 0 \/ count = 0
      BY <2>1
    <2>3. length >= NoPacket \/ length < NoPacket
      BY <2>1
    <2> QED
      BY ONLY <1>2, <2>2, <2>3, ~undefinedCopy /\ count = 0 => length = NoPacket
  <1>6. TickInv'
    BY <1>1, <1>5 DEF TickInv
  <1> QED
    BY <1>1, <1>3, <1>4, <1>6

(* What the tick hands to radioReceive when it ends without a frame. *)
LEMMA TickEndsInv ==
    ASSUME XbeeInv, inTick, radioReceiveReturns(receivePacketLength, dispatched)
    PROVE  /\ inTick' \in BOOLEAN /\ dispatched' \in 0 .. MaxDispatch
           /\ receivePacketLength' \in SlotLength /\ undefinedCopy' \in BOOLEAN
           /\ TickInv'
  <1>1. receivePacketLength \in SlotLength /\ dispatched \in 0 .. MaxDispatch
    BY DEF XbeeInv, XbeeTypeOK, SlotLength
  <1>2. ~undefinedCopy /\ dispatched = 0 => receivePacketLength = NoPacket
    BY DEF XbeeInv, TickInv
  <1> QED
    BY <1>1, <1>2, radioReceiveReturnsInv

(* The length that the handler leaves. *)
LengthAfter(data) ==
    IF Head(data) = ReceiveType THEN Len(data) - HeaderLength ELSE receivePacketLength

LEMMA DispatchCases ==
    ASSUME NEW data, Dispatch(data)
    PROVE  \/ /\ Head(data) = ReceiveType /\ Len(data) > SlotSize
              /\ undefinedCopy' = TRUE /\ receivePacketLength' = Len(data) - HeaderLength
              /\ UNCHANGED <<inTick, dispatched>>
           \/ /\ dispatched + 1 = MaxDispatch
              /\ radioReceiveReturns(LengthAfter(data), MaxDispatch)
           \/ /\ dispatched + 1 # MaxDispatch
              /\ dispatched' = dispatched + 1 /\ receivePacketLength' = LengthAfter(data)
              /\ UNCHANGED <<inTick, undefinedCopy>>
  BY DEF Dispatch, LengthAfter

LEMMA DispatchInv ==
    ASSUME XbeeInv, inTick, NEW data, Len(data) \in 2 .. MaxFrame, Dispatch(data)
    PROVE  /\ inTick' \in BOOLEAN /\ dispatched' \in 0 .. MaxDispatch
           /\ receivePacketLength' \in SlotLength /\ undefinedCopy' \in BOOLEAN
           /\ TickInv'
  <1>1. /\ dispatched \in 0 .. MaxDispatch /\ dispatched \in Int /\ 0 <= dispatched
        /\ receivePacketLength \in SlotLength /\ undefinedCopy \in BOOLEAN
    BY ConstantsType DEF XbeeInv, XbeeTypeOK, SlotLength
  <1>2. dispatched < MaxDispatch /\ MaxDispatch \in Int /\ MaxDispatch > 0
    BY ConstantsType DEF XbeeInv, TickInv
  <1>3. Len(data) - HeaderLength \in SlotLength /\ LengthAfter(data) \in SlotLength
    BY <1>1, SlotLengthType DEF LengthAfter
  <1>4. CASE /\ undefinedCopy' = TRUE /\ receivePacketLength' = Len(data) - HeaderLength
             /\ UNCHANGED <<inTick, dispatched>>
    <2>1. TickInv'
      BY <1>2, <1>4 DEF TickInv
    <2> QED
      BY <1>1, <1>3, <1>4, <2>1
  <1>5. CASE radioReceiveReturns(LengthAfter(data), MaxDispatch)
    <2>1. MaxDispatch \in 0 .. MaxDispatch /\ MaxDispatch # 0
      BY <1>2
    <2> QED
      BY <1>3, <1>5, <2>1, radioReceiveReturnsInv
  <1>6. CASE /\ dispatched + 1 # MaxDispatch
             /\ dispatched' = dispatched + 1 /\ receivePacketLength' = LengthAfter(data)
             /\ UNCHANGED <<inTick, undefinedCopy>>
    <2>1. /\ dispatched + 1 \in 0 .. MaxDispatch /\ dispatched + 1 < MaxDispatch
          /\ dispatched + 1 # 0
      BY <1>1, <1>2, <1>6
    <2>2. TickInv'
      BY <1>6, <2>1 DEF TickInv
    <2> QED
      BY <1>1, <1>3, <1>6, <2>1, <2>2
  <1> QED
    BY <1>4, <1>5, <1>6, DispatchCases

LEMMA XbeeInvStep == XbeeInv /\ [XbeeNext]_xbeeVars => XbeeInv'
  <1> SUFFICES ASSUME XbeeInv, [XbeeNext]_xbeeVars PROVE XbeeInv'
    OBVIOUS
  <1>1. /\ XbeeTypeOK /\ LengthInv
        /\ toSend \in Seq(XbeeByte) /\ line \in Seq(XbeeByte) /\ Len(line) <= LineCapacity
        /\ faults \in 0 .. MaxFaults /\ cleanBytes \in 0 .. CleanStretch
    BY DEF XbeeInv, XbeeTypeOK
  <1>2. /\ Len(line) \in Nat /\ LineCapacity \in Nat
        /\ Len(toSend) \in Nat
    BY <1>1, ConstantsType, LenProperties
  <1>3. ASSUME NEW f \in RadioFrames, BeginFrame(f) PROVE XbeeInv'
    <2>1. Encode(f) \in Seq(XbeeByte)
      BY EncodeFits
    <2>2. toSend' = Encode(f) /\ UNCHANGED <<line, faults>> /\ UNCHANGED parser
      BY <1>3 DEF BeginFrame
    <2>3. cleanBytes' \in 0 .. CleanStretch
      <3>1. /\ Len(f) \in Int /\ 2 <= Len(f) /\ CleanStretch \in Nat
            /\ cleanBytes \in Int /\ 0 <= cleanBytes
        BY <1>1, FrameLengthType, ConstantsType
      <3>2. \/ cleanBytes' = 0 \/ cleanBytes' = CleanStretch
            \/ /\ cleanBytes + Len(f) + 4 < CleanStretch
               /\ cleanBytes' = cleanBytes + Len(f) + 4
        BY <1>3 DEF BeginFrame
      <3> QED
        BY ONLY <3>1, <3>2
    <2> QED
      BY <1>1, <2>1, <2>2, <2>3, RadioStepInv
  <1>4. CASE SendByte
    <2>1. Head(toSend) \in XbeeByte /\ Tail(toSend) \in Seq(XbeeByte)
      BY <1>1, <1>4, HeadTailProperties DEF SendByte
    <2>2. /\ line' = Append(line, Head(toSend)) /\ toSend' = Tail(toSend) /\ faults' = faults
          /\ Len(line) < LineCapacity /\ UNCHANGED parser /\ UNCHANGED cleanBytes
      BY <1>4 DEF SendByte
    <2>3. line' \in Seq(XbeeByte) /\ Len(line') = Len(line) + 1
      BY <1>1, <2>1, <2>2, AppendProperties
    <2>4. Len(line') <= LineCapacity
      BY <1>2, <2>2, <2>3
    <2> QED
      BY <1>1, <2>1, <2>2, <2>3, <2>4, RadioStepInv
  <1>5. CASE LoseByte
    <2>1. Tail(toSend) \in Seq(XbeeByte)
      BY <1>1, <1>5, HeadTailProperties DEF LoseByte
    <2>2. /\ toSend' = Tail(toSend) /\ line' = line /\ Fault
          /\ UNCHANGED parser /\ UNCHANGED cleanBytes
      BY <1>5 DEF LoseByte
    <2> QED
      BY <1>1, <2>1, <2>2, FaultType, RadioStepInv
  <1>6. ASSUME NEW b \in Noise, AddNoise(b) PROVE XbeeInv'
    <2>1. b \in XbeeByte
      BY ConstantsType
    <2>2. /\ line' = Append(line, b) /\ toSend' = toSend /\ Fault
          /\ Len(line) < LineCapacity /\ UNCHANGED parser /\ UNCHANGED cleanBytes
      BY <1>6 DEF AddNoise
    <2>3. line' \in Seq(XbeeByte) /\ Len(line') = Len(line) + 1
      BY <1>1, <2>1, <2>2, AppendProperties
    <2>4. Len(line') <= LineCapacity
      BY <1>2, <2>2, <2>3
    <2> QED
      BY <1>1, <2>2, <2>3, <2>4, FaultType, RadioStepInv
  <1>7. CASE TickBegins
    <2>1. /\ ~inTick /\ inTick' = TRUE /\ dispatched' = 0
          /\ UNCHANGED <<toSend, faults, cleanBytes, line, frameState, bytesInFrame>>
          /\ UNCHANGED <<receivePacketLength, undefinedCopy>>
      BY <1>7 DEF TickBegins, radio, packetSlot
    <2>2. 0 \in 0 .. MaxDispatch /\ 0 < MaxDispatch
      BY ConstantsType
    <2>3. TickInv'
      BY <2>1, <2>2 DEF XbeeInv, TickInv
    <2>4. receivePacketLength \in SlotLength /\ undefinedCopy \in BOOLEAN
      BY DEF XbeeInv, XbeeTypeOK, SlotLength
    <2> QED
      BY <1>1, <2>1, <2>2, <2>3, <2>4, TickStepInv
  <1>8. CASE InvalidState
    <2>1. /\ frameState' = "waitstart" /\ faults' = faults /\ line' = line
          /\ UNCHANGED <<toSend, cleanBytes, inTick, dispatched>> /\ UNCHANGED packetSlot
          /\ bytesInFrame' = bytesInFrame
      BY <1>8 DEF InvalidState, radio
    <2>2. "waitstart" \in XbeeState /\ "waitstart" # "rxframe" /\ "waitstart" # "length_lsb"
      BY DEF XbeeState
    <2>3. LengthInv'
      BY <2>1, <2>2 DEF LengthInv
    <2>4. bytesInFrame \in TwoBytes
      BY <1>1 DEF XbeeTypeOK
    <2> QED
      BY <1>1, <2>1, <2>2, <2>3, <2>4, ReadStepInv
  <1>9. CASE NothingToRead
    <2>1. /\ inTick /\ radioReceiveReturns(receivePacketLength, dispatched)
          /\ UNCHANGED <<toSend, faults, cleanBytes, line, frameState, bytesInFrame>>
      BY <1>9 DEF NothingToRead, radio
    <2> QED
      BY <1>1, <2>1, TickEndsInv, TickStepInv
  <1>10. ASSUME NEW n \in 0 .. MaxFrame, ReadGivenUp(n) PROVE XbeeInv'
    <2>1. /\ inTick /\ radioReceiveReturns(receivePacketLength, dispatched) /\ Fault
          /\ n <= Len(line) /\ line' = SubSeq(line, n + 1, Len(line))
          /\ UNCHANGED <<toSend, cleanBytes, frameState, bytesInFrame>>
      BY <1>10 DEF ReadGivenUp
    <2>2. n \in Nat
      BY ConstantsType
    <2>3. line' \in Seq(XbeeByte) /\ Len(line') <= LineCapacity
      BY <1>1, <2>1, <2>2, LineType
    <2> QED
      BY <1>1, <2>1, <2>3, FaultType, TickEndsInv, TickStepInv
  <1>11. CASE ReadStart
    <2>1. /\ line # <<>> /\ line' = Tail(line) /\ faults' = faults
          /\ UNCHANGED <<toSend, cleanBytes, inTick, dispatched>> /\ UNCHANGED packetSlot
          /\ bytesInFrame' = bytesInFrame
          /\ frameState' = "length_msb" \/ frameState' = "waitstart"
      BY <1>11 DEF ReadStart, Read, radio
    <2>2. frameState' \in XbeeState /\ frameState' # "rxframe" /\ frameState' # "length_lsb"
      BY <2>1 DEF XbeeState
    <2>3. LengthInv'
      BY <2>2 DEF LengthInv
    <2>4. bytesInFrame \in TwoBytes
      BY <1>1 DEF XbeeTypeOK
    <2>5. line' \in Seq(XbeeByte) /\ Len(line') <= LineCapacity
      BY <1>1, <2>1, LineType
    <2> QED
      BY <1>1, <2>1, <2>2, <2>3, <2>4, <2>5, ReadStepInv
  <1>12. CASE ReadLengthMSB
    <2>1. /\ line # <<>> /\ line' = Tail(line) /\ faults' = faults
          /\ UNCHANGED <<toSend, cleanBytes, inTick, dispatched>> /\ UNCHANGED packetSlot
          /\ frameState = "length_msb"
      BY <1>12 DEF ReadLengthMSB, Read, radio
    <2>2. line' \in Seq(XbeeByte) /\ Len(line') <= LineCapacity /\ Head(line) \in XbeeByte
      BY <1>1, <2>1, LineType
    <2>3. bytesInFrame \in TwoBytes /\ Head(line) * 256 \in TwoBytes
      BY <1>1, <2>2, BytesJoined DEF XbeeTypeOK
    <2>4. \/ frameState' = "length_msb" /\ bytesInFrame' = bytesInFrame
          \/ /\ frameState' = "length_lsb" /\ bytesInFrame' = Head(line) * 256
             /\ Head(line) # Delimiter
      BY <1>12, <2>1 DEF ReadLengthMSB
    <2>5. frameState' \in XbeeState /\ frameState' # "rxframe" /\ bytesInFrame' \in TwoBytes
      BY <2>3, <2>4 DEF XbeeState
    <2>6. LengthInv'
      BY <2>2, <2>4 DEF LengthInv
    <2> QED
      BY <1>1, <2>1, <2>2, <2>5, <2>6, ReadStepInv
  <1>13. CASE ReadLengthLSB
    <2>1. /\ line # <<>> /\ line' = Tail(line) /\ faults' = faults
          /\ UNCHANGED <<toSend, cleanBytes, inTick, dispatched>> /\ UNCHANGED packetSlot
          /\ frameState = "length_lsb" /\ bytesInFrame' = bytesInFrame + Head(line)
      BY <1>13 DEF ReadLengthLSB, Read, radio
    <2>2. line' \in Seq(XbeeByte) /\ Len(line') <= LineCapacity /\ Head(line) \in XbeeByte
      BY <1>1, <2>1, LineType
    <2>3. PICK m \in XbeeByte : bytesInFrame = m * 256
      BY <1>1, <2>1 DEF LengthInv
    <2>4. bytesInFrame' \in TwoBytes
      <3>1. m * 256 + Head(line) \in TwoBytes
        BY <2>2, BytesJoined
      <3> QED
        BY <2>1, <2>3, <3>1
    <2>5. \/ frameState' = "rxframe" /\ bytesInFrame' \in 2 .. MaxFrame
          \/ frameState' = "length_msb" \/ frameState' = "waitstart"
      BY <1>13 DEF ReadLengthLSB
    <2>6. frameState' \in XbeeState /\ frameState' # "length_lsb"
      BY <2>5 DEF XbeeState
    <2>7. LengthInv'
      BY <2>6 DEF LengthInv
    <2> QED
      BY <1>1, <2>1, <2>2, <2>4, <2>5, <2>6, <2>7, ReadStepInv
  <1>14. CASE ReadFrame
    <2>1. /\ inTick /\ frameState = "rxframe" /\ frameState' = "waitstart"
          /\ Len(line) >= bytesInFrame + 1
          /\ line' = SubSeq(line, bytesInFrame + 1 + 1, Len(line))
          /\ UNCHANGED <<toSend, faults, cleanBytes, bytesInFrame>>
      BY <1>14 DEF ReadFrame, Read, Wanted, radio
    <2>2. bytesInFrame \in 2 .. MaxFrame
      BY <1>1, <2>1 DEF XbeeTypeOK
    <2>3. /\ bytesInFrame \in Nat /\ bytesInFrame + 1 \in Nat /\ bytesInFrame <= MaxFrame
          /\ bytesInFrame + 1 <= Len(line) /\ bytesInFrame <= Len(line)
      BY <1>2, <2>1, <2>2, ConstantsType
    <2>4. line' \in Seq(XbeeByte) /\ Len(line') <= LineCapacity
      BY <1>1, <2>1, <2>3, LineType
    <2>5. \/ Dispatch(SubSeq(line, 1, bytesInFrame))
          \/ UNCHANGED <<inTick, dispatched>> /\ UNCHANGED packetSlot
      BY <1>14 DEF ReadFrame
    <2>6. /\ inTick' \in BOOLEAN /\ dispatched' \in 0 .. MaxDispatch
          /\ receivePacketLength' \in SlotLength /\ undefinedCopy' \in BOOLEAN
          /\ TickInv'
      <3>1. CASE Dispatch(SubSeq(line, 1, bytesInFrame))
        <4>1. Len(SubSeq(line, 1, bytesInFrame)) \in 2 .. MaxFrame
          BY <1>1, <2>2, <2>3, LineType
        <4> QED
          BY <2>1, <3>1, <4>1, DispatchInv
      <3>2. CASE UNCHANGED <<inTick, dispatched>> /\ UNCHANGED packetSlot
        <4>1. TickInv'
          BY <3>2 DEF XbeeInv, TickInv, packetSlot
        <4> QED
          BY <1>1, <3>2, <4>1 DEF XbeeTypeOK, SlotLength, packetSlot
      <3> QED
        BY <2>5, <3>1, <3>2
    <2> QED
      BY <1>1, <2>1, <2>4, <2>6, TickStepInv
  <1>15. CASE UNCHANGED xbeeVars
    <2>1. UNCHANGED <<toSend, line, faults, cleanBytes>> /\ UNCHANGED parser
      BY <1>15 DEF xbeeVars, radio
    <2> QED
      BY <1>1, <2>1, RadioStepInv
  <1> QED
    BY <1>3, <1>4, <1>5, <1>6, <1>7, <1>8, <1>9, <1>10, <1>11, <1>12, <1>13, <1>14, <1>15
       DEF XbeeNext, xbee_frame_load

LEMMA XbeeInvariant == XbeeSpec => []XbeeInv
  BY XbeeInvInit, XbeeInvStep, PTL DEF XbeeSpec

(***************************************************************************)
(* Whatever the bytes on the line, every variable keeps its type; above    *)
(* all, a frame that is read fits into frame_data, whatever length was     *)
(* announced (xbee_device.c, _xbee_frame_load).  It need not fit into the  *)
(* slot of radio.c: see XbeeOnlyMisfitsUndefined.                          *)
(***************************************************************************)
THEOREM XbeeTypeCorrect == XbeeSpec => []XbeeTypeOK
  <1>1. XbeeInv => XbeeTypeOK
    BY DEF XbeeInv
  <1> QED
    BY <1>1, XbeeInvariant, PTL

(***************************************************************************)
(* radioReceive leaves no packet behind for its next call, whatever frames *)
(* and noise arrive and however the tick ends (radio.c, 60), up to the     *)
(* first copy whose effect is undefined.                                   *)
(***************************************************************************)
THEOREM XbeeNoStalePacket == XbeeSpec => []NoStalePacket
  <1>1. XbeeInv => NoStalePacket
    BY DEF XbeeInv, TickInv, NoStalePacket
  <1> QED
    BY <1>1, XbeeInvariant, PTL

-----------------------------------------------------------------------------
(* The parser of the radio's frames: it stays in step.                     *)

(***************************************************************************)
(* On a clean line, what the parser has read of a frame, what is on the    *)
(* line and what the radio still has to send are whole frames.             *)
(***************************************************************************)
Stream == ReadSoFar \o line \o toSend

SyncInv == faults = 0 => \E n \in Nat : FramedBy(n, Stream)

LEMMA HeadMoves ==
    ASSUME NEW S, NEW a \in Seq(S), NEW b \in Seq(S), b # <<>>
    PROVE  Append(a, Head(b)) \o Tail(b) = a \o b
  <1>1. /\ Head(b) \in S /\ Tail(b) \in Seq(S) /\ Len(Tail(b)) = Len(b) - 1
        /\ Len(a) \in Nat /\ Len(b) \in Nat /\ Head(b) = b[1]
        /\ \A i \in 1 .. Len(Tail(b)) : Tail(b)[i] = b[i + 1]
    BY HeadTailProperties, LenProperties
  <1> DEFINE c == Append(a, Head(b))
             t == Tail(b)
  <1>2. /\ c \in Seq(S) /\ Len(c) = Len(a) + 1 /\ c[Len(a) + 1] = b[1]
        /\ \A i \in 1 .. Len(a) : c[i] = a[i]
    BY <1>1, AppendProperties
  <1>3. t \in Seq(S) /\ Len(t) = Len(b) - 1 /\ \A i \in 1 .. Len(t) : t[i] = b[i + 1]
    BY <1>1
  <1> HIDE DEF c, t
  <1>4. /\ c \o t \in Seq(S) /\ Len(c \o t) = Len(c) + Len(t)
        /\ \A i \in 1 .. Len(c) + Len(t) :
              (c \o t)[i] = IF i <= Len(c) THEN c[i] ELSE t[i - Len(c)]
    BY <1>2, <1>3, ConcatProperties
  <1>5. /\ a \o b \in Seq(S) /\ Len(a \o b) = Len(a) + Len(b)
        /\ \A i \in 1 .. Len(a) + Len(b) :
              (a \o b)[i] = IF i <= Len(a) THEN a[i] ELSE b[i - Len(a)]
    BY ConcatProperties
  <1>6. ASSUME NEW i \in 1 .. Len(c \o t) PROVE (c \o t)[i] = (a \o b)[i]
    <2>1. i \in 1 .. Len(c) + Len(t) /\ i \in 1 .. Len(a) + Len(b)
      BY <1>1, <1>2, <1>3, <1>4
    <2>2. CASE i <= Len(a)
      BY <1>1, <1>2, <1>4, <1>5, <2>1, <2>2
    <2>3. CASE i = Len(a) + 1
      BY <1>1, <1>2, <1>4, <1>5, <2>1, <2>3
    <2>4. CASE i > Len(a) + 1
      <3>1. i - Len(c) \in 1 .. Len(t) /\ (i - Len(c)) + 1 = i - Len(a)
        BY <1>1, <1>2, <1>3, <2>1, <2>4
      <3>2. (c \o t)[i] = t[i - Len(c)]
        BY <1>1, <1>2, <1>4, <2>1, <2>4
      <3>3. (a \o b)[i] = b[i - Len(a)]
        BY <1>1, <1>5, <2>1, <2>4
      <3> QED
        BY <1>3, <3>1, <3>2, <3>3
    <2>5. i <= Len(a) \/ i = Len(a) + 1 \/ i > Len(a) + 1
      <3>1. i \in Int /\ Len(a) \in Int
        BY LenProperties
      <3> QED
        BY ONLY <3>1
    <2> QED
      BY ONLY <2>2, <2>3, <2>4, <2>5, Zenon
  <1>7. Len(c \o t) = Len(a \o b)
    BY <1>1, <1>2, <1>3, <1>4, <1>5
  <1>8. c \o t = a \o b
    BY <1>4, <1>5, <1>6, <1>7, SeqEqual
  <1> QED
    BY <1>8 DEF c, t

LEMMA AppendEqual ==
    ASSUME NEW S, NEW s \in Seq(S), NEW e \in S, NEW t \in Seq(S),
           Len(t) = Len(s) + 1, t[Len(t)] = e, \A i \in 1 .. Len(s) : t[i] = s[i]
    PROVE  Append(s, e) = t
  <1>1. /\ Append(s, e) \in Seq(S) /\ Len(Append(s, e)) = Len(s) + 1
        /\ \A i \in 1 .. Len(s) : Append(s, e)[i] = s[i]
        /\ Append(s, e)[Len(s) + 1] = e
    BY AppendProperties
  <1>2. \A i \in 1 .. Len(s) + 1 : Append(s, e)[i] = t[i]
    <2>1. Len(s) \in Nat
      BY LenProperties
    <2>2. \A i \in 1 .. Len(s) + 1 : i \in 1 .. Len(s) \/ i = Len(s) + 1
      BY <2>1
    <2> QED
      BY <1>1, <2>2
  <1> QED
    BY <1>1, <1>2, SeqEqual

LEMMA AppendTuple ==
    ASSUME NEW a, NEW b, NEW c
    PROVE  /\ Append(<<a>>, b) = <<a, b>>
           /\ Append(<<a, b>>, c) = <<a, b, c>>
  <1> DEFINE S == {a, b, c}
             one == <<a>>
             two == <<a, b>>
             three == <<a, b, c>>
  <1>1. /\ one \in Seq(S) /\ Len(one) = 1 /\ one[1] = a
        /\ two \in Seq(S) /\ Len(two) = 2 /\ two[1] = a /\ two[2] = b
        /\ three \in Seq(S) /\ Len(three) = 3
        /\ three[1] = a /\ three[2] = b /\ three[3] = c
    OBVIOUS
  <1>2. b \in S /\ c \in S
    OBVIOUS
  <1> HIDE DEF S, one, two, three
  <1>3. Append(one, b) = two
    <2>1. /\ Len(two) = Len(one) + 1 /\ two[Len(two)] = b
          /\ \A i \in 1 .. Len(one) : two[i] = one[i]
      BY <1>1
    <2> QED
      BY <1>1, <1>2, <2>1, AppendEqual
  <1>4. Append(two, c) = three
    <2>1. /\ Len(three) = Len(two) + 1 /\ three[Len(three)] = c
          /\ \A i \in 1 .. Len(two) : three[i] = two[i]
      BY <1>1
    <2> QED
      BY <1>1, <1>2, <2>1, AppendEqual
  <1> QED
    BY <1>3, <1>4 DEF one, two, three

LEMMA Regroup ==
    ASSUME NEW a \in Seq(XbeeByte), NEW b \in Seq(XbeeByte),
           NEW c \in Seq(XbeeByte), NEW d \in Seq(XbeeByte)
    PROVE  Cat(Cat(a, Cat(b, c)), d) = Cat(Cat(a, b), Cat(c, d))
  BY CatAssociative

LEMMA SameRest ==
    ASSUME NEW S, NEW a \in Seq(S), NEW b \in Seq(S), NEW c \in Seq(S), NEW d \in Seq(S),
           a \o b = c \o d, Len(a) = Len(c)
    PROVE  b = d
  <1>1. Len(a) \in Nat /\ Len(b) \in Nat /\ Len(c) \in Nat /\ Len(d) \in Nat
    BY LenProperties
  <1>2. /\ Len(a \o b) = Len(a) + Len(b)
        /\ \A i \in 1 .. Len(a) + Len(b) :
              (a \o b)[i] = IF i <= Len(a) THEN a[i] ELSE b[i - Len(a)]
    BY ConcatProperties
  <1>3. /\ Len(c \o d) = Len(c) + Len(d)
        /\ \A i \in 1 .. Len(c) + Len(d) :
              (c \o d)[i] = IF i <= Len(c) THEN c[i] ELSE d[i - Len(c)]
    BY ConcatProperties
  <1>4. Len(b) = Len(d)
    BY <1>1, <1>2, <1>3
  <1>5. ASSUME NEW i \in 1 .. Len(b) PROVE b[i] = d[i]
    <2> DEFINE j == i + Len(a)
    <2>1. /\ j \in 1 .. Len(a) + Len(b) /\ ~(j <= Len(a)) /\ j - Len(a) = i
          /\ j \in 1 .. Len(c) + Len(d) /\ ~(j <= Len(c)) /\ j - Len(c) = i
      BY <1>1, <1>4
    <2> HIDE DEF j
    <2>2. (a \o b)[j] = b[i] /\ (c \o d)[j] = d[i]
      BY <1>2, <1>3, <2>1
    <2> QED
      BY <2>2
  <1> QED
    BY <1>4, <1>5, SeqEqual

LEMMA ReadSoFarValues ==
    /\ frameState \in {"uninitialised", "waitstart"} => ReadSoFar = <<>>
    /\ frameState = "length_msb" => ReadSoFar = <<Delimiter>>
    /\ frameState = "length_lsb" => ReadSoFar = <<Delimiter, bytesInFrame \div 256>>
    /\ frameState = "rxframe" =>
         ReadSoFar = <<Delimiter, bytesInFrame \div 256, bytesInFrame % 256>>
  BY DEF ReadSoFar

LEMMA ReadSoFarType == XbeeInv => ReadSoFar \in Seq(XbeeByte)
  <1> SUFFICES ASSUME XbeeInv PROVE ReadSoFar \in Seq(XbeeByte)
    OBVIOUS
  <1>1. bytesInFrame \in TwoBytes /\ frameState \in XbeeState
    BY DEF XbeeInv, XbeeTypeOK
  <1> DEFINE q == bytesInFrame \div 256
             r == bytesInFrame % 256
  <1>2. q \in XbeeByte /\ r \in XbeeByte /\ Delimiter \in XbeeByte
    BY <1>1, TwoBytesParts DEF XbeeByte, Delimiter
  <1> HIDE DEF q, r
  <1>3. /\ <<>> \in Seq(XbeeByte) /\ <<Delimiter>> \in Seq(XbeeByte)
        /\ <<Delimiter, q>> \in Seq(XbeeByte) /\ <<Delimiter, q, r>> \in Seq(XbeeByte)
    BY <1>2
  <1>4. /\ frameState \in {"uninitialised", "waitstart"} => ReadSoFar = <<>>
        /\ frameState = "length_msb" => ReadSoFar = <<Delimiter>>
        /\ frameState = "length_lsb" => ReadSoFar = <<Delimiter, q>>
        /\ frameState = "rxframe" => ReadSoFar = <<Delimiter, q, r>>
    BY ReadSoFarValues DEF q, r
  <1>5. \/ frameState \in {"uninitialised", "waitstart"} \/ frameState = "length_msb"
        \/ frameState = "length_lsb" \/ frameState = "rxframe"
    BY <1>1 DEF XbeeState
  <1> QED
    BY <1>3, <1>4, <1>5, Zenon

LEMMA StreamType ==
    XbeeInv => /\ ReadSoFar \in Seq(XbeeByte) /\ line \in Seq(XbeeByte)
               /\ toSend \in Seq(XbeeByte) /\ ReadSoFar \o line \in Seq(XbeeByte)
               /\ Stream \in Seq(XbeeByte)
  <1> SUFFICES ASSUME XbeeInv
               PROVE  /\ ReadSoFar \in Seq(XbeeByte) /\ line \in Seq(XbeeByte)
                      /\ toSend \in Seq(XbeeByte) /\ ReadSoFar \o line \in Seq(XbeeByte)
                      /\ Stream \in Seq(XbeeByte)
    OBVIOUS
  <1>1. /\ ReadSoFar \in Seq(XbeeByte) /\ line \in Seq(XbeeByte)
        /\ toSend \in Seq(XbeeByte)
    BY ReadSoFarType DEF XbeeInv, XbeeTypeOK
  <1>2. ReadSoFar \o line \in Seq(XbeeByte)
    BY <1>1, ConcatProperties
  <1>3. Stream \in Seq(XbeeByte)
    BY <1>1, <1>2, ConcatProperties DEF Stream
  <1> QED
    BY <1>1, <1>2, <1>3

LEMMA FramedFrom ==
    ASSUME NEW n \in Nat, n # 0, NEW u, FramedBy(n, u)
    PROVE  \E k \in Nat : FirstFrame(k, u)
  <1>1. n - 1 \in Nat /\ n = (n - 1) + 1
    OBVIOUS
  <1>2. FirstFrame(n - 1, u)
    BY <1>1, FramedFirst
  <1> QED
    BY <1>1, <1>2

(* The frame that the parser is in, where it is. *)
LEMMA PresentFrame ==
    ASSUME XbeeInv, line # <<>>, NEW n \in Nat, FramedBy(n, Stream)
    PROVE  \E k \in Nat, f \in RadioFrames, r \in Seq(XbeeByte) :
             /\ FramedBy(k, r) /\ Stream = Encode(f) \o r
             /\ \A i \in 1 .. 4 : Stream[i] = Encode(f)[i]
  <1>1. /\ ReadSoFar \in Seq(XbeeByte) /\ line \in Seq(XbeeByte) /\ toSend \in Seq(XbeeByte)
        /\ ReadSoFar \o line \in Seq(XbeeByte)
    BY StreamType
  <1>2. Stream # <<>>
    <2>1. ReadSoFar \o line # <<>>
      BY <1>1, ConcatEqualIffEmpty
    <2> QED
      BY <1>1, <2>1, ConcatEqualIffEmpty DEF Stream
  <1>3. n # 0
    BY <1>2, FramedZero
  <1>5. PICK k \in Nat, f \in RadioFrames, r \in Seq(XbeeByte) :
             FramedBy(k, r) /\ Stream = Encode(f) \o r
    <2>1. PICK k \in Nat : FirstFrame(k, Stream)
      BY <1>3, FramedFrom
    <2> QED
      BY <2>1 DEF FirstFrame
  <1>6. ASSUME NEW i \in 1 .. 4 PROVE Stream[i] = Encode(f)[i]
    <2>1. /\ Encode(f) \in Seq(XbeeByte) /\ Len(Encode(f)) = Len(f) + 4
          /\ Len(f) \in Int /\ 2 <= Len(f)
      BY EncodeProperties, FrameLengthType
    <2>2. i \in 1 .. Len(Encode(f)) + Len(r) /\ i <= Len(Encode(f))
      BY <2>1, LenProperties
    <2> QED
      BY <1>5, <2>1, <2>2, ConcatProperties
  <1> QED
    BY <1>5, <1>6

(* The next byte on the line is the next byte of the stream. *)
LEMMA NextByte ==
    ASSUME XbeeInv, line # <<>>
    PROVE  /\ Stream[Len(ReadSoFar) + 1] = Head(line)
           /\ \A i \in 1 .. Len(ReadSoFar) : Stream[i] = ReadSoFar[i]
  <1>1. /\ ReadSoFar \in Seq(XbeeByte) /\ line \in Seq(XbeeByte) /\ toSend \in Seq(XbeeByte)
        /\ ReadSoFar \o line \in Seq(XbeeByte)
    BY StreamType
  <1> DEFINE n == Len(ReadSoFar)
             s == ReadSoFar \o line
  <1>2. n \in Nat /\ Len(line) \in Nat /\ Len(line) # 0 /\ Len(toSend) \in Nat /\ Head(line) = line[1]
    BY <1>1, EmptySeq, LenProperties
  <1>3. /\ Len(s) = n + Len(line)
        /\ \A i \in 1 .. n + Len(line) : s[i] = IF i <= n THEN ReadSoFar[i] ELSE line[i - n]
    BY <1>1, ConcatProperties
  <1>4. \A i \in 1 .. Len(s) + Len(toSend) :
           Stream[i] = IF i <= Len(s) THEN s[i] ELSE toSend[i - Len(s)]
    BY <1>1, ConcatProperties DEF Stream
  <1> HIDE DEF s, n
  <1>5. \A i \in 1 .. n + Len(line) : Stream[i] = IF i <= n THEN ReadSoFar[i] ELSE line[i - n]
    BY <1>2, <1>3, <1>4
  <1>6. Stream[n + 1] = line[1]
    BY <1>2, <1>5
  <1>7. \A i \in 1 .. n : Stream[i] = ReadSoFar[i]
    BY <1>2, <1>5
  <1> QED
    BY <1>2, <1>6, <1>7 DEF n

(* The byte that a read takes from the line is now among those read. *)
LEMMA ByteReadStream ==
    ASSUME XbeeInv, line # <<>>, line' = Tail(line), toSend' = toSend,
           ReadSoFar' = Append(ReadSoFar, Head(line))
    PROVE  Stream' = Stream
  <1>1. ReadSoFar \in Seq(XbeeByte) /\ line \in Seq(XbeeByte)
    BY StreamType
  <1>2. ReadSoFar' \o line' = ReadSoFar \o line
    BY <1>1, HeadMoves
  <1> QED
    BY <1>2 DEF Stream

LEMMA ReadStartStream ==
    ASSUME XbeeInv, NEW n \in Nat, FramedBy(n, Stream), ReadStart
    PROVE  Stream' = Stream
  <1>1. /\ line # <<>> /\ line' = Tail(line) /\ toSend' = toSend /\ frameState = "waitstart"
        /\ frameState' = IF Head(line) = Delimiter THEN "length_msb" ELSE "waitstart"
    BY DEF ReadStart, Read, radio
  <1>2. PICK k \in Nat, f \in RadioFrames, r \in Seq(XbeeByte) :
             \A i \in 1 .. 4 : Stream[i] = Encode(f)[i]
    BY <1>1, PresentFrame
  <1>3. ReadSoFar = <<>>
    BY <1>1, ReadSoFarValues
  <1>4. Head(line) = Delimiter
    <2>1. Stream[0 + 1] = Head(line) /\ 0 + 1 = 1
      BY <1>1, <1>3, NextByte, EmptySeq
    <2> QED
      BY <1>2, <2>1, EncodeProperties
  <1>5. ReadSoFar' = <<Delimiter>>
    <2>1. frameState' = "length_msb"
      BY <1>1, <1>4
    <2> QED
      BY <2>1 DEF ReadSoFar
  <1>6. Append(<<>>, Delimiter) = <<Delimiter>>
    OBVIOUS
  <1> QED
    BY <1>1, <1>3, <1>4, <1>5, <1>6, ByteReadStream

LEMMA ReadLengthMSBStream ==
    ASSUME MaxFrame < 126 * 256,
           XbeeInv, NEW n \in Nat, FramedBy(n, Stream), ReadLengthMSB
    PROVE  Stream' = Stream
  <1>1. line # <<>> /\ line' = Tail(line) /\ toSend' = toSend /\ frameState = "length_msb"
    BY DEF ReadLengthMSB, Read, radio
  <1>2. PICK k \in Nat, f \in RadioFrames, r \in Seq(XbeeByte) :
             \A i \in 1 .. 4 : Stream[i] = Encode(f)[i]
    BY <1>1, PresentFrame
  <1>3. ReadSoFar = <<Delimiter>> /\ Len(<<Delimiter>>) = 1
    BY <1>1, ReadSoFarValues
  <1>4. Head(line) = Len(f) \div 256 /\ Head(line) \in XbeeByte
    <2>1. Stream[1 + 1] = Head(line) /\ 1 + 1 = 2
      BY <1>1, <1>3, NextByte
    <2>2. Head(line) = Len(f) \div 256
      BY <1>2, <2>1, EncodeProperties
    <2> QED
      BY <2>2, FrameLengthType, TwoBytesParts
  <1>5. Head(line) # Delimiter
    <2>1. Len(f) \in Int /\ 2 <= Len(f) /\ Len(f) < 126 * 256
      BY FrameLengthType, ConstantsType
    <2>2. \A a \in Int : 2 <= a /\ a < 126 * 256 => a \div 256 # 126
      OBVIOUS
    <2> QED
      BY <1>4, <2>1, <2>2 DEF Delimiter
  <1>6. frameState' = "length_lsb" /\ bytesInFrame' = Head(line) * 256
    BY <1>5 DEF ReadLengthMSB
  <1>7. ReadSoFar' = <<Delimiter, bytesInFrame' \div 256>>
    BY <1>6 DEF ReadSoFar
  <1>8. bytesInFrame' \div 256 = Head(line)
    <2>1. (Head(line) * 256) \div 256 = Head(line)
      BY <1>4, BytesJoined
    <2> QED
      BY <1>6, <2>1
  <1>9. Append(<<Delimiter>>, Head(line)) = <<Delimiter, Head(line)>>
    BY AppendTuple
  <1> QED
    BY <1>1, <1>3, <1>7, <1>8, <1>9, ByteReadStream

LEMMA ReadLengthLSBStream ==
    ASSUME XbeeInv, NEW n \in Nat, FramedBy(n, Stream), ReadLengthLSB
    PROVE  Stream' = Stream
  <1>1. /\ line # <<>> /\ line' = Tail(line) /\ toSend' = toSend /\ frameState = "length_lsb"
        /\ bytesInFrame' = bytesInFrame + Head(line)
    BY DEF ReadLengthLSB, Read, radio
  <1>2. PICK k \in Nat, f \in RadioFrames, r \in Seq(XbeeByte) :
             \A i \in 1 .. 4 : Stream[i] = Encode(f)[i]
    BY <1>1, PresentFrame
  <1>3. PICK m \in XbeeByte : bytesInFrame = m * 256
    BY <1>1 DEF XbeeInv, LengthInv
  <1>4. bytesInFrame \div 256 = m
    <2>1. (m * 256) \div 256 = m
      BY BytesJoined
    <2> QED
      BY <1>3, <2>1
  <1>5. ReadSoFar = <<Delimiter, m>> /\ Len(<<Delimiter, m>>) = 2 /\ <<Delimiter, m>>[2] = m
    BY <1>1, <1>4, ReadSoFarValues
  <1>6. m = Len(f) \div 256 /\ Head(line) = Len(f) % 256
    <2>1. Stream[2 + 1] = Head(line) /\ 2 + 1 = 3 /\ Stream[2] = m
      BY <1>1, <1>5, NextByte
    <2> QED
      BY <1>2, <2>1, EncodeProperties
  <1>7. /\ Len(f) \in TwoBytes /\ Len(f) \in 2 .. MaxFrame
        /\ Head(line) \in XbeeByte
    BY <1>6, FrameLengthType, ConstantsType, TwoBytesParts
  <1>8. bytesInFrame' = Len(f)
    <2>1. Len(f) = (Len(f) \div 256) * 256 + (Len(f) % 256)
      BY <1>7, TwoBytesParts
    <2> QED
      BY <1>1, <1>3, <1>6, <2>1
  <1>9. frameState' = "rxframe"
    BY <1>7, <1>8 DEF ReadLengthLSB
  <1>10. ReadSoFar' = <<Delimiter, bytesInFrame' \div 256, bytesInFrame' % 256>>
    BY <1>9 DEF ReadSoFar
  <1>11. ReadSoFar' = <<Delimiter, m, Head(line)>>
    BY <1>6, <1>8, <1>10
  <1>12. Append(<<Delimiter, m>>, Head(line)) = <<Delimiter, m, Head(line)>>
    BY AppendTuple
  <1> QED
    BY <1>1, <1>5, <1>11, <1>12, ByteReadStream

(* The frame that is read is the present one, to its last byte. *)
LEMMA ReadFrameStream ==
    ASSUME XbeeInv, NEW n \in Nat, FramedBy(n, Stream), ReadFrame
    PROVE  \E k \in Nat : FramedBy(k, Stream')
  <1>1. /\ line # <<>> /\ frameState = "rxframe" /\ frameState' = "waitstart"
        /\ Len(line) >= bytesInFrame + 1
        /\ line' = SubSeq(line, bytesInFrame + 1 + 1, Len(line)) /\ toSend' = toSend
    BY DEF ReadFrame, Read, Wanted, radio
  <1>2. PICK k \in Nat, f \in RadioFrames, r \in Seq(XbeeByte) :
             /\ FramedBy(k, r) /\ Stream = Encode(f) \o r
             /\ \A i \in 1 .. 4 : Stream[i] = Encode(f)[i]
    BY <1>1, PresentFrame
  <1> DEFINE q == bytesInFrame \div 256
             p == bytesInFrame % 256
             h == <<Delimiter, q, p>>
             a == SubSeq(line, 1, bytesInFrame + 1)
             b == SubSeq(line, bytesInFrame + 1 + 1, Len(line))
  <1>3. ReadSoFar = h /\ Len(h) = 3 /\ h[2] = q /\ h[3] = p
    BY <1>1, ReadSoFarValues
  <1>4. bytesInFrame \in TwoBytes /\ Len(f) \in TwoBytes
    BY FrameLengthType DEF XbeeInv, XbeeTypeOK
  <1>5. bytesInFrame = Len(f)
    <2>1. Stream[2] = q /\ Stream[3] = p
      <3> HIDE DEF h
      <3> QED
        BY <1>1, <1>3, NextByte
    <2>2. q = Len(f) \div 256 /\ p = Len(f) % 256
      BY <1>2, <2>1, EncodeProperties
    <2>3. bytesInFrame = q * 256 + p /\ Len(f) = (Len(f) \div 256) * 256 + (Len(f) % 256)
      BY <1>4, TwoBytesParts
    <2> HIDE DEF q, p
    <2> QED
      BY <2>2, <2>3
  <1>6. /\ ReadSoFar \in Seq(XbeeByte) /\ line \in Seq(XbeeByte) /\ toSend \in Seq(XbeeByte)
        /\ Len(line) \in Nat
    BY StreamType, LenProperties
  <1>7. bytesInFrame + 1 \in Nat /\ bytesInFrame + 1 <= Len(line) /\ bytesInFrame \in Nat
    BY <1>1, <1>4, <1>6, TwoBytesType
  <1>8. a \in Seq(XbeeByte) /\ Len(a) = bytesInFrame + 1 /\ b \in Seq(XbeeByte)
    BY <1>6, <1>7, SubSeqType
  <1>9. a \o b = line
    <2>1. a \o b = SubSeq(line, 1, Len(line))
      <3>1. /\ 1 \in 1 .. Len(line) + 1 /\ bytesInFrame + 1 \in 1 - 1 .. Len(line)
            /\ Len(line) \in bytesInFrame + 1 .. Len(line)
        BY <1>6, <1>7
      <3> QED
        BY <1>6, <3>1, ConcatAdjacentSubSeq
    <2> QED
      BY <1>6, <2>1, SubSeqFull
  <1> HIDE DEF h, a, b, q, p
  <1>10. Stream = (ReadSoFar \o a) \o (b \o toSend)
    <2>1. Cat(Cat(ReadSoFar, Cat(a, b)), toSend) = Cat(Cat(ReadSoFar, a), Cat(b, toSend))
      BY <1>6, <1>8, Regroup
    <2> QED
      BY <1>9, <2>1 DEF Stream, Cat
  <1>11. b \o toSend = r
    <2>1. /\ ReadSoFar \o a \in Seq(XbeeByte) /\ b \o toSend \in Seq(XbeeByte)
          /\ Len(ReadSoFar \o a) = Len(ReadSoFar) + Len(a)
      BY <1>6, <1>8, ConcatProperties
    <2>2. Encode(f) \in Seq(XbeeByte) /\ Len(Encode(f)) = Len(f) + 4
      BY EncodeProperties
    <2>3. Len(ReadSoFar \o a) = Len(Encode(f))
      <3>1. Len(ReadSoFar \o a) = 3 + (bytesInFrame + 1)
        BY <1>3, <1>8, <2>1, Zenon
      <3>2. 3 + (bytesInFrame + 1) = bytesInFrame + 4
        BY <1>7
      <3> QED
        BY <1>5, <2>2, <3>1, <3>2, Zenon
    <2> QED
      BY <1>2, <1>10, <2>1, <2>2, <2>3, SameRest
  <1>12. ReadSoFar' = <<>>
    BY <1>1 DEF ReadSoFar
  <1>13. Stream' = b \o toSend
    <2>1. <<>> \o b = b /\ line' = b
      BY <1>1, <1>8, ConcatEmptySeq DEF b
    <2> QED
      BY <1>1, <1>12, <2>1 DEF Stream
  <1> QED
    BY <1>2, <1>11, <1>13

LEMMA XbeeSyncInit == XbeeInit => SyncInv
  <1> SUFFICES ASSUME XbeeInit PROVE SyncInv
    OBVIOUS
  <1>1. /\ line = <<>> /\ toSend = <<>>
        /\ frameState \in {"uninitialised", "waitstart"}
    BY DEF XbeeInit
  <1>2. ReadSoFar = <<>>
    BY <1>1, ReadSoFarValues
  <1>3. <<>> \o <<>> = <<>>
    BY EmptySeq, ConcatEmptySeq
  <1>4. Stream = <<>>
    BY <1>1, <1>2, <1>3 DEF Stream
  <1>5. FramedBy(0, Stream) /\ 0 \in Nat
    BY <1>4, FramedZero
  <1> QED
    BY <1>5 DEF SyncInv

LEMMA XbeeSyncStep ==
    ASSUME MaxFrame < 126 * 256, XbeeInv, SyncInv, [XbeeNext]_xbeeVars
    PROVE  SyncInv'
  <1>1. faults \in Nat
    BY ConstantsType DEF XbeeInv, XbeeTypeOK
  <1>2. Fault => SyncInv'
    BY <1>1 DEF Fault, SyncInv
  <1>3. ASSUME faults' = faults, Stream' = Stream PROVE SyncInv'
    BY <1>3 DEF SyncInv
  <1>4. ASSUME UNCHANGED <<toSend, line, frameState, bytesInFrame>> PROVE Stream' = Stream
    BY <1>4 DEF Stream, ReadSoFar
  <1>5. ASSUME NEW f \in RadioFrames, BeginFrame(f) PROVE SyncInv'
    <2>1. /\ toSend = <<>> /\ toSend' = Encode(f) /\ line' = line /\ faults' = faults
          /\ ReadSoFar' = ReadSoFar
      BY <1>5 DEF BeginFrame, parser, ReadSoFar
    <2>2. Stream = ReadSoFar \o line
      BY <2>1, StreamType, ConcatEmptySeq DEF Stream
    <2>3. Stream' = Join(Stream, f)
      BY <2>1, <2>2 DEF Stream, Join
    <2>4. ASSUME NEW n \in Nat, FramedBy(n, Stream) PROVE \E k \in Nat : FramedBy(k, Stream')
      <3>1. n + 1 \in Nat /\ FramedBy(n + 1, Stream')
        BY <2>3, <2>4, FramedAppend
      <3> QED
        BY <3>1
    <2> QED
      BY <2>1, <2>4 DEF SyncInv
  <1>6. CASE SendByte
    <2>1. /\ toSend # <<>> /\ line' = Append(line, Head(toSend)) /\ toSend' = Tail(toSend)
          /\ faults' = faults /\ ReadSoFar' = ReadSoFar
      BY <1>6 DEF SendByte, parser, ReadSoFar
    <2>2. /\ ReadSoFar \in Seq(XbeeByte) /\ line \in Seq(XbeeByte) /\ toSend \in Seq(XbeeByte)
          /\ ReadSoFar \o line \in Seq(XbeeByte)
      BY StreamType
    <2> DEFINE h == Head(toSend)
    <2>3. h \in XbeeByte
      BY <2>1, <2>2, HeadTailProperties
    <2>4. ReadSoFar \o Append(line, h) = Append(ReadSoFar \o line, h)
      <3>1. Append(line, h) = line \o <<h>> /\ <<h>> \in Seq(XbeeByte)
        BY <2>2, <2>3, AppendIsConcat
      <3>2. Append(ReadSoFar \o line, h) = (ReadSoFar \o line) \o <<h>>
        BY <2>2, <2>3, AppendIsConcat
      <3> QED
        BY <2>2, <3>1, <3>2, ConcatAssociative
    <2>5. Stream' = Append(ReadSoFar \o line, h) \o Tail(toSend)
      BY <2>1, <2>4 DEF Stream
    <2>6. Stream' = Stream
      BY <2>1, <2>2, <2>5, HeadMoves DEF Stream
    <2> QED
      BY <1>3, <2>1, <2>6
  <1>7. ASSUME LoseByte \/ (\E b \in Noise : AddNoise(b)) \/ (\E k \in 0 .. MaxFrame : ReadGivenUp(k))
        PROVE  SyncInv'
    BY <1>2, <1>7 DEF LoseByte, AddNoise, ReadGivenUp
  <1>8. CASE TickBegins \/ NothingToRead \/ UNCHANGED xbeeVars
    <2>1. UNCHANGED <<toSend, line, frameState, bytesInFrame, faults>>
      BY <1>8 DEF TickBegins, NothingToRead, xbeeVars, radio, parser
    <2> QED
      BY <1>3, <1>4, <2>1
  <1>9. CASE InvalidState
    <2>1. /\ frameState = "uninitialised" /\ frameState' = "waitstart"
          /\ toSend' = toSend /\ line' = line /\ faults' = faults
      BY <1>9 DEF InvalidState, radio
    <2>2. ReadSoFar = <<>>
      BY <2>1, ReadSoFarValues
    <2>3. ReadSoFar' = <<>>
      BY <2>1 DEF ReadSoFar
    <2> QED
      BY <1>3, <2>1, <2>2, <2>3 DEF Stream
  <1>10. ASSUME ReadStart \/ ReadLengthMSB \/ ReadLengthLSB \/ ReadFrame PROVE SyncInv'
    <2>1. faults' = faults
      BY <1>10 DEF ReadStart, ReadLengthMSB, ReadLengthLSB, ReadFrame, radio
    <2>2. ASSUME NEW n \in Nat, FramedBy(n, Stream) PROVE \E k \in Nat : FramedBy(k, Stream')
      <3>1. CASE ReadFrame
        BY <2>2, <3>1, ReadFrameStream
      <3>2. CASE ReadStart \/ ReadLengthMSB \/ ReadLengthLSB
        <4>1. Stream' = Stream
          BY <2>2, <3>2, ReadStartStream, ReadLengthMSBStream, ReadLengthLSBStream
        <4> QED
          BY <2>2, <4>1
      <3> QED
        BY <1>10, <3>1, <3>2
    <2> QED
      BY <2>1, <2>2 DEF SyncInv
  <1> QED
    BY <1>5, <1>6, <1>7, <1>8, <1>9, <1>10 DEF XbeeNext, xbee_frame_load

LEMMA SyncedStream == ASSUME XbeeInv, SyncInv PROVE StaysInSync
  <1> SUFFICES ASSUME faults = 0 PROVE InSync
    BY DEF StaysInSync
  <1>1. PICK n \in Nat : FramedBy(n, Stream)
    BY DEF SyncInv
  <1>2. Stream \in Seq(XbeeByte) /\ Len(Stream) \in Nat
    BY StreamType, LenProperties
  <1>3. n \in 0 .. (Len(Stream) \div 5)
    <2>1. 5 * n <= Len(Stream)
      BY <1>1, <1>2, FramedLength
    <2>2. \A a, b \in Nat : 5 * a <= b => a \in 0 .. (b \div 5)
      OBVIOUS
    <2> QED
      BY <1>2, <2>1, <2>2
  <1>4. \E fs \in [1 .. n -> RadioFrames] :
            FlattenSeq([i \in 1 .. n |-> Encode(fs[i])]) = Stream
    BY <1>1, <1>2, FramedFlattened
  <1> QED
    BY <1>3, <1>4 DEF InSync, Stream

(***************************************************************************)
(* On a clean line the parser of xbee_device.c stays in step with the      *)
(* frames, whatever they hold, wherever 0x7E occurs in them and whenever   *)
(* its reads come; as long as no frame is so long that its length begins   *)
(* with 0x7E: XBEE_MAX_RX_FRAME_LEN is 274.                                *)
(***************************************************************************)
THEOREM XbeeStaysInSync ==
    ASSUME MaxFrame < 126 * 256
    PROVE  XbeeSpec => []StaysInSync
  <1> DEFINE I == XbeeInv /\ SyncInv
  <1>1. XbeeInit => I
    BY XbeeInvInit, XbeeSyncInit
  <1>2. I /\ [XbeeNext]_xbeeVars => I'
    BY XbeeInvStep, XbeeSyncStep
  <1>3. I => StaysInSync
    BY SyncedStream
  <1> HIDE DEF I
  <1> QED
    BY <1>1, <1>2, <1>3, PTL DEF XbeeSpec

-----------------------------------------------------------------------------
(* The slot of radio.c.                                                    *)

(* The length n is that of a packet which the radio did send. *)
WasSent(n) == \E f \in RadioFrames : Head(f) = ReceiveType /\ Len(f) - HeaderLength = n

(* On a clean line, what is in the slot was sent. *)
SlotInv ==
    faults = 0 /\ ~undefinedCopy /\ receivePacketLength # NoPacket
        => WasSent(receivePacketLength)

Misfit(n) ==
    \E f \in RadioFrames : /\ Head(f) = ReceiveType /\ IsMisfit(Len(f))
                           /\ Len(f) - HeaderLength = n

(* On a clean line, the frame that is read is the one that was sent. *)
LEMMA FrameReadWasSent ==
    ASSUME XbeeInv, SyncInv, faults = 0, ReadFrame
    PROVE  \E f \in RadioFrames : /\ Head(SubSeq(line, 1, bytesInFrame)) = Head(f)
                                  /\ Len(SubSeq(line, 1, bytesInFrame)) = Len(f)
  <1>1. line # <<>> /\ frameState = "rxframe" /\ Len(line) >= bytesInFrame + 1
    BY DEF ReadFrame, Read, Wanted
  <1>2. PICK n \in Nat : FramedBy(n, Stream)
    BY DEF SyncInv
  <1>3. PICK k \in Nat, f \in RadioFrames, r \in Seq(XbeeByte) :
             \A i \in 1 .. 4 : Stream[i] = Encode(f)[i]
    BY <1>1, <1>2, PresentFrame
  <1> DEFINE q == bytesInFrame \div 256
             p == bytesInFrame % 256
             h == <<Delimiter, q, p>>
             data == SubSeq(line, 1, bytesInFrame)
  <1>4. ReadSoFar = h /\ Len(h) = 3 /\ h[2] = q /\ h[3] = p
    BY <1>1, ReadSoFarValues
  <1>5. bytesInFrame \in TwoBytes /\ Len(f) \in TwoBytes /\ bytesInFrame \in 2 .. MaxFrame
    BY <1>1, FrameLengthType DEF XbeeInv, XbeeTypeOK
  <1> HIDE DEF h
  <1>6. Stream[2] = q /\ Stream[3] = p /\ Stream[3 + 1] = Head(line)
    BY <1>1, <1>4, NextByte
  <1>7. q = Len(f) \div 256 /\ p = Len(f) % 256 /\ Head(line) = Head(f)
    <2>1. /\ Encode(f)[2] = Len(f) \div 256 /\ Encode(f)[3] = Len(f) % 256
          /\ Encode(f)[4] = Head(f)
      BY EncodeProperties
    <2>2. Stream[2] = Encode(f)[2] /\ Stream[3] = Encode(f)[3] /\ Stream[4] = Encode(f)[4]
      BY <1>3
    <2> HIDE DEF q, p
    <2> QED
      BY <1>6, <2>1, <2>2
  <1>8. bytesInFrame = Len(f)
    <2>1. bytesInFrame = q * 256 + p /\ Len(f) = (Len(f) \div 256) * 256 + (Len(f) % 256)
      BY <1>5, TwoBytesParts
    <2> HIDE DEF q, p
    <2> QED
      BY <1>7, <2>1
  <1>9. /\ line \in Seq(XbeeByte) /\ Len(line) \in Nat /\ bytesInFrame \in Nat
        /\ bytesInFrame <= Len(line) /\ bytesInFrame >= 2
    BY <1>1, <1>5, StreamType, LenProperties, ConstantsType
  <1>10. Len(data) = bytesInFrame /\ Head(data) = Head(line)
    <2>1. /\ data \in Seq(XbeeByte) /\ Len(data) = bytesInFrame
          /\ \A i \in 1 .. bytesInFrame : data[i] = line[i]
      <3>1. \A i \in 1 .. Len(line) : line[i] \in XbeeByte
        BY <1>9, ElementOfSeq
      <3> QED
        BY <1>9, <3>1, SubSeqProperties
    <2> HIDE DEF data
    <2>2. Head(data) = data[1] /\ Head(line) = line[1]
      BY <1>1, <1>9, <2>1, EmptySeq
    <2> QED
      BY <1>9, <2>1, <2>2
  <1> QED
    BY <1>7, <1>8, <1>10

(* What a tick that ends does with a length that was sent, or with none. *)
LEMMA ReturnedWasSent ==
    ASSUME NEW length \in SlotLength, NEW count \in 0 .. MaxDispatch, ~undefinedCopy,
           length # NoPacket => WasSent(length),
           radioReceiveReturns(length, count)
    PROVE  /\ receivePacketLength' # NoPacket => WasSent(receivePacketLength')
           /\ undefinedCopy' => Misfit(receivePacketLength')
  <1>1. /\ receivePacketLength' = IF count > 0 /\ length >= NoPacket THEN NoPacket ELSE length
        /\ undefinedCopy' = (undefinedCopy \/ (count > 0 /\ length < NoPacket))
    BY DEF radioReceiveReturns
  <1>2. receivePacketLength' # NoPacket => WasSent(receivePacketLength')
    BY <1>1
  <1>3. ASSUME undefinedCopy' PROVE Misfit(receivePacketLength')
    <2>1. length < NoPacket
      BY <1>1, <1>3
    <2>2. length \in Int /\ NoPacket \in Int /\ length # NoPacket /\ ~(length >= NoPacket)
      BY <2>1, SlotLengthType DEF NoPacket
    <2>3. PICK f \in RadioFrames : Head(f) = ReceiveType /\ Len(f) - HeaderLength = length
      BY <2>2 DEF WasSent
    <2>4. IsMisfit(Len(f))
      <3>1. Len(f) \in Int /\ HeaderLength \in Int
        BY FrameLengthType, ConstantsType
      <3>2. \A a, b \in Int : a - b < -1 => a < b - 1
        OBVIOUS
      <3> QED
        BY <2>1, <2>3, <3>1, <3>2 DEF IsMisfit, NoPacket
    <2>5. receivePacketLength' = length
      BY <1>1, <2>2
    <2> QED
      BY <2>3, <2>4, <2>5 DEF Misfit
  <1> QED
    BY <1>2, <1>3

LEMMA DispatchedWasSent ==
    ASSUME XbeeInv, SyncInv, SlotInv, faults = 0, ~undefinedCopy, ReadFrame,
           Dispatch(SubSeq(line, 1, bytesInFrame))
    PROVE  /\ receivePacketLength' # NoPacket => WasSent(receivePacketLength')
           /\ undefinedCopy' => Misfit(receivePacketLength')
  <1> DEFINE data == SubSeq(line, 1, bytesInFrame)
  <1>1. PICK f \in RadioFrames : Head(data) = Head(f) /\ Len(data) = Len(f)
    BY FrameReadWasSent
  <1>2. Dispatch(data)
    OBVIOUS
  <1> HIDE DEF data
  <1>3. Len(f) \in 2 .. MaxFrame /\ Len(f) - HeaderLength \in SlotLength
    BY FrameLengthType, ConstantsType, SlotLengthType
  <1>4. Head(data) = ReceiveType => WasSent(Len(data) - HeaderLength)
    BY <1>1 DEF WasSent
  <1>5. LengthAfter(data) # NoPacket => WasSent(LengthAfter(data))
    BY <1>4 DEF LengthAfter, SlotInv
  <1>6. LengthAfter(data) \in SlotLength
    BY <1>1, <1>3 DEF LengthAfter, XbeeInv, XbeeTypeOK, SlotLength
  <1>7. CASE /\ Head(data) = ReceiveType /\ Len(data) > SlotSize
             /\ receivePacketLength' = Len(data) - HeaderLength
    <2>1. Misfit(receivePacketLength') /\ WasSent(receivePacketLength')
      BY <1>1, <1>4, <1>7 DEF Misfit, IsMisfit
    <2> QED
      BY <2>1
  <1>8. CASE radioReceiveReturns(LengthAfter(data), MaxDispatch)
    <2>1. MaxDispatch \in 0 .. MaxDispatch
      BY ConstantsType
    <2> QED
      BY <1>5, <1>6, <1>8, <2>1, ReturnedWasSent
  <1>9. CASE receivePacketLength' = LengthAfter(data) /\ undefinedCopy' = undefinedCopy
    BY <1>5, <1>9
  <1> QED
    BY <1>2, <1>7, <1>8, <1>9, DispatchCases

(* A step on a clean line leaves a length that was sent, or none. *)
LEMMA SlotStep ==
    ASSUME XbeeInv, SyncInv, SlotInv, [XbeeNext]_xbeeVars, faults = 0, ~undefinedCopy
    PROVE  /\ receivePacketLength' # NoPacket => WasSent(receivePacketLength')
           /\ undefinedCopy' => Misfit(receivePacketLength')
  <1>1. receivePacketLength # NoPacket => WasSent(receivePacketLength)
    BY DEF SlotInv
  <1>2. CASE UNCHANGED packetSlot
    BY <1>1, <1>2 DEF packetSlot
  <1>3. CASE inTick /\ radioReceiveReturns(receivePacketLength, dispatched)
    <2>1. receivePacketLength \in SlotLength /\ dispatched \in 0 .. MaxDispatch
      BY DEF XbeeInv, XbeeTypeOK, SlotLength
    <2> QED
      BY <1>1, <1>3, <2>1, ReturnedWasSent
  <1>4. CASE ReadFrame
    <2>1. CASE Dispatch(SubSeq(line, 1, bytesInFrame))
      BY <1>4, <2>1, DispatchedWasSent
    <2>2. CASE UNCHANGED packetSlot
      BY <1>2, <2>2
    <2> QED
      BY <1>4, <2>1, <2>2 DEF ReadFrame
  <1>5. \/ UNCHANGED packetSlot \/ ReadFrame
        \/ inTick /\ radioReceiveReturns(receivePacketLength, dispatched)
    BY DEF XbeeNext, xbee_frame_load, BeginFrame, SendByte, LoseByte, TickBegins,
           AddNoise, ReadGivenUp, InvalidState, NothingToRead, ReadStart,
           ReadLengthMSB, ReadLengthLSB, xbeeVars, parser
  <1> QED
    BY <1>2, <1>3, <1>4, <1>5

LEMMA SlotInvStep ==
    ASSUME XbeeInv, SyncInv, SlotInv, [XbeeNext]_xbeeVars
    PROVE  SlotInv'
  <1> SUFFICES ASSUME faults' = 0, ~undefinedCopy', receivePacketLength' # NoPacket
               PROVE  WasSent(receivePacketLength')
    BY DEF SlotInv, WasSent
  <1>1. faults \in Nat
    BY ConstantsType DEF XbeeInv, XbeeTypeOK
  <1>2. faults' = faults \/ faults' = faults + 1
    BY DEF XbeeNext, xbee_frame_load, BeginFrame, SendByte, LoseByte, TickBegins,
           AddNoise, ReadGivenUp, InvalidState, NothingToRead, ReadStart,
           ReadLengthMSB, ReadLengthLSB, ReadFrame, xbeeVars, radio, Fault
  <1>3. faults = 0
    BY <1>1, <1>2
  <1>4. ~undefinedCopy
    BY DEF XbeeNext, xbee_frame_load, BeginFrame, SendByte, LoseByte, TickBegins,
           AddNoise, ReadGivenUp, InvalidState, NothingToRead, ReadStart,
           ReadLengthMSB, ReadLengthLSB, ReadFrame, xbeeVars, parser, packetSlot,
           Dispatch, radioReceiveReturns
  <1> QED
    BY <1>3, <1>4, SlotStep

(***************************************************************************)
(* On a clean line only a packet that the radio did send, and that is      *)
(* longer than the slot or ends within its own header, makes a copy of     *)
(* radio.c undefined (lines 54 and 65): the parser makes no such packet of *)
(* others, and status frames copy nothing.  The hypothesis is that of      *)
(* XbeeStaysInSync.                                                        *)
(***************************************************************************)
THEOREM XbeeOnlyMisfitsUndefined ==
    ASSUME MaxFrame < 126 * 256
    PROVE  XbeeSpec => OnlyMisfitsUndefined
  <1> DEFINE I == XbeeInv /\ SyncInv /\ SlotInv
             A == faults = 0 /\ ~undefinedCopy /\ undefinedCopy'
                     => \E f \in RadioFrames :
                           /\ Head(f) = ReceiveType /\ IsMisfit(Len(f))
                           /\ Len(f) - HeaderLength = receivePacketLength'
  <1>1. XbeeInit => I
    <2>1. XbeeInit => SlotInv
      BY DEF XbeeInit, SlotInv
    <2> QED
      BY <2>1, XbeeInvInit, XbeeSyncInit
  <1>2. I /\ [XbeeNext]_xbeeVars => I'
    BY XbeeInvStep, XbeeSyncStep, SlotInvStep
  <1>3. I /\ [XbeeNext]_xbeeVars => [A]_xbeeVars
    BY SlotStep DEF Misfit
  <1>4. OnlyMisfitsUndefined <=> [][A]_xbeeVars
    BY DEF OnlyMisfitsUndefined
  <1> HIDE DEF I, A
  <1> QED
    BY <1>1, <1>2, <1>3, <1>4, PTL DEF XbeeSpec
=============================================================================
