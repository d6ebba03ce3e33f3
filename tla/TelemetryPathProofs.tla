------------------------ MODULE TelemetryPathProofs ------------------------
(***************************************************************************)
(* Theorems about the path of packets to the radio (TelemetryPath), for    *)
(* buffers of any capacity, frames of any length that every packet fits,   *)
(* and any set of requests.                                                *)
(***************************************************************************)
EXTENDS TelemetryPath, SequenceTheorems, FiniteSetTheorems, TLAPS

-----------------------------------------------------------------------------
(* The values of the variables.                                            *)

LEMMA PacketType ==
    /\ \A k \in Prepared, m \in BOOLEAN : [length |-> PacketLength[k], marked |-> m] \in Packet
    /\ \A p \in Packet \cup {NoPacket} : /\ p.length \in Nat /\ p.length < MaxFrame
                                         /\ p.marked \in BOOLEAN
    /\ \A p \in Packet : p.length >= 6
    /\ "ping" \in Prepared /\ "config" \in Prepared /\ Request \subseteq Prepared
    /\ MaxFrame \in Nat /\ 0 < MaxFrame /\ Capacity \in Nat /\ Capacity > 0
    /\ NoPacket.length = 0 /\ NoPacket.marked = FALSE
  <1>1. \A k \in Prepared : PacketLength[k] \in Nat /\ PacketLength[k] >= 6
    <2>1. Prepared \subseteq LowRequest \cup {"ping", "config"}
      BY ParameterAssumption DEF Prepared
    <2> QED
      BY <2>1 DEF PacketLength, LowRequest
  <1>2. "ping" \in Prepared /\ "config" \in Prepared /\ Request \subseteq Prepared
    BY DEF Prepared
  <1>3. /\ MaxFrame \in Nat /\ Capacity \in Nat /\ Capacity > 0
        /\ \A k \in Prepared : PacketLength[k] < MaxFrame
    BY ParameterAssumption
  <1>4. 0 < MaxFrame
    BY <1>1, <1>2, <1>3
  <1>5. \A k \in Prepared, m \in BOOLEAN :
           [length |-> PacketLength[k], marked |-> m] \in Packet
    BY DEF Packet
  <1>6. \A p \in Packet : /\ p.length \in Nat /\ p.length < MaxFrame /\ p.length >= 6
                          /\ p.marked \in BOOLEAN
    BY <1>1, <1>3 DEF Packet
  <1>7. NoPacket.length = 0 /\ NoPacket.marked = FALSE
    BY DEF NoPacket
  <1>8. \A p \in Packet \cup {NoPacket} : p.length \in Nat /\ p.length < MaxFrame
    BY <1>4, <1>6, <1>7
  <1>9. \A p \in Packet \cup {NoPacket} : p.marked \in BOOLEAN
    BY <1>6, <1>7
  <1> QED
    BY <1>2, <1>3, <1>4, <1>5, <1>6, <1>7, <1>8, <1>9

LEMMA EnqueueType ==
    ASSUME NEW S, NEW q \in Seq(S), NEW e \in S, Len(q) <= Capacity
    PROVE  /\ TX!Enqueue(q, e) \in Seq(S) /\ Len(TX!Enqueue(q, e)) <= Capacity
           /\ RXLow!Enqueue(q, e) \in Seq(S) /\ Len(RXLow!Enqueue(q, e)) <= Capacity
  <1> DEFINE r == IF Len(q) = Capacity THEN Tail(q) ELSE q
  <1>1. Capacity \in Nat /\ Capacity > 0
    BY PacketType
  <1>2. r \in Seq(S) /\ Len(r) + 1 <= Capacity
    <2>1. CASE Len(q) = Capacity
      <3>1. q # <<>>
        BY <1>1, <2>1, EmptySeq
      <3>2. Tail(q) \in Seq(S) /\ Len(Tail(q)) = Len(q) - 1
        BY <3>1, HeadTailProperties
      <3> QED
        BY <1>1, <2>1, <3>2
    <2>2. CASE Len(q) # Capacity
      BY <1>1, <2>2, LenProperties
    <2> QED
      BY <2>1, <2>2
  <1> HIDE DEF r
  <1>3. Append(r, e) \in Seq(S) /\ Len(Append(r, e)) = Len(r) + 1
    BY <1>2, AppendProperties
  <1>4. TX!Enqueue(q, e) = Append(r, e) /\ RXLow!Enqueue(q, e) = Append(r, e)
    BY DEF TX!Enqueue, RXLow!Enqueue, r
  <1> QED
    BY <1>2, <1>3, <1>4

LEMMA DequeueType ==
    ASSUME NEW S, NEW q \in Seq(S), Len(q) <= Capacity
    PROVE  /\ TX!Dequeue(q) \in Seq(S) /\ Len(TX!Dequeue(q)) <= Capacity
           /\ RXLow!Dequeue(q) \in Seq(S) /\ Len(RXLow!Dequeue(q)) <= Capacity
           /\ TX!Oldest(q) \in S \cup {NoPacket} /\ RXLow!Oldest(q) \in S \cup {NoRequest}
  <1>1. Capacity \in Nat
    BY PacketType
  <1>2. CASE q = <<>>
    BY <1>2 DEF TX!Dequeue, RXLow!Dequeue, TX!Oldest, RXLow!Oldest
  <1>3. CASE q # <<>>
    <2>1. Tail(q) \in Seq(S) /\ Len(Tail(q)) = Len(q) - 1 /\ Len(q) \in Nat /\ Head(q) \in S
      BY <1>3, HeadTailProperties, LenProperties
    <2> QED
      BY <1>1, <1>3, <2>1 DEF TX!Dequeue, RXLow!Dequeue, TX!Oldest, RXLow!Oldest
  <1> QED
    BY <1>2, <1>3

Mark == {"unused", "waiting", "dropped", "sent", "garbled"}

(* What a put does to the heap. *)
LEMMA BlockType ==
    ASSUME TypeOK, NEW q, NullUsed \/ BlockTaken(q)
    PROVE  leaked' \in Nat /\ faulted' \in BOOLEAN
  <1>1. leaked \in Nat /\ faulted \in BOOLEAN
    BY DEF TypeOK
  <1>2. CASE NullUsed
    BY <1>1, <1>2 DEF NullUsed
  <1>3. CASE BlockTaken(q)
    <2>1. faulted' = faulted
      BY <1>3 DEF BlockTaken
    <2>2. leaked' = leaked \/ leaked' = leaked + 1
      BY <1>3 DEF BlockTaken
    <2>3. leaked' \in Nat
      BY ONLY <1>1, <2>2
    <2> QED
      BY <1>1, <2>1, <2>3
  <1> QED
    BY <1>2, <1>3

LEMMA PrepType ==
    ASSUME TypeOK, NEW k \in Prepared, Prep(k)
    PROVE  /\ radioBufTX' \in Seq(Packet) /\ Len(radioBufTX') <= Capacity /\ mark' \in Mark
           /\ leaked' \in Nat /\ faulted' \in BOOLEAN /\ quietRounds' \in Nat
  <1>1. /\ leaked' \in Nat /\ faulted' \in BOOLEAN /\ quietRounds' \in Nat
        /\ radioBufTX \in Seq(Packet) /\ Len(radioBufTX) <= Capacity /\ mark \in Mark
    BY BlockType DEF Prep, TypeOK, Mark
  <1>2. CASE UNCHANGED <<radioBufTX, mark>>
    BY <1>1, <1>2
  <1>3. CASE ~UNCHANGED <<radioBufTX, mark>>
    <2>1. PICK m \in {FALSE, mark = "unused"} :
            /\ radioBufTX' = TX!Enqueue(radioBufTX, [length |-> PacketLength[k], marked |-> m])
            /\ mark' = IF m THEN "waiting"
                       ELSE IF Len(radioBufTX) = Capacity /\ Head(radioBufTX).marked
                            THEN "dropped" ELSE mark
      BY <1>3 DEF Prep
    <2>2. [length |-> PacketLength[k], marked |-> m] \in Packet
      BY PacketType
    <2>3. mark' \in Mark
      BY <1>1, <2>1 DEF Mark
    <2> QED
      BY <1>1, <2>1, <2>2, <2>3, EnqueueType
  <1> QED
    BY <1>2, <1>3

(* The batch after a packet is placed in it. *)
LEMMA ExtendType ==
    ASSUME NEW b, NEW p, b.length \in Nat, p.length \in Nat, b.length + p.length < MaxFrame
    PROVE  /\ Extend(b, p).length \in 0 .. MaxFrame - 1
           /\ Extend(b, p).marked \in BOOLEAN /\ Extend(b, p).intact \in BOOLEAN
           /\ Extend(b, p).marked <=> (b.marked \/ p.marked)
  <1>1. MaxFrame \in Nat
    BY PacketType
  <1>2. Extend(b, p).length = b.length + p.length
    BY DEF Extend
  <1>3. Extend(b, p).marked = (b.marked \/ p.marked)
    BY DEF Extend
  <1>4. Extend(b, p).intact = (b.intact /\ BytesCopied(p.length) = p.length)
    BY DEF Extend
  <1>5. Extend(b, p).length \in 0 .. MaxFrame - 1
    BY <1>1, <1>2
  <1> QED
    BY <1>3, <1>4, <1>5

LEMMA TypeInit == Init => TypeOK
  <1> SUFFICES ASSUME Init PROVE TypeOK
    OBVIOUS
  <1>1. Capacity \in Nat /\ MaxFrame \in Nat /\ 0 < MaxFrame
    BY PacketType
  <1>2. /\ <<>> \in Seq(Packet) /\ <<>> \in Seq(Request) /\ Len(<<>>) <= Capacity
        /\ EmptyBatch.length = 0 /\ EmptyBatch.marked = FALSE /\ EmptyBatch.intact = TRUE
        /\ 0 \in 0 .. MaxFrame - 1
    BY <1>1 DEF EmptyBatch
  <1> QED
    BY <1>1, <1>2 DEF Init, TypeOK, ManPlace

LEMMA TypeStep == TypeOK /\ [Next]_vars => TypeOK'
  <1> SUFFICES ASSUME TypeOK, [Next]_vars PROVE TypeOK'
    OBVIOUS
  <1> USE DEF low, out, man, heap, history
  <1>1. ASSUME NEW k \in Prepared, Prep(k),
               UNCHANGED <<radioBufRXLow, lowMessage, out, ping, message>>,
               lowPc' \in {"get", "switch"}, manPc' \in ManPlace
        PROVE  TypeOK'
    <2>1. /\ radioBufTX' \in Seq(Packet) /\ Len(radioBufTX') <= Capacity /\ mark' \in Mark
          /\ leaked' \in Nat /\ faulted' \in BOOLEAN /\ quietRounds' \in Nat
      BY <1>1, PrepType
    <2> QED
      BY <1>1, <2>1 DEF TypeOK, Mark
  <1>2. CASE PutRequest
    <2>1. leaked' \in Nat /\ faulted' \in BOOLEAN
      BY <1>2, BlockType DEF PutRequest
    <2>2. radioBufRXLow' \in Seq(Request) /\ Len(radioBufRXLow') <= Capacity
      <3>1. CASE UNCHANGED radioBufRXLow
        BY <3>1 DEF TypeOK
      <3>2. CASE \E r \in Request : radioBufRXLow' = RXLow!Enqueue(radioBufRXLow, r)
        BY <3>2, EnqueueType DEF TypeOK
      <3> QED
        BY <1>2, <3>1, <3>2 DEF PutRequest
    <2> QED
      BY <1>2, <2>1, <2>2 DEF PutRequest, TypeOK
  <1>3. CASE GetRequest
    <2>1. /\ radioBufRXLow' \in Seq(Request) /\ Len(radioBufRXLow') <= Capacity
          /\ lowMessage' \in Request \cup {NoRequest}
      BY <1>3, DequeueType DEF GetRequest, TypeOK
    <2> QED
      BY <1>3, <2>1 DEF GetRequest, TypeOK
  <1>4. CASE GetNoRequest
    BY <1>4 DEF GetNoRequest, TypeOK
  <1>5. CASE Answer
    <2>1. CASE lowMessage \in Request /\ Prep(lowMessage)
      <3>1. lowMessage \in Prepared
        BY <2>1, PacketType
      <3>2. /\ UNCHANGED <<radioBufRXLow, lowMessage, out, ping, message, manPc>>
            /\ lowPc' = "get"
        BY <1>5 DEF Answer
      <3>3. manPc' \in ManPlace
        BY <3>2 DEF TypeOK
      <3> QED
        BY <1>1, <2>1, <3>1, <3>2, <3>3
    <2>2. CASE UNCHANGED <<radioBufTX, heap, history>>
      BY <1>5, <2>2 DEF Answer, TypeOK
    <2> QED
      BY <1>5, <2>1, <2>2 DEF Answer
  <1>6. CASE CritAnswer
    <2>1. PICK k \in {"ping", "config"} : Prep(k)
      BY <1>6 DEF CritAnswer
    <2>2. k \in Prepared
      BY PacketType
    <2>3. UNCHANGED <<radioBufRXLow, lowMessage, lowPc, out, ping, message, manPc>>
      BY <1>6 DEF CritAnswer
    <2>4. lowPc' \in {"get", "switch"} /\ manPc' \in ManPlace
      BY <2>3 DEF TypeOK
    <2> QED
      BY <1>1, <2>1, <2>2, <2>3, <2>4
  <1>7. CASE OutCheck
    BY <1>7 DEF OutCheck, TypeOK
  <1>8. CASE OutGet
    <2>1. /\ radioBufTX' \in Seq(Packet) /\ Len(radioBufTX') <= Capacity
          /\ individ' \in Packet \cup {NoPacket}
      BY <1>8, DequeueType DEF OutGet, TypeOK
    <2> QED
      BY <1>8, <2>1 DEF OutGet, TypeOK
  <1>9. /\ individ.length \in Nat /\ individ.length < MaxFrame /\ MaxFrame \in Nat
        /\ batch.length \in Nat
    BY PacketType DEF TypeOK
  <1>10. CASE OutAppend
    <2>1. /\ batch'.length \in 0 .. MaxFrame - 1
          /\ batch'.marked \in BOOLEAN /\ batch'.intact \in BOOLEAN
      BY <1>9, <1>10, ExtendType DEF OutAppend, Fits
    <2> QED
      BY <1>10, <2>1 DEF OutAppend, TypeOK
  <1>11. CASE OutSend
    <2>1. EmptyBatch.length = 0
      BY DEF EmptyBatch
    <2>2. /\ batch'.length \in 0 .. MaxFrame - 1
          /\ batch'.marked \in BOOLEAN /\ batch'.intact \in BOOLEAN
      BY <1>9, <1>11, <2>1, ExtendType DEF OutSend
    <2>3. mark' \in Mark
      BY <1>11 DEF OutSend, TypeOK, Mark
    <2> QED
      BY <1>11, <2>2, <2>3 DEF OutSend, TypeOK, Mark
  <1>12. CASE ManWake
    BY <1>12 DEF ManWake, TypeOK, ManPlace
  <1>13. CASE ManCheck
    BY <1>13 DEF ManCheck, TypeOK, ManPlace
  <1>14. CASE ManAlloc
    <2>1. message' \in BOOLEAN /\ leaked' \in Nat
      BY <1>14 DEF ManAlloc, TypeOK
    <2> QED
      BY <1>14, <2>1 DEF ManAlloc, TypeOK, ManPlace
  <1>15. CASE ManPrep
    <2>1. /\ UNCHANGED <<radioBufRXLow, lowMessage, lowPc, out, ping, message>>
          /\ manPc' = "get" /\ Prep("ping") /\ "ping" \in Prepared
      BY <1>15, PacketType DEF ManPrep
    <2>2. lowPc' \in {"get", "switch"} /\ manPc' \in ManPlace
      BY <2>1 DEF TypeOK, ManPlace
    <2> QED
      BY <1>1, <2>1, <2>2
  <1>16. CASE ManGet
    <2>1. /\ radioBufTX' \in Seq(Packet) /\ Len(radioBufTX') <= Capacity
          /\ ping' \in Packet \cup {NoPacket}
      BY <1>16, DequeueType DEF ManGet, TypeOK
    <2> QED
      BY <1>16, <2>1 DEF ManGet, TypeOK, ManPlace
  <1>17. CASE ManGetAsserts
    BY <1>17 DEF ManGetAsserts, TypeOK
  <1>18. CASE ManSend
    <2>1. mark' \in Mark
      BY <1>18 DEF ManSend, TypeOK, Mark
    <2>2. quietRounds' \in Nat
      BY <1>18 DEF ManSend, TypeOK
    <2> QED
      BY <1>18, <2>1, <2>2 DEF ManSend, TypeOK, Mark, ManPlace
  <1>19. CASE UNCHANGED vars
    BY <1>19 DEF vars, TypeOK
  <1> QED
    BY <1>2, <1>3, <1>4, <1>5, <1>6, <1>7, <1>8, <1>10, <1>11, <1>12, <1>13, <1>14, <1>15,
       <1>16, <1>17, <1>18, <1>19 DEF Next, dealWithLowMessages, outputLoop, mandatoryOutput

(***************************************************************************)
(* However the tasks take turns on the buffers, the batch stays below the  *)
(* length of a frame: no packet is placed behind the end of `message'.     *)
(***************************************************************************)
THEOREM TelemetryTypeCorrect == Spec => []TypeOK
  BY TypeInit, TypeStep, PTL DEF Spec

-----------------------------------------------------------------------------
(* The marked packet in radioBufTX.                                        *)

HasMarked(q) == \E i \in 1 .. Len(q) : q[i].marked

AtMostOne(q) == \A i, j \in 1 .. Len(q) : q[i].marked /\ q[j].marked => i = j

LEMMA TailMarked ==
    ASSUME NEW q \in Seq(Packet), q # <<>>
    PROVE  /\ HasMarked(q) <=> (Head(q).marked \/ HasMarked(Tail(q)))
           /\ AtMostOne(q) => AtMostOne(Tail(q)) /\ (Head(q).marked => ~HasMarked(Tail(q)))
  <1>1. /\ Len(q) \in Nat /\ Len(q) >= 1 /\ Len(Tail(q)) = Len(q) - 1 /\ Head(q) = q[1]
        /\ \A i \in 1 .. Len(Tail(q)) : Tail(q)[i] = q[i + 1]
    BY LenProperties, HeadTailProperties, EmptySeq
  <1>2. \A i \in 1 .. Len(q) : i = 1 \/ (i - 1 \in 1 .. Len(Tail(q)) /\ (i - 1) + 1 = i)
    BY <1>1
  <1>3. \A i \in 1 .. Len(Tail(q)) : i + 1 \in 1 .. Len(q) /\ i + 1 # 1
    BY <1>1
  <1>4. 1 \in 1 .. Len(q)
    BY <1>1
  <1>5. HasMarked(q) => Head(q).marked \/ HasMarked(Tail(q))
    <2> SUFFICES ASSUME NEW i \in 1 .. Len(q), q[i].marked, i # 1 PROVE HasMarked(Tail(q))
      BY <1>1 DEF HasMarked
    <2>1. i - 1 \in 1 .. Len(Tail(q)) /\ Tail(q)[i - 1] = q[i]
      BY <1>1, <1>2
    <2> QED
      BY <2>1 DEF HasMarked
  <1>6. Head(q).marked => HasMarked(q)
    BY <1>1, <1>4 DEF HasMarked
  <1>7. HasMarked(Tail(q)) => HasMarked(q)
    <2> SUFFICES ASSUME NEW i \in 1 .. Len(Tail(q)), Tail(q)[i].marked PROVE HasMarked(q)
      BY DEF HasMarked
    <2>1. i + 1 \in 1 .. Len(q) /\ q[i + 1].marked
      BY <1>1, <1>3
    <2> QED
      BY <2>1 DEF HasMarked
  <1>8. ASSUME AtMostOne(q) PROVE AtMostOne(Tail(q))
    <2> SUFFICES ASSUME NEW i \in 1 .. Len(Tail(q)), NEW j \in 1 .. Len(Tail(q)),
                        Tail(q)[i].marked, Tail(q)[j].marked
                 PROVE  i = j
      BY DEF AtMostOne
    <2>1. /\ i + 1 \in 1 .. Len(q) /\ j + 1 \in 1 .. Len(q)
          /\ q[i + 1].marked /\ q[j + 1].marked
      BY <1>1, <1>3
    <2>2. i + 1 = j + 1
      BY <1>8, <2>1 DEF AtMostOne
    <2> QED
      BY <2>2
  <1>9. ASSUME AtMostOne(q), Head(q).marked, HasMarked(Tail(q)) PROVE FALSE
    <2>1. PICK i \in 1 .. Len(Tail(q)) : Tail(q)[i].marked
      BY <1>9 DEF HasMarked
    <2>2. i + 1 \in 1 .. Len(q) /\ q[i + 1].marked /\ i + 1 # 1 /\ q[1].marked
      BY <1>1, <1>3, <1>9, <2>1
    <2> QED
      BY <1>4, <1>9, <2>2 DEF AtMostOne
  <1> QED
    BY <1>5, <1>6, <1>7, <1>8, <1>9

LEMMA AppendMarked ==
    ASSUME NEW q \in Seq(Packet), NEW p \in Packet
    PROVE  /\ HasMarked(Append(q, p)) <=> (HasMarked(q) \/ p.marked)
           /\ AtMostOne(q) /\ (p.marked => ~HasMarked(q)) => AtMostOne(Append(q, p))
  <1> DEFINE r == Append(q, p)
             n == Len(q)
  <1>1. /\ n \in Nat /\ Len(r) = n + 1 /\ r[n + 1] = p
        /\ \A i \in 1 .. n : r[i] = q[i]
    BY LenProperties, AppendProperties
  <1> HIDE DEF r
  <1>2. \A i \in 1 .. Len(r) : i \in 1 .. n \/ i = n + 1
    BY <1>1
  <1>3. n + 1 \in 1 .. Len(r) /\ \A i \in 1 .. n : i \in 1 .. Len(r)
    BY <1>1
  <1>4. HasMarked(r) <=> (HasMarked(q) \/ p.marked)
    BY <1>1, <1>2, <1>3 DEF HasMarked
  <1>5. ASSUME AtMostOne(q), p.marked => ~HasMarked(q) PROVE AtMostOne(r)
    <2> SUFFICES ASSUME NEW i \in 1 .. Len(r), NEW j \in 1 .. Len(r), r[i].marked, r[j].marked
                 PROVE  i = j
      BY DEF AtMostOne
    <2>1. CASE i \in 1 .. n /\ j \in 1 .. n
      BY <1>1, <1>5, <2>1 DEF AtMostOne
    <2>2. CASE i = n + 1 /\ j \in 1 .. n
      BY <1>1, <1>5, <2>2 DEF HasMarked
    <2>3. CASE i \in 1 .. n /\ j = n + 1
      BY <1>1, <1>5, <2>3 DEF HasMarked
    <2> QED
      BY <1>2, <2>1, <2>2, <2>3
  <1> QED
    BY <1>4, <1>5 DEF r

(* A put of a packet, marked or not: the oldest one gives way. *)
LEMMA EnqueueMarked ==
    ASSUME NEW q \in Seq(Packet), NEW p \in Packet, AtMostOne(q), p.marked => ~HasMarked(q)
    PROVE  /\ AtMostOne(TX!Enqueue(q, p))
           /\ HasMarked(TX!Enqueue(q, p))
                <=> \/ p.marked
                    \/ HasMarked(q) /\ ~(Len(q) = Capacity /\ Head(q).marked)
  <1>1. CASE Len(q) = Capacity
    <2>1. q # <<>>
      BY <1>1, PacketType, EmptySeq
    <2>2. Tail(q) \in Seq(Packet)
      BY <2>1, HeadTailProperties
    <2>3. TX!Enqueue(q, p) = Append(Tail(q), p)
      BY <1>1 DEF TX!Enqueue
    <2>4. /\ HasMarked(q) <=> (Head(q).marked \/ HasMarked(Tail(q)))
          /\ AtMostOne(Tail(q))
          /\ Head(q).marked => ~HasMarked(Tail(q))
      BY <2>1, TailMarked
    <2>5. /\ HasMarked(Append(Tail(q), p)) <=> (HasMarked(Tail(q)) \/ p.marked)
          /\ AtMostOne(Append(Tail(q), p))
      BY <2>2, <2>4, AppendMarked
    <2> QED
      BY <1>1, <2>3, <2>4, <2>5
  <1>2. CASE Len(q) # Capacity
    <2>1. TX!Enqueue(q, p) = Append(q, p)
      BY <1>2 DEF TX!Enqueue
    <2> QED
      BY <1>2, <2>1, AppendMarked
  <1> QED
    BY <1>1, <1>2

(* A get: what it hands back and what it leaves. *)
LEMMA DequeueMarked ==
    ASSUME NEW q \in Seq(Packet), AtMostOne(q)
    PROVE  /\ AtMostOne(TX!Dequeue(q))
           /\ HasMarked(q) <=> (TX!Oldest(q).marked \/ HasMarked(TX!Dequeue(q)))
           /\ TX!Oldest(q).marked => ~HasMarked(TX!Dequeue(q))
  <1>1. CASE q = <<>>
    <2>1. ~HasMarked(q)
      BY <1>1 DEF HasMarked
    <2> QED
      BY <1>1, <2>1, PacketType DEF TX!Dequeue, TX!Oldest
  <1>2. CASE q # <<>>
    <2>1. TX!Dequeue(q) = Tail(q) /\ TX!Oldest(q) = Head(q)
      BY <1>2 DEF TX!Dequeue, TX!Oldest
    <2> QED
      BY <1>2, <2>1, TailMarked
  <1> QED
    BY <1>1, <1>2

-----------------------------------------------------------------------------
(* The marked packet in the system.                                        *)

(***************************************************************************)
(* The marked packet is in at most one of the four places, in one exactly  *)
(* when it waits; and outputLoop and mandatoryOutput hold no packet when   *)
(* they get the next one, which would be written over.                     *)
(***************************************************************************)
PlaceInv ==
    /\ AtMostOne(radioBufTX)
    /\ individ.marked => ~HasMarked(radioBufTX) /\ ~batch.marked /\ ~ping.marked
    /\ batch.marked => ~HasMarked(radioBufTX) /\ ~ping.marked
    /\ ping.marked => ~HasMarked(radioBufTX)
    /\ mark = "waiting"
         <=> (HasMarked(radioBufTX) \/ individ.marked \/ batch.marked \/ ping.marked)
    /\ outPc # "fill" => ~individ.marked
    /\ manPc # "send" => ~ping.marked

LEMMA PlaceInit == Init => PlaceInv
  <1> SUFFICES ASSUME Init PROVE PlaceInv
    OBVIOUS
  <1>1. AtMostOne(<<>>) /\ ~HasMarked(<<>>)
    BY DEF AtMostOne, HasMarked
  <1> QED
    BY <1>1 DEF Init, PlaceInv, NoPacket, EmptyBatch

LEMMA PrepPlace ==
    ASSUME TypeOK, PlaceInv, NEW k \in Prepared, Prep(k), UNCHANGED out, ping' = ping,
           manPc' # "send" => manPc # "send"
    PROVE  PlaceInv'
  <1>1. CASE UNCHANGED <<radioBufTX, mark>>
    BY <1>1 DEF PlaceInv, out
  <1>2. CASE ~UNCHANGED <<radioBufTX, mark>>
    <2>1. PICK m \in {FALSE, mark = "unused"} :
            /\ radioBufTX' = TX!Enqueue(radioBufTX, [length |-> PacketLength[k], marked |-> m])
            /\ mark' = IF m THEN "waiting"
                       ELSE IF Len(radioBufTX) = Capacity /\ Head(radioBufTX).marked
                            THEN "dropped" ELSE mark
      BY <1>2 DEF Prep
    <2> DEFINE p == [length |-> PacketLength[k], marked |-> m]
               dropped == Len(radioBufTX) = Capacity /\ Head(radioBufTX).marked
    <2>2. p \in Packet /\ p.marked = m
      BY PacketType
    <2>3. radioBufTX \in Seq(Packet) /\ radioBufTX' = TX!Enqueue(radioBufTX, p)
      BY <2>1 DEF TypeOK
    <2>4. m => mark = "unused"
      OBVIOUS
    <2>5. dropped => HasMarked(radioBufTX)
      <3>1. ASSUME dropped PROVE radioBufTX # <<>>
        BY <2>3, <3>1, PacketType, EmptySeq
      <3> QED
        BY <2>3, <3>1, TailMarked
    <2> HIDE DEF p
    <2>6. /\ AtMostOne(radioBufTX')
          /\ HasMarked(radioBufTX') <=> (m \/ (HasMarked(radioBufTX) /\ ~dropped))
      BY <2>2, <2>3, <2>4, EnqueueMarked DEF PlaceInv
    <2>7. mark' = IF m THEN "waiting" ELSE IF dropped THEN "dropped" ELSE mark
      BY <2>1
    <2> HIDE DEF dropped
    <2>8. CASE m
      BY <2>4, <2>6, <2>7, <2>8 DEF PlaceInv, out
    <2>9. CASE ~m /\ dropped
      BY <2>5, <2>6, <2>7, <2>9 DEF PlaceInv, out
    <2>10. CASE ~m /\ ~dropped
      BY <2>6, <2>7, <2>10 DEF PlaceInv, out
    <2> QED
      BY <2>8, <2>9, <2>10
  <1> QED
    BY <1>1, <1>2

LEMMA OutStep ==
    ASSUME TypeOK, PlaceInv, outputLoop
    PROVE  PlaceInv'
  <1>1. radioBufTX \in Seq(Packet) /\ NoPacket.marked = FALSE
    BY PacketType DEF TypeOK
  <1>2. /\ individ.length \in Nat /\ individ.length < MaxFrame /\ batch.length \in Nat
        /\ EmptyBatch.length = 0 /\ EmptyBatch.marked = FALSE
    BY PacketType DEF TypeOK, EmptyBatch
  <1>3. CASE OutCheck
    BY <1>3 DEF OutCheck, PlaceInv, man, history
  <1>4. CASE OutGet
    <2>1. /\ individ' = TX!Oldest(radioBufTX) /\ radioBufTX' = TX!Dequeue(radioBufTX)
          /\ ~individ.marked /\ outPc' = "fill" /\ UNCHANGED <<batch, ping, manPc, mark>>
      BY <1>4 DEF OutGet, PlaceInv, man, history
    <2>2. /\ AtMostOne(radioBufTX')
          /\ individ'.marked => ~HasMarked(radioBufTX')
          /\ HasMarked(radioBufTX) <=> (individ'.marked \/ HasMarked(radioBufTX'))
      BY <1>1, <2>1, DequeueMarked DEF PlaceInv
    <2> QED
      BY <2>1, <2>2 DEF PlaceInv
  <1>5. CASE OutAppend
    <2>1. batch'.marked <=> (batch.marked \/ individ.marked)
      BY <1>2, <1>5, ExtendType DEF OutAppend, Fits
    <2>2. /\ ~individ'.marked
          /\ UNCHANGED <<radioBufTX, ping, manPc, mark>>
      BY <1>1, <1>5 DEF OutAppend, man, history
    <2> QED
      BY <2>1, <2>2 DEF PlaceInv
  <1>6. CASE OutSend
    <2>1. batch'.marked <=> individ.marked
      BY <1>2, <1>6, ExtendType DEF OutSend
    <2>2. /\ ~individ'.marked /\ UNCHANGED <<radioBufTX, ping, manPc>>
          /\ mark' = IF ~batch.marked THEN mark
                     ELSE IF batch.intact THEN "sent" ELSE "garbled"
      BY <1>1, <1>6 DEF OutSend, man, history
    <2> QED
      BY <2>1, <2>2 DEF PlaceInv
  <1> QED
    BY <1>3, <1>4, <1>5, <1>6 DEF outputLoop

LEMMA ManStep ==
    ASSUME TypeOK, PlaceInv, mandatoryOutput
    PROVE  PlaceInv'
  <1>1. radioBufTX \in Seq(Packet) /\ NoPacket.marked = FALSE
    BY PacketType DEF TypeOK
  <1>2. CASE ManWake
    BY <1>2 DEF ManWake, PlaceInv, out, history
  <1>3. CASE ManCheck
    BY <1>3 DEF ManCheck, PlaceInv, out, history
  <1>4. CASE ManPrep
    <2>1. Prep("ping") /\ UNCHANGED out /\ ping' = ping /\ manPc = "prep" /\ "ping" \in Prepared
      BY <1>4, PacketType DEF ManPrep
    <2> QED
      BY <2>1, PrepPlace
  <1>5. CASE ManGet
    <2>1. /\ ping' = TX!Oldest(radioBufTX) /\ radioBufTX' = TX!Dequeue(radioBufTX)
          /\ ~ping.marked /\ manPc' = "send" /\ UNCHANGED <<batch, individ, outPc, mark>>
      BY <1>5 DEF ManGet, PlaceInv, out, history
    <2>2. /\ AtMostOne(radioBufTX')
          /\ ping'.marked => ~HasMarked(radioBufTX')
          /\ HasMarked(radioBufTX) <=> (ping'.marked \/ HasMarked(radioBufTX'))
      BY <1>1, <2>1, DequeueMarked DEF PlaceInv
    <2> QED
      BY <2>1, <2>2 DEF PlaceInv
  <1>6. CASE ManSend
    BY <1>1, <1>6 DEF ManSend, PlaceInv, out
  <1>7. CASE ManAlloc \/ ManGetAsserts
    <2>1. UNCHANGED <<radioBufTX, out, ping, mark>> /\ manPc' # "send"
      BY <1>7 DEF ManAlloc, ManGetAsserts, man, history
    <2> QED
      BY <1>7, <2>1 DEF PlaceInv, out, ManAlloc, ManGetAsserts
  <1> QED
    BY <1>2, <1>3, <1>4, <1>5, <1>6, <1>7 DEF mandatoryOutput

LEMMA PlaceStep == TypeOK /\ PlaceInv /\ [Next]_vars => PlaceInv'
  <1> SUFFICES ASSUME TypeOK, PlaceInv, [Next]_vars PROVE PlaceInv'
    OBVIOUS
  <1>1. CASE UNCHANGED <<radioBufTX, out, man, mark>>
    BY <1>1 DEF PlaceInv, out, man
  <1>2. ASSUME NEW k \in Prepared, Prep(k), UNCHANGED <<out, man>> PROVE PlaceInv'
    BY <1>2, PrepPlace DEF man
  <1>3. CASE Answer
    <2>1. UNCHANGED <<out, man>>
      BY <1>3 DEF Answer
    <2>2. CASE lowMessage \in Request /\ Prep(lowMessage)
      BY <1>2, <2>1, <2>2, PacketType
    <2>3. CASE UNCHANGED <<radioBufTX, history>>
      BY <1>1, <2>1, <2>3 DEF history
    <2> QED
      BY <1>3, <2>2, <2>3 DEF Answer
  <1>4. CASE CritAnswer
    BY <1>2, <1>4, PacketType DEF CritAnswer
  <1>5. PutRequest \/ GetRequest \/ GetNoRequest \/ UNCHANGED vars
           => UNCHANGED <<radioBufTX, out, man, mark>>
    BY DEF PutRequest, GetRequest, GetNoRequest, vars, history
  <1> QED
    BY <1>1, <1>3, <1>4, <1>5, OutStep, ManStep DEF Next, dealWithLowMessages

LEMMA PlaceCount == TypeOK /\ PlaceInv => EachPacketOnce
  <1> SUFFICES ASSUME TypeOK, PlaceInv PROVE EachPacketOnce
    OBVIOUS
  <1> DEFINE n == Len(radioBufTX)
             queued == {<<"TX", i>> : i \in {j \in DOMAIN radioBufTX : radioBufTX[j].marked}}
             heldByOut == IF individ.marked THEN {<<"individ", 0>>} ELSE {}
             inBatch == IF batch.marked THEN {<<"batch", 0>>} ELSE {}
             heldByMan == IF ping.marked THEN {<<"ping", 0>>} ELSE {}
  <1>1. DOMAIN radioBufTX = 1 .. n
    BY LenProperties DEF TypeOK
  <1>2. HasMarked(radioBufTX) => \E x : queued = {x}
    <2> SUFFICES ASSUME HasMarked(radioBufTX) PROVE \E x : queued = {x}
      OBVIOUS
    <2>1. PICK i \in 1 .. n : radioBufTX[i].marked
      BY DEF HasMarked
    <2>2. {j \in DOMAIN radioBufTX : radioBufTX[j].marked} = {i}
      BY <1>1, <2>1 DEF PlaceInv, AtMostOne
    <2>3. queued = {<<"TX", i>>}
      BY <2>2
    <2> QED
      BY <2>3
  <1>3. ~HasMarked(radioBufTX) => queued = {}
    BY <1>1 DEF HasMarked
  <1>4. MarkedPlaces = ((queued \cup heldByOut) \cup inBatch) \cup heldByMan
    BY DEF MarkedPlaces
  <1> HIDE DEF queued
  <1>5. CASE mark = "waiting"
    <2>1. \E x : MarkedPlaces = {x}
      <3>1. CASE HasMarked(radioBufTX)
        <4>1. ~individ.marked /\ ~batch.marked /\ ~ping.marked
          BY <3>1 DEF PlaceInv
        <4>2. heldByOut = {} /\ inBatch = {} /\ heldByMan = {}
          BY <4>1
        <4> QED
          BY <1>2, <1>4, <3>1, <4>2
      <3>2. CASE individ.marked
        <4>1. queued = {} /\ inBatch = {} /\ heldByMan = {} /\ heldByOut = {<<"individ", 0>>}
          BY <1>3, <3>2 DEF PlaceInv
        <4> QED
          BY <1>4, <4>1
      <3>3. CASE batch.marked
        <4>1. queued = {} /\ heldByOut = {} /\ heldByMan = {} /\ inBatch = {<<"batch", 0>>}
          BY <1>3, <3>3 DEF PlaceInv
        <4> QED
          BY <1>4, <4>1
      <3>4. CASE ping.marked
        <4>1. queued = {} /\ heldByOut = {} /\ inBatch = {} /\ heldByMan = {<<"ping", 0>>}
          BY <1>3, <3>4 DEF PlaceInv
        <4> QED
          BY <1>4, <4>1
      <3> QED
        BY <1>5, <3>1, <3>2, <3>3, <3>4 DEF PlaceInv
    <2>2. Cardinality(MarkedPlaces) = 1
      BY <2>1, FS_Singleton
    <2> QED
      BY <1>5, <2>2 DEF EachPacketOnce
  <1>6. CASE mark # "waiting"
    <2>1. ~HasMarked(radioBufTX) /\ ~individ.marked /\ ~batch.marked /\ ~ping.marked
      BY <1>6 DEF PlaceInv
    <2>2. queued = {} /\ heldByOut = {} /\ inBatch = {} /\ heldByMan = {}
      BY <1>3, <2>1
    <2>3. Cardinality(MarkedPlaces) = 0
      BY <1>4, <2>2, FS_EmptySet
    <2> QED
      BY <1>6, <2>3 DEF EachPacketOnce
  <1> QED
    BY <1>5, <1>6

(***************************************************************************)
(* Of outputLoop and mandatoryOutput, which both get from radioBufTX after *)
(* checks that may be stale, and of all tasks that put, none sends a       *)
(* packet twice or loses it between the buffer and the frame: until it is  *)
(* dropped or sent, a packet is in exactly one place.                      *)
(***************************************************************************)
THEOREM TelemetryEachPacketOnce == Spec => []EachPacketOnce
  BY TypeInit, TypeStep, PlaceInit, PlaceStep, PlaceCount, PTL DEF Spec

-----------------------------------------------------------------------------
(* Frames without a packet.                                                *)

Gathered == batch.length + individ.length

(***************************************************************************)
(* When mandatoryOutput is about to get its ping, the ping is still in     *)
(* radioBufTX or outputLoop has got a packet in this round, unless the     *)
(* program has ended for want of a block to put it into.                   *)
(***************************************************************************)
QuietInv ==
    /\ quietRounds * 6 <= Gathered
    /\ outPc # "fill" => individ.length = 0
    /\ manPc = "get" /\ ~faulted
          => radioBufTX # <<>> \/ (quietRounds + 1) * 6 <= Gathered
    /\ manPc = "send" /\ ping = NoPacket => (quietRounds + 1) * 6 <= Gathered

LEMMA QuietInit == Init => QuietInv
  <1> SUFFICES ASSUME Init PROVE QuietInv
    OBVIOUS
  <1>1. Gathered = 0 /\ individ.length = 0
    BY PacketType DEF Init, Gathered, EmptyBatch
  <1> QED
    BY <1>1 DEF Init, QuietInv

(* A put leaves a packet in radioBufTX, unless the program ends with it. *)
LEMMA PrepQuiet ==
    ASSUME TypeOK, NEW k \in Prepared, Prep(k)
    PROVE  faulted' \/ radioBufTX' # <<>>
  <1>1. CASE faulted'
    BY <1>1
  <1>2. CASE ~faulted'
    <2>1. PICK m \in {FALSE, mark = "unused"} :
            radioBufTX' = TX!Enqueue(radioBufTX, [length |-> PacketLength[k], marked |-> m])
      BY <1>2 DEF Prep, NullUsed
    <2> DEFINE p == [length |-> PacketLength[k], marked |-> m]
               q == IF Len(radioBufTX) = Capacity THEN Tail(radioBufTX) ELSE radioBufTX
    <2>2. radioBufTX' = Append(q, p)
      BY <2>1 DEF TX!Enqueue
    <2>3. q \in Seq(Packet)
      <3>1. radioBufTX \in Seq(Packet)
        BY DEF TypeOK
      <3>2. ASSUME Len(radioBufTX) = Capacity PROVE Tail(radioBufTX) \in Seq(Packet)
        <4>1. radioBufTX # <<>>
          BY <3>2, PacketType, EmptySeq
        <4> QED
          BY <3>1, <4>1, HeadTailProperties
      <3> QED
        BY <3>1, <3>2
    <2>4. p \in Packet
      BY PacketType
    <2> HIDE DEF p, q
    <2> QED
      BY <2>2, <2>3, <2>4, AppendProperties
  <1> QED
    BY <1>1, <1>2

(* What a get of radioBufTX hands back. *)
LEMMA GetQuiet ==
    ASSUME TypeOK
    PROVE  /\ radioBufTX # <<>> => TX!Oldest(radioBufTX) \in Packet
           /\ radioBufTX = <<>> => TX!Oldest(radioBufTX) = NoPacket
  <1>1. radioBufTX \in Seq(Packet)
    BY DEF TypeOK
  <1>2. radioBufTX # <<>> => Head(radioBufTX) \in Packet
    BY <1>1, HeadTailProperties
  <1> QED
    BY <1>2 DEF TX!Oldest

LEMMA QuietStep == TypeOK /\ QuietInv /\ [Next]_vars => QuietInv'
  <1> SUFFICES ASSUME TypeOK, QuietInv, [Next]_vars PROVE QuietInv'
    OBVIOUS
  <1>1. /\ individ.length \in Nat /\ individ.length < MaxFrame /\ MaxFrame \in Nat
        /\ batch.length \in Nat /\ batch.length < MaxFrame
        /\ quietRounds \in Nat /\ Gathered \in Nat
    BY PacketType DEF TypeOK, Gathered
  <1>2. ASSUME UNCHANGED <<radioBufTX, individ, batch, outPc, ping, manPc, quietRounds>>,
               faulted => faulted'
        PROVE  QuietInv'
    BY <1>2 DEF QuietInv, Gathered
  <1>3. ASSUME NEW k \in Prepared, Prep(k), UNCHANGED <<out, ping>>,
               manPc' = "get" \/ manPc' = manPc
        PROVE  QuietInv'
    <2>1. (faulted' \/ radioBufTX' # <<>>) /\ quietRounds' = quietRounds
      BY <1>3, PrepQuiet DEF Prep
    <2> QED
      BY <1>3, <2>1 DEF QuietInv, Gathered, out
  <1>4. CASE Answer
    <2>1. UNCHANGED <<out, ping, manPc>>
      BY <1>4 DEF Answer, man
    <2>2. CASE lowMessage \in Request /\ Prep(lowMessage)
      BY <1>3, <2>1, <2>2, PacketType
    <2>3. CASE UNCHANGED <<radioBufTX, heap, history>>
      BY <1>2, <2>1, <2>3 DEF heap, history, out
    <2> QED
      BY <1>4, <2>2, <2>3 DEF Answer
  <1>5. CASE CritAnswer
    BY <1>3, <1>5, PacketType DEF CritAnswer, man
  <1>6. PutRequest \/ GetRequest \/ GetNoRequest \/ ManGetAsserts \/ UNCHANGED vars
           => /\ UNCHANGED <<radioBufTX, individ, batch, outPc, ping, manPc, quietRounds>>
              /\ faulted => faulted'
    BY DEF PutRequest, GetRequest, GetNoRequest, ManGetAsserts, NullUsed, BlockTaken,
           vars, out, man, heap, history
  <1>7. CASE OutCheck
    <2>1. /\ UNCHANGED <<radioBufTX, individ, batch, ping, manPc, quietRounds, faulted>>
          /\ outPc # "fill"
      BY <1>7 DEF OutCheck, man, heap, history
    <2> QED
      BY <2>1 DEF QuietInv, Gathered
  <1>8. CASE OutGet
    <2>1. /\ individ' = TX!Oldest(radioBufTX) /\ individ.length = 0 /\ outPc' = "fill"
          /\ UNCHANGED <<batch, ping, manPc, quietRounds, faulted>>
      BY <1>8 DEF OutGet, QuietInv, man, heap, history
    <2>2. CASE radioBufTX # <<>>
      <3>1. individ'.length \in Nat /\ individ'.length >= 6
        BY <2>1, <2>2, GetQuiet, PacketType
      <3>2. Gathered' >= Gathered + 6 /\ Gathered' \in Nat
        BY <1>1, <2>1, <3>1 DEF Gathered
      <3>3. (quietRounds + 1) * 6 <= Gathered'
        BY <1>1, <3>2 DEF QuietInv
      <3>4. quietRounds * 6 <= Gathered'
        BY <1>1, <3>3, <3>2
      <3> QED
        BY <2>1, <3>3, <3>4 DEF QuietInv
    <2>3. CASE radioBufTX = <<>>
      <3>1. individ'.length = 0
        BY <2>1, <2>3, GetQuiet, PacketType
      <3>2. Gathered' = Gathered
        BY <2>1, <3>1 DEF Gathered
      <3> QED
        BY <2>1, <2>3, <3>2 DEF QuietInv
    <2> QED
      BY <2>2, <2>3
  <1>9. CASE OutAppend
    <2>1. /\ batch'.length = batch.length + individ.length /\ individ' = NoPacket
          /\ UNCHANGED <<radioBufTX, ping, manPc, quietRounds, faulted>>
      BY <1>9 DEF OutAppend, Extend, man, heap, history
    <2>2. Gathered' = Gathered /\ individ'.length = 0
      BY <1>1, <2>1, PacketType DEF Gathered
    <2> QED
      BY <2>1, <2>2 DEF QuietInv
  <1>10. CASE OutSend
    <2>1. /\ batch'.length = EmptyBatch.length + individ.length /\ individ' = NoPacket
          /\ UNCHANGED <<radioBufTX, ping, manPc>> /\ quietRounds' = 0
      BY <1>10 DEF OutSend, Extend, man
    <2>2. individ.length > 0
      BY <1>1, <1>10 DEF OutSend, Fits
    <2>3. individ.length >= 6
      BY <2>2, PacketType DEF TypeOK
    <2>4. EmptyBatch.length = 0
      BY DEF EmptyBatch
    <2>5. Gathered' >= 6 /\ individ'.length = 0 /\ Gathered' \in Nat
      BY <1>1, <2>1, <2>3, <2>4, PacketType DEF Gathered
    <2>6. (quietRounds' + 1) * 6 <= Gathered' /\ quietRounds' * 6 <= Gathered'
      BY <2>1, <2>5
    <2> QED
      BY <2>5, <2>6 DEF QuietInv
  <1>11. CASE ManWake \/ ManCheck \/ ManAlloc
    <2>1. /\ UNCHANGED <<individ, batch, outPc, quietRounds>>
          /\ manPc' # "get" /\ manPc' # "send"
      BY <1>11 DEF ManWake, ManCheck, ManAlloc, out, history
    <2> QED
      BY <2>1 DEF QuietInv, Gathered
  <1>12. CASE ManPrep
    BY <1>3, <1>12, PacketType DEF ManPrep
  <1>13. CASE ManGet
    <2>1. /\ ping' = TX!Oldest(radioBufTX) /\ manPc = "get" /\ manPc' = "send"
          /\ UNCHANGED <<individ, batch, outPc, quietRounds, faulted>>
      BY <1>13 DEF ManGet, out, heap, history
    <2>2. ping' = NoPacket => radioBufTX = <<>>
      <3>1. ASSUME radioBufTX # <<>>, ping' = NoPacket PROVE FALSE
        <4>1. NoPacket.length >= 6
          BY <2>1, <3>1, GetQuiet, PacketType
        <4> QED
          BY <4>1, PacketType
      <3> QED
        BY <3>1
    <2>3. Gathered' = Gathered
      BY <2>1 DEF Gathered
    <2>4. ~faulted
      BY <2>1 DEF Next, vars, man
    <2>5. ping' = NoPacket => (quietRounds + 1) * 6 <= Gathered
      BY <2>1, <2>2, <2>4 DEF QuietInv
    <2> QED
      BY <2>1, <2>3, <2>5 DEF QuietInv
  <1>14. CASE ManSend
    <2>1. /\ UNCHANGED <<individ, batch, outPc>> /\ manPc = "send" /\ manPc' = "delay"
          /\ quietRounds' = IF ping = NoPacket THEN quietRounds + 1 ELSE 0
      BY <1>14 DEF ManSend, out
    <2>2. quietRounds' * 6 <= Gathered /\ Gathered' = Gathered
      BY <1>1, <2>1 DEF QuietInv, Gathered
    <2> QED
      BY <2>1, <2>2 DEF QuietInv
  <1> QED
    BY <1>2, <1>4, <1>5, <1>6, <1>7, <1>8, <1>9, <1>10, <1>11, <1>12, <1>13, <1>14
       DEF Next, dealWithLowMessages, outputLoop, mandatoryOutput

LEMMA QuietBound == QuietInv => QuietRoundsFillBatch
  BY DEF QuietInv, QuietRoundsFillBatch, Gathered, ShortestPacket, PacketLength

(***************************************************************************)
(* However the tasks take turns: after any number of frames without a      *)
(* packet in a row, outputLoop has gathered as many packets.  Since it     *)
(* gathers less than two frames, such a row is bounded, and at the end of  *)
(* it a frame with packets goes out.                                       *)
(***************************************************************************)
THEOREM TelemetryQuietRoundsFillBatch == Spec => []QuietRoundsFillBatch
  BY TypeInit, TypeStep, QuietInit, QuietStep, QuietBound, PTL DEF Spec
=============================================================================
