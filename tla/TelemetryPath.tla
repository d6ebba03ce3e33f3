--------------------------- MODULE TelemetryPath ---------------------------
(***************************************************************************)
(* How a packet for the ground station gets on the air: the radioPrep...   *)
(* functions put it into radioBufTX, for dealWithLowMessages (in answer to *)
(* a data request), for dealWithCritMessages (ping and config requests) or *)
(* for mandatoryOutput (a ping when the radio has been quiet for ten       *)
(* seconds); outputLoop gathers packets into frames of less than MaxFrame  *)
(* bytes and sends a frame when the next packet does not fit;              *)
(* mandatoryOutput gets one packet and sends it alone.                     *)
(*                                                                         *)
(* All of them run at one priority and can be switched between any two     *)
(* calls on a buffer.  To follow one packet through the system, one packet *)
(* of each behaviour, any one, is marked; `mark' is what became of it.     *)
(*                                                                         *)
(* What is queued takes memory.  A put into a full buffer loses the block  *)
(* that it overwrites, and mandatoryOutput never frees the one that it     *)
(* gets a packet into, so the heap runs out in the end.  Nothing looks for *)
(* the NULL that pvPortMalloc returns then; the model follows the program  *)
(* no further than to its first use.                                       *)
(***************************************************************************)
EXTENDS Integers, Sequences, FiniteSets

CONSTANTS
    Capacity,    \* of radioBufTX and radioBufRXLow (512 in the code)
    MaxFrame,    \* MAX_PACKET_SIZE: 243, the bytes a frame stays below
    Request,     \* the packets that the ground station asks for
    HeapBlocks   \* the blocks that the heap has left after the initialisation,
                 \* and after those in which the packets are built, which are
                 \* freed again

VARIABLES
    radioBufTX,
    radioBufRXLow,
    lowMessage,  \* dealWithLowMessages: the request it got last
    lowPc,       \* dealWithLowMessages: "get" or "switch"
    individ,     \* outputLoop: individMessage, the packet it got
    batch,       \* outputLoop: length of `message' and what it holds
    outPc,       \* outputLoop: "check", "get" or "fill"
    ping,        \* mandatoryOutput: the packet it got
    message,     \* mandatoryOutput: whether its buffer was allocated
    manPc,       \* mandatoryOutput: see ManPlace
    leaked,      \* the blocks that no pointer is left to
    faulted,     \* NULL was used for a block
    mark,        \* history: what became of the marked packet
    quietRounds  \* history: the frames without a packet since the last with one

low == <<radioBufRXLow, lowMessage, lowPc>>
out == <<individ, batch, outPc>>
man == <<ping, message, manPc>>
heap == <<leaked, faulted>>
history == <<mark, quietRounds>>
vars == <<radioBufTX, low, out, man, heap, history>>

-----------------------------------------------------------------------------

(***************************************************************************)
(* The length each radioPrep... function hands to cbufPut.  radioPrepEvent *)
(* passes the length of a ping.                                            *)
(***************************************************************************)
PacketLength ==
    [ping |-> 10, event |-> 10, config |-> 47, gps |-> 17, state |-> 7,
     orientation |-> 21, accel |-> 17, float |-> 9, int |-> 6, dump |-> 86]

Kind == DOMAIN PacketLength

(* The requests dealWithLowMessages answers. *)
LowRequest == {"gps", "state", "orientation", "accel", "float", "int", "dump"}

(* The packets that are prepared; nothing calls radioPrepEvent. *)
Prepared == Request \cup {"ping", "config"}

ASSUME ParameterAssumption ==
    /\ Capacity \in Nat \ {0} /\ HeapBlocks \in Nat
    /\ Request \subseteq LowRequest
    /\ MaxFrame \in Nat /\ \A k \in Prepared : PacketLength[k] < MaxFrame

Packet == [length : {PacketLength[k] : k \in Prepared}, marked : BOOLEAN]

(* What a get of an empty buffer leaves: a length of 0. *)
NoPacket == [length |-> 0, marked |-> FALSE]

NoRequest == "None"

TX == INSTANCE DropOldestQueue
        WITH Task <- {}, Message <- Packet, NoMessage <- NoPacket,
             queue <- radioBufTX, answer <- <<>>

RXLow == INSTANCE DropOldestQueue
           WITH Task <- {}, Message <- Request, NoMessage <- NoRequest,
                queue <- radioBufRXLow, answer <- <<>>

(***************************************************************************)
(* How many bytes `for (index = 0; index++; index < n)' copies: the        *)
(* condition is the old value of index, 0, so the body never runs.         *)
(***************************************************************************)
BytesCopied(n) == 0

EmptyBatch == [length |-> 0, marked |-> FALSE, intact |-> TRUE]

(* The batch with packet p placed behind its first n bytes. *)
Extend(b, p) == [length |-> b.length + p.length,
                 marked |-> b.marked \/ p.marked,
                 intact |-> b.intact /\ BytesCopied(p.length) = p.length]

(* mandatoryOutput: in its delay, about to look at radioBufTX, to allocate, to
   prepare a ping, to get a packet and to send it. *)
ManPlace == {"delay", "check", "alloc", "prep", "get", "send"}

Init == /\ radioBufTX = <<>> /\ radioBufRXLow = <<>>
        /\ lowMessage = NoRequest /\ lowPc = "get"
        /\ individ = NoPacket /\ batch = EmptyBatch /\ outPc = "check"
        /\ ping = NoPacket /\ message = FALSE /\ manPc = "delay"
        /\ leaked = 0 /\ faulted = FALSE
        /\ mark = "unused" /\ quietRounds = 0

-----------------------------------------------------------------------------

(* The blocks that pvPortMalloc can still hand out. *)
Free == HeapBlocks - Len(radioBufTX) - Len(radioBufRXLow) - leaked

NullUsed == Free <= 0 /\ faulted' = TRUE /\ UNCHANGED leaked

(* cbufPut into one of the buffers: a block for the new entry, and when the
   buffer is full, no pointer to the block of the oldest one. *)
BlockTaken(buffer) ==
    /\ Free > 0
    /\ leaked' = IF Len(buffer) = Capacity THEN leaked + 1 ELSE leaked
    /\ UNCHANGED faulted

(***************************************************************************)
(* A radioPrep... function: build the packet and put it into radioBufTX.   *)
(***************************************************************************)
Prep(k) ==
    /\ \/ NullUsed /\ UNCHANGED <<radioBufTX, mark>>
       \/ /\ BlockTaken(radioBufTX)
          /\ \E marked \in {FALSE, mark = "unused"} :
                /\ radioBufTX' = TX!Enqueue(radioBufTX, [length |-> PacketLength[k],
                                                         marked |-> marked])
                /\ mark' = IF marked THEN "waiting"
                           ELSE IF Len(radioBufTX) = Capacity /\ Head(radioBufTX).marked
                                THEN "dropped" ELSE mark
    /\ UNCHANGED quietRounds

(* inputLoop puts a request into the low priority buffer. *)
PutRequest ==
    /\ \/ NullUsed /\ UNCHANGED radioBufRXLow
       \/ /\ BlockTaken(radioBufRXLow)
          /\ \E r \in Request : radioBufRXLow' = RXLow!Enqueue(radioBufRXLow, r)
    /\ UNCHANGED <<radioBufTX, lowMessage, lowPc, out, man, history>>

(* dealWithLowMessages, whose switch runs when the buffer was empty. *)
GetRequest ==
    /\ lowPc = "get" /\ radioBufRXLow # <<>>
    /\ lowMessage' = RXLow!Oldest(radioBufRXLow)
    /\ radioBufRXLow' = RXLow!Dequeue(radioBufRXLow)
    /\ UNCHANGED <<radioBufTX, lowPc, out, man, heap, history>>

GetNoRequest ==
    /\ lowPc = "get" /\ radioBufRXLow = <<>>
    /\ lowPc' = "switch"
    /\ UNCHANGED <<radioBufTX, radioBufRXLow, lowMessage, out, man, heap, history>>

Answer ==
    /\ lowPc = "switch"
    /\ \/ lowMessage \in Request /\ Prep(lowMessage)
       \/ lowMessage \notin Request /\ UNCHANGED <<radioBufTX, heap, history>>
    /\ lowPc' = "get"
    /\ UNCHANGED <<radioBufRXLow, lowMessage, out, man>>

dealWithLowMessages == GetRequest \/ GetNoRequest \/ Answer

(* dealWithCritMessages answers a ping or a config request. *)
CritAnswer == /\ \E k \in {"ping", "config"} : Prep(k)
              /\ UNCHANGED <<low, out, man>>

-----------------------------------------------------------------------------
(* outputLoop.  The get may find nothing: the check is stale by then.      *)

OutCheck ==
    /\ outPc = "check" /\ radioBufTX # <<>>
    /\ outPc' = "get"
    /\ UNCHANGED <<radioBufTX, low, individ, batch, man, heap, history>>

OutGet ==
    /\ outPc = "get"
    /\ individ' = TX!Oldest(radioBufTX)
    /\ radioBufTX' = TX!Dequeue(radioBufTX)
    /\ outPc' = "fill"
    /\ UNCHANGED <<low, batch, man, heap, history>>

(* Mutant: a frame may be MaxFrame bytes long. *)
MutFitsExactly == batch.length + individ.length <= MaxFrame

Fits == batch.length + individ.length < MaxFrame

(* Mutant: the length of the frame is that of its last packet. *)
MutOutAppendLength ==
    /\ outPc = "fill" /\ Fits
    /\ batch' = [Extend(batch, individ) EXCEPT !.length = individ.length]
    /\ individ' = NoPacket
    /\ outPc' = "check"
    /\ UNCHANGED <<radioBufTX, low, man, heap, history>>

OutAppend ==
    /\ outPc = "fill" /\ Fits
    /\ batch' = Extend(batch, individ)
    /\ individ' = NoPacket
    /\ outPc' = "check"
    /\ UNCHANGED <<radioBufTX, low, man, heap, history>>

(* Mutant: the packet that did not fit is forgotten. *)
MutOutSendForgets ==
    /\ outPc = "fill" /\ ~Fits
    /\ mark' = IF ~batch.marked THEN mark
               ELSE IF batch.intact THEN "sent" ELSE "garbled"
    /\ batch' = EmptyBatch
    /\ individ' = NoPacket
    /\ quietRounds' = 0
    /\ outPc' = "check"
    /\ UNCHANGED <<radioBufTX, low, man, heap>>

(* radioTxRequest, then the packet that did not fit starts a new batch. *)
OutSend ==
    /\ outPc = "fill" /\ ~Fits
    /\ mark' = IF ~batch.marked THEN mark
               ELSE IF batch.intact THEN "sent" ELSE "garbled"
    /\ batch' = Extend(EmptyBatch, individ)
    /\ individ' = NoPacket
    /\ quietRounds' = 0
    /\ outPc' = "check"
    /\ UNCHANGED <<radioBufTX, low, man, heap>>

outputLoop == OutCheck \/ OutGet \/ OutAppend \/ OutSend

-----------------------------------------------------------------------------
(* mandatoryOutput.  Between its put and its get, outputLoop may take the  *)
(* ping: then it sends a frame of no bytes.                                *)

ManWake ==
    /\ manPc = "delay"
    /\ manPc' = "check"
    /\ UNCHANGED <<radioBufTX, low, out, ping, message, heap, history>>

(* Mutant: a ping only when there is something to send already. *)
MutManCheckInverted ==
    /\ manPc = "check"
    /\ manPc' = IF radioBufTX # <<>> THEN "alloc" ELSE "delay"
    /\ UNCHANGED <<radioBufTX, low, out, ping, message, heap, history>>

ManCheck ==
    /\ manPc = "check"
    /\ manPc' = IF radioBufTX = <<>> THEN "alloc" ELSE "delay"
    /\ UNCHANGED <<radioBufTX, low, out, ping, message, heap, history>>

(* The block for the packet, which is not freed when the packet is sent. *)
ManAlloc ==
    /\ manPc = "alloc"
    /\ message' = (Free > 0)
    /\ leaked' = IF message' THEN leaked + 1 ELSE leaked
    /\ manPc' = "prep"
    /\ UNCHANGED <<radioBufTX, low, out, ping, faulted, history>>

ManPrep ==
    /\ manPc = "prep"
    /\ Prep("ping")
    /\ manPc' = "get"
    /\ UNCHANGED <<low, out, ping, message>>

(* cbufGet asserts that it has somewhere to put the packet. *)
ManGet ==
    /\ manPc = "get" /\ message
    /\ ping' = TX!Oldest(radioBufTX)
    /\ radioBufTX' = TX!Dequeue(radioBufTX)
    /\ manPc' = "send"
    /\ UNCHANGED <<low, out, message, heap, history>>

ManGetAsserts ==
    /\ manPc = "get" /\ ~message
    /\ faulted' = TRUE
    /\ UNCHANGED <<radioBufTX, low, out, man, leaked, history>>

ManSend ==
    /\ manPc = "send"
    /\ mark' = IF ping.marked THEN "sent" ELSE mark
    /\ quietRounds' = IF ping = NoPacket THEN quietRounds + 1 ELSE 0
    /\ ping' = NoPacket
    /\ manPc' = "delay"
    /\ UNCHANGED <<radioBufTX, low, out, message, heap>>

mandatoryOutput == \/ ManWake \/ ManCheck \/ ManAlloc \/ ManPrep
                   \/ ManGet \/ ManGetAsserts \/ ManSend

Next == ~faulted /\ \/ PutRequest \/ dealWithLowMessages \/ CritAnswer
                    \/ outputLoop \/ mandatoryOutput

Spec == Init /\ [][Next]_vars

(* Every task runs again and again; requests need never come. *)
FairSpec == Spec /\ WF_vars(~faulted /\ dealWithLowMessages)
                 /\ WF_vars(~faulted /\ outputLoop)
                 /\ WF_vars(~faulted /\ mandatoryOutput)

-----------------------------------------------------------------------------

TypeOK ==
    /\ radioBufTX \in Seq(Packet) /\ Len(radioBufTX) <= Capacity
    /\ radioBufRXLow \in Seq(Request) /\ Len(radioBufRXLow) <= Capacity
    /\ lowMessage \in Request \cup {NoRequest} /\ lowPc \in {"get", "switch"}
    /\ individ \in Packet \cup {NoPacket} /\ ping \in Packet \cup {NoPacket}
    /\ batch.length \in 0 .. MaxFrame - 1
    /\ batch.marked \in BOOLEAN /\ batch.intact \in BOOLEAN
    /\ outPc \in {"check", "get", "fill"}
    /\ message \in BOOLEAN /\ manPc \in ManPlace
    /\ leaked \in Nat /\ faulted \in BOOLEAN /\ quietRounds \in Nat
    /\ mark \in {"unused", "waiting", "dropped", "sent", "garbled"}

(***************************************************************************)
(* A packet is in one place at a time.  From its put until it is dropped   *)
(* or sent, the marked packet is in radioBufTX, or held by outputLoop, or  *)
(* counted in the batch, or held by mandatoryOutput, and never in two of   *)
(* them; after that it is in none.  Although two tasks get from radioBufTX *)
(* after stale checks, no packet is sent twice and none vanishes between   *)
(* the buffer and the frame.                                               *)
(***************************************************************************)
MarkedPlaces == {<<"TX", i>> : i \in {j \in DOMAIN radioBufTX : radioBufTX[j].marked}}
                  \cup (IF individ.marked THEN {<<"individ", 0>>} ELSE {})
                  \cup (IF batch.marked THEN {<<"batch", 0>>} ELSE {})
                  \cup (IF ping.marked THEN {<<"ping", 0>>} ELSE {})

EachPacketOnce == Cardinality(MarkedPlaces) = (IF mark = "waiting" THEN 1 ELSE 0)

(***************************************************************************)
(* outputLoop may take mandatoryOutput's ping each time, so that a frame   *)
(* without a packet goes out.  But then the ping is in the batch: after    *)
(* any number of such frames in a row the batch holds as many packets, and *)
(* is sent at the latest when they no longer fit.                          *)
(***************************************************************************)
ShortestPacket == PacketLength["int"]

QuietRoundsFillBatch == quietRounds * ShortestPacket <= batch.length + individ.length

(***************************************************************************)
(* Neither task that sends can starve the other into silence: whatever is  *)
(* requested or not, frames that hold at least one packet go out again and *)
(* again, until the heap runs out.  (With no requests it does, since each  *)
(* ping of mandatoryOutput leaks a block.)                                 *)
(***************************************************************************)
SendsSomething == OutSend \/ (ManSend /\ ping # NoPacket)

RadioNeverSilent == []<>faulted \/ []<><<SendsSomething>>_vars

(***************************************************************************)
(* radio.h, 20: radioTxRequest is given "the buffer of data to send".  A   *)
(* packet that is counted in a frame has its bytes in the frame.           *)
(***************************************************************************)
PayloadReachesRadio == mark # "garbled"
=============================================================================
