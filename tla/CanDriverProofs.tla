-------------------------- MODULE CanDriverProofs --------------------------
(***************************************************************************)
(* Theorems about the CAN driver, for a receive FIFO of any depth.         *)
(***************************************************************************)
EXTENDS CanDriver, TLAPS

(***************************************************************************)
(* SemaphoreMeansDone is inductive together with the types: at each step   *)
(* of CanTask that needs the semaphore, its last conjunct says that        *)
(* nothing is in progress, and at each interrupt the first two say that    *)
(* nothing else is.                                                        *)
(***************************************************************************)
CanInv == CanTypeOK /\ SemaphoreMeansDone

LEMMA CanInvInit == CanInit => CanInv
  <1> SUFFICES ASSUME CanInit PROVE CanInv
    OBVIOUS
  <1>1. Len(rxFifo) <= FifoDepth
    BY FifoAssumption DEF CanInit
  <1>2. CanTypeOK
    BY <1>1 DEF CanInit, CanTypeOK, Frame
  <1>3. SemaphoreMeansDone
    BY DEF CanInit, SemaphoreMeansDone
  <1> QED
    BY <1>2, <1>3 DEF CanInv

(***************************************************************************)
(* The FIFO keeps its bound when a frame arrives and when one is read.     *)
(***************************************************************************)
LEMMA FifoArrive ==
    ASSUME CanTypeOK, NEW f \in Frame, FrameArrives(f)
    PROVE  CanTypeOK'
  <1>1. rxFifo' \in Seq(Frame) /\ Len(rxFifo') <= FifoDepth
    BY FifoAssumption DEF CanTypeOK, FrameArrives
  <1>2. canMark' \in {"unused", "waiting", "dropped", "stored"}
    BY DEF CanTypeOK, FrameArrives
  <1> QED
    BY <1>1, <1>2 DEF CanTypeOK, FrameArrives

LEMMA FifoRead ==
    ASSUME CanTypeOK, FrameAvailable
    PROVE  CanTypeOK'
  <1>1. rxFifo' \in Seq(Frame) /\ Len(rxFifo') <= FifoDepth
    BY FifoAssumption DEF CanTypeOK, FrameAvailable
  <1>2. rxFrame' \in Frame
    BY DEF CanTypeOK, FrameAvailable
  <1> QED
    BY <1>1, <1>2 DEF CanTypeOK, FrameAvailable

(***************************************************************************)
(* CanTask: a step that needs the semaphore finds nothing in progress.     *)
(***************************************************************************)
LEMMA CanTaskStep ==
    ASSUME CanInv, CanTask
    PROVE  CanInv'
  <1> USE DEF CanInv, CanGoes
  <1>1. CASE ReceiveStart
    <2>1. CanTypeOK'
      BY <1>1 DEF CanTypeOK, ReceiveStart
    <2>2. SemaphoreMeansDone'
      BY <1>1 DEF SemaphoreMeansDone, ReceiveStart, CanTypeOK
    <2> QED
      BY <2>1, <2>2
  <1>2. CASE ReceiveEnd
    BY <1>2 DEF CanTypeOK, SemaphoreMeansDone, ReceiveEnd
  <1>3. CASE SendStart
    <2>1. CanTypeOK'
      BY <1>3 DEF CanTypeOK, SendStart
    <2>2. SemaphoreMeansDone'
      BY <1>3 DEF SemaphoreMeansDone, SendStart, CanTypeOK
    <2> QED
      BY <2>1, <2>2
  <1>4. CASE SendEnd
    BY <1>4 DEF CanTypeOK, SemaphoreMeansDone, SendEnd
  <1>5. CASE StoreReading
    <2>1. readings' \in [{"pt", "tc"} -> Frame \cup {NoFrame}]
      BY <1>5 DEF CanTypeOK, StoreReading
    <2>2. CanTypeOK'
      BY <1>5, <2>1 DEF CanTypeOK, StoreReading
    <2>3. SemaphoreMeansDone'
      BY <1>5 DEF SemaphoreMeansDone, StoreReading
    <2> QED
      BY <2>2, <2>3
  <1> QED
    BY <1>1, <1>2, <1>3, <1>4, <1>5 DEF CanTask, canReceive, canSend

LEMMA CanInvStep == CanInv /\ [CanNext]_canVars => CanInv'
  <1> SUFFICES ASSUME CanInv, [CanNext]_canVars PROVE CanInv'
    OBVIOUS
  <1>1. ASSUME NEW f \in Frame, FrameArrives(f) PROVE CanInv'
    <2>1. CanTypeOK'
      BY <1>1, FifoArrive DEF CanInv
    <2>2. SemaphoreMeansDone'
      BY <1>1 DEF CanInv, SemaphoreMeansDone, FrameArrives
    <2> QED
      BY <2>1, <2>2 DEF CanInv
  <1>2. CASE FrameAvailable
    <2>1. CanTypeOK'
      BY <1>2, FifoRead DEF CanInv
    <2>2. SemaphoreMeansDone'
      BY <1>2 DEF CanInv, SemaphoreMeansDone, FrameAvailable
    <2> QED
      BY <2>1, <2>2 DEF CanInv
  <1>3. CASE TransmitComplete
    <2>1. CanTypeOK'
      BY <1>3 DEF CanInv, CanTypeOK, TransmitComplete
    <2>2. SemaphoreMeansDone'
      BY <1>3 DEF CanInv, SemaphoreMeansDone, TransmitComplete
    <2> QED
      BY <2>1, <2>2 DEF CanInv
  <1>4. CASE CanTask
    BY <1>4, CanTaskStep
  <1>5. CASE UNCHANGED canVars
    BY <1>5 DEF CanInv, CanTypeOK, SemaphoreMeansDone, canVars
  <1> QED
    BY <1>1, <1>2, <1>3, <1>4, <1>5 DEF CanNext

LEMMA CanInvariant == CanSpec => []CanInv
  <1> QED
    BY CanInvInit, CanInvStep, PTL DEF CanSpec

-----------------------------------------------------------------------------

(***************************************************************************)
(* The receive FIFO never holds more than its depth, and the variables of  *)
(* the driver and of CanTask have their types.                             *)
(***************************************************************************)
THEOREM CanTypeCorrect == CanSpec => []CanTypeOK
  <1>1. CanInv => CanTypeOK
    BY DEF CanInv
  <1> QED
    BY <1>1, CanInvariant, PTL

(***************************************************************************)
(* The one semaphore never stands for a reception and a transmission at    *)
(* once: each wait of canReceive and canSend ends by its own interrupt.    *)
(***************************************************************************)
THEOREM SemaphoreUnambiguous == CanSpec => []SemaphoreMeansDone
  <1>1. CanInv => SemaphoreMeansDone
    BY DEF CanInv
  <1> QED
    BY <1>1, CanInvariant, PTL

(***************************************************************************)
(* The interrupt handler writes the received frame only while CanTask      *)
(* waits in canReceive, never between its return and the end of the round. *)
(***************************************************************************)
THEOREM FrameHeld == CanSpec => FrameHeldWhileUsed
  <1>1. CanInv /\ [CanNext]_canVars
           => [rxFrame' # rxFrame => canPc = "received"]_canVars
    <2> SUFFICES ASSUME CanInv, CanNext, rxFrame' # rxFrame
                 PROVE  canPc = "received"
      OBVIOUS
    <2>1. FrameAvailable
      BY DEF CanNext, FrameArrives, TransmitComplete, CanTask, canReceive, canSend,
             ReceiveStart, ReceiveEnd, SendStart, SendEnd, StoreReading
    <2> QED
      BY <2>1 DEF CanInv, SemaphoreMeansDone, FrameAvailable
  <1> QED
    BY <1>1, CanInvariant, PTL DEF CanSpec, FrameHeldWhileUsed
=============================================================================
