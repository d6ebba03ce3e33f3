----------------------------- MODULE CanDriver -----------------------------
(***************************************************************************)
(* CanTask of source/Whistler-Blackcomb.c and the CAN driver of the board  *)
(* under it: envs/board/src/hal_can.c over drivers/fsl_flexcan.c.  CanTask *)
(* receives a frame, sends one in answer and stores the reading that it    *)
(* received.  One binary semaphore, rxSem, is taken before a reception or  *)
(* a transmission starts and again to wait for its interrupt.              *)
(*                                                                         *)
(* To follow one reading through the driver, one pressure frame, any one,  *)
(* is marked.  The bus acknowledges what CanTask sends; errors on the bus  *)
(* change nothing here (flexcan_callback ignores them) and are left out.   *)
(***************************************************************************)
EXTENDS Integers, Sequences

CONSTANT FifoDepth \* frames that the receive FIFO of the controller holds: 6

ASSUME FifoAssumption == FifoDepth \in Nat \ {0}

VARIABLES
    rxSem,       \* the semaphore: 1 when it can be taken
    rxFifo,      \* the frames in the receive FIFO, oldest first
    rxFifoState, \* "idle" or "receiving"
    mbState,     \* of the transmit message buffer: "idle" or "sending"
    rxFrame,     \* the frame that CanTask looks at
    readings,    \* the frames that pt_data and tc_data were filled from last
    canPc,       \* CanTask: "receive", "received", "send", "sent" or "store"
    canMark      \* history: what became of the marked frame

canVars == <<rxSem, rxFifo, rxFifoState, mbState, rxFrame, readings, canPc, canMark>>

-----------------------------------------------------------------------------

(* The marked frame carries a pressure reading, like the frames "pt". *)
Frame == {"pt", "tc", "other", "marked"}

NoFrame == "none"

Sensor(f) == IF f = "marked" THEN "pt" ELSE f

(* canInit: both semaphores are given once; txSem is not used again. *)
CanInit ==
    /\ rxSem = 1
    /\ rxFifo = <<>> /\ rxFifoState = "idle" /\ mbState = "idle"
    /\ rxFrame = NoFrame /\ readings = [s \in {"pt", "tc"} |-> NoFrame]
    /\ canPc = "receive"
    /\ canMark = "unused"

CanGoes(from, to) == canPc = from /\ canPc' = to

-----------------------------------------------------------------------------
(* The controller and its interrupt handler.                               *)

(* Mutant: the FIFO is not known to be full. *)
MutFrameArrivesAlways(f) ==
    /\ f = "marked" => canMark = "unused"
    /\ rxFifo' = IF Len(rxFifo) <= FifoDepth THEN Append(rxFifo, f) ELSE rxFifo
    /\ canMark' = IF f # "marked" THEN canMark
                  ELSE IF Len(rxFifo) <= FifoDepth THEN "waiting" ELSE "dropped"
    /\ UNCHANGED <<rxSem, rxFifoState, mbState, rxFrame, readings, canPc>>

(* A frame arrives; the FIFO drops it when it is full. *)
FrameArrives(f) ==
    /\ f = "marked" => canMark = "unused"
    /\ rxFifo' = IF Len(rxFifo) < FifoDepth THEN Append(rxFifo, f) ELSE rxFifo
    /\ canMark' = IF f # "marked" THEN canMark
                  ELSE IF Len(rxFifo) < FifoDepth THEN "waiting" ELSE "dropped"
    /\ UNCHANGED <<rxSem, rxFifoState, mbState, rxFrame, readings, canPc>>

(* Mutant: the reception is not ended, so that the next frame is read, too. *)
MutFrameAvailableStays ==
    /\ rxFifoState = "receiving" /\ rxFifo # <<>>
    /\ rxFrame' = Head(rxFifo)
    /\ rxFifo' = Tail(rxFifo)
    /\ rxSem' = 1
    /\ UNCHANGED <<rxFifoState, mbState, readings, canPc, canMark>>

(* RxFifoFrameAvl: one frame is read, and the interrupts are disabled. *)
FrameAvailable ==
    /\ rxFifoState = "receiving" /\ rxFifo # <<>>
    /\ rxFrame' = Head(rxFifo)
    /\ rxFifo' = Tail(rxFifo)
    /\ rxFifoState' = "idle"
    /\ rxSem' = 1
    /\ UNCHANGED <<mbState, readings, canPc, canMark>>

(* Mutant: a transmission that is over is not reported. *)
MutTransmitCompleteSilent ==
    /\ mbState = "sending"
    /\ mbState' = "idle"
    /\ UNCHANGED <<rxSem, rxFifo, rxFifoState, rxFrame, readings, canPc, canMark>>

TransmitComplete ==
    /\ mbState = "sending"
    /\ mbState' = "idle"
    /\ rxSem' = 1
    /\ UNCHANGED <<rxFifo, rxFifoState, rxFrame, readings, canPc, canMark>>

-----------------------------------------------------------------------------
(* CanTask.  A semaphore that is given back at once stays at 1.            *)

ReceiveStart ==
    /\ CanGoes("receive", "received") /\ rxSem = 1
    /\ rxSem' = 0
    /\ rxFifoState' = "receiving"
    /\ UNCHANGED <<rxFifo, mbState, rxFrame, readings, canMark>>

ReceiveEnd ==
    /\ CanGoes("received", "send") /\ rxSem = 1
    /\ UNCHANGED <<rxSem, rxFifo, rxFifoState, mbState, rxFrame, readings, canMark>>

canReceive == ReceiveStart \/ ReceiveEnd

(* FLEXCAN_TransferSendNonBlocking refuses while the buffer is in use. *)
SendStart ==
    /\ CanGoes("send", "sent") /\ rxSem = 1
    /\ rxSem' = 0
    /\ mbState' = "sending"
    /\ UNCHANGED <<rxFifo, rxFifoState, rxFrame, readings, canMark>>

(* Mutant: canSend does not wait. *)
MutSendEndAtOnce ==
    /\ CanGoes("sent", "store")
    /\ UNCHANGED <<rxSem, rxFifo, rxFifoState, mbState, rxFrame, readings, canMark>>

SendEnd ==
    /\ CanGoes("sent", "store") /\ rxSem = 1
    /\ UNCHANGED <<rxSem, rxFifo, rxFifoState, mbState, rxFrame, readings, canMark>>

canSend == SendStart \/ SendEnd

(* The switch of CanTask over the packet id. *)
StoreReading ==
    /\ CanGoes("store", "receive")
    /\ readings' = [s \in DOMAIN readings |->
                       IF s = Sensor(rxFrame) THEN rxFrame ELSE readings[s]]
    /\ canMark' = IF canMark = "waiting" /\ readings'["pt"] = "marked" THEN "stored"
                  ELSE canMark
    /\ UNCHANGED <<rxSem, rxFifo, rxFifoState, mbState, rxFrame>>

CanTask == canReceive \/ canSend \/ StoreReading

CanNext == (\E f \in Frame : FrameArrives(f)) \/ FrameAvailable \/ TransmitComplete
           \/ CanTask

(***************************************************************************)
(* CanTask runs, interrupts are served, and another node acknowledges what *)
(* is sent; frames need not arrive.                                        *)
(***************************************************************************)
CanSpec == CanInit /\ [][CanNext]_canVars
           /\ WF_canVars(CanTask) /\ WF_canVars(FrameAvailable)
           /\ WF_canVars(TransmitComplete)

-----------------------------------------------------------------------------

CanTypeOK ==
    /\ rxSem \in {0, 1}
    /\ rxFifo \in Seq(Frame) /\ Len(rxFifo) <= FifoDepth
    /\ rxFifoState \in {"idle", "receiving"} /\ mbState \in {"idle", "sending"}
    /\ rxFrame \in Frame \cup {NoFrame}
    /\ readings \in [{"pt", "tc"} -> Frame \cup {NoFrame}]
    /\ canPc \in {"receive", "received", "send", "sent", "store"}
    /\ canMark \in {"unused", "waiting", "dropped", "stored"}

(***************************************************************************)
(* One semaphore stands for two things, and both interrupts give it.  They *)
(* are never confused: the semaphore is at 0 exactly while one reception   *)
(* or one transmission is in progress, never both, and CanTask then waits  *)
(* for that one.  So canReceive returns with a frame, and canSend returns  *)
(* once its frame is on the bus (the comment before its last take).        *)
(***************************************************************************)
SemaphoreMeansDone ==
    /\ rxFifoState = "receiving" => canPc = "received" /\ mbState = "idle"
    /\ mbState = "sending" => canPc = "sent" /\ rxFifoState = "idle"
    /\ rxSem = 0 <=> rxFifoState = "receiving" \/ mbState = "sending"

(***************************************************************************)
(* The interrupt handler writes rxFrame, a global, while CanTask reads it  *)
(* after a canSend that may block for long.  The frame never changes       *)
(* between the return of canReceive and the end of the switch.             *)
(***************************************************************************)
FrameHeldWhileUsed == [][rxFrame' # rxFrame => canPc = "received"]_canVars

(***************************************************************************)
(* A reading that the FIFO took is stored in the end, however many frames  *)
(* arrive and however often CanTask waits for the bus in between.          *)
(***************************************************************************)
ReadingReachesTable == []<>(canMark # "waiting")
=============================================================================
