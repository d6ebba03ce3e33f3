---------------------------- MODULE UartReceive ----------------------------
(***************************************************************************)
(* How the bytes of the inertial sensor reach ReadImuTask on the board:    *)
(* the interrupt handler of drivers/fsl_uart.c puts them into the buffer   *)
(* of a reception in progress or else into a ring, UART_RTOS_Receive of    *)
(* drivers/freertos/fsl_uart_freertos.c starts a reception and waits for   *)
(* an event, and ReadImuTask reports what it got on the debug UART before  *)
(* it receives again.                                                      *)
(*                                                                         *)
(* The handler cannot set an event itself.  It asks the timer task to,     *)
(* through a queue that refuses a request when it is full; the reply of    *)
(* the debug UART takes the same way, and so do the events of the UART of  *)
(* the radio.  ReadImuTask and the timer task have the same priority, and  *)
(* a tick may switch between them at any point.                            *)
(*                                                                         *)
(* Of a byte the model keeps whether it was sent before or after some      *)
(* point of the stream, any one.                                           *)
(***************************************************************************)
EXTENDS TimerQueue, SequencesExt

CONSTANTS
    DatagramSize, \* the bytes that ReadImuTask asks for: 40
    RingCapacity  \* the bytes that the ring holds: 199

ASSUME UartAssumption == DatagramSize \in Nat \ {0} /\ RingCapacity \in Nat \ {0}

VARIABLES
    rxRing,       \* rxRingBuffer, oldest byte first
    rxDataSize,   \* the bytes that the reception in progress still needs
    rxState,      \* "busy", or "idle" (or an error, which a driver with a
                  \* ring treats alike)
    datagram,     \* what the reception has put in the buffer, until it is looked at
    rxEvent,      \* the bits of rxEvent that are set
    pended,       \* the queue of the timer task
    imuPc,        \* ReadImuTask: see ReaderPlace
    status,       \* the bits that have woken it, until it has looked at them
    debugTx,      \* the debug UART is sending
    refused,      \* history: the completion of a debug output was refused
    unreported,   \* history: an overrun lost a byte since the last report of one
    crowdedOut,   \* history: the queue refused one of these, crowded by others
    late          \* history: the stream has passed its point

driver == <<rxRing, rxDataSize, rxState, datagram>>
uartHistory == <<refused, unreported, crowdedOut, late>>
uartVars == <<driver, rxEvent, pended, imuPc, status, debugTx, uartHistory>>

-----------------------------------------------------------------------------

Byte == {"early", "late"}

(* What the timer task is asked to set: of the UART of the sensor, of the
   debug UART, and of the others. *)
ReceiveEvent == {"complete", "ring", "hardware"}
Event == ReceiveEvent \cup {"sent", Other}

(* About to receive, about to wait, waiting, woken, sending its report. *)
ReaderPlace == {"receive", "wait", "blocked", "woken", "sending"}

UartInit ==
    /\ rxRing = <<>> /\ rxDataSize = 0 /\ rxState = "idle" /\ datagram = <<>>
    /\ rxEvent = {} /\ pended = <<>>
    /\ imuPc = "receive" /\ status = {} /\ debugTx = FALSE
    /\ refused = FALSE /\ unreported = FALSE /\ crowdedOut = FALSE /\ late = FALSE

Pend(event) == Requested(pended, event)

(* The queue is full, and all places but three belong to other UARTs. *)
Crowded == QueueFull(pended) /\ Cardinality(PlacesOfOthers(pended)) >= QueueLength - 3

(* An overrun has lost a byte, and UART_RTOS_Callback is to tell. *)
Overran(event) ==
    /\ pended' = Pend(event)
    /\ unreported' = TRUE
    /\ crowdedOut' = (crowdedOut \/ Crowded)

-----------------------------------------------------------------------------
(* UART_TransferHandleIRQ, one byte or one error at a time.                *)

Sent(b) == (b = "early" => ~late) /\ late' = (b = "late")

ByteToReader(b) ==
    /\ rxDataSize > 0
    /\ datagram' = Append(datagram, b)
    /\ rxDataSize' = rxDataSize - 1
    /\ IF rxDataSize = 1 THEN rxState' = "idle" /\ pended' = Pend("complete")
                         ELSE UNCHANGED <<rxState, pended>>
    /\ UNCHANGED <<rxRing, unreported, crowdedOut>>

(* Mutant: the ring is full one byte too late. *)
MutByteToRingOneMore(b) ==
    /\ rxDataSize = 0
    /\ IF Len(rxRing) <= RingCapacity
       THEN /\ rxRing' = Append(rxRing, b)
            /\ UNCHANGED <<pended, unreported, crowdedOut>>
       ELSE rxRing' = Append(Tail(rxRing), b) /\ Overran("ring")
    /\ UNCHANGED <<rxDataSize, rxState, datagram>>

ByteToRing(b) ==
    /\ rxDataSize = 0
    /\ IF Len(rxRing) < RingCapacity
       THEN /\ rxRing' = Append(rxRing, b)
            /\ UNCHANGED <<pended, unreported, crowdedOut>>
       ELSE rxRing' = Append(Tail(rxRing), b) /\ Overran("ring")
    /\ UNCHANGED <<rxDataSize, rxState, datagram>>

ByteArrives(b) ==
    /\ Sent(b)
    /\ ByteToReader(b) \/ ByteToRing(b)
    /\ UNCHANGED <<rxEvent, imuPc, status, debugTx, refused>>

(* The byte is lost, and the reception ends without an event. *)
FramingError ==
    /\ rxState' = "idle"
    /\ rxDataSize' = 0
    /\ UNCHANGED <<rxRing, datagram, rxEvent, pended, imuPc, status, debugTx,
                   uartHistory>>

(* Mutant: the overrun is cleared and not told. *)
MutHardwareOverrunSilent ==
    /\ unreported' = TRUE
    /\ UNCHANGED <<driver, rxEvent, pended, imuPc, status, debugTx, refused,
                   crowdedOut, late>>

(* The byte is lost, and the reception goes on. *)
HardwareOverrun ==
    /\ Overran("hardware")
    /\ UNCHANGED <<driver, rxEvent, imuPc, status, debugTx, refused, late>>

DebugSent ==
    /\ debugTx
    /\ debugTx' = FALSE
    /\ pended' = Pend("sent")
    /\ refused' = (refused \/ QueueFull(pended))
    /\ UNCHANGED <<driver, rxEvent, imuPc, status, unreported, crowdedOut, late>>

(* An event of the UART of the radio. *)
OtherUart ==
    /\ ~QueueFull(pended) /\ pended' = Pend(Other)
    /\ UNCHANGED <<driver, rxEvent, imuPc, status, debugTx, uartHistory>>

-----------------------------------------------------------------------------
(* The timer task sets an event and may so wake ReadImuTask, which then    *)
(* gets the bits that are set and clears them.                             *)

(* Mutant: ReadImuTask does not wait for the event of a ring overrun. *)
MutSetEventRingUnwaited ==
    /\ pended # <<>>
    /\ pended' = Tail(pended)
    /\ \/ /\ Head(pended) = "sent"
          /\ imuPc' = IF imuPc = "sending" THEN "receive" ELSE imuPc
          /\ UNCHANGED <<rxEvent, status>>
       \/ /\ Head(pended) \in {"complete", "hardware"} /\ imuPc = "blocked"
          /\ status' = rxEvent \cup {Head(pended)}
          /\ rxEvent' = {}
          /\ imuPc' = "woken"
       \/ Head(pended) = Other /\ UNCHANGED <<rxEvent, status, imuPc>>
       \/ /\ \/ Head(pended) \in ReceiveEvent /\ imuPc # "blocked"
             \/ Head(pended) = "ring"
          /\ rxEvent' = rxEvent \cup {Head(pended)}
          /\ UNCHANGED <<imuPc, status>>
    /\ UNCHANGED <<driver, debugTx, uartHistory>>

SetEvent ==
    /\ pended # <<>>
    /\ pended' = Tail(pended)
    /\ \/ /\ Head(pended) = "sent"
          /\ imuPc' = IF imuPc = "sending" THEN "receive" ELSE imuPc
          /\ UNCHANGED <<rxEvent, status>>
       \/ Head(pended) = Other /\ UNCHANGED <<rxEvent, status, imuPc>>
       \/ /\ Head(pended) \in ReceiveEvent /\ imuPc = "blocked"
          /\ status' = rxEvent \cup {Head(pended)}
          /\ rxEvent' = {}
          /\ imuPc' = "woken"
       \/ /\ Head(pended) \in ReceiveEvent /\ imuPc # "blocked"
          /\ rxEvent' = rxEvent \cup {Head(pended)}
          /\ UNCHANGED <<imuPc, status>>
    /\ UNCHANGED <<driver, debugTx, uartHistory>>

-----------------------------------------------------------------------------
(* ReadImuTask.                                                            *)

(* The mutant of StartReceive: what the ring holds is left there. *)
MutStartReceiveSkipsRing ==
    /\ imuPc = "receive"
    /\ imuPc' = "wait"
    /\ IF rxState = "busy" THEN UNCHANGED <<driver, pended>>
       ELSE /\ datagram' = <<>>
            /\ rxDataSize' = DatagramSize
            /\ rxState' = "busy"
            /\ UNCHANGED <<rxRing, pended>>
    /\ UNCHANGED <<rxEvent, status, debugTx, uartHistory>>

(* UART_TransferReceiveNonBlocking: it takes what the ring has, with the
   interrupt off, and asks the handler for the rest; it is refused while an
   earlier reception goes on. *)
StartReceive ==
    /\ imuPc = "receive"
    /\ imuPc' = "wait"
    /\ IF rxState = "busy" THEN UNCHANGED <<driver, pended>>
       ELSE LET n == IF Len(rxRing) < DatagramSize THEN Len(rxRing) ELSE DatagramSize
            IN  /\ datagram' = SubSeq(rxRing, 1, n)
                /\ rxRing' = SubSeq(rxRing, n + 1, Len(rxRing))
                /\ IF n < DatagramSize
                   THEN /\ rxDataSize' = DatagramSize - n
                        /\ rxState' = "busy"
                        /\ UNCHANGED pended
                   ELSE pended' = Pend("complete") /\ UNCHANGED <<rxDataSize, rxState>>
    /\ UNCHANGED <<rxEvent, status, debugTx, uartHistory>>

WaitForEvent ==
    /\ imuPc = "wait"
    /\ IF rxEvent = {}
       THEN imuPc' = "blocked" /\ UNCHANGED <<rxEvent, status>>
       ELSE imuPc' = "woken" /\ status' = rxEvent /\ rxEvent' = {}
    /\ UNCHANGED <<driver, pended, debugTx, uartHistory>>

OverrunEvent == {"ring", "hardware"}

Overrun == status \cap OverrunEvent # {}

(* uartSend on the debug UART, which no other task uses. *)
Report == imuPc' = "sending" /\ debugTx' = TRUE

(* An overrun: UART_TransferAbortReceive, and the event COMPLETE is cleared. *)
GiveUp ==
    /\ imuPc = "woken" /\ Overrun
    /\ rxDataSize' = 0 /\ rxState' = "idle" /\ datagram' = <<>>
    /\ rxEvent' = rxEvent \ {"complete"}
    /\ unreported' = FALSE /\ crowdedOut' = FALSE /\ status' = {}
    /\ Report
    /\ UNCHANGED <<rxRing, pended, refused, late>>

(* Success: the datagram is interpreted and reported if it starts well. *)
Accept ==
    /\ imuPc = "woken" /\ ~Overrun
    /\ status' = {}
    /\ datagram' = IF rxState = "busy" THEN datagram ELSE <<>>
    /\ \/ Report
       \/ imuPc' = "receive" /\ UNCHANGED debugTx
    /\ UNCHANGED <<rxRing, rxDataSize, rxState, rxEvent, pended, uartHistory>>

ReadImuTask == StartReceive \/ WaitForEvent \/ GiveUp \/ Accept

SomeByteArrives == \E b \in Byte : ByteArrives(b)

UartNext == \/ SomeByteArrives \/ FramingError \/ HardwareOverrun
            \/ DebugSent \/ OtherUart \/ SetEvent \/ ReadImuTask

(* The sensor never stops; the tasks run and the debug UART sends.  The other
   UARTs may be busy or silent. *)
UartSpec == UartInit /\ [][UartNext]_uartVars
            /\ WF_uartVars(SomeByteArrives) /\ WF_uartVars(DebugSent)
            /\ WF_uartVars(SetEvent) /\ WF_uartVars(ReadImuTask)

-----------------------------------------------------------------------------

UartTypeOK ==
    /\ rxRing \in Seq(Byte) /\ Len(rxRing) <= RingCapacity
    /\ rxDataSize \in 0 .. DatagramSize /\ rxState \in {"idle", "busy"}
    /\ datagram \in Seq(Byte) /\ Len(datagram) <= DatagramSize
    /\ rxEvent \subseteq ReceiveEvent /\ status \subseteq ReceiveEvent
    /\ pended \in Seq(Event) /\ Len(pended) <= QueueLength
    /\ imuPc \in ReaderPlace
    /\ debugTx \in BOOLEAN /\ refused \in BOOLEAN /\ unreported \in BOOLEAN
    /\ crowdedOut \in BOOLEAN /\ late \in BOOLEAN

(***************************************************************************)
(* The bytes keep their order on both ways from the line to the reader,    *)
(* over the ring and past it: no late byte comes before an early one.      *)
(* That holds since a reception waits for bytes only while the ring is     *)
(* empty.                                                                  *)
(***************************************************************************)
BytesInOrder ==
    LET stream == datagram \o rxRing
    IN  /\ rxDataSize > 0 => rxRing = <<>>
        /\ \A i, j \in DOMAIN stream : stream[i] = "early" /\ stream[j] = "late" => i < j

(***************************************************************************)
(* When the ring or the FIFO of the UART has lost a byte, this or a later  *)
(* reception says so, although the queue may refuse the request to set the *)
(* event.  Full of requests of this UART and the debug UART it tells of    *)
(* another overrun, since only three of them can be anything else.  So an  *)
(* overrun is silent only when the queue was crowded by other UARTs.  (A   *)
(* byte lost to a framing error is never told.)                            *)
(***************************************************************************)
OverrunReported ==
    unreported => \/ OverrunEvent \cap (rxEvent \cup ToSet(pended)) # {}
                  \/ imuPc = "woken" /\ Overrun
                  \/ crowdedOut

(***************************************************************************)
(* ReadImuTask waits for no timeout, after framing errors that end its     *)
(* reception without an event and after events that the queue refused.     *)
(* Still it returns from uartReceive again and again while bytes arrive:   *)
(* when nothing else does, the ring that overflows wakes it.  Two things   *)
(* can stop it: the completion of a debug output is refused, or the other  *)
(* UARTs crowd the queue again and again.                                  *)
(***************************************************************************)
ReaderReturns == []<>(imuPc = "receive" \/ refused \/ Crowded)

(***************************************************************************)
(* fsl_uart_freertos.c, 317: the event is cleared to "Prevent false        *)
(* indication of successful transfer in next call of UART_RTOS_Receive".   *)
(* A reception that succeeds has received all it was asked for.            *)
(***************************************************************************)
SuccessIsComplete ==
    imuPc = "woken" /\ ~Overrun => Len(datagram) = DatagramSize
=============================================================================
