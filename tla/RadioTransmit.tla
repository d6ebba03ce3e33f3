--------------------------- MODULE RadioTransmit ---------------------------
(***************************************************************************)
(* How a frame reaches the radio of the board.  The tasks that send, which *)
(* are outputLoop and mandatoryOutput of radio_protocol.c, call            *)
(* radioTxRequest without a lock of their own; xbee_frame_write hands the  *)
(* UART four chunks, one uartSend each, and looks at no result; and        *)
(* UART_RTOS_Send sends a chunk under a mutex that it does not wait for:   *)
(* while another task holds it, the chunk is refused.                      *)
(*                                                                         *)
(* An interrupt moves the bytes.  It cannot set the event that the sender  *)
(* waits for, so it asks the timer task to, through a queue that the other *)
(* UARTs use too and that may be full: then the sender waits for ever.  A  *)
(* tick that wakes any task may switch between the senders, between any    *)
(* two calls.                                                              *)
(***************************************************************************)
EXTENDS TimerQueue

CONSTANTS
    Sender,      \* the tasks that send frames
    NoSender,
    ChunkBytes   \* the bytes of a chunk, one length for all

ASSUME SenderAssumption == NoSender \notin Sender /\ ChunkBytes \in Nat \ {0}

VARIABLES
    txSemaphore, \* the task that holds it, or NoSender
    txData,      \* the transfer: whose chunk it is, and which
    txDataSize,  \* the bytes of the transfer that are not on the line yet
    txState,     \* of the transfer: "idle" or "busy"
    txPended,    \* the queue of the timer task
    txEvent,     \* the event: the transfer is complete
    txPc,        \* of each sender: "idle", "try", "wait", "give" or "done"
    toWrite,     \* of each sender: the chunks of its frame to be written yet
    frameOut,    \* history: the chunks of its frame that went out whole
    overlaps,    \* history: another task was writing during this frame
    stranded     \* history: the task whose completion the queue refused, if any

senders == <<txPc, toWrite, frameOut, overlaps>>
txUart == <<txSemaphore, txData, txDataSize, txState, txEvent, txPended, stranded>>
txVars == <<senders, txUart>>

-----------------------------------------------------------------------------

(* A frame with data, and one without: mandatoryOutput may find no packet. *)
FrameShape == {<<"prefix", "header", "data", "checksum">>,
               <<"prefix", "header", "checksum">>}

Chunk == {"prefix", "header", "data", "checksum"}

(* What the timer task is asked to set. *)
TxComplete == "txComplete"

CompletionPended == \E i \in DOMAIN txPended : txPended[i] = TxComplete

NoTransfer == [sender |-> NoSender, chunk |-> "prefix"]

TxInit ==
    /\ txSemaphore = NoSender
    /\ txData = NoTransfer /\ txDataSize = 0 /\ txState = "idle"
    /\ txPended = <<>> /\ txEvent = FALSE /\ stranded = NoSender
    /\ txPc = [t \in Sender |-> "idle"]
    /\ toWrite = [t \in Sender |-> <<>>]
    /\ frameOut = [t \in Sender |-> <<>>]
    /\ overlaps = [t \in Sender |-> FALSE]

Writing(t) == txPc[t] # "idle"

TxGoes(t, from, to) == txPc[t] = from /\ txPc' = [txPc EXCEPT ![t] = to]

-----------------------------------------------------------------------------

(* radioTxRequest: build the header and call xbee_frame_write. *)
radioTxRequest(t) ==
    /\ TxGoes(t, "idle", "try")
    /\ \E f \in FrameShape : toWrite' = [toWrite EXCEPT ![t] = f]
    /\ frameOut' = [frameOut EXCEPT ![t] = <<>>]
    /\ overlaps' = [u \in Sender |->
                       IF u = t THEN \E v \in Sender \ {t} : Writing(v)
                       ELSE overlaps[u] \/ Writing(u)]
    /\ UNCHANGED txUart

(* UART_RTOS_Send takes the mutex and starts the transfer, unless the driver
   is at one, which it then waits for. *)
StartChunk(t) ==
    /\ TxGoes(t, "try", "wait") /\ toWrite[t] # <<>>
    /\ txSemaphore = NoSender
    /\ txSemaphore' = t
    /\ txState' = "busy"
    /\ IF txState = "busy"
       THEN UNCHANGED <<txData, txDataSize>>
       ELSE /\ txData' = [sender |-> t, chunk |-> Head(toWrite[t])]
            /\ txDataSize' = ChunkBytes
    /\ UNCHANGED <<txEvent, txPended, stranded, toWrite, frameOut, overlaps>>

(* The mutex is taken: the chunk is dropped, and the next one tried. *)
RefuseChunk(t) ==
    /\ txPc[t] = "try" /\ toWrite[t] # <<>> /\ txSemaphore # NoSender
    /\ toWrite' = [toWrite EXCEPT ![t] = Tail(@)]
    /\ UNCHANGED <<txPc, txUart, frameOut, overlaps>>

(* Mutant: the event is not cleared, and the next chunk does not wait. *)
MutWaitKeepsEvent(t) ==
    /\ TxGoes(t, "wait", "give") /\ txEvent
    /\ UNCHANGED <<txUart, toWrite, frameOut, overlaps>>

WaitComplete(t) ==
    /\ TxGoes(t, "wait", "give") /\ txEvent
    /\ txEvent' = FALSE
    /\ UNCHANGED <<txSemaphore, txData, txDataSize, txState, txPended, stranded,
                   toWrite, frameOut, overlaps>>

(* Mutant: the mutex is not given back. *)
MutGiveNot(t) ==
    /\ TxGoes(t, "give", "try")
    /\ toWrite' = [toWrite EXCEPT ![t] = Tail(@)]
    /\ UNCHANGED <<txUart, frameOut, overlaps>>

GiveTx(t) ==
    /\ TxGoes(t, "give", "try")
    /\ txSemaphore' = NoSender
    /\ toWrite' = [toWrite EXCEPT ![t] = Tail(@)]
    /\ UNCHANGED <<txData, txDataSize, txState, txEvent, txPended, stranded,
                   frameOut, overlaps>>

FrameWritten(t) ==
    /\ TxGoes(t, "try", "done") /\ toWrite[t] = <<>>
    /\ UNCHANGED <<txUart, toWrite, frameOut, overlaps>>

TxReturn(t) ==
    /\ TxGoes(t, "done", "idle")
    /\ UNCHANGED <<txUart, toWrite, frameOut, overlaps>>

xbee_frame_write(t) == \/ StartChunk(t) \/ RefuseChunk(t) \/ WaitComplete(t)
                       \/ GiveTx(t) \/ FrameWritten(t) \/ TxReturn(t)

-----------------------------------------------------------------------------
(* UART_TransferHandleIRQ and the timer task.                              *)

(* Mutant: one byte more than the chunk has is sent. *)
MutByteOutOneMore ==
    /\ txState = "busy" /\ txDataSize >= 0
    /\ txDataSize' = txDataSize - 1
    /\ UNCHANGED <<senders, txSemaphore, txData, txState, txEvent, txPended, stranded>>

ByteOut ==
    /\ txState = "busy" /\ txDataSize > 0
    /\ txDataSize' = txDataSize - 1
    /\ UNCHANGED <<senders, txSemaphore, txData, txState, txEvent, txPended, stranded>>

(* All bytes have left: the chunk is on the line. *)
TransmissionComplete ==
    /\ txState = "busy" /\ txDataSize = 0
    /\ txState' = "idle"
    /\ txPended' = Requested(txPended, TxComplete)
    /\ stranded' = IF QueueFull(txPended) THEN txData.sender ELSE stranded
    /\ frameOut' = [frameOut EXCEPT ![txData.sender] = Append(@, txData.chunk)]
    /\ UNCHANGED <<txPc, toWrite, overlaps, txSemaphore, txData, txDataSize, txEvent>>

(* An event of the other UARTs, or of the receiver of this one. *)
TxOtherUart ==
    /\ ~QueueFull(txPended) /\ txPended' = Append(txPended, Other)
    /\ UNCHANGED <<senders, txSemaphore, txData, txDataSize, txState, txEvent, stranded>>

(* Mutant: the request to set the event is lost. *)
MutSetTxEventLost ==
    /\ txPended # <<>>
    /\ txPended' = Tail(txPended)
    /\ UNCHANGED <<senders, txSemaphore, txData, txDataSize, txState, txEvent, stranded>>

SetTxEvent ==
    /\ txPended # <<>>
    /\ txPended' = Tail(txPended)
    /\ txEvent' = (txEvent \/ Head(txPended) = TxComplete)
    /\ UNCHANGED <<senders, txSemaphore, txData, txDataSize, txState, stranded>>

TxNext == \/ \E t \in Sender : radioTxRequest(t) \/ xbee_frame_write(t)
          \/ ByteOut \/ TransmissionComplete \/ TxOtherUart \/ SetTxEvent

(* A frame that is begun is written on, interrupts are served, and the timer
   task runs; no task need ever send. *)
TxSpec == TxInit /\ [][TxNext]_txVars
          /\ \A t \in Sender : WF_txVars(xbee_frame_write(t))
          /\ WF_txVars(ByteOut \/ TransmissionComplete) /\ WF_txVars(SetTxEvent)

-----------------------------------------------------------------------------

TxTypeOK ==
    /\ txSemaphore \in Sender \cup {NoSender}
    /\ txData \in [sender : Sender \cup {NoSender}, chunk : Chunk]
    /\ txDataSize \in 0 .. ChunkBytes /\ txState \in {"idle", "busy"}
    /\ txPended \in Seq({TxComplete, Other}) /\ Len(txPended) <= QueueLength
    /\ txEvent \in BOOLEAN /\ stranded \in Sender \cup {NoSender}
    /\ txPc \in [Sender -> {"idle", "try", "wait", "give", "done"}]
    /\ toWrite \in [Sender -> Seq(Chunk)]
    /\ frameOut \in [Sender -> Seq(Chunk)]
    /\ overlaps \in [Sender -> BOOLEAN]

(***************************************************************************)
(* UART_RTOS_Send is synchronous: a sender goes on when all bytes of its   *)
(* own chunk have left, not earlier, not on behalf of another task's       *)
(* chunk and not because an old event was left behind.  No transfer, and   *)
(* no event, outlives the sender that waits for it.                        *)
(***************************************************************************)
SendIsSynchronous ==
    /\ \A t \in Sender : txPc[t] = "wait" => txSemaphore = t
    /\ txState = "busy" \/ CompletionPended \/ txEvent
          => /\ txData.sender \in Sender
             /\ txData.sender = txSemaphore /\ txPc[txSemaphore] = "wait"
    /\ CompletionPended \/ txEvent => txState = "idle" /\ txDataSize = 0

(***************************************************************************)
(* A frame loses a chunk only to another task.  While no other task writes *)
(* a frame, all chunks of a frame go out, in order: nothing an earlier     *)
(* clash of two frames left behind can damage a later frame.               *)
(***************************************************************************)
AloneArrivesWhole ==
    \A t \in Sender : txPc[t] = "done" /\ ~overlaps[t] => frameOut[t] \in FrameShape

(***************************************************************************)
(* Whatever frames clash, no sender is stuck by another: a radioTxRequest  *)
(* returns unless the queue of the timer task refused the completion of    *)
(* one of its own chunks.  (That task holds the mutex from then on, and    *)
(* the frames of the others are refused whole.)                            *)
(***************************************************************************)
EachRequestReturns == \A t \in Sender : []<>(~Writing(t) \/ stranded = t)
=============================================================================
