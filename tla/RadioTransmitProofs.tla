------------------------ MODULE RadioTransmitProofs ------------------------
(***************************************************************************)
(* Theorems about sending frames to the radio, for any number of tasks and *)
(* chunks of any length.                                                   *)
(***************************************************************************)
EXTENDS RadioTransmit, SequenceTheorems, TLAPS

(***************************************************************************)
(* Who is where.  The mutex belongs to the one task between its take and   *)
(* its give, which has a chunk to write, and its completion is in the      *)
(* queue at most once, and not while the event is set.                     *)
(***************************************************************************)
HolderInside ==
    /\ \A t \in Sender : txPc[t] \in {"wait", "give"} <=> txSemaphore = t
    /\ \A t \in Sender : txSemaphore = t => toWrite[t] # <<>>
    /\ ~(CompletionPended /\ txEvent)
    /\ \A i, j \in DOMAIN txPended :
          txPended[i] = TxComplete /\ txPended[j] = TxComplete => i = j

(* A task that is writing and has met no other is the only one that writes. *)
AloneMeansAlone ==
    \A t, u \in Sender : Writing(t) /\ ~overlaps[t] /\ Writing(u) => u = t

(***************************************************************************)
(* What a task has put on the line and what it has still to write make up  *)
(* a frame, as long as no other task writes.  The chunk of a transfer      *)
(* counts as unwritten until its last byte has left.                       *)
(***************************************************************************)
AtFrame(t) ==
    /\ txPc[t] = "try" => frameOut[t] \o toWrite[t] \in FrameShape
    /\ txPc[t] = "wait" /\ txState = "busy"
          => /\ txData.chunk = Head(toWrite[t])
             /\ frameOut[t] \o toWrite[t] \in FrameShape
    /\ (txPc[t] = "wait" /\ txState # "busy") \/ txPc[t] = "give"
          => frameOut[t] \o Tail(toWrite[t]) \in FrameShape
    /\ txPc[t] = "done" => frameOut[t] \in FrameShape

FramesComplete == \A t \in Sender : ~overlaps[t] => AtFrame(t)

TxInv == /\ TxTypeOK /\ SendIsSynchronous
         /\ HolderInside /\ AloneMeansAlone /\ FramesComplete

-----------------------------------------------------------------------------

LEMMA FramesAreChunks == FrameShape \subseteq Seq(Chunk)
  BY DEF FrameShape, Chunk

(* Moving the first chunk to the line leaves the frame what it is. *)
LEMMA MoveChunk ==
    ASSUME NEW out \in Seq(Chunk), NEW left \in Seq(Chunk), left # <<>>
    PROVE  Append(out, Head(left)) \o Tail(left) = out \o left
  <1>1. Head(left) \in Chunk /\ Tail(left) \in Seq(Chunk)
    BY HeadTailProperties
  <1>2. Append(out, Head(left)) = out \o <<Head(left)>>
    BY <1>1, AppendIsConcat
  <1>3. <<Head(left)>> \o Tail(left) = left
    BY <1>1, SMT
  <1>4. (out \o <<Head(left)>>) \o Tail(left) = out \o (<<Head(left)>> \o Tail(left))
    BY <1>1, ConcatAssociative, <<Head(left)>> \in Seq(Chunk)
  <1> QED
    BY <1>2, <1>3, <1>4

(* What a request adds to the queue of the timer task, if anything. *)
LEMMA QueueAfterRequest ==
    ASSUME NEW S, NEW q \in Seq(S), Len(q) <= QueueLength, NEW e \in S
    PROVE  /\ Requested(q, e) \in Seq(S) /\ Len(Requested(q, e)) <= QueueLength
           /\ \A i \in DOMAIN Requested(q, e) :
                 \/ i \in DOMAIN q /\ Requested(q, e)[i] = q[i]
                 \/ i = Len(q) + 1 /\ Requested(q, e)[i] = e
           /\ \A i \in DOMAIN q :
                 i \in DOMAIN Requested(q, e) /\ Requested(q, e)[i] = q[i]
  <1>1. CASE Len(q) < QueueLength
    <2>1. Requested(q, e) = Append(q, e)
      BY <1>1 DEF Requested
    <2>2. /\ Append(q, e) \in Seq(S) /\ Len(Append(q, e)) = Len(q) + 1 /\ Len(q) \in Nat
          /\ \A i \in 1 .. Len(q) : Append(q, e)[i] = q[i]
          /\ Append(q, e)[Len(q) + 1] = e
          /\ DOMAIN q = 1 .. Len(q) /\ DOMAIN Append(q, e) = 1 .. Len(q) + 1
      BY AppendProperties
    <2> QED
      BY <1>1, <2>1, <2>2, QueueAssumption
  <1>2. CASE ~(Len(q) < QueueLength)
    BY <1>2 DEF Requested
  <1> QED
    BY <1>1, <1>2

(* An event of another UART leaves the completions where they are. *)
LEMMA OtherQueued ==
    ASSUME TxTypeOK, HolderInside, txPended' = Append(txPended, Other)
    PROVE  /\ CompletionPended' <=> CompletionPended
           /\ \A i, j \in DOMAIN txPended' :
                 txPended'[i] = TxComplete /\ txPended'[j] = TxComplete => i = j
  <1>1. txPended \in Seq({TxComplete, Other})
    BY DEF TxTypeOK
  <1>2. /\ Len(txPended) \in Nat /\ DOMAIN txPended = 1 .. Len(txPended)
        /\ DOMAIN txPended' = 1 .. Len(txPended) + 1
        /\ \A i \in 1 .. Len(txPended) : txPended'[i] = txPended[i]
        /\ txPended'[Len(txPended) + 1] = Other
    BY <1>1, AppendProperties
  <1>3. Other # TxComplete
    BY DEF Other, TxComplete
  <1>4. \A i \in DOMAIN txPended' :
           txPended'[i] = TxComplete => i \in DOMAIN txPended /\ txPended[i] = TxComplete
    BY <1>2, <1>3
  <1>5. CompletionPended' <=> CompletionPended
    BY <1>2, <1>4 DEF CompletionPended
  <1> QED
    BY <1>4, <1>5 DEF HolderInside

(* The timer task takes the completion, or leaves it where it is. *)
LEMMA FirstTaken ==
    ASSUME TxTypeOK, HolderInside, txPended # <<>>, txPended' = Tail(txPended)
    PROVE  /\ txPended' \in Seq({TxComplete, Other}) /\ Len(txPended') <= QueueLength
           /\ CompletionPended' => CompletionPended /\ Head(txPended) # TxComplete
           /\ Head(txPended) = TxComplete => CompletionPended
           /\ \A i, j \in DOMAIN txPended' :
                 txPended'[i] = TxComplete /\ txPended'[j] = TxComplete => i = j
  <1>1. txPended \in Seq({TxComplete, Other}) /\ Len(txPended) <= QueueLength
    BY DEF TxTypeOK
  <1>2. /\ Tail(txPended) \in Seq({TxComplete, Other})
        /\ Len(Tail(txPended)) = Len(txPended) - 1 /\ Len(txPended) \in Nat
        /\ \A i \in 1 .. Len(Tail(txPended)) : Tail(txPended)[i] = txPended[i + 1]
        /\ DOMAIN txPended = 1 .. Len(txPended)
        /\ DOMAIN Tail(txPended) = 1 .. Len(Tail(txPended))
        /\ Head(txPended) = txPended[1] /\ Len(txPended) > 0
    BY <1>1, HeadTailProperties, EmptySeq
  <1>3. \A i \in DOMAIN txPended' : i + 1 \in DOMAIN txPended /\ txPended'[i] = txPended[i + 1]
    BY <1>2
  <1>4. 1 \in DOMAIN txPended /\ \A i \in DOMAIN txPended' : i \in Nat /\ i >= 1
    BY <1>2
  <1>5. txPended' \in Seq({TxComplete, Other}) /\ Len(txPended') <= QueueLength
    BY <1>1, <1>2, QueueAssumption
  <1>6. Head(txPended) = TxComplete => CompletionPended
    BY <1>2, <1>4 DEF CompletionPended
  <1>7. \A i, j \in DOMAIN txPended :
           txPended[i] = TxComplete /\ txPended[j] = TxComplete => i = j
    BY DEF HolderInside
  <1>8. ASSUME CompletionPended' PROVE CompletionPended /\ Head(txPended) # TxComplete
    <2>1. PICK i \in DOMAIN txPended' : txPended'[i] = TxComplete
      BY <1>8 DEF CompletionPended
    <2>2. i + 1 \in DOMAIN txPended /\ txPended[i + 1] = TxComplete /\ i + 1 # 1
      BY <1>3, <1>4, <2>1
    <2>3. CompletionPended
      BY <2>2 DEF CompletionPended
    <2> QED
      BY <1>2, <1>4, <1>7, <2>2, <2>3
  <1>9. ASSUME NEW i \in DOMAIN txPended', NEW j \in DOMAIN txPended',
               txPended'[i] = TxComplete, txPended'[j] = TxComplete
        PROVE  i = j
    <2>1. i + 1 = j + 1
      BY <1>3, <1>7, <1>9
    <2> QED
      BY <1>4, <2>1
  <1> QED
    BY <1>5, <1>6, <1>8, <1>9

LEMMA TxInvInit == TxInit => TxInv
  <1> SUFFICES ASSUME TxInit PROVE TxInv
    OBVIOUS
  <1>1. TxTypeOK
    <2>1. txDataSize \in 0 .. ChunkBytes
      BY SenderAssumption DEF TxInit
    <2>2. txData \in [sender : Sender \cup {NoSender}, chunk : Chunk]
      BY DEF TxInit, NoTransfer, Chunk
    <2>3. txPc \in [Sender -> {"idle", "try", "wait", "give", "done"}]
      BY DEF TxInit
    <2>4. /\ toWrite \in [Sender -> Seq(Chunk)] /\ frameOut \in [Sender -> Seq(Chunk)]
          /\ overlaps \in [Sender -> BOOLEAN]
      BY DEF TxInit
    <2>5. txPended \in Seq({TxComplete, Other}) /\ Len(txPended) <= QueueLength
      BY EmptySeq, QueueAssumption DEF TxInit
    <2> QED
      BY <2>1, <2>2, <2>3, <2>4, <2>5 DEF TxInit, TxTypeOK
  <1>2. SendIsSynchronous /\ HolderInside /\ AloneMeansAlone
    <2>1. DOMAIN txPended = {}
      BY EmptySeq DEF TxInit
    <2> QED
      BY <2>1, SenderAssumption
         DEF TxInit, SendIsSynchronous, HolderInside, AloneMeansAlone, Writing,
             CompletionPended
  <1>3. FramesComplete
    BY DEF TxInit, FramesComplete, AtFrame
  <1> QED
    BY <1>1, <1>2, <1>3 DEF TxInv

(***************************************************************************)
(* The types.  GiveTx takes the first chunk off: HolderInside says that    *)
(* there is one.                                                           *)
(***************************************************************************)
LEMMA TxTypeStep ==
    ASSUME TxInv, TxNext
    PROVE  TxTypeOK'
  <1> USE DEF TxInv, TxTypeOK, TxGoes
  <1>1. ASSUME NEW t \in Sender, radioTxRequest(t) PROVE TxTypeOK'
    <2>1. toWrite' \in [Sender -> Seq(Chunk)] /\ frameOut' \in [Sender -> Seq(Chunk)]
      BY <1>1, FramesAreChunks DEF radioTxRequest
    <2>2. overlaps' \in [Sender -> BOOLEAN]
      BY <1>1 DEF radioTxRequest, Writing
    <2> QED
      BY <1>1, <2>1, <2>2 DEF radioTxRequest, txUart
  <1>2. ASSUME NEW t \in Sender, StartChunk(t) PROVE TxTypeOK'
    <2>1. Head(toWrite[t]) \in Chunk
      BY <1>2, HeadTailProperties DEF StartChunk
    <2>2. ChunkBytes \in 0 .. ChunkBytes
      BY SenderAssumption
    <2> QED
      BY <1>2, <2>1, <2>2 DEF StartChunk
  <1>3. ASSUME NEW t \in Sender, RefuseChunk(t) PROVE TxTypeOK'
    <2>1. Tail(toWrite[t]) \in Seq(Chunk)
      BY <1>3, HeadTailProperties DEF RefuseChunk
    <2> QED
      BY <1>3, <2>1 DEF RefuseChunk, txUart
  <1>4. ASSUME NEW t \in Sender, WaitComplete(t) PROVE TxTypeOK'
    BY <1>4 DEF WaitComplete
  <1>5. ASSUME NEW t \in Sender, GiveTx(t) PROVE TxTypeOK'
    <2>1. Tail(toWrite[t]) \in Seq(Chunk)
      BY <1>5, HeadTailProperties DEF GiveTx, HolderInside
    <2> QED
      BY <1>5, <2>1 DEF GiveTx
  <1>6. ASSUME NEW t \in Sender, FrameWritten(t) \/ TxReturn(t) PROVE TxTypeOK'
    BY <1>6 DEF FrameWritten, TxReturn, txUart
  <1>7. CASE ByteOut
    BY <1>7, SenderAssumption DEF ByteOut, senders
  <1>8. CASE TransmissionComplete
    <2>1. txData.sender \in Sender
      BY <1>8 DEF TransmissionComplete, SendIsSynchronous
    <2>2. Append(frameOut[txData.sender], txData.chunk) \in Seq(Chunk)
      BY <2>1
    <2>3. txPended' \in Seq({TxComplete, Other}) /\ Len(txPended') <= QueueLength
      BY <1>8, QueueAfterRequest DEF TransmissionComplete
    <2>4. stranded' \in Sender \cup {NoSender}
      BY <1>8, <2>1 DEF TransmissionComplete
    <2> QED
      BY <1>8, <2>1, <2>2, <2>3, <2>4 DEF TransmissionComplete
  <1>9. CASE TxOtherUart
    <2>1. Requested(txPended, Other) = txPended'
      BY <1>9, QueueAssumption DEF TxOtherUart, Requested, QueueFull
    <2>2. txPended' \in Seq({TxComplete, Other}) /\ Len(txPended') <= QueueLength
      BY <2>1, QueueAfterRequest
    <2> QED
      BY <1>9, <2>2 DEF TxOtherUart, senders
  <1>10. CASE SetTxEvent
    <2>1. txPended' \in Seq({TxComplete, Other}) /\ Len(txPended') <= QueueLength
      BY <1>10, FirstTaken DEF SetTxEvent
    <2> QED
      BY <1>10, <2>1 DEF SetTxEvent, senders
  <1> QED
    BY <1>1, <1>2, <1>3, <1>4, <1>5, <1>6, <1>7, <1>8, <1>9, <1>10
       DEF TxNext, xbee_frame_write

(***************************************************************************)
(* The mutex and the event.  StartChunk finds the mutex free, and then no  *)
(* transfer and no event is left, or SendIsSynchronous would name a task   *)
(* that holds it.                                                          *)
(***************************************************************************)
LEMMA TxHandshakeStep ==
    ASSUME TxInv, TxNext
    PROVE  SendIsSynchronous' /\ HolderInside'
  <1> USE SenderAssumption DEF TxInv, TxTypeOK, SendIsSynchronous, HolderInside, TxGoes
  <1>0. txPended' = txPended => (CompletionPended' <=> CompletionPended)
    BY DEF CompletionPended
  <1>1. ASSUME NEW t \in Sender, radioTxRequest(t)
        PROVE  SendIsSynchronous' /\ HolderInside'
    BY <1>0, <1>1 DEF radioTxRequest, txUart
  <1>2. ASSUME NEW t \in Sender, StartChunk(t)
        PROVE  SendIsSynchronous' /\ HolderInside'
    BY <1>0, <1>2 DEF StartChunk
  <1>3. ASSUME NEW t \in Sender, RefuseChunk(t)
        PROVE  SendIsSynchronous' /\ HolderInside'
    BY <1>0, <1>3 DEF RefuseChunk, txUart
  <1>4. ASSUME NEW t \in Sender, WaitComplete(t)
        PROVE  SendIsSynchronous' /\ HolderInside'
    BY <1>0, <1>4 DEF WaitComplete
  <1>5. ASSUME NEW t \in Sender, GiveTx(t)
        PROVE  SendIsSynchronous' /\ HolderInside'
    BY <1>0, <1>5 DEF GiveTx
  <1>6. ASSUME NEW t \in Sender, FrameWritten(t) \/ TxReturn(t)
        PROVE  SendIsSynchronous' /\ HolderInside'
    BY <1>0, <1>6 DEF FrameWritten, TxReturn, txUart
  <1>7. CASE ByteOut
    BY <1>0, <1>7 DEF ByteOut, senders
  <1>8. CASE TransmissionComplete
    <2>1. ~CompletionPended /\ ~txEvent
      BY <1>8 DEF TransmissionComplete
    <2>2. \A i, j \in DOMAIN txPended' :
             txPended'[i] = TxComplete /\ txPended'[j] = TxComplete => i = j
      <3>1. \A i \in DOMAIN txPended' :
               \/ i \in DOMAIN txPended /\ txPended'[i] = txPended[i]
               \/ i = Len(txPended) + 1
        <4>1. txPended \in Seq({TxComplete, Other}) /\ Len(txPended) <= QueueLength
          BY DEF TxTypeOK
        <4>2. txPended' = Requested(txPended, TxComplete)
          BY <1>8 DEF TransmissionComplete
        <4> QED
          BY ONLY <4>1, <4>2, QueueAfterRequest
      <3>2. \A i \in DOMAIN txPended : txPended[i] # TxComplete
        BY <2>1 DEF CompletionPended
      <3>3. \A i \in DOMAIN txPended' :
               txPended'[i] = TxComplete => i = Len(txPended) + 1
        BY ONLY <3>1, <3>2
      <3> QED
        BY ONLY <3>3
    <2> QED
      BY <1>8, <2>1, <2>2 DEF TransmissionComplete
  <1>9. CASE TxOtherUart
    BY <1>9, OtherQueued DEF TxOtherUart, senders
  <1>10. CASE SetTxEvent
    <2>1. /\ CompletionPended' => CompletionPended /\ Head(txPended) # TxComplete
          /\ Head(txPended) = TxComplete => CompletionPended
          /\ \A i, j \in DOMAIN txPended' :
                txPended'[i] = TxComplete /\ txPended'[j] = TxComplete => i = j
      BY <1>10, FirstTaken DEF SetTxEvent
    <2> QED
      BY <1>10, <2>1 DEF SetTxEvent, senders
  <1> QED
    BY <1>1, <1>2, <1>3, <1>4, <1>5, <1>6, <1>7, <1>8, <1>9, <1>10
       DEF TxNext, xbee_frame_write

LEMMA TxAloneStep ==
    ASSUME TxInv, TxNext
    PROVE  AloneMeansAlone'
  <1> USE DEF TxInv, TxTypeOK, AloneMeansAlone, Writing, TxGoes
  <1>1. ASSUME NEW t \in Sender, radioTxRequest(t) PROVE AloneMeansAlone'
    BY <1>1 DEF radioTxRequest
  <1>2. ASSUME NEW t \in Sender, xbee_frame_write(t) PROVE AloneMeansAlone'
    <2>1. overlaps' = overlaps /\ \A u \in Sender : txPc'[u] # "idle" => txPc[u] # "idle"
      BY <1>2 DEF xbee_frame_write, StartChunk, RefuseChunk, WaitComplete, GiveTx,
                  FrameWritten, TxReturn
    <2> QED
      BY <2>1
  <1>3. CASE ByteOut \/ TransmissionComplete \/ TxOtherUart \/ SetTxEvent
    BY <1>3 DEF ByteOut, TransmissionComplete, TxOtherUart, SetTxEvent, senders
  <1> QED
    BY <1>1, <1>2, <1>3 DEF TxNext

(***************************************************************************)
(* The frames.  A chunk is refused only to a task that another overlaps,   *)
(* for the mutex then belongs to another; and the chunk that has left is   *)
(* the first of the task that waits for it.                                *)
(***************************************************************************)
LEMMA TxFrameStep ==
    ASSUME TxInv, TxNext
    PROVE  FramesComplete'
  <1> USE DEF TxInv, TxTypeOK, TxGoes
  <1>1. ASSUME NEW t \in Sender, radioTxRequest(t), NEW u \in Sender, ~overlaps'[u]
        PROVE  AtFrame(u)'
    <2>1. CASE u = t
      <3>1. PICK f \in FrameShape : toWrite' = [toWrite EXCEPT ![t] = f]
        BY <1>1 DEF radioTxRequest
      <3>2. txPc'[t] = "try" /\ frameOut'[t] = <<>> /\ toWrite'[t] = f
        BY <1>1, <3>1 DEF radioTxRequest
      <3>3. <<>> \o f = f
        BY FramesAreChunks, ConcatEmptySeq
      <3> QED
        BY <2>1, <3>2, <3>3 DEF AtFrame
    <2>2. CASE u # t
      <3>1. ~overlaps[u]
        BY <1>1, <2>2 DEF radioTxRequest, Writing
      <3>2. AtFrame(u)
        BY <3>1 DEF FramesComplete
      <3>3. /\ txPc'[u] = txPc[u] /\ toWrite'[u] = toWrite[u] /\ frameOut'[u] = frameOut[u]
            /\ txState' = txState /\ txData' = txData
        BY <1>1, <2>2 DEF radioTxRequest, txUart
      <3> QED
        BY <3>2, <3>3 DEF AtFrame
    <2> QED
      BY <2>1, <2>2
  <1>2. ASSUME NEW t \in Sender, StartChunk(t), NEW u \in Sender, ~overlaps'[u]
        PROVE  AtFrame(u)'
    <2>1. AtFrame(u)
      BY <1>2 DEF StartChunk, FramesComplete
    <2>2. txState = "idle"
      BY <1>2, SenderAssumption DEF StartChunk, SendIsSynchronous
    <2>3. CASE u = t
      BY <1>2, <2>1, <2>2, <2>3 DEF StartChunk, AtFrame
    <2>4. CASE u # t
      <3>1. txPc[u] \notin {"wait", "give"}
        BY <1>2, SenderAssumption DEF StartChunk, HolderInside
      <3> QED
        BY <1>2, <2>1, <2>4, <3>1 DEF StartChunk, AtFrame
    <2> QED
      BY <2>3, <2>4
  <1>3. ASSUME NEW t \in Sender, RefuseChunk(t), NEW u \in Sender, ~overlaps'[u]
        PROVE  AtFrame(u)'
    <2>1. AtFrame(u)
      BY <1>3 DEF RefuseChunk, FramesComplete
    <2>2. u # t
      <3>1. txSemaphore \in Sender /\ txPc[txSemaphore] \in {"wait", "give"}
        BY <1>3 DEF RefuseChunk, HolderInside
      <3> QED
        BY <1>3, <3>1 DEF RefuseChunk, AloneMeansAlone, Writing
    <2> QED
      BY <1>3, <2>1, <2>2 DEF RefuseChunk, AtFrame, txUart
  <1>4. ASSUME NEW t \in Sender, WaitComplete(t), NEW u \in Sender, ~overlaps'[u]
        PROVE  AtFrame(u)'
    <2>1. AtFrame(u)
      BY <1>4 DEF WaitComplete, FramesComplete
    <2>2. txState = "idle"
      BY <1>4 DEF WaitComplete, SendIsSynchronous
    <2> QED
      BY <1>4, <2>1, <2>2 DEF WaitComplete, AtFrame
  <1>5. ASSUME NEW t \in Sender, GiveTx(t), NEW u \in Sender, ~overlaps'[u]
        PROVE  AtFrame(u)'
    <2>1. AtFrame(u)
      BY <1>5 DEF GiveTx, FramesComplete
    <2>2. CASE u = t
      <3>1. txPc'[u] = "try" /\ toWrite'[u] = Tail(toWrite[u]) /\ frameOut'[u] = frameOut[u]
        BY <1>5, <2>2 DEF GiveTx
      <3>2. frameOut[u] \o Tail(toWrite[u]) \in FrameShape
        BY <1>5, <2>1, <2>2 DEF GiveTx, AtFrame
      <3> QED
        BY <3>1, <3>2 DEF AtFrame
    <2>3. CASE u # t
      BY <1>5, <2>1, <2>3 DEF GiveTx, AtFrame
    <2> QED
      BY <2>2, <2>3
  <1>6. ASSUME NEW t \in Sender, FrameWritten(t) \/ TxReturn(t), NEW u \in Sender,
               ~overlaps'[u]
        PROVE  AtFrame(u)'
    <2>1. AtFrame(u)
      BY <1>6 DEF FrameWritten, TxReturn, FramesComplete
    <2>2. CASE u = t /\ FrameWritten(t)
      <3>1. frameOut[u] \in FrameShape
        <4>1. frameOut[u] \o toWrite[u] \in FrameShape /\ toWrite[u] = <<>>
          BY <2>1, <2>2 DEF FrameWritten, AtFrame
        <4>2. frameOut[u] \o <<>> = frameOut[u]
          BY ConcatEmptySeq
        <4> QED
          BY <4>1, <4>2
      <3> QED
        BY <2>2, <3>1 DEF FrameWritten, AtFrame, txUart
    <2>3. CASE u = t /\ TxReturn(t)
      BY <2>3 DEF TxReturn, AtFrame
    <2>4. CASE u # t
      BY <1>6, <2>1, <2>4 DEF FrameWritten, TxReturn, AtFrame, txUart
    <2> QED
      BY <1>6, <2>2, <2>3, <2>4
  <1>7. ASSUME ByteOut \/ TxOtherUart \/ SetTxEvent, NEW u \in Sender, ~overlaps'[u]
        PROVE  AtFrame(u)'
    <2>1. AtFrame(u)
      BY <1>7 DEF ByteOut, TxOtherUart, SetTxEvent, senders, FramesComplete
    <2> QED
      BY <1>7, <2>1 DEF ByteOut, TxOtherUart, SetTxEvent, senders, AtFrame
  <1>8. ASSUME TransmissionComplete, NEW u \in Sender, ~overlaps'[u]
        PROVE  AtFrame(u)'
    <2>1. AtFrame(u)
      BY <1>8 DEF TransmissionComplete, FramesComplete
    <2>2. txData.sender = txSemaphore /\ txSemaphore \in Sender /\ txPc[txSemaphore] = "wait"
      BY <1>8 DEF TransmissionComplete, SendIsSynchronous
    <2>3. CASE u = txSemaphore
      <3>1. toWrite[u] # <<>>
        BY <2>3 DEF HolderInside
      <3>2. txData.chunk = Head(toWrite[u]) /\ frameOut[u] \o toWrite[u] \in FrameShape
        BY <1>8, <2>1, <2>2, <2>3 DEF TransmissionComplete, AtFrame
      <3>3. frameOut'[u] = Append(frameOut[u], Head(toWrite[u]))
        BY <1>8, <2>2, <2>3, <3>2 DEF TransmissionComplete
      <3>4. frameOut'[u] \o Tail(toWrite[u]) \in FrameShape
        BY <3>1, <3>2, <3>3, MoveChunk
      <3> QED
        BY <1>8, <2>2, <2>3, <3>4 DEF TransmissionComplete, AtFrame
    <2>4. CASE u # txSemaphore
      <3>1. txPc[u] \notin {"wait", "give"} /\ frameOut'[u] = frameOut[u]
        BY <1>8, <2>2, <2>4 DEF TransmissionComplete, HolderInside
      <3> QED
        BY <1>8, <2>1, <3>1 DEF TransmissionComplete, AtFrame
    <2> QED
      BY <2>3, <2>4
  <1> QED
    BY <1>1, <1>2, <1>3, <1>4, <1>5, <1>6, <1>7, <1>8
       DEF FramesComplete, TxNext, xbee_frame_write

LEMMA TxInvStep == TxInv /\ [TxNext]_txVars => TxInv'
  <1>1. ASSUME TxInv, TxNext PROVE TxInv'
    BY <1>1, TxTypeStep, TxHandshakeStep, TxAloneStep, TxFrameStep DEF TxInv
  <1>2. ASSUME TxInv, UNCHANGED txVars PROVE TxInv'
    BY <1>2 DEF TxInv, TxTypeOK, SendIsSynchronous, HolderInside, AloneMeansAlone,
                FramesComplete, AtFrame, Writing, txVars, senders, txUart, CompletionPended
  <1> QED
    BY <1>1, <1>2

LEMMA TxInvariant == TxSpec => []TxInv
  <1> QED
    BY TxInvInit, TxInvStep, PTL DEF TxSpec

-----------------------------------------------------------------------------

(***************************************************************************)
(* The variables of the driver and of the tasks have their types, for any  *)
(* number of tasks that send.                                              *)
(***************************************************************************)
THEOREM TxTypeCorrect == TxSpec => []TxTypeOK
  <1>1. TxInv => TxTypeOK
    BY DEF TxInv
  <1> QED
    BY <1>1, TxInvariant, PTL

(***************************************************************************)
(* UART_RTOS_Send returns when the bytes of its own chunk have left, and   *)
(* no transfer and no event outlives the sender that waits for it.         *)
(***************************************************************************)
THEOREM SendSynchronous == TxSpec => []SendIsSynchronous
  <1>1. TxInv => SendIsSynchronous
    BY DEF TxInv
  <1> QED
    BY <1>1, TxInvariant, PTL

(***************************************************************************)
(* A frame that no other task's frame overlaps goes out whole, whatever    *)
(* clashed before it: radioTxRequest damages frames only by overlapping.   *)
(***************************************************************************)
THEOREM WholeWhenAlone == TxSpec => []AloneArrivesWhole
  <1>1. TxInv => AloneArrivesWhole
    BY DEF TxInv, FramesComplete, AtFrame, AloneArrivesWhole
  <1> QED
    BY <1>1, TxInvariant, PTL
=============================================================================
