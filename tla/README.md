# Whistler-Blackcomb flight software: specifications, checks and proofs

TLA+ models of the control logic of the rocket's flight computer, the TLC
configurations that check them on small instances, and proofs checked by TLAPS
that hold for every instance. Paths are relative to the repository root (`src/`
here); line numbers are in `PROJECT.json`.

Parse with `tlasany M.tla`, check with `tlc -config X.cfg M`, prove with
`tlapm M.tla`.

## 1. Inventory

The program is a set of FreeRTOS tasks (`source/Whistler-Blackcomb.c`, and, when
`GSRadioInit` is called, five radio tasks in `common/src/radio_protocol.c`). The
same code is built for the board and for x86, where `envs/x86` replaces the
drivers by a link to a simulator over stdin and stdout.

| Component | State | Operations | Talks to |
|---|---|---|---|
| message buffer, `common/src/buffer.c` | ring of pointers, head, tail, full flag, binary semaphore; heap blocks | put, get, three queries, reset, init, free | called by all radio tasks |
| state machine, `common/src/state_machine.c` | current state; four triggers in `stateTransitionInput` | `setNextState`, `testSetState`, `getState` | triggers set by the radio (and the ground support equipment); polled by `StateTask` every 10 ms |
| command path, `radio_protocol.c` | the packet being split, the critical buffer, the last byte got | `inputLoop`, `dealWithCritMessages` | radio driver -> buffer -> triggers |
| telemetry path, `radio_protocol.c` | the transmit and low priority buffers, the frame being gathered | `radioPrep...`, `dealWithLowMessages`, `outputLoop`, `mandatoryOutput` | requests -> buffer -> radio driver |
| radio driver, `common/src/radio.c` over `xbee_device.c` and the UART | one receive slot; state of the frame parser; the transfer in progress, its mutex and event | `radioReceive`, `radioTxRequest`, frame handler | xbee library, UART, timer task |
| shared variables, `common/src/variables.c` | sensor values, each with a mutex | getters; setters that nothing calls | read by `radioPrep...` |
| simulation link, `envs/x86/src/stdio_controller.c` | per direction and id: ring, indices, lower limit, counting semaphore; handshake flag | `writeToBuf`, `readFromBuf`, `inputLoop`, `outputLoop`, `sendPackets`, `extractPacket` | UART and CAN drivers of the x86 build, stdin/stdout |
| CAN, `envs/board/src/hal_can.c`, `fsl_flexcan.c`, `CanTask` | a semaphore, state of the FIFO and of the transmit buffer, the frame received, two tables of readings | `canReceive`, `canSend`, interrupt handler | sensor nodes on the bus |
| IMU reader, `ReadImuTask` over `fsl_uart_freertos.c` and `fsl_uart.c` | ring of bytes, reception in progress, event bits, the queue of the timer task (one for all UARTs) | `uartReceive`, `uartSend` on the debug UART, interrupt handler | inertial sensor, timer task |
| prediction, other drivers, vendored code | | | not modelled, see section 7 |

What makes each of them correct, and what is hard:

* **Buffer.** Tasks of equal priority are preempted between any two statements;
  only the semaphore keeps the ring, its indices and the heap consistent. `head =
  tail` means empty or full. A get trusts `head`, `tail` and `full` alone.
* **State machine.** Every code a transition function returns must have a row in
  the table. Several triggers may be set in one period: an abort must win. A
  trigger must act once.
* **Command path.** A command must reach the machine through two tasks, one
  bounded buffer and a local variable that survives from one get to the next, and
  nothing may be invented on the way.
* **Telemetry path.** Two tasks get from one buffer after checks that may be
  stale; frames are gathered in an array of fixed size; the radio must not fall
  silent while there is memory, of which each forced ping leaks a block.
* **Simulation link.** Writers and readers share indices and no lock; a reader
  waits on a semaphore after looking at its count; what goes in must come out once
  and in order.
* **CAN.** One semaphore is both the lock and the signal of two interrupts; the
  interrupt handler writes a global that the task reads later.
* **Radio, sending.** Two tasks write frames in four separate calls without a
  lock; a call is refused, not delayed, when the other task is in one. Completion
  travels from an interrupt over the timer task to the sender, through a queue that
  the other UARTs fill too.
* **Radio, receiving.** The parser must find frames in a stream in which the start
  byte may occur anywhere, after bytes were lost or added; one slot, smaller than
  the largest frame, holds the packet between the frame handler and `radioReceive`.
* **IMU reader.** Bytes take two ways to the reader; the ring overflows while the
  reader is busy; three kinds of events are set through a bounded queue and may
  come late or not at all; the reader waits without a timeout.

There is no persistence, so no crash recovery. Bytes and frames are lost where a
bounded buffer overwrites and on the serial line, and both are modelled.

## 2. Modules

| Module | What it is |
|---|---|
| `DropOldestQueue` | abstract specification of a message buffer: a FIFO queue, every call indivisible, a put at capacity drops the oldest message |
| `Buffer` | the ring of `buffer.c`, every operation cut where another task can run; `Implements` maps it to `DropOldestQueue` |
| `StateMachine` | the table, one action per transition function, the triggers, `testSetState` |
| `CommandPath` | extends `StateMachine` with `inputLoop`, the critical buffer (a `DropOldestQueue`), `dealWithCritMessages`, `StateTask` and the ground support equipment |
| `TelemetryPath` | the transmit and low buffers (`DropOldestQueue`s), `dealWithLowMessages`, `outputLoop`, `mandatoryOutput`, and the heap blocks they take |
| `PacketRing` | `writeToBuf` and `readFromBuf` of the simulation link, statement by statement, for a set of ids |
| `SimTransmit` | extends `PacketRing` with the handshake, the writing tasks, what other tasks print, and `sendPackets` |
| `DelayLine` | abstract specification of the receive side of the simulation link: a line that holds one packet back |
| `SimReceive` | extends `PacketRing` with `inputLoop`, `uartReceive` and `canReceive`; `IsDelayLine` maps it to `DelayLine` |
| `CanDriver` | `CanTask`, `canReceive`, `canSend`, the receive FIFO and the interrupt handler of the CAN controller |
| `TimerQueue` | the queue of the FreeRTOS timer task, which all UARTs share and which refuses what it cannot hold |
| `RadioTransmit` | extends `TimerQueue`: `radioTxRequest` of several tasks, `xbee_frame_write`, `UART_RTOS_Send`, the transmit interrupt, the timer task |
| `UartReceive` | extends `TimerQueue`: `ReadImuTask`, `UART_RTOS_Receive`, the receive interrupt with its ring, the timer task |
| `XbeeReceive` | `radioReceive`, `xbee_dev_tick`, the frame parser, the receive slot, and a serial line with faults |
| `MCParts` | the sum of `StateMachine` (with forced states), `CanDriver`, `RadioTransmit`, `XbeeReceive` and `SimReceive`: a behaviour is one of one part |
| `BufferProofs`, `StateMachineProofs`, `CommandPathProofs`, `TelemetryPathProofs`, `CanDriverProofs`, `RadioTransmitProofs`, `ReceiveProofs` (UartReceive and XbeeReceive), `SimLinkProofs` (PacketRing, SimTransmit, SimReceive) | the theorems |
| `MC...` | constants of the instances that TLC checks |

### How the models correspond to the code

**Buffer.** `buffer`, `head`, `tail`, `full`, `semaphore` are the members of
`cbuf_t`. A message is one value (length and bytes together), an address is a
member of `Block`. `pc[t]` is where task `t` is: `take` (waiting for the
semaphore), `inside`, then for a put `store`, `advance`, for a get `retreat`,
`free`, then `give`. `PutStore` is line 208, `PutAdvance` is `advance_pointer`,
`GetRetreat` is `retreat_pointer`, `Succ` their wrap. `cbufPut` does not look at
the result of `pvPortMalloc`: with no free block the model records `faulted` and
stops. `discarded` is a history variable: the blocks whose messages were
overwritten, reset or freed away. `cbufCheckEmpty`, `cbufCheckFull` and
`cbufGetSize` are one action, `AnswerQuery`. `cbufInit` runs before other tasks
know the buffer and `cbufFree` only in single-task tests, so `Create` and `Free`
are indivisible.

**StateMachine.** `triggers` is the set of members of `stateTransitionInput` that
are set. Each `stateTransition...` action is the function of that name followed
by the lookup, that is one call of `setNextState`. The seven functions that
always return `stateRetRepeat` are `stateTransitionUnfinished`. `fresh` is a
history variable: the triggers set since they were last acted on. `TestStates`
are the states a test forces; it is empty in the firmware. A call of
`setNextState` is indivisible: `StateTask` has a higher priority than the tasks
that set triggers.

**CommandPath.** A byte is one of the three HMI commands or `Other`. `Receive` is
`radioReceive` handing over a packet, `PutByte` one round of the loop of
`inputLoop`, `GetByte`, `GetNothing` and `Switch` one round of
`dealWithCritMessages`, whose condition is `!cbufGet(...)`: the switch runs when
the get found nothing. A call on the buffer is one step, which `Implements`
justifies.

**TelemetryPath.** A packet is its length and a mark. One packet of each
behaviour, any one, is marked; `mark` follows it (`waiting`, `dropped`, `sent`,
`garbled`). `batch` is the array `message` of `outputLoop` with its length;
`BytesCopied` is what the two copy loops of lines 102 and 112 copy, nothing.
`OutCheck`, `OutGet`, `OutAppend`/`OutSend` and `ManCheck`, `ManPrep`, `ManGet`,
`ManSend` are the calls on the buffer and on the radio in code order, so that
tasks interleave between any two of them. `Free` is what the heap has left: the
queued packets and requests take a block each, `leaked` counts those to which no
pointer is left, one for each put into a full buffer and one for each
`ManAlloc`. `NullUsed` is a put without memory, `ManGetAsserts` the assertion of
`cbufGet` on the NULL buffer of `mandatoryOutput`; both set `faulted`, after which
the model stops. `quietRounds` is a history variable: the frames without a packet
since the last frame with one.

**PacketRing, SimTransmit.** The four integer arrays and the counting semaphores
of `stdio_controller.c` for one direction. Of a packet the model keeps whether
its slot was never written, is half written, holds an unread packet or one that
was copied out. `ChooseSlot` to `GiveFlag` are the statements of `writeToBuf`,
`TakeFlag` to `MoveOn` those of `readFromBuf`. Each id has one writing task
(`RadioTask` through `uartSend`, `CanTask` through `canSend`) and all are read by
`outputLoop`. The ground station acknowledges a SYN; another answer trips an
assertion and ends the program, so it is not a step. `wire` is the kinds of
output so far; `PrintText` is the `printf` of tasks like `RadioTask`, which has a higher
priority than `outputLoop` and prints before the SYN.

**SimReceive.** On the receive side the readers have the highest priority and
`inputLoop` a low one: a step of `inputLoop` happens only while both readers wait
for packets (`ReadersWait`). `content` is what the slots of the rings hold. The
simulator sends one datagram per packet, so a call of `uartReceive` reads one
packet. `waiting` and `heldBack` of `DelayLine` are computed from the ring: a
packet is being answered, and the slot that the read index stands on.

**CanDriver.** `rxSem` is the semaphore of that name; `txSem` is created and never
taken. `ReceiveStart` and `SendStart` are the first take with the driver call under
it, `ReceiveEnd` and `SendEnd` the second take. `FrameAvailable` is the interrupt
that reads one frame of the FIFO and disables itself (`FLEXCAN_TransferAbortReceiveFifo`),
`TransmitComplete` the one of the transmit buffer. `CanTask` stores by packet id:
`readings` keeps which frame a table was filled from. One frame of each behaviour,
any one, is marked.

**RadioTransmit.** A frame is three or four chunks (prefix, header, data when there
is any, checksum), one `uartSend` each. `StartChunk` takes the mutex and starts the
transfer, `RefuseChunk` is the take that fails, `WaitComplete` the event,
`GiveTx` the mutex given back. `ByteOut` and `TransmissionComplete` are the two
parts of the interrupt handler, `SetTxEvent` the timer task. `txPended` is the queue
of the timer task as this path sees it: `TxOtherUart` is any request of the other
UARTs, or of the receiver of this one, and when the queue is full the completion is
refused. `frameOut`, `overlaps` and `stranded` (the task whose completion was
refused) are history variables.

**UartReceive.** `rxRing`, `rxDataSize`, `rxState` are members of `uart_handle_t`;
`pended` is the queue of the timer task, `rxEvent` the event group.
`StartReceive` is `UART_TransferReceiveNonBlocking`, which masks the interrupt;
`WaitForEvent` is `xEventGroupWaitBits`; `GiveUp` and `Accept` are what follows in
`UART_RTOS_Receive` and `ReadImuTask`. The handler's reaction to a byte, a framing
error (parity is off) and a hardware overrun are actions of their own. The
hardware loses the byte that an error concerns; the model keeps of a byte only
whether it was sent before or after some point, so that a swap of any two bytes
shows. `OtherUart` is a request of the UART of the radio, which shares the queue.
`refused`, `unreported`, `crowdedOut` and `late` are history variables.

**XbeeReceive.** Bytes are numbers, since the parser looks at them. `ReadStart`,
`ReadLengthMSB`, `ReadLengthLSB`, `ReadFrame` are the cases of the switch in
`_xbee_frame_load` and `InvalidState` its default: the state of a radio on the
stack of its task is not initialised (the `memset` of `xbee_dev_init` is commented
out). `ReadGivenUp` is a read that an overrun ends. `radioReceiveReturns` is the end
of the tick with the test of `radioReceive`. Of the packet in the slot the model keeps
`receive_packet_length`, the length of the frame less its header; `Dispatch` is
`_xbee_handle_receive`, which copies the whole length of the frame into a slot that is
shorter than the longest frame. `undefinedCopy` notes a copy past the slot, or one
with a negative length; what follows it is undefined, and the properties claim nothing
of it. `cleanBytes` is a history variable: how long the radio has now been sending
frames in which 0x7E is only the start.

## 3. Runs

| Run | Shows |
|---|---|
| `buffer_ring` | two tasks, a ring of 2, 4 blocks, all operations: consistent ring (`QueuedAreLive`), mutual exclusion (`HeldByOne`), where every block is (`OnlyDiscardsLeak`), and that the ring implements `DropOldestQueue` (`Implements`) |
| `buffer_overwrite` | violated: a put "will not overwrite existing data" |
| `abort_holds` | violated: a ground abort ends only on a fueling command not used before |
| `command_path` | packets of up to 2 bytes, a buffer of 2: no invented command (`StateWasCommanded`), only a fueling trigger can be stale (`OnlyFuelingLingers`), a last abort is acted on again and again (`LastAbortActedOn`) |
| `abort_lost` | violated: an abort byte that was got is acted on |
| `telemetry_path` | buffers of 2, frames below 50 bytes, 4 heap blocks: frames fit their array (`TypeOK`), no packet in two places or in none (`EachPacketOnce`), frames without a packet fill the batch (`QuietRoundsFillBatch`), the radio does not fall silent until the heap has run out (`RadioNeverSilent`) |
| `payload_lost` | violated: a frame holds the bytes it counts |
| `sim_transmit` | two ids, rings of 2: indices stay in the rings (`TypeOK`), nothing unwritten is read (`NeverReadsUnwritten`), the config packet goes before every other packet (`ConfigFirst`), the sender never waits (`SendingNeverBlocks`), new packets keep going out (`NewPacketsFlow`) |
| `sim_resend` | violated: each packet is sent once |
| `parts` | `MCParts`, see the next table |
| `uart_receive` | the IMU reader, see the next table |
| `false_success` | violated: a reception that succeeds has all its bytes |

The properties of `parts` and, for the IMU reader, of `uart_receive`:

| Part | Properties |
|---|---|
| state machine | all 11 states a test may force, all triggers: its types (`TypeOK`), `stateError` is never reached (`NeverError`), an abort wins over an ignition (`IgnitionIsClear`) |
| CAN | an interrupt ends only the wait that is for it, and a wait ends only when its transfer is over (`SemaphoreMeansDone`); the received frame does not change while `CanTask` uses it (`FrameHeldWhileUsed`); a frame that the FIFO took is stored in the end (`ReadingReachesTable`) |
| radio, sending | a call returns when its own bytes have left, and no event outlives the call (`SendIsSynchronous`); a frame loses chunks only while another task writes one (`AloneArrivesWhole`); every call returns unless the queue refused the completion of one of its own chunks (`EachRequestReturns`) |
| IMU reader | bytes stay in order over ring and buffer (`BytesInOrder`); an overrun is silent only when other UARTs crowd the queue (`OverrunReported`); the reader comes back from every wait unless the end of a debug output was refused or the other UARTs crowd the queue again and again (`ReaderReturns`) |
| radio, receiving | on a clean line the parser never leaves the frames (`StaysInSync`), after faults it returns to them for good if the radio sends long enough stretches of frames in which 0x7E is only the start (`RegainsSync`), no announced length outgrows `frame_data` (`XbeeTypeOK`), no packet is left for a later call (`NoStalePacket`), and only a packet that was sent, longer than the slot or shorter than its header, makes a copy undefined (`OnlyMisfitsUndefined`) |
| simulation link, receiving | indices stay in the rings (`SimRxTypeOK`); the rings are a line that holds back one packet (`IsDelayLine`) |

The six violated runs are disagreements between the code and a comment, header
or test of the repository; `PROJECT.json` quotes both sides under `findings`.

Every property of a passing run has a mutant in the module of the definition it
changes (`Mut...`, just before it): with the mutant in its place the property
fails under the same configuration.

`CHECK_DEADLOCK FALSE` is set for the buffer and for the telemetry path, because a
put that was given no memory stops these models, and nowhere else.

### Bounds

* Buffer: capacity 2 is what `bufferWraparoundTest` uses and the least with which
  a ring is neither empty nor full; 4 blocks let a full ring, a put in progress
  and a leaked block exist together and the next leak exhaust the heap; blocks
  and tasks are symmetric. The invariants are proved for all values.
* CommandPath: 2 bytes per packet and a capacity of 2 are the least with which a
  byte follows another before it is acted on, a packet finds the buffer partly
  full, and a put drops a byte. The safety properties are proved for all values.
* TelemetryPath: capacity 2 makes puts drop packets. Lengths are those of the
  code; the frame limit is 50 instead of 243, so that a config packet (47) fits
  alone but not with another packet, and four pings (40) fit but not five. Requests
  are for orientation packets (21). Four heap blocks let the buffers be full
  while a block is leaked, and run out; the code's heap is larger, and only delays
  that. The two invariants and the bound on quiet rounds are proved for all values.
* SimTransmit: rings and semaphores of 2 instead of 8 (the safety properties are
  proved for all sizes): the indices and the limit
  (from -2 to 2) go through their whole cycle, and writers lap the reader. No
  counter needs a bound: the code's own wraps bound them.
* parts, uart_receive: `FifoDepth` 2 instead of 6 and `RingCapacity` 2 instead of 199
  let the FIFO and the ring be empty, partly full, full and overflowing while a frame
  or a datagram of 2 bytes (instead of 40) is read. `QueueLength` is 4 (10 in the
  configuration): the queue can be filled by one kind of request and by several, and
  since `Crowded` leaves three places to the UARTs of the path, 4 is the least with
  which others can crowd it at all. Two senders and chunks of 2 bytes.
  Four frames: a packet with 0x7E as its checksum, one with 0x7E in its data, one with
  0x7E and an acceptable length in its data, and a status frame in which 0x7E is only
  the start. With a longest frame of 4 bytes (instead of 274), a header of 2 (12) and
  a slot of 3 (256) the third is too long for the slot, and the others fit it. (A packet
  shorter than its header would need a header of 3 or more; the proof covers it.) The
  third also locks a parser that lost its start byte, which is the case that
  `RegainsSync` excludes by its stretches. Noise is 0x7E or 0x00; one fault per
  behaviour; a line of 5 bytes, longer than a frame with its checksum; 2 frames per tick
  instead of 5. Rings of 2 packets and two values of packets on the receive side; rings
  of 3 and three values were checked too.

### Fairness

* `FairPathSpec`, `FairSpec`: weak fairness for each task. The radio tasks share
  the priority `tskIDLE_PRIORITY + 2` and never block for good; time slicing is
  off (`configUSE_TIME_SLICING 0`) but preemption is on, and `StateTask` wakes
  every 10 ms above them, after which the scheduler goes on with the next task of
  their priority, so each of them runs again and again. Nothing is assumed of
  what arrives: no packet, request, ping or ignition need ever come.
* `Spec` of SimTransmit: weak fairness for `outputLoop`, for `inputLoop` once the
  acknowledgement is there, and for a write that has begun. No task need begin
  one, nor the ground station acknowledge.
* `PartsSpec` and `UartSpec`: the weak fairness of each part's own specification.
  `CanTask` and `ReadImuTask` have the highest priority and share it with the timer
  task; each blocks in every round, so the others run. Interrupts are served, the bus
  acknowledges what is sent, and the inertial sensor never stops sending; CAN
  frames and calls of `radioTxRequest` need not come. A frame that was begun is
  written on. Other UARTs may fill the timer queue at any time or never. In XbeeReceive the radio keeps sending and a task keeps calling
  `radioReceive`; without further frames a parser that misread a length would wait
  for bytes for ever. On the simulation link the tasks run, the simulator need not
  send.

## 4. What is proved

Every safety property of a passing run is a theorem: the run shows it on a small
instance, the theorem for every value of the constants. The theorems rest on the
assumptions that the modules name, which TLC evaluates on every run:

| Assumption | Says | In the code |
|---|---|---|
| `MaxAssumption`, `SizeAssumption`, `ParameterAssumption`, `RingAssumption`, `FifoAssumption`, `UartAssumption`, `QueueAssumption` | capacities and lengths are positive; the longest packet that is prepared is shorter than a frame | `#define`s and arguments of `cbufInit` |
| `MarkerAssumption`, `PacketAssumption`, `SenderAssumption` | values that stand for "nothing" are not data | - |
| `TestStatesAssumption` | no test forces `stateError` | `test/` |
| `IdOrderAssumption` | `sendPackets` visits every id | the loop of `sendPackets` over the ids |
| `XbeeAssumption` | frames of the radio fit `frame_data` (not the slot) | `XBEE_MAX_RX_FRAME_LEN` |

Three theorems need a little more, stated as their hypothesis.
`SimRxImplementsDelayLine` needs `Size >= 2` (the code's is 8), which is the weakest
possible: TLC finds the property violated with 1. `XbeeStaysInSync` and
`XbeeOnlyMisfitsUndefined` need frames shorter than 126 * 256 bytes (the code's are at
most 274), so that no length begins with the start byte.

* `BufferProofs`: `RingTypeCorrect`, `MutualExclusion`, `NoDanglingSlot`,
  `MemoryAccounted`, for any number of tasks, messages, slots and blocks. The
  four invariants are not inductive. `IInv` adds three things: `full` implies
  `head = tail` (`Indices`), a freed buffer has no task inside (`Quiet`), and what
  a task knows of its block between two of its steps (`TaskInv`): the block it is
  about to store is nowhere else, the one it has stored is at `head`, the one it
  is about to free is no longer in the ring. The lemmas `Counted`,
  `AdvanceBetween` and `RetreatBetween` turn the size arithmetic of `cbufGetSize`
  into "the slots between tail and head", after which `Advance` and `Retreat` say
  that `advance_pointer` adds the slot at head and `retreat_pointer` removes the
  one at tail. One lemma per action does the rest; `Ends` (the slot at head is
  occupied exactly when the ring is full) is what the put into a full ring needs.
* `RingImplementsQueue` (BufferProofs): `Spec => Implements`, the ring refines
  `DropOldestQueue`. `DataInv` adds that a put between its allocation and its
  advance still knows its message. `WindowSeq` reads the ring as a sequence, and
  `CountAdvanced` and `CountRetreated` renumber its slots: after an advance of a full
  ring slot i + 1 is slot i. Then `PutStore` is the abstract put and `GetCopy` the
  get; `PutAdvance` and `GetRetreat`, one step later, change the ring so that its
  window becomes what the queue already was; all steps on the heap change only
  blocks that are not queued. This is what CommandPath and TelemetryPath rest on
  when they treat a call on a buffer as one step.
* `StateMachineProofs`: `TypeCorrect`, `StateErrorUnreachable` and
  `IgnitionClear` for every set of forced states; `StaleTriggers` for the
  firmware (no forced states). `StepCases` lists what one call can do, by looking
  up each row of the table that a function reaches; the invariant is the
  conjunction of the properties with `fresh \subseteq triggers`.
* `CommandPathProofs`: `PathTypeCorrect` and `OnlyCommandedStates` for every
  capacity and packet size. The latter needs that every byte in the packet, the
  buffer and the local variable was heard. `PathImplementsStateMachine`: every
  step of the composition is a step of the state machine or leaves it alone, from
  which `PathStaleTriggers` follows by `StaleTriggers`.
* `CanDriverProofs`: `CanTypeCorrect`, `SemaphoreUnambiguous` and `FrameHeld`, for a
  receive FIFO of any depth. `SemaphoreMeansDone` is inductive together with the
  types; `FrameHeld` follows because its second conjunct names the only place of
  CanTask at which the interrupt handler may read a frame.
* `RadioTransmitProofs`: `TxTypeCorrect`, `SendSynchronous` and `WholeWhenAlone`,
  for any number of senders and chunks of any length. `TxInv` adds to
  `SendIsSynchronous` that exactly the task between its take and its give holds
  the mutex and has a chunk to write (`HolderInside`), that a task no other has
  met is the only one writing (`AloneMeansAlone`), and that what such a task has
  put on the line and what it has still to write make up a frame (`AtFrame`). A
  chunk is refused only when another task holds the mutex, and so to no such task.
  All this holds for a timer queue of any length that may refuse the completion: the
  sender that is then stuck keeps the mutex, and `AloneArrivesWhole` says nothing of
  frames that overlap its own.
* `TelemetryPathProofs`: `TelemetryTypeCorrect` (a frame never outgrows its array,
  for any capacity and any frame limit above the longest packet),
  `TelemetryEachPacketOnce` and `TelemetryQuietRoundsFillBatch`. `PlaceInv` says that the marked packet is at one index
  of the transmit buffer or in one of three local variables, in one of them exactly
  when it waits, and that a task which is about to get a packet holds none. `QuietInv`
  says why frames without a packet cannot go on: when `mandatoryOutput` is about to get
  its ping, the ping is still in the buffer or `outputLoop` has gathered one packet more
  than there were such frames. This is the safety core of `RadioNeverSilent`.
* `ReceiveProofs`, IMU reader: `UartTypeCorrect`, `UartBytesInOrder`,
  `UartOverrunReported`, for rings, queues and datagrams of any size. `BytesInv`:
  while a reception is in progress the ring is empty and what is missing is what
  the driver still counts; so the bytes of a datagram are older than those of the
  ring. `EventsInv` counts what the UART of the sensor and the debug UART can have in
  the timer queue besides overruns: two completions that `ReadImuTask` has not seen and
  the end of one debug output. A full queue without an overrun in it thus has all its
  places but three taken by other UARTs, whatever its length; otherwise a refused
  overrun tells nothing new.
* `ReceiveProofs`, radio: `XbeeTypeCorrect`, `XbeeNoStalePacket`, `XbeeStaysInSync`
  and `XbeeOnlyMisfitsUndefined`, for any set of frames, noise and number of faults. `XbeeInv` adds what
  `bytesInFrame` is between the two bytes of a length, and when a tick ends.
  `SyncInv`: on a clean line, what was read of a frame, what is on the line and what
  the radio still sends make up whole frames (`Stream`). No reading step changes
  `Stream` until a frame is complete, and then takes its first frame away.
  `SlotInv` says that on a clean line the length in the slot is that of a packet which
  was sent. `StaysInSync` is about folds (`FlattenSeq`, the checksum), that is recursive
  definitions over data of any length. `NatSetInduction` gets induction over the
  naturals from the well-foundedness of finite subsets, in a form without operator
  parameters, and with it the lemmas show that the folds exist, unfold and have the
  expected types.
* `SimLinkProofs`, transmit side: `SimTransmitTypeCorrect`, `SimReadsOnlyWritten`,
  `SimConfigFirst`, `SimSendingNeverBlocks`, for any ids and rings of any size.
  `TransmitInv` has three parts besides `SendingNeverBlocks`: `RingIndexInv`, that an
  index is below `Size` wherever it is used, though it may equal `Size` in between;
  `RoundInv`, that either every slot was written or the writer is in its first round
  and the limit is `Size` behind it; `LinkInv`, what the position of the two loops
  says of the output so far.
* `SimLinkProofs`, receive side: `SimRxTypeCorrect`, and `SimRxImplementsDelayLine`:
  each packet is handed over once and in order, one packet late. `SimRxInv` follows
  the ring through the three phases of a packet: none waits (`QuietInv`), one is being
  written (`FillInv`), one is written and not answered (`WrittenInv`); in each it
  relates write index, read index and limit, which differ before and after the first
  wrap, and says which slot is held back and what it contains.

Only model-checked: the liveness properties (`LastAbortActedOn`,
`RadioNeverSilent`, `NewPacketsFlow`, `ReadingReachesTable`, `EachRequestReturns`,
`ReaderReturns`, `RegainsSync`) and the fairness in `IsDelayLine`, whose
initial states and steps are proved: TLAPS does not reason about ENABLED and
fairness. The violated properties have no theorem, of course.

## 5. What the checks say about the code

Holding: the buffer is a correct bounded queue that drops its oldest message,
under any interleaving, and leaks memory exactly when it drops, resets or frees.
The state machine never leaves its table. The radio path invents no command. The
CAN driver's one semaphore for two interrupts is never confused. Two tasks that
write to the radio at once damage each other's frames and nothing more.

Holding with a condition, which the property states:

* A sender waits for ever, with the mutex in its hands, when the full timer queue
  refuses the completion of its chunk; from then on every other frame is refused
  (`EachRequestReturns`). In the same way the IMU reader may stop, and an overrun go
  unreported (`ReaderReturns`, `OverrunReported`).
* The frame parser recovers from lost and added bytes when the radio sends a stretch,
  as long as the longest frame, of frames in which 0x7E is only the start
  (`RegainsSync`). One frame with 0x7E and a length inside, sent again and again, keeps
  it out of step for ever.
* Packets longer than the slot of `radio.c`, or ending within their header, make it
  copy past an array (`OnlyMisfitsUndefined`).
* `mandatoryOutput` keeps the radio from falling silent, and loses 243 bytes of heap on
  each ping: on a quiet link the heap runs out and the program ends
  (`RadioNeverSilent`).

Not holding, each with its run:

* A put into a full buffer overwrites, and leaks the overwritten block.
* After a ground abort has been ended by a fueling command, the command stays
  set: the next ground abort is undone within 10 ms, the next standby likewise.
  `OnlyFuelingLingers` shows that this trigger is the only one concerned.
* The tests `!cbufGet(...)` in `dealWithCritMessages` (and likewise in
  `dealWithLowMessages`) are inverted: only the last byte before the buffer runs
  empty is acted on, and again on every round after that. An abort followed
  closely by a ping is never acted on.
* `outputLoop` sends frames of the right length with none of the packets' bytes.
* The simulation link sends the first packet of an id twice and stays one packet
  behind. On the receive side, too, the program works with the packet before the
  newest: `IsDelayLine` says so exactly.
* After an overrun, the completion of the aborted reception may be set late, so
  that the next `uartReceive` succeeds with bytes missing.

## 6. Plan

1. Done: every component with a protocol of its own is modelled; all safety
   properties of the passing runs and the three refinements (`Implements`, the steps
   of `IsDelayLine`, `PathImplementsStateMachine`) are proved.
2. Next proofs: the safety cores of the liveness properties, that is which steps a
   waiting task needs and that none is ever undone (`EachRequestReturns`,
   `ReaderReturns`), as step lemmas; and lemmas that bound what a violated
   property can do, such as how far `sim_resend` can repeat a packet.

## 7. Not modelled

* Contents of packets and their conversions, timestamps, and the writes of
  `radioPrepGPS`, `radioPrepAccel` and `radioPrepDataDump` past the end of a
  packet: packets are lengths.
* `GSRadioInit` itself: its call is commented out at this commit; the radio
  models describe the tasks it creates, once it has returned.
* Shared variables: no setter of a sensor value is called in the sources. Two
  setters and getters have their bodies exchanged, so that the getters which
  `radioPrep...` calls write what they are given into the shared value; this
  changes only the contents of packets.
* The x86 radio: `xbee_ser_read` asks `uartRxUsed`, which is the number of bytes
  that only `uartReceive` itself adds, so that nothing is ever read.
* The assembly of one answer of `uartReceive` from several packets of the
  simulator; deinitialisation of drivers, which is never reached.
* Text that other tasks print to stdout in the middle of a packet of the simulation
  link (text before, between and after packets is `PrintText`), and the splitting of a byte
  into two characters.
* Memory that runs out, in `CommandPath`: a put through the NULL that `pvPortMalloc`
  then returns ends the program there as it does in `Buffer` and `TelemetryPath`, and
  `LastAbortActedOn` is about programs that do not end so. The blocks of the critical
  buffer are not counted in the heap of `TelemetryPath`: they make `HeapBlocks` smaller.
  A block there is one allocation, whatever its size.
* `prediction.c` and the numeric part of `IMU_interpret.c`: real arithmetic.
* Drivers for SD card, GPIO, time and RTT: pure I/O; `LogTask` opens the card and
  sleeps.
* Vendored code (FreeRTOS, FatFs, SDMMC, CMSIS, CControl, most of the drivers)
  except what the modelled tasks call: the frame parser and writer of the xbee
  library, transfers and interrupt handlers of `fsl_uart` and `fsl_flexcan`,
  `fsl_uart_freertos`. Of FreeRTOS the models take what its semaphores, event groups
  and the queue of the timer task promise. These parts are a small share of the
  249829 lines of the repository, most of which are register definitions, tables
  and libraries that the flight software does not use.
