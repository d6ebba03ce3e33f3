------------------------------- MODULE Buffer -------------------------------
(***************************************************************************)
(* The message buffer of common/src/buffer.c: a ring of Max pointers to    *)
(* heap blocks, a head, a tail and a full flag, guarded by one binary      *)
(* semaphore.  A put allocates a block, copies the message into it and     *)
(* stores its address at head; a get copies the message at tail out and    *)
(* frees its block.                                                        *)
(*                                                                         *)
(* Every call is cut into the steps another task can run between: taking   *)
(* the semaphore, the steps inside the critical section that touch the     *)
(* heap, the ring and the indices, and giving the semaphore back.          *)
(*                                                                         *)
(* The heap is a fixed set of blocks, each large enough for one message.   *)
(* pvPortMalloc returns NULL when none is free (configUSE_MALLOC_FAILED_-  *)
(* HOOK is 0) and cbufPut writes through it: nothing is said of what the   *)
(* program does from there on, and `faulted' ends the behaviour.           *)
(***************************************************************************)
EXTENDS Integers, Sequences, FiniteSets

CONSTANTS
    Task,        \* the tasks that share the buffer
    Message,     \* the messages they put (length and bytes together)
    Max,         \* cbuf->max: 512 for the three radio buffers, 2 in a test
    Block,       \* the addresses pvPortMalloc can return
    NoBlock,     \* a pointer to no block: NULL, or a slot never written
    NoMessage,   \* what a get of an empty buffer hands back (length 0)
    Unused       \* the content of a block that is not allocated

ASSUME MaxAssumption == Max \in Nat \ {0}
ASSUME MarkerAssumption == NoBlock \notin Block /\ Unused \notin Message

VARIABLES
    buffer,      \* cbuf->buffer: slot -> address
    head,        \* cbuf->head
    tail,        \* cbuf->tail
    full,        \* cbuf->full
    semaphore,   \* TRUE when cbuf->semaphore is available
    allocated,   \* TRUE from cbufInit to cbufFree
    heap,        \* block -> the message in it, or Unused
    pc,          \* pc[t]: where t is in its call
    call,        \* call[t]: the operation t is in, with the message it puts
    message,     \* message[t]: the local pointer `message' of put and get
    answer,      \* answer[t]: what t's get or query returned, until its next call
    faulted,     \* TRUE once a put has written through a NULL pointer
    discarded    \* history: blocks whose message was thrown away unread

ring == <<buffer, head, tail, full>>
local == <<pc, call, message>>
vars == <<buffer, head, tail, full, semaphore, allocated, heap, pc, call,
          message, answer, faulted, discarded>>

-----------------------------------------------------------------------------

Slot == 0 .. Max - 1

Query == {"checkEmpty", "checkFull", "getSize"}

Call == [op : {"put"}, data : Message]
          \cup [op : {"get", "reset"} \cup Query, data : {NoMessage}]

NoCall == [op |-> "none", data |-> NoMessage]

(***************************************************************************)
(* An index one further, wrapping at the end of the ring.                  *)
(* (Mutant: the wrap is forgotten.)                                        *)
(***************************************************************************)
MutSuccNoWrap(i) == i + 1

Succ(i) == IF i + 1 = Max THEN 0 ELSE i + 1

IsEmpty == ~full /\ head = tail

(***************************************************************************)
(* cbufGetSize, and the slots it counts: the i-th oldest message is in     *)
(* SlotOf(i).                                                              *)
(***************************************************************************)
Size == IF full THEN Max
        ELSE IF head >= tail THEN head - tail ELSE Max + head - tail

SlotOf(i) == IF tail + i >= Max THEN tail + i - Max ELSE tail + i

Occupied == {SlotOf(i) : i \in 0 .. Size - 1}

Queued == IF allocated THEN {buffer[s] : s \in Occupied} ELSE {}

Live == {b \in Block : heap[b] # Unused}

Bit(condition) == IF condition THEN 1 ELSE 0

At(t, l) == pc[t] = l /\ ~faulted

Goto(t, l) == pc' = [pc EXCEPT ![t] = l]

-----------------------------------------------------------------------------

Init == /\ buffer = [s \in Slot |-> NoBlock]
        /\ head = 0 /\ tail = 0 /\ full = FALSE
        /\ semaphore = TRUE
        /\ allocated = TRUE
        /\ heap = [b \in Block |-> Unused]
        /\ pc = [t \in Task |-> "idle"]
        /\ call = [t \in Task |-> NoCall]
        /\ message = [t \in Task |-> NoBlock]
        /\ answer = [t \in Task |-> NoMessage]
        /\ faulted = FALSE
        /\ discarded = {}

(***************************************************************************)
(* A task calls the buffer, waits for the semaphore and takes it; at the   *)
(* end it gives it back and its local variables go out of scope.           *)
(***************************************************************************)
Enter(t) ==
    /\ At(t, "idle") /\ allocated
    /\ \E c \in Call : call' = [call EXCEPT ![t] = c]
    /\ answer' = [answer EXCEPT ![t] = NoMessage]
    /\ Goto(t, "take")
    /\ UNCHANGED <<ring, semaphore, allocated, heap, message, faulted, discarded>>

Take(t) ==
    /\ At(t, "take") /\ semaphore
    /\ semaphore' = FALSE
    /\ Goto(t, "inside")
    /\ UNCHANGED <<ring, allocated, heap, call, message, answer, faulted,
                   discarded>>

Give(t) ==
    /\ At(t, "give")
    /\ semaphore' = TRUE
    /\ call' = [call EXCEPT ![t] = NoCall]
    /\ message' = [message EXCEPT ![t] = NoBlock]
    /\ Goto(t, "idle")
    /\ UNCHANGED <<ring, allocated, heap, answer, faulted, discarded>>

-----------------------------------------------------------------------------
(* cbufPut: allocate and fill a block, store it at head, advance.          *)

PutAllocate(t) ==
    /\ At(t, "inside") /\ call[t].op = "put"
    /\ \E b \in Block \ Live :
          /\ message' = [message EXCEPT ![t] = b]
          /\ heap' = [heap EXCEPT ![b] = call[t].data]
    /\ Goto(t, "store")
    /\ UNCHANGED <<ring, semaphore, allocated, call, answer, faulted, discarded>>

PutFault(t) ==
    /\ At(t, "inside") /\ call[t].op = "put"
    /\ Live = Block
    /\ faulted' = TRUE
    /\ UNCHANGED <<ring, semaphore, allocated, heap, local, answer, discarded>>

(* In a full ring head = tail: the store loses the oldest pointer. *)
PutStore(t) ==
    /\ At(t, "store")
    /\ buffer' = [buffer EXCEPT ![head] = message[t]]
    /\ discarded' = IF full THEN discarded \cup {buffer[head]} ELSE discarded
    /\ Goto(t, "advance")
    /\ UNCHANGED <<head, tail, full, semaphore, allocated, heap, call, message,
                   answer, faulted>>

(* Mutant: the tail does not make way in a full ring. *)
MutPutAdvanceKeepTail(t) ==
    /\ At(t, "advance")
    /\ head' = Succ(head)
    /\ full' = (head' = tail)
    /\ Goto(t, "give")
    /\ UNCHANGED <<buffer, tail, semaphore, allocated, heap, call, message,
                   answer, faulted, discarded>>

PutAdvance(t) ==
    /\ At(t, "advance")
    /\ tail' = IF full THEN Succ(tail) ELSE tail
    /\ head' = Succ(head)
    /\ full' = (head' = tail')
    /\ Goto(t, "give")
    /\ UNCHANGED <<buffer, semaphore, allocated, heap, call, message, answer,
                   faulted, discarded>>

-----------------------------------------------------------------------------
(* cbufGet: copy the oldest message out, retreat, free its block.          *)

(* Mutant: the early return of an empty get skips the give. *)
MutGetNothingNoGive(t) ==
    /\ At(t, "inside") /\ call[t].op = "get" /\ IsEmpty
    /\ Goto(t, "idle")
    /\ UNCHANGED <<ring, semaphore, allocated, heap, call, message, answer,
                   faulted, discarded>>

GetNothing(t) ==
    /\ At(t, "inside") /\ call[t].op = "get" /\ IsEmpty
    /\ answer' = [answer EXCEPT ![t] = NoMessage]
    /\ Goto(t, "give")
    /\ UNCHANGED <<ring, semaphore, allocated, heap, call, message, faulted,
                   discarded>>

GetCopy(t) ==
    /\ At(t, "inside") /\ call[t].op = "get" /\ ~IsEmpty
    /\ message' = [message EXCEPT ![t] = buffer[tail]]
    /\ answer' = [answer EXCEPT ![t] = heap[buffer[tail]]]
    /\ Goto(t, "retreat")
    /\ UNCHANGED <<ring, semaphore, allocated, heap, call, faulted, discarded>>

(* Mutant: the full flag is not reset. *)
MutGetRetreatStaysFull(t) ==
    /\ At(t, "retreat")
    /\ tail' = Succ(tail)
    /\ Goto(t, "free")
    /\ UNCHANGED <<buffer, head, full, semaphore, allocated, heap, call, message,
                   answer, faulted, discarded>>

GetRetreat(t) ==
    /\ At(t, "retreat")
    /\ full' = FALSE
    /\ tail' = Succ(tail)
    /\ Goto(t, "free")
    /\ UNCHANGED <<buffer, head, semaphore, allocated, heap, call, message,
                   answer, faulted, discarded>>

(* Mutant: the block of a message that was read is not freed. *)
MutGetFreeForgets(t) ==
    /\ At(t, "free")
    /\ Goto(t, "give")
    /\ UNCHANGED <<ring, semaphore, allocated, heap, call, message, answer,
                   faulted, discarded>>

GetFree(t) ==
    /\ At(t, "free")
    /\ heap' = [heap EXCEPT ![message[t]] = Unused]
    /\ Goto(t, "give")
    /\ UNCHANGED <<ring, semaphore, allocated, call, message, answer, faulted,
                   discarded>>

-----------------------------------------------------------------------------
(* cbufCheckEmpty, cbufCheckFull and cbufGetSize.                          *)

QueryResult(q) == CASE q = "checkEmpty" -> Bit(IsEmpty)
                    [] q = "checkFull"  -> Bit(full)
                    [] q = "getSize"    -> Size

AnswerQuery(t) ==
    /\ At(t, "inside") /\ call[t].op \in Query
    /\ answer' = [answer EXCEPT ![t] = QueryResult(call[t].op)]
    /\ Goto(t, "give")
    /\ UNCHANGED <<ring, semaphore, allocated, heap, call, message, faulted,
                   discarded>>

(***************************************************************************)
(* cbufReset and cbufFree forget the queued messages without freeing their *)
(* blocks.  cbufFree is called only by the tests, from the one task there  *)
(* is: no call is under way.  cbufInit allocates a ring of unwritten slots.*)
(***************************************************************************)
Reset(t) ==
    /\ At(t, "inside") /\ call[t].op = "reset"
    /\ head' = 0 /\ tail' = 0 /\ full' = FALSE
    /\ discarded' = discarded \cup Queued
    /\ Goto(t, "give")
    /\ UNCHANGED <<buffer, semaphore, allocated, heap, call, message, answer,
                   faulted>>

Free ==
    /\ allocated /\ \A t \in Task : At(t, "idle")
    /\ allocated' = FALSE
    /\ discarded' = discarded \cup Queued
    /\ UNCHANGED <<ring, semaphore, heap, local, answer, faulted>>

Create ==
    /\ ~allocated
    /\ buffer' = [s \in Slot |-> NoBlock]
    /\ head' = 0 /\ tail' = 0 /\ full' = FALSE
    /\ semaphore' = TRUE
    /\ allocated' = TRUE
    /\ UNCHANGED <<heap, local, answer, faulted, discarded>>

-----------------------------------------------------------------------------

(* The steps of a call once it has begun. *)
Step(t) == \/ Take(t) \/ Give(t)
           \/ PutAllocate(t) \/ PutFault(t) \/ PutStore(t) \/ PutAdvance(t)
           \/ GetNothing(t) \/ GetCopy(t) \/ GetRetreat(t) \/ GetFree(t)
           \/ AnswerQuery(t) \/ Reset(t)

Next == \/ \E t \in Task : Enter(t) \/ Step(t)
        \/ Free \/ Create

Spec == Init /\ [][Next]_vars

-----------------------------------------------------------------------------

TypeOK == /\ buffer \in [Slot -> Block \cup {NoBlock}]
          /\ head \in Slot /\ tail \in Slot /\ full \in BOOLEAN
          /\ semaphore \in BOOLEAN /\ allocated \in BOOLEAN
          /\ heap \in [Block -> Message \cup {Unused}]
          /\ pc \in [Task -> {"idle", "take", "inside", "store", "advance",
                              "retreat", "free", "give"}]
          /\ call \in [Task -> Call \cup {NoCall}]
          /\ message \in [Task -> Block \cup {NoBlock}]
          /\ answer \in [Task -> Message \cup {NoMessage} \cup 0 .. Max]
          /\ faulted \in BOOLEAN
          /\ discarded \subseteq Block

(***************************************************************************)
(* Every queued message sits in an allocated block of its own: a get never *)
(* copies from a slot that was not written, from a block already freed, or *)
(* from the block of another message.  cbufGet checks only IsEmpty, so     *)
(* this rests on head, tail and full always agreeing with what the puts    *)
(* and gets of all tasks stored.                                           *)
(***************************************************************************)
QueuedAreLive ==
    allocated => \A s \in Occupied :
        /\ buffer[s] \in Live
        /\ \A r \in Occupied : buffer[r] = buffer[s] => r = s

(***************************************************************************)
(* Where every allocated block is: queued, in the hands of the task that   *)
(* is putting or freeing it, or lost because its message was discarded by  *)
(* a put into a full ring, a reset or a free.  So a message that is read   *)
(* is always freed, once, and the buffer leaks memory exactly when it      *)
(* discards messages.                                                      *)
(***************************************************************************)
Held == {message[t] : t \in {u \in Task : pc[u] \in {"store", "advance", "free"}}}

OnlyDiscardsLeak == /\ Live = Queued \cup Held \cup discarded
                    /\ discarded \cap (Queued \cup Held) = {}

(***************************************************************************)
(* The semaphore is unavailable exactly while one task is inside, whatever *)
(* the tasks call and however they interleave: no path gives what it did   *)
(* not take (which would let a second task in) or returns without giving   *)
(* (after which every task that uses the buffer waits for ever).           *)
(***************************************************************************)
Inside == {t \in Task : pc[t] \notin {"idle", "take"}}

HeldByOne == /\ semaphore => Inside = {}
             /\ ~semaphore => \E t \in Task : Inside = {t}

(***************************************************************************)
(* buffer.h, 52-53: a put "will not overwrite existing data".  What was    *)
(* queued when a put stores its message is still queued afterwards.        *)
(***************************************************************************)
PutKeepsExisting ==
    [][\A t \in Task : pc[t] = "store" /\ pc'[t] = "advance"
                           => Queued \subseteq Queued']_vars

(***************************************************************************)
(* The ring implements the queue that drops its oldest message.  A put     *)
(* takes effect when it stores its pointer, a get when it copies the       *)
(* message out; the indices follow one step later, hence the two cases.    *)
(***************************************************************************)
Window == [i \in 1 .. Size |-> heap[buffer[SlotOf(i - 1)]]]

Putting == {t \in Task : pc[t] = "advance"}
Getting == {t \in Task : pc[t] = "retreat"}

Contents ==
    IF ~allocated THEN <<>>
    ELSE IF Putting # {}
         THEN Append(IF full THEN Tail(Window) ELSE Window,
                     call[CHOOSE t \in Putting : TRUE].data)
    ELSE IF Getting # {} THEN Tail(Window) ELSE Window

Queue == INSTANCE DropOldestQueue WITH Capacity <- Max, queue <- Contents

Implements == Queue!Spec
=============================================================================
