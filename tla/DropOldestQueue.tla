--------------------------- MODULE DropOldestQueue ---------------------------
(***************************************************************************)
(* What a message buffer of common/src/buffer.c promises to the tasks that *)
(* share it: a FIFO queue of whole messages, every call on it indivisible, *)
(* that makes room for a new message by dropping the oldest one.           *)
(*                                                                         *)
(* The module is used in two ways.  Buffer, the detailed model of the ring *)
(* and its semaphore, is shown to implement Spec; and the models of the    *)
(* radio tasks, for which a buffer is only a queue, take the operators     *)
(* Enqueue and Dequeue from here and keep one queue per buffer.            *)
(***************************************************************************)
EXTENDS Integers, Sequences

CONSTANTS
    Task,        \* the tasks that call the buffer
    Message,     \* what they put into it
    Capacity,    \* the number of messages it holds
    NoMessage    \* what a get of an empty buffer hands back (length 0)

-----------------------------------------------------------------------------

(***************************************************************************)
(* The queue after a put: at capacity the oldest message is dropped.       *)
(***************************************************************************)
Enqueue(q, m) == Append(IF Len(q) = Capacity THEN Tail(q) ELSE q, m)

(***************************************************************************)
(* What a get hands back, and the queue after it.                          *)
(***************************************************************************)
Oldest(q) == IF q = <<>> THEN NoMessage ELSE Head(q)

Dequeue(q) == IF q = <<>> THEN q ELSE Tail(q)

-----------------------------------------------------------------------------

VARIABLES
    queue,       \* the messages in the buffer, oldest first
    answer       \* answer[t]: what t's get or query returned, until its next call

vars == <<queue, answer>>

(***************************************************************************)
(* A query returns the number of messages, or a C truth value.             *)
(***************************************************************************)
Bit(condition) == IF condition THEN 1 ELSE 0

Reply(t, a) == answer' = [answer EXCEPT ![t] = a]

Init == /\ queue = <<>>
        /\ answer = [t \in Task |-> NoMessage]

(* A task that begins a call lets go of what its last one returned. *)
Begin(t) == Reply(t, NoMessage) /\ UNCHANGED queue

Put(m) == queue' = Enqueue(queue, m) /\ UNCHANGED answer

Get(t) == queue' = Dequeue(queue) /\ Reply(t, Oldest(queue))

CheckEmpty(t) == Reply(t, Bit(queue = <<>>)) /\ UNCHANGED queue

CheckFull(t) == Reply(t, Bit(Len(queue) = Capacity)) /\ UNCHANGED queue

GetSize(t) == Reply(t, Len(queue)) /\ UNCHANGED queue

Clear == queue' = <<>> /\ UNCHANGED answer

Next == \/ \E m \in Message : Put(m)
        \/ \E t \in Task : Begin(t)
        \/ \E t \in Task : Get(t) \/ CheckEmpty(t) \/ CheckFull(t) \/ GetSize(t)
        \/ Clear

Spec == Init /\ [][Next]_vars
=============================================================================
