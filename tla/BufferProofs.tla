---------------------------- MODULE BufferProofs ----------------------------
(***************************************************************************)
(* Theorems about the message buffer, for every number of tasks, messages, *)
(* slots and heap blocks.                                                  *)
(***************************************************************************)
EXTENDS Buffer, SequenceTheorems, TLAPS

-----------------------------------------------------------------------------
(* The ring.  The first lemmas are about index values, so that they serve  *)
(* before and after a step alike.                                          *)

Consistent(h, t, f) == h \in Slot /\ t \in Slot /\ f \in BOOLEAN /\ (f => h = t)

(***************************************************************************)
(* Slot s lies between tail t and head h, going round.                     *)
(***************************************************************************)
Between(s, h, t, f) == \/ f
                       \/ t <= s /\ s < h
                       \/ h < t /\ (t <= s \/ s < h)

Count(h, t, f) == IF f THEN Max ELSE IF h >= t THEN h - t ELSE Max + h - t

From(t, i) == IF t + i >= Max THEN t + i - Max ELSE t + i

LEMMA Counted ==
    ASSUME NEW h, NEW t, NEW f, Consistent(h, t, f)
    PROVE  {From(t, i) : i \in 0 .. Count(h, t, f) - 1}
               = {s \in Slot : Between(s, h, t, f)}
  <1> USE MaxAssumption DEF Consistent, Slot
  <1>1. Count(h, t, f) \in 0 .. Max
    BY DEF Count
  <1>2. ASSUME NEW i \in 0 .. Count(h, t, f) - 1
        PROVE  From(t, i) \in Slot /\ Between(From(t, i), h, t, f)
    BY <1>1, <1>2 DEF From, Count, Between
  <1>3. ASSUME NEW s \in Slot, Between(s, h, t, f)
        PROVE  \E i \in 0 .. Count(h, t, f) - 1 : s = From(t, i)
    <2>1. CASE t <= s
      <3>1. s - t \in 0 .. Count(h, t, f) - 1 /\ s = From(t, s - t)
        BY <1>3, <2>1 DEF From, Count, Between
      <3> QED
        BY <3>1
    <2>2. CASE s < t
      <3>1. Max + s - t \in 0 .. Count(h, t, f) - 1 /\ s = From(t, Max + s - t)
        BY <1>3, <2>2 DEF From, Count, Between
      <3> QED
        BY <3>1
    <2> QED
      BY <2>1, <2>2
  <1> QED
    BY <1>2, <1>3

LEMMA SuccSlot == \A i \in Slot : Succ(i) \in Slot
  BY MaxAssumption DEF Slot, Succ

(***************************************************************************)
(* Moving the head past its slot adds that slot; in a full ring, where the *)
(* tail moves along, it changes nothing but which slot is the oldest.      *)
(***************************************************************************)
LEMMA AdvanceBetween ==
    ASSUME NEW h, NEW t, NEW f, Consistent(h, t, f),
           NEW t2, t2 = IF f THEN Succ(t) ELSE t
    PROVE  \A s \in Slot : Between(s, Succ(h), t2, Succ(h) = t2)
                               <=> Between(s, h, t, f) \/ s = h
  BY MaxAssumption DEF Consistent, Slot, Between, Succ

(***************************************************************************)
(* Moving the tail of a ring that is not empty removes the slot at tail.   *)
(***************************************************************************)
LEMMA RetreatBetween ==
    ASSUME NEW h, NEW t, NEW f, Consistent(h, t, f), f \/ h # t
    PROVE  \A s \in Slot : Between(s, h, Succ(t), FALSE)
                               <=> Between(s, h, t, f) /\ s # t
  BY MaxAssumption DEF Consistent, Slot, Between, Succ

-----------------------------------------------------------------------------

Indices == Consistent(head, tail, full)

LEMMA OccupiedSlots ==
    Indices => Occupied = {s \in Slot : Between(s, head, tail, full)}
  BY Counted DEF Indices, Occupied, SlotOf, Size, From, Count

LEMMA OccupiedSlotsAfter ==
    Indices' => Occupied' = {s \in Slot : Between(s, head', tail', full')}
  BY Counted DEF Indices, Occupied, SlotOf, Size, From, Count

(***************************************************************************)
(* advance_pointer adds the slot at head to those occupied.                *)
(***************************************************************************)
LEMMA Advance ==
    ASSUME Indices,
           tail' = IF full THEN Succ(tail) ELSE tail,
           head' = Succ(head),
           full' = (head' = tail')
    PROVE  Indices' /\ Occupied' = Occupied \cup {head}
  <1>1. Indices'
    BY SuccSlot DEF Indices, Consistent
  <1>2. \A s \in Slot : Between(s, head', tail', full')
                            <=> Between(s, head, tail, full) \/ s = head
    BY AdvanceBetween DEF Indices
  <1>3. head \in Slot
    BY DEF Indices, Consistent
  <1> QED
    BY <1>1, <1>2, <1>3, OccupiedSlots, OccupiedSlotsAfter

(***************************************************************************)
(* retreat_pointer of a ring that is not empty removes the slot at tail.   *)
(***************************************************************************)
LEMMA Retreat ==
    ASSUME Indices, ~IsEmpty, tail' = Succ(tail), full' = FALSE, head' = head
    PROVE  Indices' /\ Occupied' = Occupied \ {tail}
  <1>1. Indices'
    BY SuccSlot DEF Indices, Consistent
  <1>2. \A s \in Slot : Between(s, head', tail', full')
                            <=> Between(s, head, tail, full) /\ s # tail
    BY RetreatBetween DEF Indices, IsEmpty
  <1> QED
    BY <1>1, <1>2, OccupiedSlots, OccupiedSlotsAfter

(***************************************************************************)
(* The slot at head is occupied exactly when the ring is full, the slot at *)
(* tail exactly when it is not empty.                                      *)
(***************************************************************************)
LEMMA Ends ==
    ASSUME Indices
    PROVE  /\ Occupied \subseteq Slot
           /\ full <=> head \in Occupied
           /\ ~IsEmpty <=> tail \in Occupied
  <1>1. Occupied = {s \in Slot : Between(s, head, tail, full)}
    BY OccupiedSlots
  <1>2. head \in Slot /\ tail \in Slot
    BY DEF Indices, Consistent
  <1>3. Between(head, head, tail, full) <=> full
    BY MaxAssumption DEF Indices, Consistent, Slot, Between
  <1>4. Between(tail, head, tail, full) <=> ~IsEmpty
    BY MaxAssumption DEF Indices, Consistent, Slot, Between, IsEmpty
  <1> QED
    BY <1>1, <1>2, <1>3, <1>4

(***************************************************************************)
(* A ring whose head and tail are both 0 and that is not full holds none.  *)
(***************************************************************************)
LEMMA EmptyRing == Consistent(0, 0, FALSE) /\ \A s \in Slot : ~Between(s, 0, 0, FALSE)
  BY MaxAssumption DEF Consistent, Slot, Between

LEMMA Emptied ==
    ASSUME head' = 0, tail' = 0, full' = FALSE
    PROVE  Indices' /\ Occupied' = {}
  <1>1. Indices'
    BY EmptyRing DEF Indices
  <1> QED
    BY <1>1, EmptyRing, OccupiedSlotsAfter

-----------------------------------------------------------------------------
(* The inductive invariant.                                                *)

(***************************************************************************)
(* What a task knows of its block between two of its steps.                *)
(***************************************************************************)
TaskInv(t) ==
    /\ pc[t] \in {"store", "free"} =>
          message[t] \in Live \ (Queued \cup discarded)
    /\ pc[t] = "advance" =>
          /\ buffer[head] = message[t]
          /\ message[t] \in Live \ discarded
          /\ ~full => message[t] \notin Queued
    /\ pc[t] = "retreat" => ~IsEmpty /\ message[t] = buffer[tail]

Quiet == ~allocated => \A t \in Task : pc[t] = "idle"

IInv == /\ TypeOK /\ HeldByOne /\ Indices /\ Quiet
        /\ QueuedAreLive /\ OnlyDiscardsLeak
        /\ \A t \in Task : TaskInv(t)

(***************************************************************************)
(* What TypeOK says of a call that is a put, and of blocks in use.         *)
(***************************************************************************)
LEMMA PutData == ASSUME TypeOK, NEW t \in Task, call[t].op = "put"
                 PROVE  call[t].data \in Message
  <1>1. call[t] \in Call \cup {NoCall}
    BY DEF TypeOK
  <1>2. "put" \notin {"get", "reset"} \cup Query
    BY DEF Query
  <1> QED
    BY <1>1, <1>2 DEF Call, NoCall

LEMMA LiveData == ASSUME TypeOK, NEW b \in Live
                  PROVE  b \in Block /\ heap[b] \in Message
  BY DEF TypeOK, Live

(***************************************************************************)
(* While t is inside, no other task is, nor holds a block.                 *)
(***************************************************************************)
Holding == {"store", "advance", "free"}

LEMMA InsideAlone ==
    ASSUME IInv, NEW t \in Task, pc[t] \notin {"idle", "take"}
    PROVE  /\ Inside = {t} /\ ~semaphore /\ allocated
           /\ \A u \in Task \ {t} : pc[u] \in {"idle", "take"}
           /\ Held = IF pc[t] \in Holding THEN {message[t]} ELSE {}
  <1>1. Inside = {t} /\ ~semaphore
    BY DEF IInv, HeldByOne, Inside
  <1>2. allocated
    BY DEF IInv, Quiet, TypeOK
  <1>3. \A u \in Task \ {t} : pc[u] \in {"idle", "take"}
    BY <1>1 DEF Inside
  <1> QED
    BY <1>1, <1>2, <1>3 DEF Held, Holding

(***************************************************************************)
(* A step of t that keeps it inside leaves the other tasks outside.        *)
(***************************************************************************)
LEMMA StayInside ==
    ASSUME IInv, NEW t \in Task, pc[t] \notin {"idle", "take"},
           NEW l \in {"inside", "store", "advance", "retreat", "free", "give"},
           Goto(t, l), semaphore' = semaphore, allocated' = allocated
    PROVE  /\ HeldByOne' /\ Quiet' /\ pc'[t] = l
           /\ pc' \in [Task -> {"idle", "take", "inside", "store", "advance",
                                "retreat", "free", "give"}]
           /\ \A u \in Task \ {t} : pc'[u] \in {"idle", "take"}
           /\ Held' = IF l \in Holding THEN {message'[t]} ELSE {}
  <1> USE InsideAlone
  <1>1. /\ pc'[t] = l /\ \A u \in Task \ {t} : pc'[u] = pc[u]
        /\ pc' \in [Task -> {"idle", "take", "inside", "store", "advance",
                                "retreat", "free", "give"}]
    BY DEF Goto, IInv, TypeOK
  <1>2. Inside' = {t}
    BY <1>1 DEF Inside
  <1>3. HeldByOne' /\ Quiet'
    BY <1>2 DEF HeldByOne, Quiet
  <1>4. Held' = IF l \in Holding THEN {message'[t]} ELSE {}
    BY <1>1 DEF Held, Holding
  <1> QED
    BY <1>1, <1>3, <1>4

(***************************************************************************)
(* Queued only depends on the ring.                                        *)
(***************************************************************************)
LEMMA SameRing ==
    ASSUME UNCHANGED <<ring, allocated>>
    PROVE  /\ Occupied' = Occupied /\ Queued' = Queued /\ IsEmpty' = IsEmpty
           /\ Indices' = Indices
  BY DEF ring, Occupied, Queued, IsEmpty, SlotOf, Size, Indices

(***************************************************************************)
(* The obligation about the task that takes a step is the only one there   *)
(* is: a task outside holds no block.                                      *)
(***************************************************************************)
LEMMA OtherTasks ==
    ASSUME NEW t \in Task, TaskInv(t)',
           \A u \in Task \ {t} : pc'[u] \in {"idle", "take"}
    PROVE  \A u \in Task : TaskInv(u)'
  BY DEF TaskInv

(***************************************************************************)
(* A step that leaves the ring, the heap and the held blocks alone.        *)
(***************************************************************************)
LEMMA NothingMoves ==
    ASSUME IInv, UNCHANGED <<ring, allocated, heap, discarded>>, Held' = Held
    PROVE  Indices' /\ QueuedAreLive' /\ OnlyDiscardsLeak' /\ Live' = Live
  <1>1. Occupied' = Occupied /\ Queued' = Queued /\ Indices' /\ Live' = Live
    BY SameRing DEF IInv, Live
  <1> QED
    BY <1>1 DEF IInv, QueuedAreLive, OnlyDiscardsLeak, ring

-----------------------------------------------------------------------------
(* The initial states, and one lemma for each action.                      *)

LEMMA InitIInv == Init => IInv
  <1> SUFFICES ASSUME Init PROVE IInv
    OBVIOUS
  <1>1. TypeOK
    <2>1. 0 \in Slot
      BY MaxAssumption DEF Slot
    <2> QED
      BY <2>1 DEF Init, TypeOK
  <1>2. HeldByOne /\ Quiet
    BY DEF Init, HeldByOne, Inside, Quiet
  <1>3. Indices
    BY EmptyRing DEF Init, Indices
  <1>4. Occupied = {} /\ Queued = {} /\ Live = {} /\ Held = {}
    BY <1>3, EmptyRing, OccupiedSlots DEF Init, Queued, Live, Held
  <1>5. QueuedAreLive /\ OnlyDiscardsLeak
    BY <1>4 DEF Init, QueuedAreLive, OnlyDiscardsLeak
  <1>6. \A t \in Task : TaskInv(t)
    BY DEF Init, TaskInv
  <1> QED
    BY <1>1, <1>2, <1>3, <1>5, <1>6 DEF IInv

LEMMA EnterIInv == ASSUME IInv, NEW t \in Task, Enter(t) PROVE IInv'
  <1>1. \E c \in Call : call' = [call EXCEPT ![t] = c]
    BY DEF Enter
  <1>2. TypeOK'
    BY <1>1 DEF IInv, TypeOK, Enter, Goto, ring
  <1>3. /\ \A u \in Task \ {t} : pc'[u] = pc[u]
        /\ pc[t] = "idle" /\ pc'[t] = "take"
    BY DEF Enter, At, Goto, IInv, TypeOK
  <1>4. Inside' = Inside /\ Held' = Held
    BY <1>3 DEF Inside, Held, Enter
  <1>5. HeldByOne' /\ Quiet'
    BY <1>4 DEF IInv, HeldByOne, Quiet, Enter
  <1>6. Indices' /\ QueuedAreLive' /\ OnlyDiscardsLeak' /\ Live' = Live
    BY <1>4, NothingMoves DEF Enter, ring
  <1>7. Queued' = Queued /\ IsEmpty' = IsEmpty
    BY SameRing DEF Enter, ring
  <1>8. \A u \in Task : TaskInv(u)'
    BY <1>3, <1>6, <1>7 DEF IInv, TaskInv, Enter, ring
  <1> QED
    BY <1>2, <1>5, <1>6, <1>8 DEF IInv

LEMMA TakeIInv == ASSUME IInv, NEW t \in Task, Take(t) PROVE IInv'
  <1>1. TypeOK'
    BY DEF IInv, TypeOK, Take, Goto, ring
  <1>2. /\ \A u \in Task \ {t} : pc'[u] = pc[u]
        /\ pc[t] = "take" /\ pc'[t] = "inside"
    BY DEF Take, At, Goto, IInv, TypeOK
  <1>3. Inside = {} /\ allocated
    BY <1>2 DEF IInv, HeldByOne, Quiet, Take, TypeOK
  <1>4. Inside' = {t} /\ Held' = Held
    BY <1>2, <1>3 DEF Inside, Held, Take
  <1>5. HeldByOne' /\ Quiet'
    BY <1>3, <1>4 DEF HeldByOne, Quiet, Take
  <1>6. Indices' /\ QueuedAreLive' /\ OnlyDiscardsLeak' /\ Live' = Live
    BY <1>4, NothingMoves DEF Take, ring
  <1>7. \A u \in Task \ {t} : pc'[u] \in {"idle", "take"}
    BY <1>2, <1>3 DEF Inside
  <1>8. \A u \in Task : TaskInv(u)'
    BY <1>2, <1>7 DEF TaskInv
  <1> QED
    BY <1>1, <1>5, <1>6, <1>8 DEF IInv

LEMMA GiveIInv == ASSUME IInv, NEW t \in Task, Give(t) PROVE IInv'
  <1>1. TypeOK'
    BY DEF IInv, TypeOK, Give, Goto, ring
  <1>2. /\ \A u \in Task \ {t} : pc'[u] = pc[u]
        /\ pc[t] = "give" /\ pc'[t] = "idle"
    BY DEF Give, At, Goto, IInv, TypeOK
  <1>3. Inside = {t} /\ Held = {} /\ allocated
    BY <1>2, InsideAlone DEF Holding
  <1>4. Inside' = {} /\ Held' = Held
    BY <1>2, <1>3 DEF Inside, Held, Give
  <1>5. HeldByOne' /\ Quiet'
    BY <1>3, <1>4 DEF HeldByOne, Quiet, Give
  <1>6. Indices' /\ QueuedAreLive' /\ OnlyDiscardsLeak'
    BY <1>4, NothingMoves DEF Give, ring
  <1>7. \A u \in Task : pc'[u] \in {"idle", "take"}
    BY <1>2, <1>3 DEF Inside
  <1>8. \A u \in Task : TaskInv(u)'
    BY <1>7 DEF TaskInv
  <1> QED
    BY <1>1, <1>5, <1>6, <1>8 DEF IInv

(***************************************************************************)
(* GetNothing and AnswerQuery only move t on with an answer.               *)
(***************************************************************************)
LEMMA AnswerIInv ==
    ASSUME IInv, NEW t \in Task, pc[t] = "inside", Goto(t, "give"),
           NEW a \in Message \cup {NoMessage} \cup 0 .. Max,
           answer' = [answer EXCEPT ![t] = a],
           UNCHANGED <<ring, semaphore, allocated, heap, call, message, faulted,
                       discarded>>
    PROVE  IInv'
  <1>1. /\ HeldByOne' /\ Quiet' /\ Held' = {} /\ pc'[t] = "give"
        /\ pc' \in [Task -> {"idle", "take", "inside", "store", "advance",
                             "retreat", "free", "give"}]
        /\ \A u \in Task \ {t} : pc'[u] \in {"idle", "take"}
    BY StayInside DEF Holding
  <1>2. Held = {}
    BY InsideAlone DEF Holding
  <1>3. TypeOK'
    BY <1>1 DEF IInv, TypeOK, ring
  <1>4. Indices' /\ QueuedAreLive' /\ OnlyDiscardsLeak'
    BY <1>1, <1>2, NothingMoves
  <1>5. \A u \in Task : TaskInv(u)'
    BY <1>1 DEF TaskInv
  <1> QED
    BY <1>1, <1>3, <1>4, <1>5 DEF IInv

LEMMA SizeType == ASSUME Indices PROVE Size \in 0 .. Max
  BY MaxAssumption DEF Indices, Consistent, Slot, Size

LEMMA GetNothingIInv == ASSUME IInv, NEW t \in Task, GetNothing(t) PROVE IInv'
  BY AnswerIInv DEF GetNothing, At

LEMMA AnswerQueryIInv == ASSUME IInv, NEW t \in Task, AnswerQuery(t) PROVE IInv'
  <1>1. Size \in 0 .. Max
    BY SizeType DEF IInv
  <1>2. Bit(IsEmpty) \in 0 .. Max /\ Bit(full) \in 0 .. Max
    BY MaxAssumption DEF Bit
  <1>3. QueryResult("checkEmpty") = Bit(IsEmpty)
    BY Zenon DEF QueryResult
  <1>4. QueryResult("checkFull") = Bit(full)
    BY Zenon DEF QueryResult
  <1>5. QueryResult("getSize") = Size
    BY Zenon DEF QueryResult
  <1>6. QueryResult(call[t].op) \in 0 .. Max
    BY <1>1, <1>2, <1>3, <1>4, <1>5 DEF Query, AnswerQuery
  <1> QED
    BY <1>6, AnswerIInv DEF AnswerQuery, At

LEMMA PutFaultIInv == ASSUME IInv, NEW t \in Task, PutFault(t) PROVE IInv'
  <1>1. TypeOK' /\ HeldByOne' /\ Quiet' /\ Held' = Held
    BY DEF IInv, TypeOK, HeldByOne, Inside, Quiet, Held, PutFault, ring, local
  <1>2. Indices' /\ QueuedAreLive' /\ OnlyDiscardsLeak' /\ Live' = Live
    BY <1>1, NothingMoves DEF PutFault, ring
  <1>3. Queued' = Queued /\ IsEmpty' = IsEmpty
    BY SameRing DEF PutFault, ring
  <1>4. \A u \in Task : TaskInv(u)'
    BY <1>2, <1>3 DEF IInv, TaskInv, PutFault, ring, local
  <1> QED
    BY <1>1, <1>2, <1>4 DEF IInv

(***************************************************************************)
(* The steps that move a block.                                            *)
(***************************************************************************)
LEMMA PutAllocateIInv == ASSUME IInv, NEW t \in Task, PutAllocate(t) PROVE IInv'
  <1>1. PICK b \in Block \ Live :
            /\ message' = [message EXCEPT ![t] = b]
            /\ heap' = [heap EXCEPT ![b] = call[t].data]
    BY DEF PutAllocate
  <1>2. call[t].data \in Message
    BY PutData DEF IInv, PutAllocate
  <1>3. /\ HeldByOne' /\ Quiet' /\ Held' = {message'[t]} /\ pc'[t] = "store"
        /\ pc' \in [Task -> {"idle", "take", "inside", "store", "advance",
                             "retreat", "free", "give"}]
        /\ \A u \in Task \ {t} : pc'[u] \in {"idle", "take"}
    BY StayInside DEF PutAllocate, At, Holding
  <1>4. TypeOK' /\ message'[t] = b
    BY <1>1, <1>2, <1>3 DEF IInv, TypeOK, PutAllocate, ring
  <1>5. Live' = Live \cup {b}
    BY <1>1, <1>2, MarkerAssumption DEF Live, IInv, TypeOK
  <1>6. Occupied' = Occupied /\ Queued' = Queued /\ Indices'
    BY SameRing DEF PutAllocate, IInv, ring
  <1>7. Held = {} /\ Live = Queued \cup discarded
    BY InsideAlone DEF PutAllocate, At, Holding, IInv, OnlyDiscardsLeak
  <1>8. QueuedAreLive' /\ OnlyDiscardsLeak'
    BY <1>3, <1>4, <1>5, <1>6, <1>7
       DEF IInv, QueuedAreLive, OnlyDiscardsLeak, PutAllocate, ring
  <1>9. TaskInv(t)'
    BY <1>3, <1>4, <1>5, <1>6, <1>7 DEF TaskInv, PutAllocate
  <1> QED
    BY <1>3, <1>4, <1>6, <1>8, <1>9, OtherTasks DEF IInv

LEMMA PutStoreIInv == ASSUME IInv, NEW t \in Task, PutStore(t) PROVE IInv'
  <1> DEFINE m == message[t]
  <1>1. /\ HeldByOne' /\ Quiet' /\ Held' = {m} /\ pc'[t] = "advance"
        /\ pc' \in [Task -> {"idle", "take", "inside", "store", "advance",
                             "retreat", "free", "give"}]
        /\ \A u \in Task \ {t} : pc'[u] \in {"idle", "take"}
    BY StayInside DEF PutStore, At, Holding
  <1>2. Held = {m} /\ allocated /\ allocated'
    BY InsideAlone DEF PutStore, At, Holding
  <1>3. m \in Live /\ m \notin Queued /\ m \notin discarded
    BY DEF IInv, TaskInv, PutStore, At
  <1>4. Occupied' = Occupied /\ Indices' /\ Live' = Live
    BY DEF PutStore, IInv, Occupied, SlotOf, Size, Indices, Live
  <1>5. /\ Occupied \subseteq Slot /\ head \in Slot /\ head' = head
        /\ full' = full /\ (full <=> head \in Occupied)
    BY Ends DEF IInv, TypeOK, PutStore
  <1>6. buffer'[head] = m /\ \A s \in Slot \ {head} : buffer'[s] = buffer[s]
    BY DEF IInv, TypeOK, PutStore
  <1>7. Queued = {buffer[s] : s \in Occupied} /\ Queued' = {buffer'[s] : s \in Occupied}
    BY <1>2, <1>4 DEF Queued
  <1>8. \A s \in Occupied : /\ buffer[s] \in Live
                            /\ \A r \in Occupied : buffer[r] = buffer[s] => r = s
    BY <1>2 DEF IInv, QueuedAreLive
  <1>9. QueuedAreLive'
    <2>1. \A s \in Occupied : buffer'[s] \in Live
      BY <1>3, <1>5, <1>6, <1>8
    <2>2. ASSUME NEW s \in Occupied, NEW r \in Occupied, buffer'[r] = buffer'[s]
          PROVE  r = s
      BY <2>2, <1>3, <1>5, <1>6, <1>7, <1>8
    <2> QED
      BY <1>4, <2>1, <2>2 DEF QueuedAreLive
  <1>10. ASSUME ~full PROVE OnlyDiscardsLeak' /\ TaskInv(t)'
    <2>1. Queued' = Queued /\ discarded' = discarded
      BY <1>10, <1>5, <1>6, <1>7 DEF PutStore
    <2>2. OnlyDiscardsLeak' /\ TaskInv(t)'
      BY <2>1, <1>1, <1>2, <1>3, <1>4, <1>5, <1>6
         DEF IInv, OnlyDiscardsLeak, TaskInv, PutStore
    <2> QED
      BY <2>2
  <1>11. ASSUME full PROVE OnlyDiscardsLeak' /\ TaskInv(t)'
    <2> DEFINE old == buffer[head]
    <2>1. old \in Queued /\ old # m
      BY <1>11, <1>3, <1>5, <1>7
    <2>2. discarded' = discarded \cup {old}
      BY <1>11 DEF PutStore
    <2>3. Queued' = (Queued \ {old}) \cup {m}
      BY <1>11, <1>5, <1>6, <1>7, <1>8
    <2>4. OnlyDiscardsLeak' /\ TaskInv(t)'
      BY <1>11, <2>1, <2>2, <2>3, <1>1, <1>2, <1>3, <1>4, <1>5, <1>6
         DEF IInv, OnlyDiscardsLeak, TaskInv, PutStore
    <2> QED
      BY <2>4
  <1>12. Queued \subseteq Block /\ Live \subseteq Block
    BY <1>7, <1>8 DEF Live
  <1>13. TypeOK'
    <2>1. discarded' \subseteq Block
      BY <1>5, <1>7, <1>12 DEF IInv, TypeOK, PutStore
    <2>2. buffer' \in [Slot -> Block \cup {NoBlock}]
      BY <1>3, <1>12 DEF IInv, TypeOK, PutStore
    <2> QED
      BY <2>1, <2>2, <1>1 DEF IInv, TypeOK, PutStore
  <1> QED
    BY <1>1, <1>4, <1>9, <1>10, <1>11, <1>13, OtherTasks DEF IInv, TypeOK

LEMMA PutAdvanceIInv == ASSUME IInv, NEW t \in Task, PutAdvance(t) PROVE IInv'
  <1> DEFINE m == message[t]
  <1>1. /\ HeldByOne' /\ Quiet' /\ Held' = {} /\ pc'[t] = "give"
        /\ pc' \in [Task -> {"idle", "take", "inside", "store", "advance",
                             "retreat", "free", "give"}]
        /\ \A u \in Task \ {t} : pc'[u] \in {"idle", "take"}
    BY StayInside DEF PutAdvance, At, Holding
  <1>2. Held = {m} /\ allocated /\ allocated'
    BY InsideAlone DEF PutAdvance, At, Holding
  <1>3. /\ buffer[head] = m /\ m \in Live /\ m \notin discarded
        /\ ~full => m \notin Queued
    BY DEF IInv, TaskInv, PutAdvance, At
  <1>4. Indices' /\ Occupied' = Occupied \cup {head} /\ Live' = Live
    BY Advance DEF IInv, PutAdvance, Live
  <1>5. full <=> head \in Occupied
    BY Ends DEF IInv
  <1>6. Queued = {buffer[s] : s \in Occupied}
    BY <1>2 DEF Queued
  <1>7. Queued' = Queued \cup {m}
    BY <1>2, <1>3, <1>4, <1>6 DEF Queued, PutAdvance
  <1>8. OnlyDiscardsLeak'
    BY <1>1, <1>2, <1>3, <1>4, <1>7 DEF IInv, OnlyDiscardsLeak, PutAdvance
  <1>9. QueuedAreLive'
    BY <1>2, <1>3, <1>4, <1>5, <1>6 DEF IInv, QueuedAreLive, PutAdvance
  <1>10. TypeOK'
    BY <1>1, <1>4 DEF IInv, TypeOK, PutAdvance, Indices, Consistent
  <1>11. TaskInv(t)'
    BY <1>1 DEF TaskInv
  <1> QED
    BY <1>1, <1>4, <1>8, <1>9, <1>10, <1>11, OtherTasks DEF IInv

LEMMA GetCopyIInv == ASSUME IInv, NEW t \in Task, GetCopy(t) PROVE IInv'
  <1>1. /\ HeldByOne' /\ Quiet' /\ Held' = {} /\ pc'[t] = "retreat"
        /\ pc' \in [Task -> {"idle", "take", "inside", "store", "advance",
                             "retreat", "free", "give"}]
        /\ \A u \in Task \ {t} : pc'[u] \in {"idle", "take"}
    BY StayInside DEF GetCopy, At, Holding
  <1>2. Held = {} /\ allocated
    BY InsideAlone DEF GetCopy, At, Holding
  <1>3. tail \in Occupied
    BY Ends DEF IInv, GetCopy
  <1>4. buffer[tail] \in Block /\ heap[buffer[tail]] \in Message
    BY <1>2, <1>3, LiveData DEF IInv, QueuedAreLive
  <1>5. TypeOK'
    BY <1>1, <1>4 DEF IInv, TypeOK, GetCopy, ring
  <1>6. Indices' /\ QueuedAreLive' /\ OnlyDiscardsLeak'
    BY <1>1, <1>2, NothingMoves DEF GetCopy, ring
  <1>7. message'[t] = buffer[tail]
    BY DEF GetCopy, IInv, TypeOK
  <1>8. TaskInv(t)'
    BY <1>1, <1>7, SameRing DEF TaskInv, GetCopy, ring
  <1> QED
    BY <1>1, <1>5, <1>6, <1>8, OtherTasks DEF IInv

LEMMA GetRetreatIInv == ASSUME IInv, NEW t \in Task, GetRetreat(t) PROVE IInv'
  <1> DEFINE m == message[t]
  <1>1. /\ HeldByOne' /\ Quiet' /\ Held' = {m} /\ pc'[t] = "free"
        /\ pc' \in [Task -> {"idle", "take", "inside", "store", "advance",
                             "retreat", "free", "give"}]
        /\ \A u \in Task \ {t} : pc'[u] \in {"idle", "take"}
    BY StayInside DEF GetRetreat, At, Holding
  <1>2. Held = {} /\ allocated /\ allocated'
    BY InsideAlone DEF GetRetreat, At, Holding
  <1>3. ~IsEmpty /\ m = buffer[tail]
    BY DEF IInv, TaskInv, GetRetreat, At
  <1>4. tail \in Occupied
    BY <1>3, Ends DEF IInv
  <1>5. Indices' /\ Occupied' = Occupied \ {tail} /\ Live' = Live
    BY <1>3, Retreat DEF IInv, GetRetreat, Live
  <1>6. \A s \in Occupied : /\ buffer[s] \in Live
                            /\ \A r \in Occupied : buffer[r] = buffer[s] => r = s
    BY <1>2 DEF IInv, QueuedAreLive
  <1>7. Queued = {buffer[s] : s \in Occupied} /\ m \in Queued
    BY <1>2, <1>3, <1>4 DEF Queued
  <1>8. Queued' = Queued \ {m}
    BY <1>2, <1>3, <1>4, <1>5, <1>6, <1>7 DEF Queued, GetRetreat
  <1>9. QueuedAreLive'
    BY <1>5, <1>6 DEF QueuedAreLive, GetRetreat
  <1>10. OnlyDiscardsLeak'
    BY <1>1, <1>2, <1>5, <1>7, <1>8 DEF IInv, OnlyDiscardsLeak, GetRetreat
  <1>11. TypeOK'
    BY <1>1, <1>5 DEF IInv, TypeOK, GetRetreat, Indices, Consistent
  <1>12. m \in Live /\ m \notin discarded
    BY <1>3, <1>4, <1>6, <1>7 DEF IInv, OnlyDiscardsLeak
  <1>13. TaskInv(t)'
    BY <1>1, <1>5, <1>8, <1>12 DEF TaskInv, GetRetreat
  <1> QED
    BY <1>1, <1>5, <1>9, <1>10, <1>11, <1>13, OtherTasks DEF IInv

LEMMA GetFreeIInv == ASSUME IInv, NEW t \in Task, GetFree(t) PROVE IInv'
  <1> DEFINE m == message[t]
  <1>1. /\ HeldByOne' /\ Quiet' /\ Held' = {} /\ pc'[t] = "give"
        /\ pc' \in [Task -> {"idle", "take", "inside", "store", "advance",
                             "retreat", "free", "give"}]
        /\ \A u \in Task \ {t} : pc'[u] \in {"idle", "take"}
    BY StayInside DEF GetFree, At, Holding
  <1>2. Held = {m} /\ allocated
    BY InsideAlone DEF GetFree, At, Holding
  <1>3. m \in Live /\ m \notin Queued /\ m \notin discarded
    BY DEF IInv, TaskInv, GetFree, At
  <1>4. Occupied' = Occupied /\ Queued' = Queued /\ Indices'
    BY SameRing DEF GetFree, IInv, ring
  <1>5. Live' = Live \ {m}
    BY <1>3 DEF Live, GetFree, IInv, TypeOK
  <1>6. Queued = {buffer[s] : s \in Occupied}
    BY <1>2 DEF Queued
  <1>7. QueuedAreLive'
    BY <1>2, <1>3, <1>4, <1>5, <1>6 DEF IInv, QueuedAreLive, GetFree, ring
  <1>8. OnlyDiscardsLeak'
    BY <1>1, <1>2, <1>3, <1>4, <1>5 DEF IInv, OnlyDiscardsLeak, GetFree
  <1>9. TypeOK'
    BY <1>1 DEF IInv, TypeOK, GetFree, ring
  <1>10. TaskInv(t)'
    BY <1>1 DEF TaskInv
  <1> QED
    BY <1>1, <1>4, <1>7, <1>8, <1>9, <1>10, OtherTasks DEF IInv

(***************************************************************************)
(* The steps that forget what is queued.                                   *)
(***************************************************************************)
LEMMA ResetIInv == ASSUME IInv, NEW t \in Task, Reset(t) PROVE IInv'
  <1>1. /\ HeldByOne' /\ Quiet' /\ Held' = {} /\ pc'[t] = "give"
        /\ pc' \in [Task -> {"idle", "take", "inside", "store", "advance",
                             "retreat", "free", "give"}]
        /\ \A u \in Task \ {t} : pc'[u] \in {"idle", "take"}
    BY StayInside DEF Reset, At, Holding
  <1>2. Held = {} /\ allocated
    BY InsideAlone DEF Reset, At, Holding
  <1>3. Indices' /\ Occupied' = {} /\ Live' = Live
    BY Emptied DEF Reset, Live
  <1>4. Queued' = {} /\ QueuedAreLive'
    BY <1>3 DEF Queued, QueuedAreLive
  <1>5. Live = Queued \cup discarded /\ Live \subseteq Block
    BY <1>2 DEF IInv, OnlyDiscardsLeak, Live
  <1>6. OnlyDiscardsLeak'
    BY <1>1, <1>3, <1>4, <1>5 DEF OnlyDiscardsLeak, Reset
  <1>7. TypeOK'
    BY <1>1, <1>3, <1>5 DEF IInv, TypeOK, Reset, Indices, Consistent
  <1>8. TaskInv(t)'
    BY <1>1 DEF TaskInv
  <1> QED
    BY <1>1, <1>3, <1>4, <1>6, <1>7, <1>8, OtherTasks DEF IInv

LEMMA FreeIInv == ASSUME IInv, Free PROVE IInv'
  <1>1. Held = {} /\ Held' = {} /\ Inside' = Inside /\ Live' = Live
    BY DEF Free, Held, Inside, At, local, Live
  <1>2. HeldByOne' /\ Quiet'
    BY <1>1 DEF IInv, HeldByOne, Quiet, Free, At, local
  <1>3. Indices' /\ Queued' = {} /\ QueuedAreLive'
    BY DEF IInv, Indices, Queued, QueuedAreLive, Free, ring
  <1>4. Live = Queued \cup discarded /\ Live \subseteq Block
    BY <1>1 DEF IInv, OnlyDiscardsLeak, Live
  <1>5. OnlyDiscardsLeak'
    BY <1>1, <1>3, <1>4 DEF OnlyDiscardsLeak, Free
  <1>6. TypeOK'
    BY <1>4 DEF IInv, TypeOK, Free, ring, local
  <1>7. \A t \in Task : TaskInv(t)'
    BY DEF TaskInv, Free, At, local
  <1> QED
    BY <1>2, <1>3, <1>5, <1>6, <1>7 DEF IInv

LEMMA CreateIInv == ASSUME IInv, Create PROVE IInv'
  <1>1. /\ \A t \in Task : pc[t] = "idle" /\ pc'[t] = "idle"
        /\ Held = {} /\ Held' = {} /\ Inside' = {} /\ Live' = Live
    BY DEF IInv, Quiet, Create, Held, Inside, local, Live
  <1>2. HeldByOne' /\ Quiet'
    BY <1>1 DEF HeldByOne, Quiet, Create
  <1>3. Indices' /\ Occupied' = {}
    BY Emptied DEF Create
  <1>4. Queued = {} /\ Queued' = {} /\ QueuedAreLive'
    BY <1>3 DEF Queued, QueuedAreLive, Create
  <1>5. OnlyDiscardsLeak'
    BY <1>1, <1>4 DEF IInv, OnlyDiscardsLeak, Create
  <1>6. TypeOK'
    BY <1>3 DEF IInv, TypeOK, Create, local, Indices, Consistent
  <1>7. \A t \in Task : TaskInv(t)'
    BY <1>1 DEF TaskInv
  <1> QED
    BY <1>2, <1>3, <1>4, <1>5, <1>6, <1>7 DEF IInv

-----------------------------------------------------------------------------
(* The theorems.                                                           *)

LEMMA StutterIInv == ASSUME IInv, UNCHANGED vars PROVE IInv'
  <1>1. TypeOK' /\ HeldByOne' /\ Quiet' /\ Held' = Held
    BY DEF IInv, TypeOK, HeldByOne, Inside, Quiet, Held, vars
  <1>2. Indices' /\ QueuedAreLive' /\ OnlyDiscardsLeak' /\ Live' = Live
    BY <1>1, NothingMoves DEF vars, ring
  <1>3. Queued' = Queued /\ IsEmpty' = IsEmpty
    BY SameRing DEF vars, ring
  <1>4. \A u \in Task : TaskInv(u)'
    BY <1>2, <1>3 DEF IInv, TaskInv, vars
  <1> QED
    BY <1>1, <1>2, <1>4 DEF IInv

LEMMA NextIInv == IInv /\ [Next]_vars => IInv'
  <1> SUFFICES ASSUME IInv, [Next]_vars PROVE IInv'
    OBVIOUS
  <1>1. ASSUME NEW t \in Task, Enter(t) \/ Step(t) PROVE IInv'
    BY <1>1, EnterIInv, TakeIInv, GiveIInv, PutAllocateIInv, PutFaultIInv,
       PutStoreIInv, PutAdvanceIInv, GetNothingIInv, GetCopyIInv,
       GetRetreatIInv, GetFreeIInv, AnswerQueryIInv, ResetIInv DEF Step
  <1>2. CASE Free
    BY <1>2, FreeIInv
  <1>3. CASE Create
    BY <1>3, CreateIInv
  <1>4. CASE UNCHANGED vars
    BY <1>4, StutterIInv
  <1> QED
    BY <1>1, <1>2, <1>3, <1>4 DEF Next

LEMMA Inductive == Spec => []IInv
  BY InitIInv, NextIInv, PTL DEF Spec

(***************************************************************************)
(* Type correctness: the indices of buffer.c never leave the ring, whatever *)
(* its capacity.                                                           *)
(***************************************************************************)
THEOREM RingTypeCorrect == Spec => []TypeOK
  <1>1. IInv => TypeOK
    BY DEF IInv
  <1> QED
    BY <1>1, Inductive, PTL

(***************************************************************************)
(* However many tasks share the buffer, the semaphore of buffer.c is taken *)
(* exactly while one of them is between its take and its give.             *)
(***************************************************************************)
THEOREM MutualExclusion == Spec => []HeldByOne
  <1>1. IInv => HeldByOne
    BY DEF IInv
  <1> QED
    BY <1>1, Inductive, PTL

(***************************************************************************)
(* A get of cbufGet never reads a slot that was not written, nor a block   *)
(* that is free or that holds another queued message.                      *)
(***************************************************************************)
THEOREM NoDanglingSlot == Spec => []QueuedAreLive
  <1>1. IInv => QueuedAreLive
    BY DEF IInv
  <1> QED
    BY <1>1, Inductive, PTL

(***************************************************************************)
(* Every block that cbufPut allocates and that was not discarded by an     *)
(* overwrite, a reset or a free is queued or in the hands of one task.     *)
(***************************************************************************)
THEOREM MemoryAccounted == Spec => []OnlyDiscardsLeak
  <1>1. IInv => OnlyDiscardsLeak
    BY DEF IInv
  <1> QED
    BY <1>1, Inductive, PTL

-----------------------------------------------------------------------------
(* The ring as a queue.                                                    *)

(* The n messages from index t on, in a ring b and a heap hp. *)
Run(b, hp, t, n) == [i \in 1 .. n |-> hp[b[From(t, i - 1)]]]

LEMMA RunSeq ==
    ASSUME NEW b, NEW hp, NEW t, NEW n \in Nat,
           \A i \in 1 .. n : hp[b[From(t, i - 1)]] \in Message
    PROVE  /\ Run(b, hp, t, n) \in Seq(Message) /\ Len(Run(b, hp, t, n)) = n
           /\ \A i \in 1 .. n : Run(b, hp, t, n)[i] = hp[b[From(t, i - 1)]]
  <1> DEFINE r == [i \in 1 .. n |-> hp[b[From(t, i - 1)]]]
  <1>1. r \in [1 .. n -> Message]
    OBVIOUS
  <1> HIDE DEF r
  <1>2. r \in Seq(Message) /\ Len(r) = n
    BY <1>1
  <1> QED
    BY <1>2 DEF Run, r

LEMMA RunIs ==
    ASSUME NEW b, NEW hp, NEW t, NEW s \in Seq(Message),
           \A i \in 1 .. Len(s) : hp[b[From(t, i - 1)]] = s[i]
    PROVE  Run(b, hp, t, Len(s)) = s
  <1> DEFINE n == Len(s)
             r == Run(b, hp, t, n)
  <1>1. n \in Nat /\ \A i \in 1 .. n : s[i] \in Message
    BY LenProperties, ElementOfSeq
  <1>2. \A i \in 1 .. n : hp[b[From(t, i - 1)]] = s[i]
    OBVIOUS
  <1> HIDE DEF n
  <1>3. \A i \in 1 .. n : hp[b[From(t, i - 1)]] \in Message
    BY <1>1, <1>2
  <1>4. /\ r \in Seq(Message) /\ Len(r) = n
        /\ \A i \in 1 .. n : r[i] = hp[b[From(t, i - 1)]]
    <2>1. r = [i \in 1 .. n |-> hp[b[From(t, i - 1)]]]
      BY DEF Run
    <2> HIDE DEF r
    <2>2. r \in [1 .. n -> Message]
      BY <1>3, <2>1
    <2>3. r \in Seq(Message) /\ Len(r) = n
      BY <1>1, <2>2
    <2> QED
      BY <2>1, <2>3
  <1>5. \A i \in 1 .. n : r[i] = s[i]
    BY <1>2, <1>4
  <1> HIDE DEF r
  <1>6. r = s
    BY <1>4, <1>5, SeqEqual DEF n
  <1> QED
    BY <1>6 DEF r, n

LEMMA WindowIsRun == Window = Run(buffer, heap, tail, Size)
  BY DEF Window, Run, SlotOf, From

LEMMA WindowAfter == Window' = Run(buffer', heap', tail', Size')
  BY DEF Window, Run, SlotOf, From

(* What advance_pointer and retreat_pointer do to the numbering of slots. *)
LEMMA CountAdvanced ==
    ASSUME NEW h, NEW t, NEW f, Consistent(h, t, f), NEW t2, t2 = IF f THEN Succ(t) ELSE t
    PROVE  /\ Count(Succ(h), t2, Succ(h) = t2) = IF f THEN Max ELSE Count(h, t, f) + 1
           /\ f => /\ \A i \in 0 .. Max - 2 : From(t2, i) = From(t, i + 1)
                   /\ From(t2, Max - 1) = h
           /\ ~f => From(t, Count(h, t, f)) = h
  BY MaxAssumption DEF Consistent, Slot, Count, From, Succ

LEMMA CountRetreated ==
    ASSUME Consistent(head, tail, full), ~IsEmpty
    PROVE  /\ Count(head, Succ(tail), FALSE) = Count(head, tail, full) - 1
           /\ \A i \in 0 .. Count(head, tail, full) - 2 :
                 From(Succ(tail), i) = From(tail, i + 1)
  BY MaxAssumption DEF IsEmpty, Consistent, Slot, Count, From, Succ

LEMMA CountLimits ==
    ASSUME NEW h, NEW t, NEW f, Consistent(h, t, f)
    PROVE  /\ Count(h, t, f) \in 0 .. Max
           /\ Count(h, t, f) = Max <=> f
           /\ Count(h, t, f) = 0 <=> ~f /\ h = t
           /\ From(t, 0) = t
           /\ \A i \in 1 .. Count(h, t, f) - 1 : From(t, i) # t
  BY MaxAssumption DEF Consistent, Slot, Count, From

LEMMA WindowSeq ==
    ASSUME IInv, allocated
    PROVE  /\ Window \in Seq(Message) /\ Len(Window) = Size /\ Size \in 0 .. Max
           /\ \A i \in 1 .. Size : /\ SlotOf(i - 1) \in Occupied
                                   /\ Window[i] = heap[buffer[SlotOf(i - 1)]]
           /\ Size = Max <=> full
           /\ Window = <<>> <=> IsEmpty
           /\ Size = Count(head, tail, full)
           /\ \A i \in 0 .. Size : SlotOf(i) = From(tail, i)
  <1>1. Size = Count(head, tail, full) /\ \A i \in 0 .. Size : SlotOf(i) = From(tail, i)
    BY DEF Size, Count, SlotOf, From
  <1>2. Consistent(head, tail, full)
    BY DEF IInv, Indices
  <1>3. Size \in 0 .. Max /\ (Size = Max <=> full) /\ (Size = 0 <=> IsEmpty)
    BY <1>1, <1>2, CountLimits DEF IsEmpty
  <1>4. Size \in Nat /\ \A i \in 1 .. Size : i - 1 \in 0 .. Size - 1 /\ i - 1 \in 0 .. Size
    BY <1>3, MaxAssumption
  <1>5. \A i \in 1 .. Size : SlotOf(i - 1) \in Occupied
    BY <1>4 DEF Occupied
  <1>6. \A i \in 1 .. Size : heap[buffer[SlotOf(i - 1)]] \in Message
    BY <1>5, LiveData DEF IInv, QueuedAreLive
  <1>7. \A i \in 1 .. Size : SlotOf(i - 1) = From(tail, i - 1)
    BY <1>1, <1>4
  <1>8. /\ Window \in Seq(Message) /\ Len(Window) = Size
        /\ \A i \in 1 .. Size : Window[i] = heap[buffer[SlotOf(i - 1)]]
    BY <1>4, <1>6, <1>7, RunSeq, WindowIsRun
  <1>9. Window = <<>> <=> Size = 0
    BY <1>8, EmptySeq
  <1> QED
    BY <1>1, <1>3, <1>5, <1>8, <1>9

(***************************************************************************)
(* Between its steps a put knows the message that it puts.                 *)
(***************************************************************************)
DataInv == \A t \in Task : pc[t] \in {"store", "advance"} =>
               call[t].op = "put" /\ heap[message[t]] = call[t].data

LEMMA WindowSame ==
    ASSUME IInv, allocated, UNCHANGED ring, \A b \in Queued : heap'[b] = heap[b]
    PROVE  Window' = Window
  <1>1. /\ Window \in Seq(Message) /\ Len(Window) = Size
        /\ \A i \in 1 .. Size : /\ SlotOf(i - 1) \in Occupied
                                /\ Window[i] = heap[buffer[SlotOf(i - 1)]]
    BY WindowSeq
  <1>2. \A i \in 1 .. Size : buffer[SlotOf(i - 1)] \in Queued
    BY <1>1 DEF Queued
  <1>3. \A i \in 1 .. Size : SlotOf(i - 1) = From(tail, i - 1)
    BY DEF SlotOf, From
  <1>4. \A i \in 1 .. Len(Window) : heap'[buffer[From(tail, i - 1)]] = Window[i]
    BY <1>1, <1>2, <1>3
  <1>5. Run(buffer, heap', tail, Len(Window)) = Window
    BY <1>1, <1>4, RunIs
  <1>6. Size' = Size /\ buffer' = buffer /\ tail' = tail
    BY DEF Size, ring
  <1> QED
    BY <1>1, <1>5, <1>6, WindowAfter

(* Of what the queue depends on besides the ring. *)
LEMMA ContentsSame ==
    ASSUME UNCHANGED <<ring, allocated>>, allocated => Window' = Window,
           \A u \in Task : /\ pc'[u] = "advance" <=> pc[u] = "advance"
                           /\ pc'[u] = "retreat" <=> pc[u] = "retreat"
                           /\ pc[u] = "advance" => call'[u] = call[u]
    PROVE  Contents' = Contents
  <1>1. Putting' = Putting /\ Getting' = Getting
    BY DEF Putting, Getting
  <1>2. CASE ~allocated
    BY <1>2 DEF Contents
  <1>3. CASE allocated /\ Putting # {}
    <2> DEFINE u == CHOOSE v \in Putting : TRUE
    <2>1. u \in Putting
      BY <1>3
    <2>2. call'[u] = call[u]
      BY <2>1 DEF Putting
    <2>3. u' = u
      BY <1>1
    <2> HIDE DEF u
    <2>4. Contents = Append(IF full THEN Tail(Window) ELSE Window, call[u].data)
      BY <1>3 DEF Contents, u
    <2>5. Contents' = Append(IF full' THEN Tail(Window') ELSE Window', call'[u].data)
      BY <1>1, <1>3, <2>3 DEF Contents, u
    <2> QED
      BY <1>3, <2>2, <2>4, <2>5 DEF ring
  <1>4. CASE allocated /\ Putting = {}
    BY <1>1, <1>4 DEF Contents
  <1> QED
    BY <1>2, <1>3, <1>4

(* The queue while task t is inside. *)
LEMMA ContentsInside ==
    ASSUME allocated, NEW t \in Task, \A u \in Task \ {t} : pc[u] \in {"idle", "take"}
    PROVE  Contents = IF pc[t] = "advance"
                      THEN Append(IF full THEN Tail(Window) ELSE Window, call[t].data)
                      ELSE IF pc[t] = "retreat" THEN Tail(Window) ELSE Window
  <1>1. Putting = IF pc[t] = "advance" THEN {t} ELSE {}
    BY DEF Putting
  <1>2. Getting = IF pc[t] = "retreat" THEN {t} ELSE {}
    BY DEF Getting
  <1>3. (CHOOSE u \in {t} : TRUE) = t
    OBVIOUS
  <1> QED
    BY <1>1, <1>2, <1>3 DEF Contents

LEMMA ContentsInsideAfter ==
    ASSUME allocated', NEW t \in Task, \A u \in Task \ {t} : pc'[u] \in {"idle", "take"}
    PROVE  Contents' = IF pc'[t] = "advance"
                       THEN Append(IF full' THEN Tail(Window') ELSE Window', call'[t].data)
                       ELSE IF pc'[t] = "retreat" THEN Tail(Window') ELSE Window'
  <1>1. Putting' = IF pc'[t] = "advance" THEN {t} ELSE {}
    BY DEF Putting
  <1>2. Getting' = IF pc'[t] = "retreat" THEN {t} ELSE {}
    BY DEF Getting
  <1>3. (CHOOSE u \in {t} : TRUE) = t
    OBVIOUS
  <1> QED
    BY <1>1, <1>2, <1>3 DEF Contents

LEMMA DataInit == Init => DataInv
  BY DEF Init, DataInv

LEMMA DataStep == IInv /\ DataInv /\ [Next]_vars => DataInv'
  <1> SUFFICES ASSUME IInv, DataInv, [Next]_vars PROVE DataInv'
    OBVIOUS
  <1> USE DEF At, Goto, local, ring
  <1>1. TypeOK
    BY DEF IInv
  <1>2. CASE Free \/ Create \/ UNCHANGED vars
    BY <1>2 DEF Free, Create, vars, DataInv
  <1>3. ASSUME NEW t \in Task, pc[t] \notin {"idle", "take"},
               \A u \in Task \ {t} : pc'[u] = pc[u],
               pc'[t] \in {"store", "advance"} =>
                   call'[t].op = "put" /\ heap'[message'[t]] = call'[t].data
        PROVE  DataInv'
    <2>1. \A u \in Task \ {t} : pc'[u] \in {"idle", "take"}
      BY <1>3, InsideAlone
    <2> QED
      BY <1>3, <2>1 DEF DataInv
  <1>4. ASSUME NEW t \in Task, Enter(t) \/ Take(t) PROVE DataInv'
    <2>1. /\ UNCHANGED <<heap, message>>
          /\ \A u \in Task \ {t} : pc'[u] = pc[u] /\ call'[u] = call[u]
          /\ pc'[t] \in {"take", "inside"}
      BY <1>1, <1>4 DEF Enter, Take, TypeOK
    <2> QED
      BY <2>1 DEF DataInv
  <1>5. ASSUME NEW t \in Task, PutAllocate(t) PROVE DataInv'
    <2>1. PICK b \in Block \ Live : /\ message' = [message EXCEPT ![t] = b]
                                    /\ heap' = [heap EXCEPT ![b] = call[t].data]
      BY <1>5 DEF PutAllocate
    <2>2. message'[t] = b /\ heap'[b] = call[t].data /\ call' = call /\ call[t].op = "put"
      BY <1>1, <1>5, <2>1 DEF PutAllocate, TypeOK
    <2>3. pc[t] = "inside" /\ \A u \in Task \ {t} : pc'[u] = pc[u]
      BY <1>1, <1>5 DEF PutAllocate, TypeOK
    <2> QED
      BY <1>3, <2>2, <2>3
  <1>6. ASSUME NEW t \in Task, PutStore(t) PROVE DataInv'
    <2>1. /\ UNCHANGED <<call, message, heap>> /\ pc[t] = "store"
          /\ \A u \in Task \ {t} : pc'[u] = pc[u]
      BY <1>1, <1>6 DEF PutStore, TypeOK
    <2> QED
      BY <1>3, <2>1 DEF DataInv
  <1>7. ASSUME NEW t \in Task,
               \/ Give(t) \/ PutAdvance(t) \/ GetNothing(t) \/ GetCopy(t)
               \/ GetRetreat(t) \/ GetFree(t) \/ AnswerQuery(t) \/ Reset(t)
        PROVE  DataInv'
    <2>1. /\ pc[t] \notin {"idle", "take"} /\ pc'[t] \notin {"store", "advance"}
          /\ \A u \in Task \ {t} : pc'[u] = pc[u]
      BY <1>1, <1>7 DEF Give, PutAdvance, GetNothing, GetCopy, GetRetreat, GetFree, AnswerQuery,
                        Reset, TypeOK
    <2> QED
      BY <1>3, <2>1
  <1>8. ASSUME NEW t \in Task, PutFault(t) PROVE DataInv'
    BY <1>8 DEF PutFault, DataInv
  <1> QED
    BY <1>2, <1>4, <1>5, <1>6, <1>7, <1>8 DEF Next, Step

(***************************************************************************)
(* The four steps that move messages.                                      *)
(***************************************************************************)
LEMMA PutStoreQueue ==
    ASSUME IInv, DataInv, NEW t \in Task, PutStore(t)
    PROVE  Queue!Put(call[t].data) /\ call[t].data \in Message
  <1> DEFINE n == Size
             older == IF full THEN Tail(Window) ELSE Window
  <1>1. /\ pc[t] = "store" /\ pc'[t] = "advance" /\ allocated /\ allocated'
        /\ \A u \in Task \ {t} : pc[u] \in {"idle", "take"} /\ pc'[u] \in {"idle", "take"}
        /\ buffer' = [buffer EXCEPT ![head] = message[t]]
        /\ UNCHANGED <<head, tail, full, heap, call, answer>>
        /\ buffer \in [Slot -> Block \cup {NoBlock}]
    BY InsideAlone DEF PutStore, At, Goto, IInv, TypeOK
  <1>2. /\ Window \in Seq(Message) /\ Len(Window) = n /\ n \in 0 .. Max /\ Max \in Nat /\ Max > 0
        /\ \A i \in 1 .. n : /\ SlotOf(i - 1) \in Occupied
                             /\ Window[i] = heap[buffer[SlotOf(i - 1)]]
        /\ (n = Max <=> full)
        /\ n = Count(head, tail, full) /\ \A i \in 0 .. n : SlotOf(i) = From(tail, i)
    BY <1>1, WindowSeq, MaxAssumption
  <1>full. full => n = Max /\ n \in Nat /\ n # 0
    <2>1. full => n = Max
      BY <1>1, WindowSeq
    <2> QED
      BY <2>1, MaxAssumption
  <1>3. /\ call[t].data \in Message /\ heap[message[t]] = call[t].data
    BY <1>1, PutData DEF DataInv, IInv
  <1>4. /\ Occupied \subseteq Slot /\ head \in Slot
        /\ full <=> head \in Occupied
        /\ full => head = tail
    BY Ends DEF IInv, Indices, Consistent
  <1>5. Contents = Window
    BY <1>1, ContentsInside
  <1>6. Contents' = Append(IF full THEN Tail(Window') ELSE Window', call[t].data)
    BY <1>1, ContentsInsideAfter
  <1>7. Size' = n
    BY <1>1 DEF Size
  <1>8. (IF full THEN Tail(Window') ELSE Window') = older
    <2>1. CASE ~full
      <3>1. \A i \in 1 .. n : heap[buffer'[From(tail, i - 1)]] = Window[i]
        <4> SUFFICES ASSUME NEW i \in 1 .. n
                     PROVE  heap[buffer'[From(tail, i - 1)]] = Window[i]
          OBVIOUS
        <4>1. i - 1 \in 0 .. n
          BY <1>2
        <4>2. SlotOf(i - 1) = From(tail, i - 1) /\ SlotOf(i - 1) # head
              /\ SlotOf(i - 1) \in Slot
          BY <1>2, <1>4, <2>1, <4>1
        <4> QED
          BY <1>1, <1>2, <4>2
      <3>2. Run(buffer', heap, tail, n) = Window
        BY <1>2, <3>1, RunIs
      <3> QED
        BY <1>1, <1>7, <2>1, <3>2, WindowAfter
    <2>2. CASE full
      <3>1. \A i \in 2 .. n : heap[buffer'[From(tail, i - 1)]] = Window[i]
        <4> SUFFICES ASSUME NEW i \in 2 .. n
                     PROVE  heap[buffer'[From(tail, i - 1)]] = Window[i]
          OBVIOUS
        <4>1. i - 1 \in 0 .. n /\ i \in 1 .. n /\ i - 1 \in 1 .. n - 1
          BY <1>2
        <4>2. From(tail, i - 1) # tail
          BY <1>2, <4>1, CountLimits DEF IInv, Indices
        <4>3. SlotOf(i - 1) = From(tail, i - 1) /\ SlotOf(i - 1) # head
              /\ SlotOf(i - 1) \in Slot
          BY <1>2, <1>4, <2>2, <4>1, <4>2
        <4> QED
          BY <1>1, <1>2, <4>1, <4>3
      <3>2. heap[buffer'[From(tail, 0)]] = call[t].data
        <4>1. From(tail, 0) = tail
          BY CountLimits DEF IInv, Indices
        <4>2. buffer'[head] = message[t]
          BY <1>1, <1>4
        <4> QED
          BY <1>3, <1>4, <2>2, <4>1, <4>2
      <3>3. n = Max /\ Window # <<>> /\ n \in Nat
        <4>1. n = Max /\ n \in Nat /\ n # 0
          BY <2>2, <1>full
        <4>2. Len(<<>>) = 0
          OBVIOUS
        <4> QED
          BY <1>2, <4>1, <4>2
      <3>4. /\ Tail(Window) \in Seq(Message) /\ Len(Tail(Window)) = n - 1
            /\ \A i \in 1 .. Len(Tail(Window)) : Tail(Window)[i] = Window[i + 1]
        BY <1>2, <3>3, HeadTailProperties
      <3>5. \A i \in 1 .. n : heap[buffer'[From(tail, i - 1)]]
                                 = IF i = 1 THEN call[t].data ELSE Window[i]
        <4> SUFFICES ASSUME NEW i \in 1 .. n
                     PROVE  heap[buffer'[From(tail, i - 1)]]
                              = IF i = 1 THEN call[t].data ELSE Window[i]
          OBVIOUS
        <4>1. CASE i = 1
          BY <3>2, <4>1
        <4>2. CASE i # 1
          <5>1. i \in 2 .. n
            BY <1>2, <4>2
          <5> QED
            BY <3>1, <4>2, <5>1
        <4> QED
          BY <4>1, <4>2
      <3>6. \A i \in 1 .. n : Window[i] \in Message
        BY <1>2, ElementOfSeq
      <3>7. \A i \in 1 .. n : heap[buffer'[From(tail, i - 1)]] \in Message
        BY <1>3, <3>5, <3>6
      <3> DEFINE w == Run(buffer', heap, tail, n)
      <3>8. /\ w \in Seq(Message) /\ Len(w) = n
            /\ \A i \in 1 .. n : w[i] = heap[buffer'[From(tail, i - 1)]]
        BY <3>3, <3>7, RunSeq
      <3>9. Window' = w
        BY <1>1, <1>7, WindowAfter
      <3> HIDE DEF w
      <3>10. /\ Tail(w) \in Seq(Message) /\ Len(Tail(w)) = n - 1
             /\ \A i \in 1 .. Len(Tail(w)) : Tail(w)[i] = w[i + 1]
        BY <1>2, <3>3, <3>8, HeadTailProperties, EmptySeq
      <3>11. \A i \in 1 .. n - 1 : Tail(w)[i] = Tail(Window)[i]
        <4> SUFFICES ASSUME NEW i \in 1 .. n - 1 PROVE Tail(w)[i] = Tail(Window)[i]
          OBVIOUS
        <4>1. i + 1 \in 1 .. n /\ i + 1 # 1
          BY <3>3
        <4>2. Tail(Window)[i] = Window[i + 1] /\ Tail(w)[i] = w[i + 1]
          BY <3>4, <3>10
        <4>3. w[i + 1] = Window[i + 1]
          BY <3>5, <3>8, <4>1
        <4> QED
          BY <4>2, <4>3
      <3>12. Tail(w) = Tail(Window)
        BY <3>4, <3>10, <3>11, SeqEqual
      <3> QED
        BY <2>2, <3>9, <3>12
    <2> QED
      BY <2>1, <2>2
  <1>9. Contents' = Queue!Enqueue(Contents, call[t].data)
    BY <1>2, <1>5, <1>6, <1>8 DEF Queue!Enqueue
  <1> QED
    BY <1>1, <1>3, <1>9 DEF Queue!Put

LEMMA PutAdvanceQueue ==
    ASSUME IInv, DataInv, NEW t \in Task, PutAdvance(t)
    PROVE  Contents' = Contents /\ answer' = answer
  <1> DEFINE n == Size
             d == call[t].data
             older == IF full THEN Tail(Window) ELSE Window
  <1>1. /\ pc[t] = "advance" /\ pc'[t] = "give" /\ allocated /\ allocated'
        /\ \A u \in Task \ {t} : pc[u] \in {"idle", "take"} /\ pc'[u] \in {"idle", "take"}
        /\ tail' = (IF full THEN Succ(tail) ELSE tail) /\ head' = Succ(head)
        /\ full' = (head' = tail')
        /\ UNCHANGED <<buffer, heap, call, answer>>
    BY InsideAlone DEF PutAdvance, At, Goto, IInv, TypeOK
  <1>2. /\ Window \in Seq(Message) /\ Len(Window) = n /\ n \in 0 .. Max /\ Max \in Nat /\ Max > 0
        /\ \A i \in 1 .. n : /\ SlotOf(i - 1) \in Occupied
                             /\ Window[i] = heap[buffer[SlotOf(i - 1)]]
        /\ (n = Max <=> full)
        /\ n = Count(head, tail, full) /\ \A i \in 0 .. n : SlotOf(i) = From(tail, i)
    BY <1>1, WindowSeq, MaxAssumption
  <1>full. full => n = Max /\ n \in Nat /\ n # 0
    <2>1. full => n = Max
      BY <1>1, WindowSeq
    <2> QED
      BY <2>1, MaxAssumption
  <1>3. d \in Message /\ heap[buffer[head]] = d
    BY <1>1, PutData DEF DataInv, IInv, TaskInv
  <1>4. Contents = Append(older, d)
    BY <1>1, ContentsInside
  <1>5. Contents' = Window'
    BY <1>1, ContentsInsideAfter
  <1>6. Consistent(head, tail, full)
    BY DEF IInv, Indices
  <1>7. /\ Count(head', tail', full') = IF full THEN Max ELSE n + 1
        /\ full => /\ \A i \in 0 .. Max - 2 : From(tail', i) = From(tail, i + 1)
                   /\ From(tail', Max - 1) = head
        /\ ~full => From(tail, n) = head
    BY <1>1, <1>2, <1>6, CountAdvanced
  <1>8. Size' = Count(head', tail', full')
    BY DEF Size, Count
  <1> DEFINE s == Append(older, d)
  <1>9. s \in Seq(Message) /\ Len(s) = Size' /\ Len(s) \in Nat
        /\ \A i \in 1 .. Len(s) : heap[buffer[From(tail', i - 1)]] = s[i]
    <2>1. CASE ~full
      <3>1. /\ Append(Window, d) \in Seq(Message) /\ Len(Append(Window, d)) = n + 1
            /\ \A i \in 1 .. n : Append(Window, d)[i] = Window[i]
            /\ Append(Window, d)[n + 1] = d
        BY <1>2, <1>3, AppendProperties
      <3>2. ASSUME NEW i \in 1 .. n + 1
            PROVE  heap[buffer[From(tail, i - 1)]] = Append(Window, d)[i]
        <4>1. CASE i = n + 1
          <5>1. i - 1 = n
            BY <1>2, <4>1
          <5> QED
            BY <1>3, <1>7, <2>1, <3>1, <4>1, <5>1
        <4>2. CASE i \in 1 .. n
          <5>1. i - 1 \in 0 .. n
            BY <1>2, <4>2
          <5> QED
            BY <1>2, <3>1, <4>2, <5>1
        <4> QED
          BY <1>2, <4>1, <4>2
      <3> QED
        BY <1>1, <1>2, <1>7, <1>8, <2>1, <3>1, <3>2
    <2>2. CASE full
      <3>1. n = Max /\ Window # <<>> /\ n \in Nat
        <4>1. n = Max /\ n \in Nat /\ n # 0
          BY <2>2, <1>full
        <4>2. Len(<<>>) = 0
          OBVIOUS
        <4> QED
          BY <1>2, <4>1, <4>2
      <3>2. /\ Tail(Window) \in Seq(Message) /\ Len(Tail(Window)) = n - 1
            /\ \A i \in 1 .. n - 1 : Tail(Window)[i] = Window[i + 1]
        BY <1>2, <3>1, HeadTailProperties
      <3>3. /\ Append(Tail(Window), d) \in Seq(Message) /\ Len(Append(Tail(Window), d)) = n
            /\ \A i \in 1 .. n - 1 : Append(Tail(Window), d)[i] = Tail(Window)[i]
            /\ Append(Tail(Window), d)[n] = d
        <4>1. (n - 1) + 1 = n
          BY <3>1
        <4> QED
          BY <1>3, <3>2, <4>1, AppendProperties
      <3>4. ASSUME NEW i \in 1 .. n
            PROVE  heap[buffer[From(tail', i - 1)]] = Append(Tail(Window), d)[i]
        <4>1. CASE i = n
          BY <1>3, <1>7, <2>2, <3>1, <3>3, <4>1
        <4>2. CASE i # n
          <5>1. /\ i - 1 \in 0 .. Max - 2 /\ (i - 1) + 1 = i /\ i \in 1 .. n - 1
                /\ i + 1 \in 1 .. n /\ (i + 1) - 1 = i /\ i \in 0 .. n
            BY <1>2, <3>1, <4>2
          <5>2. From(tail', i - 1) = From(tail, i)
            BY <1>7, <2>2, <5>1
          <5>3. Window[i + 1] = heap[buffer[From(tail, i)]]
            BY <1>2, <5>1
          <5> QED
            BY <3>2, <3>3, <5>1, <5>2, <5>3
        <4> QED
          BY <4>1, <4>2
      <3> QED
        BY <1>7, <1>8, <2>2, <3>1, <3>3, <3>4
    <2> QED
      BY <2>1, <2>2
  <1> HIDE DEF s
  <1>10. Run(buffer, heap, tail', Len(s)) = s
    BY <1>9, RunIs
  <1>11. Window' = s
    BY <1>1, <1>9, <1>10, WindowAfter
  <1> QED
    BY <1>1, <1>4, <1>5, <1>11 DEF s

LEMMA GetCopyQueue ==
    ASSUME IInv, NEW t \in Task, GetCopy(t)
    PROVE  Queue!Get(t)
  <1>1. /\ pc[t] = "inside" /\ pc'[t] = "retreat" /\ allocated /\ allocated' /\ ~IsEmpty
        /\ \A u \in Task \ {t} : pc[u] \in {"idle", "take"} /\ pc'[u] \in {"idle", "take"}
        /\ answer' = [answer EXCEPT ![t] = heap[buffer[tail]]]
        /\ UNCHANGED <<ring, heap>>
    BY InsideAlone DEF GetCopy, At, Goto, IInv, TypeOK
  <1>2. /\ Window \in Seq(Message) /\ Len(Window) = Size /\ Size \in 0 .. Max /\ Window # <<>>
        /\ \A i \in 1 .. Size : Window[i] = heap[buffer[SlotOf(i - 1)]]
        /\ \A i \in 0 .. Size : SlotOf(i) = From(tail, i)
    BY <1>1, WindowSeq
  <1>3. Window' = Window
    BY <1>1, WindowSame
  <1>4. Contents = Window /\ Contents' = Tail(Window)
    BY <1>1, <1>3, ContentsInside, ContentsInsideAfter
  <1>5. Head(Window) = heap[buffer[tail]]
    <2>1. Size # 0 /\ Size \in Nat
      BY <1>2, EmptySeq
    <2>2. 1 \in 1 .. Size /\ 1 - 1 = 0 /\ 0 \in 0 .. Size
      BY <2>1
    <2>3. From(tail, 0) = tail
      BY CountLimits DEF IInv, Indices
    <2>4. Window[1] = heap[buffer[tail]]
      BY <1>2, <2>2, <2>3
    <2> QED
      BY <1>2, <2>4
  <1> QED
    BY <1>1, <1>2, <1>4, <1>5 DEF Queue!Get, Queue!Reply, Queue!Dequeue, Queue!Oldest

LEMMA GetRetreatQueue ==
    ASSUME IInv, NEW t \in Task, GetRetreat(t)
    PROVE  Contents' = Contents /\ answer' = answer
  <1> DEFINE n == Size
  <1>1. /\ pc[t] = "retreat" /\ pc'[t] = "free" /\ allocated /\ allocated'
        /\ \A u \in Task \ {t} : pc[u] \in {"idle", "take"} /\ pc'[u] \in {"idle", "take"}
        /\ tail' = Succ(tail) /\ full' = FALSE
        /\ UNCHANGED <<buffer, head, heap, call, answer>>
    BY InsideAlone DEF GetRetreat, At, Goto, IInv, TypeOK
  <1>2. ~IsEmpty /\ Consistent(head, tail, full)
    BY <1>1 DEF IInv, TaskInv, Indices
  <1>3. /\ Window \in Seq(Message) /\ Len(Window) = n /\ n \in 0 .. Max /\ Window # <<>>
        /\ \A i \in 1 .. n : Window[i] = heap[buffer[SlotOf(i - 1)]]
        /\ n = Count(head, tail, full) /\ \A i \in 0 .. n : SlotOf(i) = From(tail, i)
    BY <1>1, <1>2, WindowSeq
  <1>4. Contents = Tail(Window) /\ Contents' = Window'
    BY <1>1, ContentsInside, ContentsInsideAfter
  <1>5. /\ Count(head, tail', FALSE) = n - 1
        /\ \A i \in 0 .. n - 2 : From(tail', i) = From(tail, i + 1)
    <2>2. /\ Count(head, Succ(tail), FALSE) = Count(head, tail, full) - 1
          /\ \A i \in 0 .. Count(head, tail, full) - 2 : From(Succ(tail), i) = From(tail, i + 1)
      BY <1>2, CountRetreated
    <2> QED
      BY <1>1, <1>3, <2>2
  <1>6. Size' = n - 1 /\ n \in Nat
    BY <1>1, <1>3, <1>5, MaxAssumption DEF Size, Count
  <1> DEFINE s == Tail(Window)
  <1>7. s \in Seq(Message) /\ Len(s) = n - 1 /\ \A i \in 1 .. Len(s) : s[i] = Window[i + 1]
    BY <1>3, HeadTailProperties
  <1> HIDE DEF s
  <1>8. ASSUME NEW i \in 1 .. n - 1 PROVE heap[buffer[From(tail', i - 1)]] = s[i]
    <2>1. /\ i - 1 \in 0 .. n - 2 /\ (i - 1) + 1 = i /\ i + 1 \in 1 .. n /\ (i + 1) - 1 = i
          /\ i \in 0 .. n
      BY <1>6
    <2>2. From(tail', i - 1) = From(tail, i) /\ Window[i + 1] = heap[buffer[From(tail, i)]]
      BY <1>3, <1>5, <2>1
    <2> QED
      BY <1>7, <2>2
  <1>9. Run(buffer, heap, tail', Len(s)) = s
    BY <1>7, <1>8, RunIs
  <1>10. Window' = s
    BY <1>1, <1>6, <1>7, <1>9, WindowAfter
  <1> QED
    BY <1>1, <1>4, <1>10 DEF s

(***************************************************************************)
(* The other steps.  Most leave the queue and the answers alone.           *)
(***************************************************************************)
LEMMA Unseen ==
    ASSUME IInv, UNCHANGED <<ring, allocated>>, \A b \in Queued : heap'[b] = heap[b],
           \A u \in Task : /\ pc'[u] = "advance" <=> pc[u] = "advance"
                           /\ pc'[u] = "retreat" <=> pc[u] = "retreat"
                           /\ pc[u] = "advance" => call'[u] = call[u]
    PROVE  Contents' = Contents
  <1>1. allocated => Window' = Window
    BY WindowSame
  <1> QED
    BY <1>1, ContentsSame

LEMMA EmptyWindow ==
    /\ Size = 0 => Window = <<>>
    /\ Size' = 0 => Window' = <<>>
  <1>1. ASSUME NEW b, NEW hp, NEW t PROVE Run(b, hp, t, 0) = <<>>
    <2>1. 0 \in Nat /\ \A i \in 1 .. 0 : hp[b[From(t, i - 1)]] \in Message
      OBVIOUS
    <2>2. Run(b, hp, t, 0) \in Seq(Message) /\ Len(Run(b, hp, t, 0)) = 0
      BY <2>1, RunSeq
    <2> QED
      BY <2>2, EmptySeq
  <1>2. Size = 0 => Window = <<>>
    BY <1>1, WindowIsRun
  <1>3. Size' = 0 => Window' = <<>>
    BY <1>1, WindowAfter
  <1> QED
    BY <1>2, <1>3

LEMMA EnterQueue ==
    ASSUME IInv, NEW t \in Task, Enter(t)
    PROVE  Queue!Begin(t)
  <1>1. /\ UNCHANGED <<ring, allocated, heap>> /\ answer' = [answer EXCEPT ![t] = NoMessage]
        /\ pc[t] = "idle" /\ pc' = [pc EXCEPT ![t] = "take"]
        /\ \E c \in Call : call' = [call EXCEPT ![t] = c]
    BY DEF Enter, At, Goto
  <1>2. \A u \in Task : /\ pc'[u] = "advance" <=> pc[u] = "advance"
                        /\ pc'[u] = "retreat" <=> pc[u] = "retreat"
                        /\ pc[u] = "advance" => call'[u] = call[u]
    BY <1>1 DEF IInv, TypeOK
  <1>3. Contents' = Contents
    BY <1>1, <1>2, Unseen
  <1> QED
    BY <1>1, <1>3 DEF Queue!Begin, Queue!Reply

LEMMA QuietQueue ==
    ASSUME IInv, NEW t \in Task,
           Take(t) \/ Give(t) \/ PutAllocate(t) \/ PutFault(t) \/ GetFree(t)
    PROVE  Contents' = Contents /\ answer' = answer
  <1> USE DEF At, Goto, local, ring
  <1>1. UNCHANGED <<ring, allocated, answer>>
    BY DEF Take, Give, PutAllocate, PutFault, GetFree
  <1>2. \A u \in Task : /\ pc'[u] = "advance" <=> pc[u] = "advance"
                        /\ pc'[u] = "retreat" <=> pc[u] = "retreat"
                        /\ pc[u] = "advance" => call'[u] = call[u]
    BY DEF Take, Give, PutAllocate, PutFault, GetFree, IInv, TypeOK
  <1>3. ASSUME NEW b \in Queued PROVE heap'[b] = heap[b]
    <2>1. b \in Live /\ b \in Block
      BY DEF IInv, QueuedAreLive, Queued, Live
    <2>2. CASE Take(t) \/ Give(t) \/ PutFault(t)
      BY <2>2 DEF Take, Give, PutFault
    <2>3. CASE PutAllocate(t)
      BY <2>1, <2>3 DEF PutAllocate, IInv, TypeOK
    <2>4. CASE GetFree(t)
      <3>1. message[t] \notin Queued
        BY <2>4 DEF GetFree, IInv, TaskInv
      <3> QED
        BY <2>1, <2>4, <3>1 DEF GetFree, IInv, TypeOK
    <2> QED
      BY <2>2, <2>3, <2>4
  <1> QED
    BY <1>1, <1>2, <1>3, Unseen

LEMMA GetNothingQueue ==
    ASSUME IInv, NEW t \in Task, GetNothing(t)
    PROVE  Queue!Get(t)
  <1>1. /\ pc[t] = "inside" /\ pc'[t] = "give" /\ allocated /\ allocated' /\ IsEmpty
        /\ \A u \in Task \ {t} : pc[u] \in {"idle", "take"} /\ pc'[u] \in {"idle", "take"}
        /\ answer' = [answer EXCEPT ![t] = NoMessage]
        /\ UNCHANGED <<ring, heap>>
    BY InsideAlone DEF GetNothing, At, Goto, IInv, TypeOK
  <1>2. Window = <<>> /\ Window' = Window
    BY <1>1, WindowSeq, WindowSame
  <1>3. Contents = <<>> /\ Contents' = <<>>
    BY <1>1, <1>2, ContentsInside, ContentsInsideAfter
  <1> QED
    BY <1>1, <1>3 DEF Queue!Get, Queue!Reply, Queue!Dequeue, Queue!Oldest

LEMMA AnswerQueryQueue ==
    ASSUME IInv, NEW t \in Task, AnswerQuery(t)
    PROVE  Queue!CheckEmpty(t) \/ Queue!CheckFull(t) \/ Queue!GetSize(t)
  <1>1. /\ pc[t] = "inside" /\ pc'[t] = "give" /\ allocated /\ allocated'
        /\ \A u \in Task \ {t} : pc[u] \in {"idle", "take"} /\ pc'[u] \in {"idle", "take"}
        /\ answer' = [answer EXCEPT ![t] = QueryResult(call[t].op)]
        /\ call[t].op \in Query
        /\ UNCHANGED <<ring, heap>>
    BY InsideAlone DEF AnswerQuery, At, Goto, IInv, TypeOK
  <1>2. Window' = Window
    BY <1>1, WindowSame
  <1>3. Contents = Window /\ Contents' = Contents
    BY <1>1, <1>2, ContentsInside, ContentsInsideAfter
  <1>4. Len(Contents) = Size /\ (Size = Max <=> full) /\ (Contents = <<>> <=> IsEmpty)
    BY <1>1, <1>3, WindowSeq
  <1>5. \/ call[t].op = "checkEmpty" /\ QueryResult(call[t].op) = Bit(IsEmpty)
        \/ call[t].op = "checkFull" /\ QueryResult(call[t].op) = Bit(full)
        \/ call[t].op = "getSize" /\ QueryResult(call[t].op) = Size
    BY <1>1 DEF Query, QueryResult
  <1>6. /\ Bit(IsEmpty) = Queue!Bit(Contents = <<>>)
        /\ Bit(full) = Queue!Bit(Len(Contents) = Max)
    BY <1>4 DEF Bit, Queue!Bit
  <1> QED
    BY <1>1, <1>3, <1>4, <1>5, <1>6
       DEF Queue!CheckEmpty, Queue!CheckFull, Queue!GetSize, Queue!Reply

LEMMA ResetQueue ==
    ASSUME IInv, NEW t \in Task, Reset(t)
    PROVE  Queue!Clear
  <1>1. /\ pc'[t] = "give" /\ allocated' /\ answer' = answer
        /\ \A u \in Task \ {t} : pc'[u] \in {"idle", "take"}
        /\ head' = 0 /\ tail' = 0 /\ full' = FALSE
    BY InsideAlone DEF Reset, At, Goto, IInv, TypeOK
  <1>2. Size' = 0
    BY <1>1 DEF Size
  <1>3. Contents' = <<>>
    BY <1>1, <1>2, EmptyWindow, ContentsInsideAfter
  <1> QED
    BY <1>1, <1>3 DEF Queue!Clear

LEMMA CreateQueue ==
    ASSUME IInv, Create
    PROVE  Contents' = Contents /\ answer' = answer
  <1>1. /\ ~allocated /\ allocated' /\ answer' = answer /\ pc' = pc
        /\ \A t \in Task : pc[t] = "idle"
        /\ head' = 0 /\ tail' = 0 /\ full' = FALSE
    BY DEF Create, IInv, Quiet, local
  <1>2. Size' = 0
    BY <1>1 DEF Size
  <1>3. Putting' = {} /\ Getting' = {}
    BY <1>1 DEF Putting, Getting
  <1> QED
    BY <1>1, <1>2, <1>3, EmptyWindow DEF Contents

LEMMA QueueInit == Init => Queue!Init
  <1> SUFFICES ASSUME Init PROVE Queue!Init
    OBVIOUS
  <1>1. Size = 0
    BY DEF Init, Size
  <1>2. Putting = {} /\ Getting = {}
    BY DEF Init, Putting, Getting
  <1>3. Contents = <<>>
    BY <1>1, <1>2, EmptyWindow DEF Contents
  <1> QED
    BY <1>3 DEF Init, Queue!Init

LEMMA QueueStep == IInv /\ DataInv /\ [Next]_vars => [Queue!Next]_(Queue!vars)
  <1> SUFFICES ASSUME IInv, DataInv, [Next]_vars PROVE Queue!Next \/ UNCHANGED Queue!vars
    OBVIOUS
  <1>1. ASSUME NEW t \in Task, Enter(t) PROVE Queue!Next
    BY <1>1, EnterQueue DEF Queue!Next
  <1>2. ASSUME NEW t \in Task,
               \/ Take(t) \/ Give(t) \/ PutAllocate(t) \/ PutFault(t) \/ GetFree(t)
               \/ PutAdvance(t) \/ GetRetreat(t)
        PROVE  UNCHANGED Queue!vars
    BY <1>2, QuietQueue, PutAdvanceQueue, GetRetreatQueue DEF Queue!vars
  <1>3. ASSUME NEW t \in Task, PutStore(t) PROVE Queue!Next
    BY <1>3, PutStoreQueue DEF Queue!Next
  <1>4. ASSUME NEW t \in Task, GetNothing(t) \/ GetCopy(t) PROVE Queue!Next
    BY <1>4, GetNothingQueue, GetCopyQueue DEF Queue!Next
  <1>5. ASSUME NEW t \in Task, AnswerQuery(t) PROVE Queue!Next
    BY <1>5, AnswerQueryQueue DEF Queue!Next
  <1>6. ASSUME NEW t \in Task, Reset(t) PROVE Queue!Next
    BY <1>6, ResetQueue DEF Queue!Next
  <1>7. CASE Free
    BY <1>7 DEF Free, Contents, Queue!Clear, Queue!Next
  <1>8. CASE Create
    BY <1>8, CreateQueue DEF Queue!vars
  <1>9. CASE UNCHANGED vars
    <2>1. Contents' = Contents
      BY <1>9, Unseen DEF vars, ring
    <2> QED
      BY <1>9, <2>1 DEF vars, Queue!vars
  <1> QED
    BY <1>1, <1>2, <1>3, <1>4, <1>5, <1>6, <1>7, <1>8, <1>9 DEF Next, Step

(***************************************************************************)
(* buffer.c implements a queue whose calls are indivisible: whatever the   *)
(* tasks call and however their steps inside the buffer interleave with    *)
(* the calls of the others, every get of cbufGet returns the oldest        *)
(* message that was put and neither read, dropped by a put into a full     *)
(* ring nor cleared, whole and once; and checkEmpty, checkFull and getSize *)
(* answer for that queue.                                                  *)
(***************************************************************************)
THEOREM RingImplementsQueue == Spec => Implements
  <1>1. Init => DataInv
    BY DataInit
  <1>2. IInv /\ DataInv /\ [Next]_vars => DataInv'
    BY DataStep
  <1>3. Init => Queue!Init
    BY QueueInit
  <1>4. IInv /\ DataInv /\ [Next]_vars => [Queue!Next]_(Queue!vars)
    BY QueueStep
  <1> QED
    BY <1>1, <1>2, <1>3, <1>4, Inductive, PTL DEF Spec, Implements, Queue!Spec
=============================================================================
