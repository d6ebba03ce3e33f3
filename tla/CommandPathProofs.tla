------------------------- MODULE CommandPathProofs -------------------------
(***************************************************************************)
(* Theorems about the command path, for every buffer and packet size.      *)
(***************************************************************************)
EXTENDS CommandPath, StateMachineProofs

(***************************************************************************)
(* The buffer's operators keep a queue a queue, within its capacity.       *)
(***************************************************************************)
LEMMA EnqueueType ==
    ASSUME NEW S, NEW q \in Seq(S), NEW m \in S, Len(q) <= Capacity
    PROVE  /\ Buf!Enqueue(q, m) \in Seq(S)
           /\ Len(Buf!Enqueue(q, m)) <= Capacity
  <1>1. CASE Len(q) = Capacity
    <2>1. q # <<>>
      BY <1>1, SizeAssumption
    <2>2. Tail(q) \in Seq(S) /\ Len(Tail(q)) = Len(q) - 1
      BY <2>1
    <2> QED
      BY <1>1, <2>2, SizeAssumption DEF Buf!Enqueue
  <1>2. CASE Len(q) # Capacity
    BY <1>2, SizeAssumption DEF Buf!Enqueue
  <1> QED
    BY <1>1, <1>2

LEMMA DequeueType ==
    ASSUME NEW S, NEW q \in Seq(S), q # <<>>
    PROVE  /\ Buf!Oldest(q) \in S
           /\ Buf!Dequeue(q) \in Seq(S)
           /\ Len(Buf!Dequeue(q)) <= Len(q)
  BY DEF Buf!Oldest, Buf!Dequeue

(***************************************************************************)
(* A packet as radioReceive delivers it is a sequence of its own bytes.    *)
(***************************************************************************)
LEMMA PacketType ==
    ASSUME NEW n \in Nat \ {0}, NEW p \in [1 .. n -> Byte]
    PROVE  /\ p \in Seq(Range(p)) /\ Len(p) = n
           /\ Range(p) \subseteq Byte /\ p[Len(p)] \in Byte
  <1>1. p \in Seq(Byte) /\ Len(p) = n /\ DOMAIN p = 1 .. n
    OBVIOUS
  <1>2. \A i \in 1 .. n : p[i] \in Range(p)
    BY <1>1 DEF Range
  <1>3. p \in Seq(Range(p))
    BY <1>1, <1>2
  <1>4. Range(p) \subseteq Byte
    BY <1>1 DEF Range
  <1> QED
    BY <1>1, <1>3, <1>4

LEMMA SeqMonotonic ==
    ASSUME NEW S, NEW T, S \subseteq T, NEW q \in Seq(S)
    PROVE  q \in Seq(T)
  OBVIOUS

-----------------------------------------------------------------------------

(***************************************************************************)
(* The inductive invariant.  Every byte on its way from the radio to the   *)
(* triggers was heard: those in inputLoop's packet, those in the buffer    *)
(* and the one dealWithCritMessages keeps.                                 *)
(***************************************************************************)
BytesWereHeard ==
    /\ heard \subseteq Byte
    /\ packet \in Seq(heard) /\ radioBufRXCrit \in Seq(heard)
    /\ critMessage \in heard \cup {None}

PathInv == /\ PathTypeOK
           /\ Inv
           /\ BytesWereHeard
           /\ StateWasCommanded

LEMMA PathInvInit == PathInit => PathInv
  <1> SUFFICES ASSUME PathInit PROVE PathInv
    OBVIOUS
  <1>1. /\ packet \in Seq(heard) /\ radioBufRXCrit \in Seq(heard)
        /\ packet \in Seq(Byte) /\ radioBufRXCrit \in Seq(Byte)
        /\ Len(packet) = 0 /\ Len(radioBufRXCrit) = 0
    BY DEF PathInit
  <1>2. Inv
    BY InvInit DEF PathInit
  <1>3. PathTypeOK
    BY <1>1, <1>2, SizeAssumption DEF PathInit, PathTypeOK, Inv
  <1>4. BytesWereHeard
    BY <1>1 DEF PathInit, BytesWereHeard
  <1>5. StateWasCommanded
    BY DEF PathInit, Init, StateWasCommanded
  <1> QED
    BY <1>2, <1>3, <1>4, <1>5 DEF PathInv

(***************************************************************************)
(* inputLoop and the two gets leave the state machine alone: they only     *)
(* move bytes.                                                             *)
(***************************************************************************)
LEMMA BytesMove ==
    ASSUME PathInv, UNCHANGED smVars, heard \subseteq heard',
           PathTypeOK', BytesWereHeard'
    PROVE  PathInv'
  BY DEF PathInv, smVars, Inv, TypeOK, NeverError, StateWasCommanded

LEMMA ReceiveStep == PathInv /\ Receive => PathInv'
  <1> SUFFICES ASSUME PathInv, Receive PROVE PathInv'
    OBVIOUS
  <1>1. PICK n \in 1 .. MaxPacket : packet' \in [1 .. n -> Byte]
    BY DEF Receive
  <1>2. n \in Nat \ {0} /\ n <= MaxPacket
    BY <1>1, SizeAssumption
  <1>3. /\ packet' \in Seq(Range(packet')) /\ Len(packet') = n
        /\ Range(packet') \subseteq Byte /\ packet'[Len(packet')] \in Byte
    BY <1>1, <1>2, PacketType
  <1>4. UNCHANGED smVars /\ heard \subseteq heard' /\ heard' \subseteq Byte
    BY <1>3 DEF Receive, PathInv, BytesWereHeard
  <1>5. packet' \in Seq(heard') /\ radioBufRXCrit' \in Seq(heard') /\ packet' \in Seq(Byte)
    BY <1>3, <1>4, SeqMonotonic DEF Receive, PathInv, BytesWereHeard
  <1>6. PathTypeOK'
    BY <1>2, <1>3, <1>4, <1>5 DEF Receive, PathInv, PathTypeOK, smVars, TypeOK
  <1>7. BytesWereHeard'
    BY <1>4, <1>5 DEF Receive, PathInv, BytesWereHeard
  <1> QED
    BY <1>4, <1>6, <1>7, BytesMove

LEMMA PutByteStep == PathInv /\ PutByte => PathInv'
  <1> SUFFICES ASSUME PathInv, PutByte PROVE PathInv'
    OBVIOUS
  <1>1. /\ packet \in Seq(heard) /\ radioBufRXCrit \in Seq(heard)
        /\ heard \subseteq Byte /\ packet # <<>>
        /\ Len(packet) <= MaxPacket /\ Len(radioBufRXCrit) <= Capacity
    BY DEF PutByte, PathInv, BytesWereHeard, PathTypeOK
  <1>2. /\ Head(packet) \in heard /\ Tail(packet) \in Seq(heard)
        /\ Len(Tail(packet)) = Len(packet) - 1 /\ Len(packet) \in Nat
    BY <1>1
  <1>3. /\ Buf!Enqueue(radioBufRXCrit, Head(packet)) \in Seq(heard)
        /\ Len(Buf!Enqueue(radioBufRXCrit, Head(packet))) <= Capacity
    BY <1>1, <1>2, EnqueueType
  <1>4. packet' \in Seq(heard') /\ radioBufRXCrit' \in Seq(heard')
    BY <1>2, <1>3 DEF PutByte, history
  <1>5. packet' \in Seq(Byte) /\ radioBufRXCrit' \in Seq(Byte)
    BY <1>1, <1>4, SeqMonotonic DEF PutByte, history
  <1>6. Len(packet') <= MaxPacket
    BY <1>1, <1>2, SizeAssumption DEF PutByte
  <1>7. PathTypeOK'
    BY <1>3, <1>5, <1>6 DEF PutByte, PathInv, PathTypeOK, smVars, TypeOK, history
  <1>8. BytesWereHeard'
    BY <1>4 DEF PutByte, PathInv, BytesWereHeard, history
  <1> QED
    BY <1>7, <1>8, BytesMove DEF PutByte, history

LEMMA GetByteStep == PathInv /\ GetByte => PathInv'
  <1> SUFFICES ASSUME PathInv, GetByte PROVE PathInv'
    OBVIOUS
  <1>1. /\ radioBufRXCrit \in Seq(heard) /\ radioBufRXCrit # <<>>
        /\ heard \subseteq Byte /\ Len(radioBufRXCrit) <= Capacity
    BY DEF GetByte, PathInv, BytesWereHeard, PathTypeOK
  <1>2. /\ Buf!Oldest(radioBufRXCrit) \in heard
        /\ Buf!Dequeue(radioBufRXCrit) \in Seq(heard)
        /\ Len(Buf!Dequeue(radioBufRXCrit)) <= Len(radioBufRXCrit)
    BY <1>1, DequeueType
  <1>3. /\ critMessage' \in heard' /\ radioBufRXCrit' \in Seq(heard')
        /\ Len(radioBufRXCrit') <= Capacity
    BY <1>1, <1>2, SizeAssumption DEF GetByte, history
  <1>4. radioBufRXCrit' \in Seq(Byte)
    BY <1>1, <1>3, SeqMonotonic DEF GetByte, history
  <1>5. PathTypeOK'
    BY <1>1, <1>3, <1>4 DEF GetByte, PathInv, PathTypeOK, smVars, TypeOK, history
  <1>6. BytesWereHeard'
    BY <1>3 DEF GetByte, PathInv, BytesWereHeard, history
  <1> QED
    BY <1>5, <1>6, BytesMove DEF GetByte, history

LEMMA GetNothingStep == PathInv /\ GetNothing => PathInv'
  <1> SUFFICES ASSUME PathInv, GetNothing PROVE PathInv'
    OBVIOUS
  <1>1. PathTypeOK' /\ BytesWereHeard'
    BY DEF GetNothing, PathInv, PathTypeOK, BytesWereHeard, smVars, TypeOK, history
  <1> QED
    BY <1>1, BytesMove DEF GetNothing, history

-----------------------------------------------------------------------------

(***************************************************************************)
(* The steps that set triggers or act on them leave every byte where it    *)
(* is.                                                                     *)
(***************************************************************************)
LEMMA TriggerSet ==
    ASSUME PathInv, NEW t \in heard \cup {"Ignition"}, t \in Trigger, SetTrigger(t),
           UNCHANGED heard
    PROVE  Inv' /\ StateWasCommanded'
  <1>1. [Next]_smVars
    BY DEF Next
  <1>2. Inv'
    BY <1>1, InvNext DEF PathInv
  <1> QED
    BY <1>2 DEF PathInv, SetTrigger, StateWasCommanded

LEMMA SwitchStep == PathInv /\ Switch => PathInv'
  <1> SUFFICES ASSUME PathInv, Switch PROVE PathInv'
    OBVIOUS
  <1>1. Inv' /\ StateWasCommanded'
    <2>1. CASE critMessage \in HMITrigger /\ SetTrigger(critMessage)
      <3>1. critMessage \in heard /\ critMessage \in Trigger
        BY <2>1 DEF PathInv, BytesWereHeard, None, HMITrigger, Trigger
      <3> QED
        BY <2>1, <3>1, TriggerSet DEF Switch, history
    <2>2. CASE UNCHANGED smVars
      BY <2>2 DEF PathInv, Inv, TypeOK, NeverError, StateWasCommanded, smVars,
                  Switch, history
    <2> QED
      BY <2>1, <2>2 DEF Switch
  <1>2. PathTypeOK'
    BY <1>1 DEF PathInv, PathTypeOK, Inv, Switch, history
  <1>3. BytesWereHeard'
    BY DEF PathInv, BytesWereHeard, Switch, history
  <1> QED
    BY <1>1, <1>2, <1>3 DEF PathInv

LEMMA GSEStep == PathInv /\ GSE => PathInv'
  <1> SUFFICES ASSUME PathInv, GSE PROVE PathInv'
    OBVIOUS
  <1>1. Inv' /\ StateWasCommanded'
    BY TriggerSet DEF GSE, radioVars, history, Trigger
  <1>2. PathTypeOK'
    BY <1>1 DEF PathInv, PathTypeOK, Inv, GSE, radioVars, history
  <1>3. BytesWereHeard'
    BY DEF PathInv, BytesWereHeard, GSE, radioVars, history
  <1> QED
    BY <1>1, <1>2, <1>3 DEF PathInv

(***************************************************************************)
(* Each move of the state machine needs the trigger that was heard.        *)
(***************************************************************************)
LEMMA StateTaskStep == PathInv /\ StateTask => PathInv'
  <1> SUFFICES ASSUME PathInv, StateTask PROVE PathInv'
    OBVIOUS
  <1>1. curState \in State \ {"Error"} /\ StateWasCommanded
    BY DEF PathInv, Inv, TypeOK, NeverError
  <1>2. setNextState /\ UNCHANGED radioVars
    BY DEF StateTask
  <1>3. Inv'
    BY <1>2, InvNext DEF PathInv, Next
  <1>4. StateWasCommanded'
    BY <1>1, <1>2, StepCases DEF Clears, Moves, smVars, radioVars, history, StateWasCommanded
  <1>5. PathTypeOK'
    BY <1>2, <1>3 DEF PathInv, PathTypeOK, Inv, radioVars, history
  <1>6. BytesWereHeard'
    BY <1>2 DEF PathInv, BytesWereHeard, radioVars, history
  <1> QED
    BY <1>3, <1>4, <1>5, <1>6 DEF PathInv

LEMMA PathInvNext == PathInv /\ [PathNext]_vars => PathInv'
  <1>1. PathInv /\ UNCHANGED vars => PathInv'
    BY DEF vars, radioVars, history, smVars, PathInv, PathTypeOK, Inv, TypeOK, NeverError,
           BytesWereHeard, StateWasCommanded
  <1> QED
    BY <1>1, ReceiveStep, PutByteStep, GetByteStep, GetNothingStep, SwitchStep,
       StateTaskStep, GSEStep DEF PathNext, inputLoop, dealWithCritMessages

LEMMA PathInvHolds == PathSpec => []PathInv
  BY PathInvInit, PathInvNext, PTL DEF PathSpec

(***************************************************************************)
(* Queue and packet lengths stay in their bounds, for every bound.         *)
(***************************************************************************)
THEOREM PathTypeCorrect == PathSpec => []PathTypeOK
  <1>1. PathInv => PathTypeOK
    BY DEF PathInv
  <1> QED
    BY <1>1, PathInvHolds, PTL

(***************************************************************************)
(* No trigger and no state that the HMI did not command by a byte that was *)
(* received, whatever the capacity of the buffer and however the tasks     *)
(* interleave: the engine is never lit without a fueling and a standby     *)
(* command.                                                                *)
(***************************************************************************)
THEOREM OnlyCommandedStates == PathSpec => []StateWasCommanded
  <1>1. PathInv => StateWasCommanded
    BY DEF PathInv
  <1> QED
    BY <1>1, PathInvHolds, PTL

(***************************************************************************)
(* The composition implements the state machine on its own: every step of  *)
(* a task is a step of StateMachine or leaves its variables alone.         *)
(***************************************************************************)
THEOREM PathImplementsStateMachine == PathSpec => Spec
  <1>1. PathInit => Init
    BY DEF PathInit
  <1>2. [PathNext]_vars => [Next]_smVars
    <2> SUFFICES ASSUME [PathNext]_vars PROVE [Next]_smVars
      OBVIOUS
    <2>1. CASE inputLoop
      BY <2>1 DEF inputLoop, Receive, PutByte
    <2>2. CASE dealWithCritMessages
      <3>1. HMITrigger \subseteq Trigger
        BY DEF HMITrigger, Trigger
      <3> QED
        BY <2>2, <3>1 DEF dealWithCritMessages, GetByte, GetNothing, Switch, Next
    <2>3. CASE StateTask
      BY <2>3 DEF StateTask, Next
    <2>4. CASE GSE
      BY <2>4 DEF GSE, Next, Trigger
    <2>5. CASE UNCHANGED vars
      BY <2>5 DEF vars
    <2> QED
      BY <2>1, <2>2, <2>3, <2>4, <2>5 DEF PathNext
  <1> QED
    BY <1>1, <1>2, PTL DEF PathSpec, Spec

(***************************************************************************)
(* So what holds of the state machine in the firmware holds of it behind   *)
(* the radio: only the fueling trigger stays set after it was acted on.    *)
(***************************************************************************)
THEOREM PathStaleTriggers ==
    ASSUME TestStates = {}
    PROVE  PathSpec => []OnlyFuelingLingers
  BY PathImplementsStateMachine, StaleTriggers, PTL
=============================================================================
