------------------------- MODULE StateMachineProofs -------------------------
(***************************************************************************)
(* Theorems about the flight state machine, for every set of states that a *)
(* test harness may force.                                                 *)
(***************************************************************************)
EXTENDS StateMachine, TLAPS

(***************************************************************************)
(* The table has a row for s and code, and every such row leads to dst.    *)
(***************************************************************************)
Leads(s, code, dst) ==
    /\ Row(s, code, dst) \in stateTransitions
    /\ \A r \in stateTransitions : r.src = s /\ r.code = code => r.dst = dst

(***************************************************************************)
(* The lookup returns the destination of the row that matches.             *)
(***************************************************************************)
LEMMA LookupRow ==
    ASSUME NEW s, NEW code, NEW dst, Leads(s, code, dst)
    PROVE  stateLookup(s, code) = dst
  <1> DEFINE rows == {r \in stateTransitions : r.src = s /\ r.code = code}
  <1>1. Row(s, code, dst) \in rows
    BY DEF Row, Leads
  <1>2. rows # {}
    BY <1>1
  <1>3. (CHOOSE r \in rows : TRUE) \in rows
    BY <1>2
  <1>4. (CHOOSE r \in rows : TRUE).dst = dst
    BY <1>3 DEF Leads
  <1> QED
    BY <1>2, <1>4 DEF stateLookup

(***************************************************************************)
(* Every state but stateError has a row for stateRetRepeat that stays.     *)
(***************************************************************************)
LEMMA LookupRepeat ==
    \A s \in State \ {"Error"} : stateLookup(s, "Repeat") = s
  <1>1. \A s \in State \ {"Error"} : Leads(s, "Repeat", s)
    BY DEF Leads, stateTransitions, Row
  <1> QED
    BY <1>1, LookupRow

(***************************************************************************)
(* The rows that the transition functions reach.                           *)
(***************************************************************************)
LEMMA LookupActed ==
    /\ stateLookup("Startup", "Pass") = "Fueling"
    /\ stateLookup("Fueling", "Abort") = "GroundAbort"
    /\ stateLookup("Fueling", "Pass") = "Standby"
    /\ stateLookup("Standby", "Abort") = "GroundAbort"
    /\ stateLookup("Standby", "Revert") = "Fueling"
    /\ stateLookup("Standby", "Pass") = "Ignition"
    /\ stateLookup("Ignition", "Abort") = "GroundAbort"
    /\ stateLookup("GroundAbort", "Pass") = "Fueling"
  <1>1. Leads("Startup", "Pass", "Fueling") /\ Leads("GroundAbort", "Pass", "Fueling")
    BY DEF Leads, stateTransitions, Row
  <1>2. Leads("Fueling", "Abort", "GroundAbort") /\ Leads("Fueling", "Pass", "Standby")
    BY DEF Leads, stateTransitions, Row
  <1>3. /\ Leads("Standby", "Abort", "GroundAbort") /\ Leads("Standby", "Revert", "Fueling")
        /\ Leads("Standby", "Pass", "Ignition")
    BY DEF Leads, stateTransitions, Row
  <1>4. Leads("Ignition", "Abort", "GroundAbort")
    BY DEF Leads, stateTransitions, Row
  <1> QED
    BY <1>1, <1>2, <1>3, <1>4, LookupRow

-----------------------------------------------------------------------------

(***************************************************************************)
(* What a call of setNextState does to a state that is not stateError, as  *)
(* one case per trigger that can be acted on.                              *)
(***************************************************************************)
Moves(t, from, to) ==
    /\ curState = from /\ t \in triggers
    /\ curState' = to
    /\ fresh' = fresh \ {t}

Clears(t, from, to) == Moves(t, from, to) /\ triggers' = triggers \ {t}

LEMMA StepCases ==
    ASSUME setNextState, curState \in State \ {"Error"}
    PROVE  \/ UNCHANGED smVars
           \/ Clears("Fueling", "Startup", "Fueling")
           \/ Clears("Abort", "Fueling", "GroundAbort")
           \/ Clears("Standby", "Fueling", "Standby")
           \/ Clears("Abort", "Standby", "GroundAbort")
           \/ Clears("Fueling", "Standby", "Fueling")
           \/ /\ Clears("Ignition", "Standby", "Ignition")
              /\ triggers \cap {"Abort", "Fueling"} = {}
           \/ Clears("Abort", "Ignition", "GroundAbort")
           \/ Moves("Fueling", "GroundAbort", "Fueling") /\ UNCHANGED triggers
  <1> USE DEF Moves, Clears, Act, Consume
  <1>1. ASSUME NEW watched, Repeat(watched)
        PROVE  UNCHANGED smVars
    BY <1>1, LookupRepeat DEF Repeat, smVars
  <1>2. CASE stateTransitionStartup
    BY <1>1, <1>2, LookupActed DEF stateTransitionStartup
  <1>3. CASE stateTransitionFueling
    BY <1>1, <1>3, LookupActed DEF stateTransitionFueling
  <1>4. CASE stateTransitionStandby
    BY <1>1, <1>4, LookupActed DEF stateTransitionStandby
  <1>5. CASE stateTransitionIgnition
    BY <1>1, <1>5, LookupActed DEF stateTransitionIgnition
  <1>6. CASE stateTransitionGroundAbort
    BY <1>1, <1>6, LookupActed DEF stateTransitionGroundAbort
  <1>7. CASE stateTransitionUnfinished
    BY <1>1, <1>7 DEF stateTransitionUnfinished
  <1> QED
    BY <1>2, <1>3, <1>4, <1>5, <1>6, <1>7 DEF setNextState

-----------------------------------------------------------------------------

(***************************************************************************)
(* The inductive invariant: besides the types and the absence of           *)
(* stateError, only the fueling trigger can be set without being fresh.    *)
(***************************************************************************)
Inv == /\ TypeOK
       /\ NeverError
       /\ triggers \ fresh \subseteq {"Fueling"}

LEMMA InvInit == Init => Inv
  BY DEF Init, Inv, TypeOK, NeverError, State, Trigger

LEMMA InvNext == Inv /\ [Next]_smVars => Inv'
  <1> SUFFICES ASSUME Inv, [Next]_smVars PROVE Inv'
    OBVIOUS
  <1> USE DEF Inv, TypeOK, NeverError
  <1>1. CASE setNextState
    <2>1. curState \in State \ {"Error"}
      OBVIOUS
    <2>2. /\ curState' \in State \ {"Error"}
          /\ triggers' \subseteq triggers /\ fresh' \subseteq fresh
      BY <1>1, <2>1, StepCases DEF Clears, Moves, smVars, State
    <2>3. triggers' \ fresh' \subseteq {"Fueling"}
      BY <1>1, <2>1, StepCases DEF Clears, Moves, smVars
    <2> QED
      BY <2>2, <2>3
  <1>2. CASE \E t \in Trigger : SetTrigger(t)
    BY <1>2 DEF SetTrigger
  <1>3. CASE testSetState
    BY <1>3, TestStatesAssumption DEF testSetState
  <1>4. CASE UNCHANGED smVars
    BY <1>4 DEF smVars
  <1> QED
    BY <1>1, <1>2, <1>3, <1>4 DEF Next

LEMMA InvHolds == Spec => []Inv
  BY InvInit, InvNext, PTL DEF Spec

(***************************************************************************)
(* setNextState keeps the current state, the triggers and the history      *)
(* within their types.                                                     *)
(***************************************************************************)
THEOREM TypeCorrect == Spec => []TypeOK
  <1>1. Inv => TypeOK
    BY DEF Inv
  <1> QED
    BY <1>1, InvHolds, PTL

(***************************************************************************)
(* From any state a harness may force, with any triggers, the lookup finds *)
(* a row: the machine is never in stateError.                              *)
(***************************************************************************)
THEOREM StateErrorUnreachable == Spec => []NeverError
  <1>1. Inv => NeverError
    BY DEF Inv
  <1> QED
    BY <1>1, InvHolds, PTL

(***************************************************************************)
(* The engine is lit only from standby, on a fresh ignition trigger, with  *)
(* no abort or fueling trigger waiting.                                    *)
(***************************************************************************)
THEOREM IgnitionClear == Spec => IgnitionIsClear
  <1> DEFINE Lit == setNextState /\ curState # "Ignition" /\ curState' = "Ignition"
                      => /\ curState = "Standby"
                         /\ "Ignition" \in fresh
                         /\ triggers \cap {"Abort", "Fueling"} = {}
  <1>1. ASSUME Inv, setNextState, curState # "Ignition", curState' = "Ignition"
        PROVE  /\ Clears("Ignition", "Standby", "Ignition")
               /\ triggers \cap {"Abort", "Fueling"} = {}
    <2>1. curState \in State \ {"Error"}
      BY <1>1 DEF Inv, TypeOK, NeverError
    <2> QED
      BY <1>1, <2>1, StepCases DEF Clears, Moves, smVars
  <1>2. Inv /\ [Next]_smVars => [Lit]_smVars
    <2> SUFFICES ASSUME Inv, setNextState, curState # "Ignition", curState' = "Ignition"
                 PROVE  /\ curState = "Standby" /\ "Ignition" \in fresh
                        /\ triggers \cap {"Abort", "Fueling"} = {}
      OBVIOUS
    <2>1. curState = "Standby" /\ "Ignition" \in triggers
      BY <1>1 DEF Clears, Moves
    <2> QED
      BY <1>1, <2>1 DEF Inv
  <1> QED
    BY <1>2, InvHolds, PTL DEF Spec, IgnitionIsClear

-----------------------------------------------------------------------------

(***************************************************************************)
(* In the firmware, which never forces a state, only the fueling trigger   *)
(* stays set after it was acted on, and only in fueling, standby and       *)
(* ground abort.  The property is inductive together with the types.       *)
(***************************************************************************)
THEOREM StaleTriggers ==
    ASSUME TestStates = {}
    PROVE  Spec => []OnlyFuelingLingers
  <1>1. Init => OnlyFuelingLingers
    BY DEF Init, OnlyFuelingLingers
  <1>2. Inv /\ OnlyFuelingLingers /\ [Next]_smVars => OnlyFuelingLingers'
    <2> SUFFICES ASSUME Inv, OnlyFuelingLingers, [Next]_smVars
                 PROVE  OnlyFuelingLingers'
      OBVIOUS
    <2>1. CASE setNextState
      <3>1. curState \in State \ {"Error"}
        BY DEF Inv, TypeOK, NeverError
      <3> QED
        BY <2>1, <3>1, StepCases DEF Clears, Moves, smVars, OnlyFuelingLingers
    <2>2. CASE \E t \in Trigger : SetTrigger(t)
      BY <2>2 DEF SetTrigger, OnlyFuelingLingers
    <2>3. ~testSetState
      BY DEF testSetState
    <2>4. CASE UNCHANGED smVars
      BY <2>4 DEF smVars, OnlyFuelingLingers
    <2> QED
      BY <2>1, <2>2, <2>3, <2>4 DEF Next
  <1> QED
    BY <1>1, <1>2, InvHolds, PTL DEF Spec
=============================================================================
