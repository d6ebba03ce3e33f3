---------------------------- MODULE StateMachine ----------------------------
(***************************************************************************)
(* The flight state machine of common/src/state_machine.c: a current       *)
(* state, a transition function per state that looks at the triggers and   *)
(* returns a code, and a table that maps state and code to the next state. *)
(*                                                                         *)
(* StateTask calls setNextState every 10 ms at the highest priority, above *)
(* the radio tasks that set the triggers, so a call is one indivisible     *)
(* step; it does not take the semaphore of stateTransitionInput.           *)
(***************************************************************************)
EXTENDS Integers, FiniteSets

(***************************************************************************)
(* The states testSetState is called with: none in the firmware, any state *)
(* but stateError in a test harness.                                       *)
(***************************************************************************)
CONSTANT TestStates

VARIABLES
    curState,    \* the current state
    triggers,    \* stateTransitionInput: the triggers that are set
    fresh        \* history: the triggers set but not acted on since

smVars == <<curState, triggers, fresh>>

-----------------------------------------------------------------------------

State == {"Error", "Startup", "Fueling", "Standby", "Ignition", "PoweredAscent",
          "UnpoweredFlight", "Ballutes", "MainParachutes", "Landed",
          "GroundAbort", "FlightAbort"}

ASSUME TestStatesAssumption == TestStates \subseteq State \ {"Error"}

RetCode == {"Pass", "Repeat", "Revert", "Abort"}

(* HMI_triggerAbort, HMI_triggerStandby, HMI_triggerFueling, GSE_triggerIgnition *)
Trigger == {"Abort", "Standby", "Fueling", "Ignition"}

Row(src, code, dst) == [src |-> src, code |-> code, dst |-> dst]

stateTransitions ==
    { Row(s, "Repeat", s) : s \in State \ {"Error"} } \cup
    { Row("Startup",         "Pass",   "Fueling"),
      Row("Fueling",         "Pass",   "Standby"),
      Row("Fueling",         "Abort",  "GroundAbort"),
      Row("Standby",         "Pass",   "Ignition"),
      Row("Standby",         "Revert", "Fueling"),
      Row("Standby",         "Abort",  "GroundAbort"),
      Row("GroundAbort",     "Pass",   "Fueling"),
      Row("Ignition",        "Pass",   "PoweredAscent"),
      Row("Ignition",        "Abort",  "GroundAbort"),
      Row("PoweredAscent",   "Pass",   "UnpoweredFlight"),
      Row("PoweredAscent",   "Abort",  "FlightAbort"),
      Row("UnpoweredFlight", "Pass",   "Ballutes"),
      Row("Ballutes",        "Pass",   "MainParachutes"),
      Row("MainParachutes",  "Pass",   "Landed"),
      Row("FlightAbort",     "Pass",   "UnpoweredFlight") }

(* Mutant: the wrong column of the table is returned. *)
MutLookupReturnsCode(s, code) ==
    LET rows == {r \in stateTransitions : r.src = s /\ r.code = code}
    IN  IF rows = {} THEN "Error" ELSE (CHOOSE r \in rows : TRUE).code

stateLookup(s, code) ==
    LET rows == {r \in stateTransitions : r.src = s /\ r.code = code}
    IN  IF rows = {} THEN "Error" ELSE (CHOOSE r \in rows : TRUE).dst

-----------------------------------------------------------------------------

Init == curState = "Startup" /\ triggers = {} /\ fresh = {}

(***************************************************************************)
(* What a transition function does: act on a trigger and clear it, or      *)
(* repeat when none of the triggers it watches is set.                     *)
(***************************************************************************)
Act(t, code) ==
    /\ t \in triggers
    /\ curState' = stateLookup(curState, code)
    /\ fresh' = fresh \ {t}

Consume(t, code) == Act(t, code) /\ triggers' = triggers \ {t}

Repeat(watched) ==
    /\ watched \cap triggers = {}
    /\ curState' = stateLookup(curState, "Repeat")
    /\ UNCHANGED <<triggers, fresh>>

stateTransitionStartup ==
    /\ curState = "Startup"
    /\ Consume("Fueling", "Pass") \/ Repeat({"Fueling"})

(* Mutant: the abort is acted on but stays set. *)
MutFuelingKeepsAbort ==
    /\ curState = "Fueling"
    /\ \/ Act("Abort", "Abort") /\ UNCHANGED triggers
       \/ "Abort" \notin triggers /\ Consume("Standby", "Pass")
       \/ Repeat({"Abort", "Standby"})

stateTransitionFueling ==
    /\ curState = "Fueling"
    /\ \/ Consume("Abort", "Abort")
       \/ "Abort" \notin triggers /\ Consume("Standby", "Pass")
       \/ Repeat({"Abort", "Standby"})

(* Mutant: the ignition trigger is looked at before the HMI's. *)
MutStandbyIgnitionFirst ==
    /\ curState = "Standby"
    /\ \/ Consume("Ignition", "Pass")
       \/ "Ignition" \notin triggers /\ Consume("Abort", "Abort")
       \/ triggers \cap {"Ignition", "Abort"} = {} /\ Consume("Fueling", "Revert")
       \/ Repeat({"Abort", "Fueling", "Ignition"})

stateTransitionStandby ==
    /\ curState = "Standby"
    /\ \/ Consume("Abort", "Abort")
       \/ "Abort" \notin triggers /\ Consume("Fueling", "Revert")
       \/ triggers \cap {"Abort", "Fueling"} = {} /\ Consume("Ignition", "Pass")
       \/ Repeat({"Abort", "Fueling", "Ignition"})

(* Mutant: ignition answers an abort with the code only standby may return. *)
MutIgnitionReverts ==
    /\ curState = "Ignition"
    /\ Consume("Abort", "Revert") \/ Repeat({"Abort"})

stateTransitionIgnition ==
    /\ curState = "Ignition"
    /\ Consume("Abort", "Abort") \/ Repeat({"Abort"})

(* The only function that acts on a trigger without clearing it. *)
stateTransitionGroundAbort ==
    /\ curState = "GroundAbort"
    /\ \/ Act("Fueling", "Pass") /\ UNCHANGED triggers
       \/ Repeat({"Fueling"})

(* The transition functions that always return stateRetRepeat. *)
Unfinished == {"Error", "PoweredAscent", "UnpoweredFlight", "Ballutes",
               "MainParachutes", "Landed", "FlightAbort"}

stateTransitionUnfinished == curState \in Unfinished /\ Repeat({})

setNextState ==
    \/ stateTransitionStartup \/ stateTransitionFueling \/ stateTransitionStandby
    \/ stateTransitionIgnition \/ stateTransitionGroundAbort
    \/ stateTransitionUnfinished

(* The radio sets the HMI triggers, the ground support equipment the other. *)
SetTrigger(t) ==
    /\ triggers' = triggers \cup {t}
    /\ fresh' = fresh \cup {t}
    /\ UNCHANGED curState

testSetState == curState' \in TestStates /\ UNCHANGED <<triggers, fresh>>

Next == setNextState \/ (\E t \in Trigger : SetTrigger(t)) \/ testSetState

Spec == Init /\ [][Next]_smVars

-----------------------------------------------------------------------------

TypeOK == curState \in State /\ triggers \subseteq Trigger /\ fresh \subseteq Trigger

(***************************************************************************)
(* state_machine.c, 33: a change that is not in the table should not       *)
(* happen.  From any state, with any triggers, the code a transition       *)
(* function returns has a row in the table, so the lookup never falls      *)
(* through to stateError, which no transition function leaves.             *)
(***************************************************************************)
NeverError == curState # "Error"

(***************************************************************************)
(* The engine is lit only from standby, on an ignition command that has    *)
(* not lit it before, and never while an abort or a fueling command is     *)
(* waiting to be acted on: the order in which the triggers are looked at   *)
(* is what makes an abort win over an ignition set in the same 10 ms.      *)
(***************************************************************************)
IgnitionIsClear ==
    [][setNextState /\ curState # "Ignition" /\ curState' = "Ignition"
         => /\ curState = "Standby"
            /\ "Ignition" \in fresh
            /\ triggers \cap {"Abort", "Fueling"} = {}]_smVars

(***************************************************************************)
(* test_state_machine.c, 65-67: after a move to ground abort, "Stay in     *)
(* Ground Abort" until the HMI sends fueling.  The machine leaves ground   *)
(* abort only on a fueling command that it has not acted on before.        *)
(***************************************************************************)
AbortHolds ==
    [][curState = "GroundAbort" /\ curState' # "GroundAbort"
         => "Fueling" \in fresh]_smVars

(***************************************************************************)
(* What does hold in the firmware: a trigger that was acted on can stay    *)
(* set only if it is the fueling trigger, acted on in ground abort, and    *)
(* only in the three states where it can do harm: it undoes the next       *)
(* standby, or the next ground abort.  Nothing stale is set when the       *)
(* engine is lit, or at startup.                                           *)
(***************************************************************************)
OnlyFuelingLingers ==
    \/ triggers = fresh
    \/ /\ triggers \ fresh = {"Fueling"} /\ fresh \subseteq triggers
       /\ curState \in {"Fueling", "Standby", "GroundAbort"}
=============================================================================
