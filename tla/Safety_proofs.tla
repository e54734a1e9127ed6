--------------------------- MODULE Safety_proofs ---------------------------
(***************************************************************************)
(* Proofs about Safety for every staleness limit and every clearing delay. *)
(***************************************************************************)
EXTENDS Safety, TLAPS

(* Levels are ranked, and stops are the two worst. *)
LEMMA Ranks ==
    /\ Level = {"safe", "warn", "unsafe", "fault"}
    /\ Stop = {"unsafe", "fault"}
    /\ Severity["safe"] = 0 /\ Severity["warn"] = 1
    /\ Severity["unsafe"] = 2 /\ Severity["fault"] = 3
BY DEF Level, Stop, Severity, Gate!Level, Gate!Stop, Gate!Severity

(* An evaluation yields a level, and hysteresis turns it at most from SAFE  *)
(* into WARN.                                                               *)
LEMMA EvaluationYields ==
    /\ Raw \in Level
    /\ Effective \in Level
    /\ Effective = Raw \/ (Raw = "safe" /\ Effective = "warn")
<1>1. Raw \in {"safe", "warn", "unsafe", "fault"}
  BY DEF Raw
<1> QED
  BY <1>1, Ranks DEF Effective

-----------------------------------------------------------------------------
(***************************************************************************)
(* The inductive invariant: types, that a protective action is under way   *)
(* only for a stop and for the one that was seen, and that the clearing    *)
(* delay never runs ahead of the time since the last stop.                 *)
(***************************************************************************)
LevelsOK == state \in Level /\ eff \in Level /\ seen \in Level

TimesOK ==
    /\ okFor \in {Never} \cup 0 .. ClearDelay
    /\ sinceStop \in 0 .. ClearDelay
    /\ okFor <= sinceStop

PhaseOK ==
    /\ pc \in {"evaluate", "sleep", "abort", "notify"}
    /\ pc \in {"abort", "notify"} => eff \in Stop /\ eff = seen

IInv == LevelsOK /\ TimesOK /\ PhaseOK /\ NeverBetterThanSeen

LEMMA InitIInv == Init => IInv
BY Ranks, SafetyConstants
   DEF Init, IInv, LevelsOK, TimesOK, PhaseOK, NeverBetterThanSeen, Never

LEMMA StepIInv ==
    ASSUME IInv, [Next]_vars
    PROVE  IInv'
<1> USE Ranks, SafetyConstants DEF IInv
<1>1. ASSUME Evaluate PROVE IInv'
  <2>1. OkForNow \in {Never} \cup 0 .. ClearDelay /\ OkForNow <= sinceStop'
    BY <1>1 DEF Evaluate, EvaluateProtective, EvaluatePlain, Observe, OkForNow, TimesOK, Never
  <2>2. TimesOK'
    BY <1>1, <2>1 DEF Evaluate, EvaluateProtective, EvaluatePlain, Observe, TimesOK
  <2>3. LevelsOK'
    BY <1>1, EvaluationYields
       DEF Evaluate, EvaluateProtective, EvaluatePlain, Observe, LevelsOK
  <2>4. PhaseOK'
    BY <1>1, EvaluationYields
       DEF Evaluate, EvaluateProtective, EvaluatePlain, Observe, Protective, PhaseOK
  <2>5. NeverBetterThanSeen'
    BY <1>1, EvaluationYields
       DEF Evaluate, EvaluateProtective, EvaluatePlain, Observe, NeverBetterThanSeen
  <2> QED
    BY <2>2, <2>3, <2>4, <2>5
<1>2. ASSUME ParkMount \/ Publish PROVE IInv'
  BY <1>2
     DEF ParkMount, Publish, ages, LevelsOK, TimesOK, PhaseOK, NeverBetterThanSeen
<1>3. ASSUME Tick PROVE IInv'
  <2>1. TimesOK'
    BY <1>3 DEF Tick, Older, TimesOK, Never
  <2> QED
    BY <1>3, <2>1 DEF Tick, LevelsOK, PhaseOK, NeverBetterThanSeen
<1>4. ASSUME InputChanges PROVE IInv'
  BY <1>4
     DEF InputChanges, SetWeather, StationReports, StationForgotten, SunMoves, SetEStop,
         SetOverride, monitor, ages, LevelsOK, TimesOK, PhaseOK, NeverBetterThanSeen
<1>5. CASE UNCHANGED vars
  BY <1>5 DEF vars, LevelsOK, TimesOK, PhaseOK, NeverBetterThanSeen
<1> QED
  BY <1>1, <1>2, <1>3, <1>4, <1>5 DEF Next

THEOREM Invariance == Spec => []IInv
BY InitIInv, StepIInv, PTL DEF Spec

(* Between evaluations the published state is at least as bad as what the   *)
(* last evaluation saw.                                                     *)
THEOREM NoRosierThanSeen == Spec => []NeverBetterThanSeen
BY Invariance, PTL DEF IInv

-----------------------------------------------------------------------------
(***************************************************************************)
(* Type correctness.  Levels, times and the loop's place are in IInv; the  *)
(* inputs, their ages and the flags are typed here.                        *)
(***************************************************************************)
FlagsOK   == override \in BOOLEAN /\ estop \in BOOLEAN /\ daylight \in BOOLEAN
StoppedOK == stopped \in BOOLEAN

ReadingsOK ==
    /\ pushed \in Class /\ station \in Class
    /\ pushedAge \in 0 .. StaleAfter + 1
    /\ heard \in 0 .. StaleAfter + 1

LEMMA InitTypes == Init => FlagsOK /\ StoppedOK /\ ReadingsOK
<1> SUFFICES ASSUME Init PROVE FlagsOK /\ StoppedOK /\ ReadingsOK
  OBVIOUS
<1>1. FlagsOK
  BY Zenon DEF Init, FlagsOK
<1>2. StoppedOK
  BY Zenon DEF Init, StoppedOK
<1>3. ReadingsOK
  BY SafetyConstants DEF Init, ReadingsOK, Class
<1> QED
  BY <1>1, <1>2, <1>3

LEMMA StepTypes ==
    ASSUME FlagsOK, StoppedOK, ReadingsOK, [Next]_vars
    PROVE  FlagsOK' /\ StoppedOK' /\ ReadingsOK'
<1>1. CASE Evaluate
  <2>1. FlagsOK'
    BY <1>1, Zenon DEF FlagsOK, Evaluate, EvaluateProtective, EvaluatePlain, inputs
  <2>2. StoppedOK'
    BY <1>1, Zenon DEF StoppedOK, Evaluate, EvaluateProtective, EvaluatePlain
  <2>3. ReadingsOK'
    BY <1>1 DEF ReadingsOK, Evaluate, EvaluateProtective, EvaluatePlain, inputs
  <2> QED
    BY <2>1, <2>2, <2>3
<1>2. CASE ParkMount \/ Publish
  <2>1. FlagsOK'
    BY <1>2, Zenon DEF FlagsOK, ParkMount, Publish, inputs
  <2>2. StoppedOK'
    BY <1>2, Zenon DEF StoppedOK, ParkMount, Publish
  <2>3. ReadingsOK'
    BY <1>2 DEF ReadingsOK, ParkMount, Publish, inputs, ages
  <2> QED
    BY <2>1, <2>2, <2>3
<1>3. CASE Tick
  <2>1. FlagsOK'
    BY <1>3, Zenon DEF FlagsOK, Tick, inputs
  <2>2. StoppedOK'
    BY <1>3, Zenon DEF StoppedOK, Tick
  <2>3. ReadingsOK'
    BY <1>3, SafetyConstants DEF ReadingsOK, Tick, Older, inputs
  <2> QED
    BY <2>1, <2>2, <2>3
<1>4. CASE InputChanges
  <2>1. FlagsOK'
    BY <1>4, Zenon
       DEF FlagsOK, InputChanges, SetWeather, StationReports, StationForgotten, SunMoves,
           SetEStop, SetOverride
  <2>2. StoppedOK'
    BY <1>4, Zenon
       DEF StoppedOK, InputChanges, SetWeather, StationReports, StationForgotten, SunMoves,
           SetEStop, SetOverride, monitor
  <2>3. ReadingsOK'
    BY <1>4, SafetyConstants
       DEF ReadingsOK, Class, InputChanges, SetWeather, StationReports, StationForgotten,
           SunMoves, SetEStop, SetOverride, ages
  <2> QED
    BY <2>1, <2>2, <2>3
<1>5. CASE UNCHANGED vars
  <2>1. FlagsOK' /\ StoppedOK'
    BY <1>5, Zenon DEF FlagsOK, StoppedOK, vars
  <2>2. ReadingsOK'
    BY <1>5 DEF ReadingsOK, vars
  <2> QED
    BY <2>1, <2>2
<1> QED
  BY <1>1, <1>2, <1>3, <1>4, <1>5 DEF Next

(* Every variable of the monitor keeps its type, whatever the inputs do:    *)
(* no age, clearing time or level leaves its range.                         *)
THEOREM WellTyped == Spec => []TypeOK
<1>1. Spec => [](FlagsOK /\ StoppedOK /\ ReadingsOK)
  BY InitTypes, StepTypes, PTL DEF Spec
<1>2. IInv /\ FlagsOK /\ StoppedOK /\ ReadingsOK => TypeOK
  <2> SUFFICES ASSUME IInv, FlagsOK, StoppedOK, ReadingsOK PROVE TypeOK
    OBVIOUS
  <2>1. {override, estop, daylight, stopped} \subseteq BOOLEAN
    BY Zenon DEF FlagsOK, StoppedOK
  <2>2. {state, eff, seen} \subseteq Level /\ {pushed, station} \subseteq Class
    BY Zenon DEF IInv, LevelsOK, ReadingsOK
  <2>3. {pushedAge, heard} \subseteq 0 .. StaleAfter + 1
    BY DEF ReadingsOK
  <2> QED
    BY <2>1, <2>2, <2>3, Zenon DEF TypeOK, IInv, TimesOK, PhaseOK
<1> QED
  BY <1>1, <1>2, Invariance, PTL

-----------------------------------------------------------------------------
(* SAFE is published only after a clearing delay without a stop, whatever   *)
(* the weather, the station, the operator and the clock did in between.     *)
THEOREM SafetyIsEarned == Spec => SafeIsEarned
<1>1. IInv /\ [Next]_vars => [state # "safe" /\ state' = "safe" => sinceStop >= ClearDelay]_vars
  <2> SUFFICES ASSUME IInv, Next, state # "safe", state' = "safe"
               PROVE  sinceStop >= ClearDelay
    OBVIOUS
  <2>1. CASE EvaluatePlain
    <3>1. Effective = "safe"
      BY <2>1 DEF EvaluatePlain
    <3>2. OkForNow >= ClearDelay
      BY <3>1, EvaluationYields, SafetyConstants
         DEF Effective, OkForNow, Never, IInv, TimesOK
    <3> QED
      BY <3>1, <3>2, EvaluationYields, Ranks, SafetyConstants
         DEF OkForNow, Never, IInv, TimesOK
  <2>2. ~Publish
    BY Ranks DEF Publish, IInv, PhaseOK
  <2>3. CASE EvaluateProtective \/ ParkMount \/ Tick \/ InputChanges
    BY <2>3
       DEF EvaluateProtective, ParkMount, Tick, InputChanges, SetWeather, StationReports,
           StationForgotten, SunMoves, SetEStop, SetOverride, monitor
  <2> QED
    BY <2>1, <2>2, <2>3 DEF Next, Evaluate
<1> QED
  BY <1>1, Invariance, PTL DEF Spec, SafeIsEarned

-----------------------------------------------------------------------------
(* The monitor implements the gate: its evaluations, protective actions and *)
(* inputs are steps of SafetyGate or none at all.                           *)
THEOREM GateImplemented == Spec => ImplementsGate
<1>1. Init => Gate!GateInit
  BY DEF Init, Gate!GateInit
<1>2. IInv /\ [Next]_vars => [Gate!GateNext]_(Gate!gateVars)
  <2> SUFFICES ASSUME IInv, [Next]_vars, ~(UNCHANGED Gate!gateVars)
               PROVE  Gate!GateNext
    OBVIOUS
  <2>1. CASE EvaluateProtective
    <3>1. Gate!Trip(Effective)
      BY <2>1
         DEF EvaluateProtective, Observe, Protective, inputs, Gate!Trip, Gate!Entering, Stop
    <3> QED
      BY <3>1, EvaluationYields DEF Gate!GateNext, Level
  <2>2. CASE EvaluatePlain
    <3>1. Effective # state
      BY <2>2 DEF EvaluatePlain, Observe, inputs, Gate!gateVars
    <3>2. Gate!Shift(Effective)
      BY <2>2, <3>1
         DEF EvaluatePlain, Observe, Protective, inputs, Gate!Shift, Gate!Entering, Stop
    <3> QED
      BY <3>2, EvaluationYields DEF Gate!GateNext, Level
  <2>3. CASE ParkMount
    BY <2>3 DEF ParkMount, inputs, Gate!ParkOrdered, Gate!GateNext
  <2>4. CASE Publish
    BY <2>4 DEF Publish, inputs, Gate!Settle, Gate!GateNext
  <2>5. CASE \E on \in BOOLEAN : SetOverride(on)
    BY <2>5 DEF SetOverride, monitor, Gate!SetOverride, Gate!GateNext, Gate!gateVars
  <2>6. ASSUME \/ Tick \/ StationForgotten \/ SunMoves \/ UNCHANGED vars
               \/ \E class \in Class \ {"none"} : SetWeather(class) \/ StationReports(class)
               \/ \E on \in BOOLEAN : SetEStop(on)
        PROVE  UNCHANGED Gate!gateVars
    BY <2>6
       DEF Tick, StationForgotten, SunMoves, SetWeather, StationReports, SetEStop, inputs,
           monitor, vars, Gate!gateVars
  <2> QED
    BY <2>1, <2>2, <2>3, <2>4, <2>5, <2>6 DEF Next, Evaluate, InputChanges
<1> QED
  BY <1>1, <1>2, Invariance, PTL DEF Spec, ImplementsGate, Gate!GateSpec

=============================================================================
