---------------------------- MODULE SafetyGate -----------------------------
(***************************************************************************)
(* What the rest of the observatory relies on of the safety monitor: a     *)
(* published state that gates dispatch, and protective action on the way   *)
(* into UNSAFE or FAULT.  The protective action is a sequence of awaits    *)
(* (abort the sequence, park, send mail), and the state is published only  *)
(* after the last of them, so the steps are separate here.  Weather,       *)
(* staleness and hysteresis are abstracted to "the evaluation yields some  *)
(* level"; module Safety models them and implements this one.              *)
(***************************************************************************)
CONSTANT
    SafetyEnabled       \* settings.safety_enabled

ASSUME SafetyEnabledIsFlag == SafetyEnabled \in BOOLEAN

VARIABLES
    safety,     \* SafetyMonitor.state
    override,   \* SafetyMonitor.override
    phase,      \* where _run is: between evaluations, or inside _on_transition
    pending     \* the level _on_transition was called with

gateVars == <<safety, override, phase, pending>>

Level == {"safe", "warn", "unsafe", "fault"}
Stop  == {"unsafe", "fault"}

Severity == [l \in Level |-> CASE l = "safe" -> 0 [] l = "warn" -> 1
                               [] l = "unsafe" -> 2 [] l = "fault" -> 3]

GateTypeOK ==
    /\ safety \in Level
    /\ override \in BOOLEAN
    /\ phase \in {"watch",    \* next: Shift or Trip
                  "abort",    \* after Trip; next: ParkOrdered
                  "notify"}   \* after ParkOrdered; next: Settle
    /\ pending \in Level

GateInit ==
    /\ safety = "unsafe"
    /\ override = FALSE
    /\ phase = "watch"
    /\ pending = "unsafe"

(* _on_transition acts only on the edge into {unsafe, fault}. *)
Entering(level) == level \in Stop /\ safety \notin Stop

(* The evaluation asks for protective action: the abort is issued. *)
Trip(level) ==
    /\ phase = "watch"
    /\ Entering(level)
    /\ ~override
    /\ phase' = "abort"
    /\ pending' = level
    /\ UNCHANGED <<safety, override>>

(* The park command is on its way; mail is next. *)
ParkOrdered ==
    /\ phase = "abort"
    /\ phase' = "notify"
    /\ UNCHANGED <<safety, override, pending>>

(* _on_transition has returned: the new state is published at last. *)
Settle ==
    /\ phase = "notify"
    /\ phase' = "watch"
    /\ safety' = pending
    /\ UNCHANGED <<override, pending>>

(* Any other change of level is published at once. *)
Shift(level) ==
    /\ phase = "watch"
    /\ level # safety
    /\ ~(Entering(level) /\ ~override)
    /\ safety' = level
    /\ UNCHANGED <<override, phase, pending>>

SetOverride(on) ==
    /\ override # on
    /\ override' = on
    /\ UNCHANGED <<safety, phase, pending>>

GateNext ==
    \/ \E level \in Level : Trip(level) \/ Shift(level)
    \/ ParkOrdered
    \/ Settle
    \/ \E on \in BOOLEAN : SetOverride(on)

GateSpec == GateInit /\ [][GateNext]_gateVars

(* ok_to_dispatch *)
OkToDispatch(mode) ==
    \/ override
    \/ ~SafetyEnabled
    \/ IF mode = "auto" THEN safety = "safe" ELSE safety \notin Stop

=============================================================================
