------------------------------- MODULE Safety -------------------------------
(***************************************************************************)
(* The weather and safety monitor (crito/agent/safety.py) and what feeds   *)
(* it: readings pushed over HTTP or by the weather API poller, a weather   *)
(* station read from the INDI client's property cache, the emergency stop  *)
(* and the override.  A tick is the monitor's one-second sleep.  Readings  *)
(* are classes (what _evaluate makes of them), ages are ticks, and an age  *)
(* stops counting where no comparison can tell it from an older one.       *)
(***************************************************************************)
EXTENDS Integers

CONSTANTS
    SafetyEnabled,  \* settings.safety_enabled
    StationBound,   \* settings.weather_device is set
    StaleAfter,     \* settings.safety_stale_s
    ClearDelay,     \* settings.safety_clear_delay_s
    Inputs          \* bound: which inputs may change

ASSUME SafetyConstants ==
    /\ SafetyEnabled \in BOOLEAN
    /\ StationBound \in BOOLEAN
    /\ StaleAfter \in Nat
    /\ ClearDelay \in Nat
    /\ Inputs \subseteq {"weather", "station", "sun", "estop", "override"}

VARIABLES
    state,      \* SafetyMonitor.state
    override,   \* SafetyMonitor.override
    estop,      \* SafetyMonitor.estop
    okFor,      \* ticks since _ok_since, or Never when it is None
    eff,        \* the level of the transition under way
    pc,         \* where _run is
    pushed,     \* class of self.weather
    pushedAge,  \* ticks since its updated_at
    station,    \* class of the station's cached properties
    heard,      \* history: ticks since the station really reported
    daylight,   \* Sun above the horizon
    seen,       \* history: what the last evaluation came to
    sinceStop,  \* history: ticks since an evaluation came to UNSAFE or FAULT
    stopped     \* history: aborted and parked since the state was last not a stop

vars == <<state, override, estop, okFor, eff, pc, pushed, pushedAge, station, heard,
          daylight, seen, sinceStop, stopped>>

monitor == <<state, okFor, eff, seen, stopped>>
inputs  == <<override, estop, pushed, station, daylight>>
ages    == <<pushedAge, heard, sinceStop>>

Never == -1
Class == {"none", "ok", "caution", "unsafe"}

(* What SafetyGate promises, with _on_transition as its phases. *)
Gate == INSTANCE SafetyGate WITH
            safety  <- state,
            phase   <- IF pc \in {"sleep", "evaluate"} THEN "watch" ELSE pc,
            pending <- eff

Level    == Gate!Level
Stop     == Gate!Stop
Severity == Gate!Severity

TypeOK ==
    /\ {state, eff, seen} \subseteq Level
    /\ {override, estop, daylight, stopped} \subseteq BOOLEAN
    /\ okFor \in {Never} \cup 0 .. ClearDelay
    /\ pc \in {"evaluate", "sleep", "abort", "notify"}
    /\ {pushed, station} \subseteq Class
    /\ {pushedAge, heard} \subseteq 0 .. StaleAfter + 1
    /\ sinceStop \in 0 .. ClearDelay

Init ==
    /\ state = "unsafe" /\ eff = "unsafe" /\ seen = "unsafe"
    /\ override = FALSE /\ estop = FALSE /\ stopped = FALSE
    /\ okFor = Never
    /\ pc = "evaluate"
    /\ pushed = "none" /\ pushedAge = 0
    /\ station = "none" /\ heard = 0
    /\ daylight \in BOOLEAN
    /\ sinceStop = 0

-----------------------------------------------------------------------------
(***************************************************************************)
(* _evaluate() and _apply_hysteresis().                                    *)
(***************************************************************************)

(* _indi_weather() stamps what is in the cache with the present time; the   *)
(* cache keeps its content when the station or the INDI server goes silent. *)
FromStation == StationBound /\ station # "none"
Reading     == IF FromStation THEN station ELSE pushed
Age         == IF FromStation THEN 0 ELSE pushedAge

BadWeather == Reading \in {"none", "unsafe"} \/ Age > StaleAfter

(* Mutant: the emergency stop is looked at only when the weather is good. *)
RawWeatherFirst ==
    CASE ~SafetyEnabled                       -> "safe"
      [] SafetyEnabled /\ BadWeather          -> "unsafe"
      [] OTHER -> IF estop THEN "fault" ELSE "safe"

Raw ==
    CASE estop                                  -> "fault"
      [] ~estop /\ ~SafetyEnabled               -> "safe"
      [] ~estop /\ SafetyEnabled /\ BadWeather  -> "unsafe"
      [] OTHER -> IF Reading = "caution" \/ daylight THEN "warn" ELSE "safe"

(* Mutant: a stop does not restart the clearing delay. *)
OkForUnreset == IF okFor = Never /\ Raw \notin Stop THEN 0 ELSE okFor

(* Mutant: every good evaluation restarts the clearing delay. *)
OkForRestarted == IF Raw \in Stop THEN Never ELSE 0

OkForNow ==
    IF Raw \in Stop THEN Never ELSE IF okFor = Never THEN 0 ELSE okFor

(* Mutant: the clearing delay holds a stop down to a warning. *)
EffectiveHeld ==
    IF Raw # "warn" /\ state # "safe" /\ OkForNow < ClearDelay THEN "warn" ELSE Raw

(* Mutant: waiting out the delay is a level of its own. *)
EffectiveStabilizing ==
    IF Raw = "safe" /\ state # "safe" /\ OkForNow < ClearDelay THEN "stabilizing" ELSE Raw

(* Stops are taken at once; SAFE only when it is held or has been earned. *)
Effective ==
    IF Raw = "safe" /\ state # "safe" /\ OkForNow < ClearDelay THEN "warn" ELSE Raw

(***************************************************************************)
(* _run() and _on_transition().                                            *)
(***************************************************************************)

(* An evaluation's bookkeeping, whatever comes of it. *)
Observe ==
    /\ pc = "evaluate"
    /\ okFor' = OkForNow
    /\ seen' = Raw
    /\ sinceStop' = IF Raw \in Stop THEN 0 ELSE sinceStop

Protective == Effective \in Stop /\ state \notin Stop

(* Mutant: the state is published before the protective action is over. *)
EvaluateProtectiveEarly ==
    /\ Observe
    /\ Protective /\ ~override
    /\ eff' = Effective
    /\ state' = Effective
    /\ pc' = "abort"
    /\ UNCHANGED <<inputs, pushedAge, heard, stopped>>

(* Into UNSAFE or FAULT: abort the sequence; the awaits come before the     *)
(* state is assigned.                                                       *)
EvaluateProtective ==
    /\ Observe
    /\ Protective /\ ~override
    /\ eff' = Effective
    /\ pc' = "abort"
    /\ UNCHANGED <<state, inputs, pushedAge, heard, stopped>>

(* Every other outcome is at most logged; the monitor sleeps again. *)
EvaluatePlain ==
    /\ Observe
    /\ ~(Protective /\ ~override)
    /\ state' = Effective
    /\ stopped' = (stopped /\ Effective \in Stop)
    /\ pc' = "sleep"
    /\ UNCHANGED <<eff, inputs, pushedAge, heard>>

(* The abort command is on its way; stop tracking and park. *)
ParkMount ==
    /\ pc = "abort"
    /\ pc' = "notify"
    /\ stopped' = TRUE
    /\ UNCHANGED <<state, okFor, eff, seen, inputs, ages>>

(* The mail has been sent, or could not be. *)
Publish ==
    /\ pc = "notify"
    /\ pc' = "sleep"
    /\ state' = eff
    /\ UNCHANGED <<okFor, eff, seen, stopped, inputs, ages>>

Older(age, most) == IF age < most THEN age + 1 ELSE age

(* A second goes by, in the sleep or while an await takes its time. *)
Tick ==
    /\ pc # "evaluate"
    /\ pc' = IF pc = "sleep" THEN "evaluate" ELSE pc
    /\ pushedAge' = Older(pushedAge, StaleAfter + 1)
    /\ heard' = Older(heard, StaleAfter + 1)
    /\ sinceStop' = Older(sinceStop, ClearDelay)
    /\ okFor' = IF okFor = Never THEN Never ELSE Older(okFor, ClearDelay)
    /\ UNCHANGED <<state, eff, seen, stopped, inputs>>

-----------------------------------------------------------------------------
(***************************************************************************)
(* Inputs.                                                                 *)
(***************************************************************************)
SetWeather(class) ==
    /\ "weather" \in Inputs
    /\ pushed' = class
    /\ pushedAge' = 0
    /\ UNCHANGED <<monitor, pc, override, estop, station, daylight, heard, sinceStop>>

StationReports(class) ==
    /\ "station" \in Inputs
    /\ station' = class
    /\ heard' = 0
    /\ UNCHANGED <<monitor, pc, override, estop, pushed, daylight, pushedAge, sinceStop>>

(* connect() clears the cache; the driver may also withdraw its property. *)
StationForgotten ==
    /\ station # "none"
    /\ station' = "none"
    /\ UNCHANGED <<monitor, pc, override, estop, pushed, daylight, ages>>

SunMoves ==
    /\ "sun" \in Inputs
    /\ daylight' = ~daylight
    /\ UNCHANGED <<monitor, pc, override, estop, pushed, station, ages>>

SetEStop(on) ==
    /\ "estop" \in Inputs
    /\ estop' = on
    /\ UNCHANGED <<monitor, pc, override, pushed, station, daylight, ages>>

SetOverride(on) ==
    /\ "override" \in Inputs
    /\ override' = on
    /\ UNCHANGED <<monitor, pc, estop, pushed, station, daylight, ages>>

InputChanges ==
    \/ \E class \in Class \ {"none"} : SetWeather(class) \/ StationReports(class)
    \/ StationForgotten \/ SunMoves
    \/ \E on \in BOOLEAN : SetEStop(on) \/ SetOverride(on)

Evaluate == EvaluateProtective \/ EvaluatePlain

Next == Evaluate \/ ParkMount \/ Publish \/ Tick \/ InputChanges

Spec == Init /\ [][Next]_vars

(* The loop is scheduled, time passes, and the awaits of _on_transition end *)
(* (each has a time-out or a caught exception).  Inputs are free.           *)
Fairness == WF_vars(Evaluate) /\ WF_vars(ParkMount) /\ WF_vars(Publish) /\ WF_vars(Tick)

FairSpec == Spec /\ Fairness

-----------------------------------------------------------------------------
(***************************************************************************)
(* Properties.                                                             *)
(***************************************************************************)

(* Between evaluations the published state is never better than what the    *)
(* last evaluation made of the conditions, whatever hysteresis, override    *)
(* and a slow protective action did on the way.                             *)
NeverBetterThanSeen ==
    pc = "sleep" => Severity[state] >= Severity[seen]

(* SAFE has to be earned: no evaluation within the clearing delay before it *)
(* came to UNSAFE or FAULT.                                                 *)
SafeIsEarned ==
    [][state # "safe" /\ state' = "safe" => sinceStop >= ClearDelay]_vars

(* The monitor implements the gate the sequencer is composed with. *)
ImplementsGate == Gate!GateSpec

(* An emergency stop that is not released ends in FAULT. *)
EStopLatches == estop ~> (state = "fault" \/ ~estop)

(* Once conditions stay good, the state comes back to SAFE and stays there. *)
SafeReturns == <>[](Raw = "safe") => <>[](state = "safe")

(***************************************************************************)
(* What the documentation says and the code does not do.                   *)
(***************************************************************************)

(* app.py: "Emergency stop -- latches FAULT, aborts the sequence and parks  *)
(* the mount."  With no override in play, FAULT comes with abort and park.  *)
EStopStops == state = "fault" => stopped

(* README: "stale or missing data -> UNSAFE".  An evaluation that uses a    *)
(* reading nobody has confirmed for longer than StaleAfter ends in a stop.  *)
StaleIsUnsafe ==
    [][pc = "evaluate" /\ pc' = "sleep"
         /\ (IF FromStation THEN heard ELSE pushedAge) > StaleAfter
            => state' \in Stop]_vars

=============================================================================
