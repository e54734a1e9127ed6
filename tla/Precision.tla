------------------------------ MODULE Precision ------------------------------
(***************************************************************************)
(* Plate-solve centring and autofocus (PrecisionOps in                     *)
(* crito/agent/precision.py), asked for by the sequencer's steps and by    *)
(* the console, one at a time behind an asyncio.Lock.  The mount and the   *)
(* focuser are not behind that lock: the operator's own commands, aborts   *)
(* and slow motions come between any two awaits.                           *)
(***************************************************************************)
EXTENDS Integers, Sequences, FiniteSets

CONSTANTS
    Callers,    \* tasks that ask for an operation; each has a target of its own
    MaxIter,    \* settings.center_max_iter
    Points,     \* settings.af_steps; the step size is 1
    Backlash,   \* settings.af_backlash
    MaxFocus    \* bound: the largest focuser position an operation starts from

ASSUME PrecisionConstants ==
    /\ Callers \subseteq Nat \ {0}
    /\ {MaxIter, Points, Backlash, MaxFocus} \subseteq Nat
    /\ MaxIter > 0 /\ Points > 0

VARIABLES
    line,       \* the lock: its holder, then the tasks that wait for it
    op,         \* the operation each caller is in
    centering, focusing,    \* the progress shown: idle, running, ok or failed
    pointing,   \* the caller whose target the mount points at, 0 for none
    focus,      \* the focuser: where it is, and where it is told to go
    nudged,     \* history: someone else has moved the mount since the last frame
    disturbed,  \* history: the focuser was moved by someone else, did not arrive in
                \* time, or was asked for a position below zero
    misread     \* history: a sample was taken away from the position it is listed at

preVars == <<line, op, centering, focusing, pointing, focus, nudged, disturbed, misread>>

Results   == {"idle", "running", "ok", "failed"}
Nothing   == [pc |-> "idle", what |-> "center", iter |-> 0, frame |-> 0, start |-> 0,
              todo |-> <<>>, starry |-> {}, goal |-> 0]
Holds(c)  == line # <<>> /\ Head(line) = c
AtPc(c, pc) == op[c].pc = pc

PrecisionInit ==
    /\ line = <<>>
    /\ op = [c \in Callers |-> Nothing]
    /\ centering = "idle"
    /\ focusing = "idle"
    /\ pointing = 0
    /\ \E p \in 0 .. MaxFocus : focus = [at |-> p, to |-> p]
    /\ nudged = FALSE
    /\ disturbed = FALSE
    /\ misread = FALSE

-----------------------------------------------------------------------------
(* The routes' busy() is read before the task they start takes the lock:   *)
(* it keeps nobody out of the line.                                        *)
Ask(c, what) ==
    /\ AtPc(c, "idle")
    /\ op' = [op EXCEPT ![c] = [Nothing EXCEPT !.pc = "locking", !.what = what]]
    /\ line' = Append(line, c)
    /\ UNCHANGED <<centering, focusing, pointing, focus, nudged, disturbed, misread>>

(* Mutant: nobody waits for the lock. *)
HasLockAnyway(c) == AtPc(c, "locking")

HasLock(c) == AtPc(c, "locking") /\ Holds(c)

(* The holder returns, and the next in line gets the lock. *)
Leaves(c) ==
    /\ op' = [op EXCEPT ![c] = Nothing]
    /\ line' = Tail(line)

Show(what, result) ==
    /\ centering' = IF what = "center" THEN result ELSE centering
    /\ focusing' = IF what = "center" THEN focusing ELSE result

(* Mutant: an early return that leaves the lock taken. *)
RefuseLocked(c) ==
    /\ HasLock(c)
    /\ op' = [op EXCEPT ![c] = Nothing]
    /\ Show(op[c].what, "failed")
    /\ UNCHANGED <<line, pointing, focus, nudged, disturbed, misread>>

(* Adapters are missing, or the focuser's position is unknown. *)
Refuse(c) ==
    /\ HasLock(c)
    /\ Leaves(c)
    /\ Show(op[c].what, "failed")
    /\ UNCHANGED <<pointing, focus, nudged, disturbed, misread>>

(* A capture that times out, a solver that does, or an adapter that is gone *)
(* at any await: the lock is released, the progress shown is not changed.  *)
Raise(c) ==
    /\ op[c].pc \notin {"idle", "locking"}
    /\ Leaves(c)
    /\ UNCHANGED <<centering, focusing, pointing, focus, nudged, disturbed, misread>>

-----------------------------------------------------------------------------
(***************************************************************************)
(* run_center.                                                             *)
(***************************************************************************)
StartCenter(c) ==
    /\ HasLock(c) /\ op[c].what = "center"
    /\ Show("center", "running")
    /\ op' = [op EXCEPT ![c].pc = "frame"]
    /\ UNCHANGED <<line, pointing, focus, nudged, disturbed, misread>>

Frame(c) ==
    /\ AtPc(c, "frame")
    /\ op' = [op EXCEPT ![c].pc = "solve", ![c].iter = @ + 1, ![c].frame = pointing]
    /\ nudged' = FALSE
    /\ UNCHANGED <<line, centering, focusing, pointing, focus, disturbed, misread>>

(* Mutant: one iteration too many. *)
NextIterOver(c, pc) ==
    IF op[c].iter <= MaxIter
    THEN op' = [op EXCEPT ![c].pc = pc] /\ UNCHANGED <<line, centering, focusing>>
    ELSE Leaves(c) /\ Show("center", "failed")

NextIter(c, pc) ==
    IF op[c].iter < MaxIter
    THEN op' = [op EXCEPT ![c].pc = pc] /\ UNCHANGED <<line, centering, focusing>>
    ELSE Leaves(c) /\ Show("center", "failed")

(* Mutant: a solution is within tolerance whatever it says. *)
OnAnyTarget(c) == TRUE

OnTarget(c) == op[c].frame = c

Centered(c) ==
    /\ AtPc(c, "solve")
    /\ OnTarget(c)
    /\ Leaves(c)
    /\ Show("center", "ok")
    /\ UNCHANGED <<pointing, focus, nudged, disturbed, misread>>

NoSolution(c) ==
    /\ AtPc(c, "solve")
    /\ NextIter(c, "frame")
    /\ UNCHANGED <<pointing, focus, nudged, disturbed, misread>>

(* Off by more than the tolerance: sync, and slew to the target again. *)
Correct(c) ==
    /\ AtPc(c, "solve")
    /\ ~OnTarget(c)
    /\ op' = [op EXCEPT ![c].pc = "slew"]
    /\ UNCHANGED <<line, centering, focusing, pointing, focus, nudged, disturbed, misread>>

(* _await_slew: arrived, short of it, or out of time. *)
Slewed(c) ==
    /\ AtPc(c, "slew")
    /\ pointing' \in {0, c}
    /\ NextIter(c, "frame")
    /\ UNCHANGED <<focus, nudged, disturbed, misread>>

-----------------------------------------------------------------------------
(***************************************************************************)
(* run_autofocus: the positions still to go to, from below.                *)
(***************************************************************************)
StartFocus(c) ==
    /\ HasLock(c) /\ op[c].what = "focus"
    /\ focus.at <= MaxFocus
    /\ Show("focus", "running")
    /\ LET lo == focus.at - (Points - 1) \div 2 IN
          op' = [op EXCEPT ![c].pc = "sweep", ![c].start = focus.at,
                           ![c].todo = <<lo - Backlash>> \o [k \in 1 .. Points |-> lo + k - 1]]
    /\ disturbed' = FALSE
    /\ misread' = FALSE
    /\ UNCHANGED <<line, pointing, focus, nudged>>

(* _move_focuser: the command, and a wait that ends when the focuser does  *)
(* not say it moves, or after a minute: it need not have arrived.          *)
Moves(c, pos) ==
    LET to == IF pos < 0 THEN 0 ELSE pos IN
    \/ focus' = [at |-> to, to |-> to] /\ disturbed' = (disturbed \/ pos < 0)
    \/ focus' = [focus EXCEPT !.to = to] /\ disturbed' = TRUE

(* On the way, and at the samples; the first move is for the backlash only. *)
Approach(c) ==
    /\ op[c].pc \in {"sweep", "settle"}
    /\ op[c].todo # <<>>
    /\ Moves(c, Head(op[c].todo))
    /\ op' = IF AtPc(c, "sweep") /\ Len(op[c].todo) <= Points
             THEN [op EXCEPT ![c].pc = "sample"]
             ELSE [op EXCEPT ![c].todo = Tail(@)]
    /\ UNCHANGED <<line, centering, focusing, pointing, nudged, misread>>

(* A frame, its stars measured, and listed at the position asked for. *)
Sample(c) ==
    /\ AtPc(c, "sample")
    /\ misread' = (misread \/ focus.at # Head(op[c].todo))
    /\ \E stars \in BOOLEAN :
          op' = [op EXCEPT ![c].pc = "sweep", ![c].todo = Tail(@),
                           ![c].starry = IF stars THEN @ \cup {Head(op[c].todo)} ELSE @]
    /\ UNCHANGED <<line, centering, focusing, pointing, focus, nudged, disturbed>>

(* The minimum of the parabola lies between the samples it was fitted to;  *)
(* without a fit the best sample is taken.                                 *)
Candidates(S) ==
    IF Cardinality(S) < 3 THEN S
    ELSE {p \in 0 .. MaxFocus + Points : \E a, b \in S : a <= p /\ p <= b} \cup S

FromBelow(p) == <<p - Backlash, p>>

Swept(c) ==
    /\ AtPc(c, "sweep") /\ op[c].todo = <<>>
    /\ \E p \in IF op[c].starry = {} THEN {op[c].start} ELSE Candidates(op[c].starry) :
          op' = [op EXCEPT ![c].pc = "settle", ![c].todo = FromBelow(p), ![c].goal = p]
    /\ Show("focus", IF op[c].starry = {} THEN "failed" ELSE focusing)
    /\ UNCHANGED <<line, pointing, focus, nudged, disturbed, misread>>

Focused(c) ==
    /\ AtPc(c, "settle") /\ op[c].todo = <<>>
    /\ Leaves(c)
    /\ Show("focus", IF op[c].starry = {} THEN focusing ELSE "ok")
    /\ UNCHANGED <<pointing, focus, nudged, disturbed, misread>>

-----------------------------------------------------------------------------
(* The operator's own commands and aborts, and a focuser that arrives late. *)
MountMoved ==
    /\ pointing' \in {0} \cup Callers
    /\ nudged' = TRUE
    /\ UNCHANGED <<line, op, centering, focusing, focus, disturbed, misread>>

FocuserMoved ==
    /\ \/ \E p \in 0 .. MaxFocus : focus' = [at |-> p, to |-> p]
       \/ focus' = [focus EXCEPT !.at = focus.to] /\ focus.at # focus.to
    /\ disturbed' = TRUE
    /\ UNCHANGED <<line, op, centering, focusing, pointing, nudged, misread>>

OpStep(c) ==
    \/ Refuse(c) \/ StartCenter(c) \/ Frame(c) \/ Centered(c) \/ NoSolution(c) \/ Correct(c)
    \/ Slewed(c) \/ StartFocus(c) \/ Approach(c) \/ Sample(c) \/ Swept(c) \/ Focused(c)

PrecisionNext ==
    \/ \E c \in Callers : OpStep(c) \/ Raise(c) \/ Ask(c, "center") \/ Ask(c, "focus")
    \/ MountMoved \/ FocuserMoved

PrecisionSpec == PrecisionInit /\ [][PrecisionNext]_preVars

PrecisionFairSpec == PrecisionSpec /\ \A c \in Callers : WF_preVars(OpStep(c))

-----------------------------------------------------------------------------
PrecisionTypeOK ==
    /\ line \in Seq(Callers)
    /\ op \in [Callers -> [pc : {"idle", "locking", "frame", "solve", "slew", "sweep", "sample", "settle"},
                           what : {"center", "focus"}, iter : 0 .. MaxIter,
                           frame : Callers \cup {0}, start : 0 .. MaxFocus,
                           todo : Seq(Int), starry : SUBSET Int, goal : Int]]
    /\ centering \in Results /\ focusing \in Results
    /\ pointing \in Callers \cup {0}
    /\ focus \in [at : Nat, to : Nat]
    /\ nudged \in BOOLEAN /\ disturbed \in BOOLEAN /\ misread \in BOOLEAN

(* "Centred" is shown only with the mount on the target it was asked for,  *)
(* however many operations are asked for at once, unless someone else has  *)
(* moved the mount since the frame was taken.                              *)
CenterHolds == [][\A c \in Callers : Centered(c) => pointing = c \/ nudged]_preVars

(* A sweep measures each sample where it says, unless the focuser was      *)
(* moved, was late, or was asked for a position below zero (the adapter    *)
(* gets zero then, and the sample is listed below it).                     *)
SweepReadsTrue == misread => disturbed

(* At its end an autofocus leaves the focuser at the best position, or     *)
(* where it found it, with the same provisos.                              *)
FocuserLands == [][\A c \in Callers : Focused(c) => focus.at = op[c].goal \/ disturbed]_preVars

(* What either operation reports at its end is true of the devices. *)
ResultsHold == CenterHolds /\ FocuserLands

(* An operation that was asked for gets the lock and ends. *)
OpsEnd == \A c \in Callers : ~AtPc(c, "idle") ~> AtPc(c, "idle")

=============================================================================
