------------------------------- MODULE Mount -------------------------------
(***************************************************************************)
(* The telescope mount as the observatory software sees it through INDI:   *)
(* the commands of IndiMount (crito/dal/indi_adapter.py) and the driver's  *)
(* own progress.  The driver is not part of the repository; its two steps  *)
(* are modelled from what status() and _await_slew expect of it.  Commands *)
(* of one process travel down one TCP stream, so a command takes effect in *)
(* the order in which it is sent.                                          *)
(***************************************************************************)
CONSTANTS
    Targets,    \* sky positions blocks are aimed at (a block's own target)
    Nowhere     \* pointing somewhere that is no block's target

ASSUME NowhereIsNoTarget == Nowhere \notin Targets

VARIABLES
    motion,     \* what the drive is doing
    aim         \* where the tube points, or is on its way to

mountVars == <<motion, aim>>

Motion == {"parked", "parking", "idle", "slewing", "tracking"}

MountTypeOK ==
    /\ motion \in Motion
    /\ aim \in Targets \cup {Nowhere}

MountInit ==
    /\ motion = "parked"
    /\ aim = Nowhere

(* MountStatus.slewing: the coordinate property is Busy. *)
Slewing == motion \in {"slewing", "parking"}

(***************************************************************************)
(* Commands.                                                               *)
(***************************************************************************)

(* slew_to_radec(ra, dec, track=True): a parked mount is unparked first,   *)
(* whoever parked it and why.  The step stands for the moment the          *)
(* coordinates are sent: a command that comes in while the unparking is    *)
(* awaited is one that came in just before.                                *)
SlewTo(target) ==
    /\ motion' = "slewing"
    /\ aim' = target

(* TELESCOPE_ABORT_MOTION: stops whatever move is under way, a park too. *)
AbortMotion ==
    /\ motion' = IF Slewing THEN "idle" ELSE motion
    /\ aim' = IF Slewing THEN Nowhere ELSE aim

(* set_tracking(False); park(True). *)
Park ==
    /\ motion' = IF motion = "parked" THEN "parked" ELSE "parking"
    /\ aim' = Nowhere

(***************************************************************************)
(* The driver.                                                             *)
(***************************************************************************)
Arrive ==
    /\ motion = "slewing"
    /\ motion' = "tracking"
    /\ UNCHANGED aim

ParkComplete ==
    /\ motion = "parking"
    /\ motion' = "parked"
    /\ UNCHANGED aim

=============================================================================
