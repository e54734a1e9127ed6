------------------------------ MODULE MCLoops ------------------------------
(***************************************************************************)
(* Small instance of the two loops that follow the clock, Safety's monitor *)
(* and the scheduler of Console, here without candidates.  They share no   *)
(* state: the bound "loop" has one of them move in a behaviour.            *)
(***************************************************************************)
EXTENDS MCSafety

CONSTANTS Cands, Plans, Tasks, Scheduler, MaxBlocks, None

VARIABLES block, task, reordered, cand, audit, announced, lost, stale, tangled,
          plan, fired, spoiled, loop

C == INSTANCE Console

consoleVars == <<block, task, reordered, cand, audit, announced, lost, stale, tangled,
                 plan, fired, spoiled>>

MCvars == <<vars, consoleVars, loop>>

MCInit ==
    /\ loop \in {"monitor", "scheduler"}
    /\ Init /\ C!Init
    /\ loop = "scheduler" => daylight

Monitor   == loop = "monitor" /\ UNCHANGED <<consoleVars, loop>>

(* The queue is worked through as far as its first block, so that there is *)
(* something to resume; to the scheduler the rest does not matter.         *)
Schedules ==
    /\ loop = "scheduler"
    /\ \A b \in C!Blocks \ {1} : block'[b].state \in {"none", "queued"}
    /\ UNCHANGED <<vars, reordered, loop>>

MCNext ==
    \/ Monitor /\ Next
    \/ C!Next /\ Schedules

MCSpec == MCInit /\ [][MCNext]_MCvars

MCFairSpec ==
    /\ MCSpec
    /\ WF_MCvars(Monitor /\ Evaluate) /\ WF_MCvars(Monitor /\ ParkMount)
    /\ WF_MCvars(Monitor /\ Publish) /\ WF_MCvars(Monitor /\ Tick)
    /\ \A t \in Tasks : WF_MCvars(C!TaskStep(t) /\ Schedules)
    /\ WF_MCvars(C!SchedStep /\ Schedules)

(* While conditions stay good the state comes back to SAFE; asked of the   *)
(* monitor's behaviours.                                                   *)
SafeComesBack == loop = "monitor" => SafeReturns

(* A process that does not keep crashing, nor failing to clear schedules,  *)
(* leaves no due plan due (or the bound on blocks leaves the scheduler no  *)
(* room beside the handlers).                                              *)
DuePlansRun == C!DuePlansRun
=============================================================================
