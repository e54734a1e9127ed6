-------------------------------- MODULE Plans --------------------------------
(***************************************************************************)
(* Saved plans (crito/transient/plans.py), the routes that save, delete    *)
(* and run them, and _plan_scheduler (crito/core/app.py), which fires      *)
(* those whose time has come: run, launch, then clear the schedule, in     *)
(* transactions of their own.  What a plan expands to is in Recipes; the   *)
(* launched set and what a resumed run takes again are in Sequencer.       *)
(***************************************************************************)
EXTENDS Queue

VARIABLES
    plan,       \* saved or not; scheduled_utc: none, still to come, or due; last_block_id
    fired,      \* history: launches by the scheduler since the schedule was saved, the
                \* process started or clearing the schedule failed, up to 2
    spoiled     \* history: what the scheduler holds of the plan was saved over or
                \* deleted since it read it, or could not be run

planVars == <<plan, fired, spoiled>>

PlanInit ==
    /\ plan = [p \in Plans |-> [saved |-> FALSE, when |-> "none", last |-> 0]]
    /\ fired = [p \in Plans |-> 0]
    /\ spoiled = [p \in Plans |-> FALSE]

(* The scheduler has the plan on the list it is working through. *)
Held(p) == p = task[Scheduler].of \/ p \in task[Scheduler].todo

-----------------------------------------------------------------------------
SavePlan(p, when) ==
    /\ plan' = [plan EXCEPT ![p] = [@ EXCEPT !.saved = TRUE, !.when = when]]
    /\ fired' = [fired EXCEPT ![p] = 0]
    /\ spoiled' = [spoiled EXCEPT ![p] = Held(p)]
    /\ UNCHANGED queueVars

DeletePlan(p) ==
    /\ plan[p].saved
    /\ plan' = [plan EXCEPT ![p] = [saved |-> FALSE, when |-> "none", last |-> 0]]
    /\ spoiled' = [spoiled EXCEPT ![p] = Held(p)]
    /\ UNCHANGED <<queueVars, fired>>

ComesDue(p) ==
    /\ plan[p].when = "later"
    /\ plan' = [plan EXCEPT ![p].when = "due"]
    /\ UNCHANGED <<queueVars, fired, spoiled>>

-----------------------------------------------------------------------------
(* run_plan(): a fresh run unless the last block can be resumed.  The      *)
(* resumed block's state is read here and written in ResumeCommit.         *)
RunPlan(t, p) ==
    /\ At(t, "idle")
    /\ plan[p].saved
    /\ Room
    /\ Become(t, [Idle EXCEPT !.pc = "number", !.of = p, !.after = Existing])
    /\ UNCHANGED <<block, reordered, planVars>>

(* A block that is still queued is resumed by writing nothing. *)
Resumable(p) == plan[p].last # 0 /\ block[plan[p].last].state \in {"running", "paused", "failed", "aborted"}

ResumePlan(t, p) ==
    /\ At(t, "idle")
    /\ plan[p].saved
    /\ Resumable(p)
    /\ Become(t, [Idle EXCEPT !.pc = "resume", !.of = p, !.blk = plan[p].last])
    /\ UNCHANGED <<block, reordered, planVars>>

ResumeCommit(t) ==
    /\ At(t, "resume")
    /\ block' = [block EXCEPT ![task[t].blk].state = "queued"]
    /\ Done(t)
    /\ UNCHANGED <<reordered, planVars>>

(* The fresh run's commit and the launch after it.  A plan deleted since   *)
(* it was read fails the commit (its row is updated too).                  *)
InsertRun(r) ==
    /\ At(r, "insert")
    /\ task[r].of \in Plans
    /\ LET p == task[r].of IN
          \/ /\ plan[p].saved
             /\ \E b \in Blocks :
                   /\ NewBlock(r, b)
                   /\ plan' = [plan EXCEPT ![p].last = b]
             /\ fired' = IF r = Scheduler THEN [fired EXCEPT ![p] = IF @ < 2 THEN @ + 1 ELSE @]
                                          ELSE fired
          \/ /\ ~plan[p].saved
             /\ UNCHANGED <<block, plan, fired>>
    /\ IF r = Scheduler THEN Become(r, [task[r] EXCEPT !.pc = "clear"]) ELSE Done(r)
    /\ UNCHANGED <<reordered, spoiled>>

-----------------------------------------------------------------------------
(* The scheduler: due_plans() is a list, worked through plan by plan. *)
Due == {p \in Plans : plan[p].when = "due"}

Wake ==
    /\ At(Scheduler, "idle")
    /\ Due # {}
    /\ Become(Scheduler, [Idle EXCEPT !.pc = "next", !.todo = Due])
    /\ UNCHANGED <<block, reordered, planVars>>

(* run_plan of the next plan on the list; a deleted one raises KeyError. *)
Fire ==
    /\ At(Scheduler, "next")
    /\ Room
    /\ \E p \in task[Scheduler].todo :
          Become(Scheduler, [task[Scheduler] EXCEPT !.of = p, !.todo = @ \ {p}, !.after = Existing,
                                !.pc = IF plan[p].saved THEN "number" ELSE "clear"])
    /\ UNCHANGED <<block, reordered, planVars>>

(* A plan whose recipe cannot be expanded is not tried again. *)
RunFails(r) ==
    /\ At(r, "insert")
    /\ task[r].of \in Plans
    /\ IF r = Scheduler
       THEN /\ Become(r, [task[r] EXCEPT !.pc = "clear"])
            /\ spoiled' = [spoiled EXCEPT ![task[r].of] = TRUE]
       ELSE Done(r) /\ UNCHANGED spoiled
    /\ UNCHANGED <<block, reordered, plan, fired>>

(* Mutant: the schedule is cleared, and the plan run afterwards. *)
ClearFirst ==
    /\ task[Scheduler].pc \in {"number", "clear"}
    /\ plan' = [plan EXCEPT ![task[Scheduler].of].when = "none"]
    /\ IF At(Scheduler, "clear")
       THEN Become(Scheduler, [Idle EXCEPT !.pc = IF task[Scheduler].todo = {} THEN "idle" ELSE "next",
                                           !.todo = task[Scheduler].todo])
       ELSE UNCHANGED task
    /\ UNCHANGED <<block, reordered, fired, spoiled>>

(* Mutant: the schedule stays. *)
ClearNothing ==
    /\ At(Scheduler, "clear")
    /\ Become(Scheduler, [Idle EXCEPT !.pc = IF task[Scheduler].todo = {} THEN "idle" ELSE "next",
                                      !.todo = task[Scheduler].todo])
    /\ UNCHANGED <<block, reordered, planVars>>

(* clear_schedule() clears whatever schedule the row has by now. *)
Clear ==
    /\ At(Scheduler, "clear")
    /\ plan' = [plan EXCEPT ![task[Scheduler].of].when = "none"]
    /\ Become(Scheduler, [Idle EXCEPT !.pc = IF task[Scheduler].todo = {} THEN "idle" ELSE "next",
                                      !.todo = task[Scheduler].todo])
    /\ UNCHANGED <<block, reordered, fired, spoiled>>

(* It raises, after the plan was run and again where that is handled: the   *)
(* plan stays due, and so does the rest of the list.                        *)
ClearFails ==
    /\ At(Scheduler, "clear")
    /\ fired' = [fired EXCEPT ![task[Scheduler].of] = 0]
    /\ Done(Scheduler)
    /\ UNCHANGED <<block, reordered, plan, spoiled>>

PlanStep(r) == InsertRun(r) \/ RunFails(r) \/ (r \in Tasks /\ ResumeCommit(r))

PlanRequest(t) == \E p \in Plans : RunPlan(t, p) \/ ResumePlan(t, p)

SchedulerStep ==
    \/ Wake \/ Fire \/ Clear \/ ClearFails
    \/ ReadSeq(Scheduler) /\ UNCHANGED planVars
    \/ PlanStep(Scheduler)

=============================================================================
