------------------------------- MODULE Console -------------------------------
(***************************************************************************)
(* Candidates and plans over the one queue they fill: every handler that   *)
(* changes those tables, with the scheduler and process crashes between    *)
(* any two awaits.  The database survives a crash, handlers do not.        *)
(***************************************************************************)
EXTENDS Candidates, Plans

vars == <<queueVars, candVars, planVars>>

TypeOK ==
    /\ block \in [Blocks -> BlockRows]
    /\ task \in [Runners -> [pc : {"idle", "ingest", "notify", "announce", "mark", "decide",
                                   "number", "insert", "store", "reject", "reset", "cancel",
                                   "resume", "next", "clear"},
                             of : Owners \cup {None},
                             was : {"none"} \cup Open \cup Decided, blk : 0 .. MaxBlocks,
                             seq : 0 .. MaxBlocks, after : SUBSET Blocks,
                             todo : SUBSET Owners, act : Actions]]
    /\ reordered \in BOOLEAN
    /\ cand \in [Cands -> [state : {"none"} \cup Open \cup Decided, request : 0 .. MaxBlocks]]
    /\ audit \in [Cands -> {"none", "reset"} \cup Decided]
    /\ announced \in [Cands -> 0 .. 2]
    /\ lost \in [Cands -> BOOLEAN]
    /\ stale \in [Cands -> BOOLEAN]
    /\ tangled \in [Cands -> BOOLEAN]
    /\ plan \in [Plans -> [saved : BOOLEAN, when : {"none", "later", "due"},
                           last : 0 .. MaxBlocks]]
    /\ fired \in [Plans -> 0 .. 2]
    /\ spoiled \in [Plans -> BOOLEAN]

Init == QueueInit /\ CandInit /\ PlanInit

Crash ==
    /\ \E r \in Runners : ~At(r, "idle")
    /\ task' = [r \in Runners |-> Idle]
    /\ lost' = [c \in Cands |-> lost[c] \/ Building(c)]
    /\ tangled' = [c \in Cands |-> tangled[c] \/ InHand(c) # {}]
    /\ fired' = [p \in Plans |-> 0]
    /\ spoiled' = [p \in Plans |-> FALSE]
    /\ UNCHANGED <<block, reordered, cand, audit, announced, stale, plan>>

TaskStep(t) ==
    \/ CandStep(t) /\ UNCHANGED planVars
    \/ PlanStep(t) /\ UNCHANGED candVars
    \/ ReadSeq(t) /\ UNCHANGED <<candVars, planVars>>

SchedStep == SchedulerStep /\ UNCHANGED candVars

Next ==
    \/ \E t \in Tasks :
          \/ TaskStep(t)
          \/ CandRequest(t) /\ UNCHANGED planVars
          \/ PlanRequest(t) /\ UNCHANGED candVars
    \/ SchedStep
    \/ \E p \in Plans :
          /\ \/ \E when \in {"none", "later"} : SavePlan(p, when)
             \/ DeletePlan(p)
             \/ ComesDue(p)
          /\ UNCHANGED candVars
    \/ (Reorder \/ \E b \in Blocks : Dispatch(b) \/ Finish(b)) /\ UNCHANGED <<candVars, planVars>>
    \/ Crash

Spec == Init /\ [][Next]_vars

(* Awaits return and the event loop takes every coroutine on. *)
Fairness ==
    /\ \A t \in Tasks : WF_vars(TaskStep(t))
    /\ WF_vars(SchedStep)

FairSpec == Spec /\ Fairness

-----------------------------------------------------------------------------
(* An approved candidate whose approval is over has its request on record, *)
(* unless the build failed or died with the process, or a reset that had   *)
(* found the candidate open took it: whatever other resets, removals and   *)
(* second approvals ran beside it.                                         *)
ApprovedHasRequest ==
    \A c \in Cands : cand[c].state \in Approved /\ cand[c].request = 0
                        => lost[c] \/ Building(c) \/ stale[c]

(* A request id on a candidate is of a request for that candidate. *)
RequestIsOwn ==
    \A c \in Cands : cand[c].request # 0 => block[cand[c].request].owner = c

(* A decision that stands is the last one audited: the trail names who     *)
(* made it, however decisions from console, Slack and e-mail race; only a  *)
(* handler that found nothing to change, and by then was wrong about it,   *)
(* can leave its entry behind the decision.                                *)
AuditAgrees ==
    \A c \in Cands : cand[c].state \in Decided => audit[c] = cand[c].state \/ stale[c]

(* Overlapping polls do not ping the supervisor twice about a candidate. *)
AnnouncedOnce == \A c \in Cands : announced[c] <= 1

(* Whatever crashes, deletions and edits come between its steps, the       *)
(* scheduler fires no plan early, nor twice while the process lives and    *)
(* can clear what it has served, and clears no schedule it has not served, *)
(* unless the plan was saved or deleted under its hands or cannot be run.  *)
ScheduleServed ==
    [][\A p \in Plans :
          /\ fired'[p] <= 1
          /\ fired'[p] > fired[p] => plan[p].when = "due" \/ spoiled[p]
          /\ plan[p].when # "none" /\ plan'[p].when = "none" /\ plan'[p].saved
                => SavePlan(p, "none") \/ fired[p] > 0 \/ spoiled[p]]_vars

(* A process that does not keep crashing, nor failing to clear schedules,  *)
(* leaves no due plan due (or the bound on blocks leaves the scheduler no  *)
(* room beside the handlers).                                              *)
DuePlansRun ==
    \/ []<><<Crash \/ ClearFails>>_vars
    \/ \A p \in Plans : plan[p].when = "due" ~>
            plan[p].when # "due" \/ Cardinality(Blocks \ Existing) <= Cardinality(Tasks)

(* The state of a block changes as the sequencer relies on: the services    *)
(* queue it, or abort it, and leave the rest to the sequencer.              *)
RowsAsAgreed == L!LifeSpec

(* A decision stands until somebody asks for it to be reopened, by a reset *)
(* or by removing its block, however polls and notifications run beside    *)
(* it. Only a handler that had the candidate in hand already can undo it.  *)
DecisionsStand ==
    [][\A c \in Cands : cand[c].state \in Decided /\ cand'[c].state \in Open /\ ~tangled[c]
          => \E t \in Tasks : ResetCommit(t) \/ CancelCommit(t)]_vars

(* A candidate waits in the queue once: approving it again after a reset   *)
(* or a removal does not leave two blocks for it, unless handlers          *)
(* overlapped or died over it.                                             *)
OneWaiting ==
    \A c \in Cands : tangled[c] \/ Cardinality({b \in BlocksOf(c) : block[b].state \in Waiting}) <= 1

=============================================================================
